------------------------- MODULE ProtothreadsProofs -------------------------
(***************************************************************************)
(* Proofs about the kernel with protothreads, for any number of processes, *)
(* any size of the queue and calls that nest to any depth: the types, that *)
(* the CPU sleeps over nothing, and what holds of calls and exits.         *)
(***************************************************************************)
EXTENDS Protothreads, SequenceTheorems, FiniteSetTheorems, TLAPS

LEMMA Constants ==
  /\ ETimer \in Proc /\ Radio \in Proc /\ ETimer # Radio /\ Process \subseteq Proc
  /\ ETimer \notin Process /\ Radio \notin Process
  /\ NULL \notin Proc /\ START \notin Proc /\ ALL \notin Proc
  /\ NumEvents \in Nat /\ NumEvents > 0 /\ Clock \in Nat /\ Clock > 0
  /\ MaxDelay \in Nat /\ MaxDelay < Clock /\ MaxOdd \in Nat
  /\ MaxLate \in Nat /\ Correction \in Nat
<1>1. /\ ETimer \in Proc /\ Radio \in Proc /\ ETimer # Radio /\ Process \subseteq Proc
      /\ ETimer \notin Process /\ Radio \notin Process
      /\ NULL \notin Proc /\ START \notin Proc /\ ALL \notin Proc
  BY ProtoAssumption DEF Proc
<1>2. MaxDelay \in Nat /\ MaxLag \in Nat /\ Clock \in Nat /\ Clock > 2 * (MaxDelay + MaxLag)
  BY ProtoAssumption
<1>3. Clock > 0 /\ MaxDelay < Clock
  BY <1>2
<1>4. NumEvents \in Nat /\ NumEvents # 0 /\ MaxOdd \in Nat
      /\ MaxLate \in Nat /\ Correction \in Nat
  BY ProtoAssumption
<1> QED
  BY <1>1, <1>2, <1>3, <1>4

LEMMA FrameType ==
  ASSUME NEW f \in Points, NEW p \in Proc \cup {START}, NEW q \in Proc \cup {NULL},
         NEW ev \in Told, f = "exit" => q \in Process,
         f \in {"call", "run", "return", "restart"} => p \in Proc
  PROVE  /\ Frame(f, p, q, ev) \in Frames
         /\ Frame(f, p, q, ev).f = f /\ Frame(f, p, q, ev).p = p
         /\ Frame(f, p, q, ev).q = q
BY DEF Frame, Frames

LEMMA FrameTypes ==
  /\ {"poll", "cast", "call", "run", "return", "restart", "exit"} \subseteq Points
  /\ {"", "init", "poll", "exited", "radio", "timer", "message"} \subseteq Told
BY DEF Points, Told

(* The innermost call gives way to the calls fs.                           *)
LEMMA Replaced ==
  ASSUME NEW s \in Seq(Frames), s # <<>>, NEW fs \in Seq(Frames)
  PROVE  /\ fs \o Tail(s) \in Seq(Frames)
         /\ Len(fs \o Tail(s)) = Len(fs) + Len(s) - 1
         /\ \A i \in 1..Len(fs) : (fs \o Tail(s))[i] = fs[i]
         /\ \A i \in 2..Len(s) : (fs \o Tail(s))[i + Len(fs) - 1] = s[i]
<1>1. /\ Tail(s) \in Seq(Frames) /\ Len(Tail(s)) = Len(s) - 1 /\ Len(s) \in Nat \ {0}
      /\ \A i \in 1..(Len(s) - 1) : Tail(s)[i] = s[i + 1]
  BY HeadTailProperties, EmptySeq
<1>2. Len(fs) \in Nat
  BY LenProperties
<1>3. /\ fs \o Tail(s) \in Seq(Frames)
      /\ Len(fs \o Tail(s)) = Len(fs) + Len(Tail(s))
      /\ \A i \in 1..(Len(fs) + Len(Tail(s))) :
           (fs \o Tail(s))[i] = IF i <= Len(fs) THEN fs[i] ELSE Tail(s)[i - Len(fs)]
  BY <1>1, ConcatProperties
<1>4. \A i \in 2..Len(s) : (fs \o Tail(s))[i + Len(fs) - 1] = Tail(s)[i - 1]
  BY <1>1, <1>2, <1>3
<1> QED
  BY <1>1, <1>2, <1>3, <1>4

LEMMA Sizes ==
  ASSUME NEW a \in Frames, NEW b \in Frames, NEW c \in Frames
  PROVE  /\ <<>> \in Seq(Frames) /\ <<a>> \in Seq(Frames) /\ <<a, b>> \in Seq(Frames)
         /\ <<a, b, c>> \in Seq(Frames)
         /\ Len(<<>>) = 0 /\ Len(<<a>>) = 1 /\ Len(<<a, b>>) = 2 /\ Len(<<a, b, c>>) = 3
OBVIOUS

LEMMA Joined ==
  ASSUME NEW a \in Frames, NEW b \in Frames, NEW c \in Frames
  PROVE  /\ <<a>> \o <<b>> = <<a, b>> /\ <<a>> \o <<b, c>> = <<a, b, c>>
         /\ <<>> \o <<b>> = <<b>> /\ <<>> \o <<b, c>> = <<b, c>>
<1>1. /\ <<a>> \in Seq(Frames) /\ Len(<<a>>) = 1 /\ <<a>>[1] = a
      /\ <<b>> \in Seq(Frames) /\ Len(<<b>>) = 1 /\ <<b>>[1] = b
      /\ <<a, b>> \in Seq(Frames) /\ Len(<<a, b>>) = 2
      /\ <<a, b>>[1] = a /\ <<a, b>>[2] = b
      /\ <<b, c>> \in Seq(Frames) /\ Len(<<b, c>>) = 2
      /\ <<b, c>>[1] = b /\ <<b, c>>[2] = c
      /\ <<a, b, c>> \in Seq(Frames) /\ Len(<<a, b, c>>) = 3
      /\ <<a, b, c>>[1] = a /\ <<a, b, c>>[2] = b /\ <<a, b, c>>[3] = c
  OBVIOUS
<1>2. <<a>> \o <<b>> = <<a, b>>
  <2> DEFINE t == <<a>> \o <<b>>
  <2>1. /\ t \in Seq(Frames) /\ Len(t) = 2
        /\ t[1] = a /\ t[2] = b
    BY <1>1, ConcatProperties
  <2> HIDE DEF t
  <2>2. \A i \in 1..Len(t) : t[i] = <<a, b>>[i]
    BY <1>1, <2>1
  <2>3. t = <<a, b>>
    BY <1>1, <2>1, <2>2, SeqEqual
  <2> QED
    BY <2>3 DEF t
<1>3. <<a>> \o <<b, c>> = <<a, b, c>>
  <2> DEFINE t == <<a>> \o <<b, c>>
  <2>1. /\ t \in Seq(Frames) /\ Len(t) = 3
        /\ t[1] = a /\ t[2] = b /\ t[3] = c
    BY <1>1, ConcatProperties
  <2> HIDE DEF t
  <2>2. \A i \in 1..Len(t) : t[i] = <<a, b, c>>[i]
    BY <1>1, <2>1
  <2>3. t = <<a, b, c>>
    BY <1>1, <2>1, <2>2, SeqEqual
  <2> QED
    BY <2>3 DEF t
<1> QED
  BY <1>1, <1>2, <1>3, ConcatEmptySeq

(* The call that is under way.                                             *)
LEMMA Innermost ==
  ASSUME TypeOK, work # <<>>
  PROVE  /\ Len(work) \in Nat \ {0} /\ Head(work) = work[1] /\ work[1] \in Frames
         /\ Head(work).p \in Proc \cup {START} /\ Head(work).q \in Proc \cup {NULL}
         /\ Head(work).ev \in Told /\ Head(work).f \in Points
         /\ Head(work).f = "exit" => Head(work).q \in Process
         /\ Head(work).f \in {"call", "run", "return", "restart"} => Head(work).p \in Proc
<1>1. work \in Seq(Frames)
  BY DEF TypeOK
<1>2. Len(work) \in Nat \ {0} /\ Head(work) = work[1] /\ work[1] \in Frames
  BY <1>1, EmptySeq, ElementOfSeq
<1> QED
  BY <1>2 DEF Frames
-----------------------------------------------------------------------------
(* Types.  First those of the variables that several actions change in     *)
(* the same way.                                                           *)
LEMMA MovesType ==
  ASSUME TypeOK, work # <<>>, NEW a \in Frames, NEW b \in Frames, NEW c \in Frames,
         Become(<<>>) \/ Become(<<a>>) \/ Become(<<a, b>>) \/ Become(<<a, b, c>>)
  PROVE  work' \in Seq(Frames)
<1>1. work \in Seq(Frames)
  BY DEF TypeOK
<1> QED
  BY <1>1, Sizes, Replaced DEF Become

LEMMA PostType ==
  ASSUME TypeOK, NEW p \in Process \cup {ALL}, NEW ev \in {"radio", "timer", "message"},
         process_post(p, ev, NULL)
  PROVE  events' \in Seq(Events) /\ Len(events') <= NumEvents
<1> DEFINE e == [p |-> p, ev |-> ev, q |-> NULL]
<1>1. e \in Events
  BY DEF Events
<1>2. events \in Seq(Events) /\ Len(events) \in Nat /\ Len(events) <= NumEvents
  BY LenProperties DEF TypeOK
<1>3. CASE Full
  BY <1>2, <1>3 DEF process_post
<1>4. CASE ~Full
  <2>1. events' = Append(events, e)
    BY <1>4 DEF process_post
  <2> HIDE DEF e
  <2>2. Append(events, e) \in Seq(Events) /\ Len(Append(events, e)) = Len(events) + 1
    BY <1>1, <1>2, AppendProperties
  <2> QED
    BY <1>2, <1>4, <2>1, <2>2, Constants DEF Full
<1> QED
  BY <1>3, <1>4

LEMMA PollType ==
  ASSUME TypeOK, NEW p \in Proc, process_poll(p)
  PROVE  polls' \subseteq Proc /\ pollRequested' \in BOOLEAN
BY DEF TypeOK, process_poll

LEMMA TimeType == ASSUME NEW d \in Int PROVE d % Clock \in Time
<1>1. Clock \in Nat /\ Clock > 0
  BY Constants
<1>2. \A n \in Nat : n > 0 => d % n \in 0..(n - 1)
  BY Z3
<1> QED
  BY <1>1, <1>2 DEF Time

Timer == [since : Time, interval : 0..MaxDelay]

LEMMA UpdateType ==
  ASSUME NEW l, NEW tm, tm \in [ToSet(l) -> Timer], update_time(l, tm)
  PROVE  nextLeft' \in Time
<1>1. \A p \in ToSet(l) : Left(tm, p) \in Time
  <2> TAKE p \in ToSet(l)
  <2>1. tm[p].interval - tm[p].since \in Int
    BY DEF Timer, Time
  <2> QED
    BY <2>1, TimeType DEF Left
<1>2. 0 \in Time
  BY Constants DEF Time
<1> QED
  BY <1>1, <1>2 DEF update_time

LEMMA DropType ==
  ASSUME TypeOK, NEW i \in DOMAIN timerlist, Drop(i)
  PROVE  /\ timerlist' \in Seq(Process) /\ timer' \in [ToSet(timerlist') -> Timer]
         /\ ToSet(timerlist') \subseteq ToSet(timerlist)
<1>1. /\ timerlist \in Seq(Process) /\ Len(timerlist) \in Nat /\ DOMAIN timerlist = 1..Len(timerlist)
      /\ timer \in [ToSet(timerlist) -> Timer]
  BY LenProperties DEF TypeOK, Timer
<1> DEFINE a == SubSeq(timerlist, 1, i - 1)
           b == SubSeq(timerlist, i + 1, Len(timerlist))
<1>2. /\ a \in Seq(Process) /\ Len(a) = i - 1
      /\ \A j \in 1..(i - 1) : a[j] = timerlist[j]
  BY <1>1
<1>3. /\ b \in Seq(Process) /\ Len(b) = Len(timerlist) - i
      /\ \A j \in 1..(Len(timerlist) - i) : b[j] = timerlist[i + j]
  BY <1>1
<1>4. timerlist' = a \o b
  BY DEF Drop, RemoveAt
<1> HIDE DEF a, b
<1>5. /\ timerlist' \in Seq(Process) /\ Len(timerlist') = Len(a) + Len(b)
      /\ \A j \in 1..(Len(a) + Len(b)) :
            timerlist'[j] = IF j <= Len(a) THEN a[j] ELSE b[j - Len(a)]
  BY <1>2, <1>3, <1>4, ConcatProperties
<1>6. \A j \in 1..Len(timerlist') : \E k \in 1..Len(timerlist) : timerlist'[j] = timerlist[k]
  <2> TAKE j \in 1..Len(timerlist')
  <2>1. CASE j <= Len(a)
    BY <1>1, <1>2, <1>3, <1>5, <2>1
  <2>2. CASE j > Len(a)
    <3>1. j - Len(a) \in 1..(Len(timerlist) - i)
      <4>1. Len(timerlist') = Len(a) + (Len(timerlist) - i) /\ Len(timerlist) \in Nat
        BY <1>1, <1>3, <1>5
      <4> QED
        BY <1>1, <1>2, <2>2, <4>1
    <3>2. timerlist'[j] = timerlist[i + (j - Len(a))]
      <4>1. timerlist'[j] = b[j - Len(a)]
        BY <1>2, <1>3, <1>5, <2>2
      <4> QED
        BY <1>3, <3>1, <4>1
    <3> QED
      BY <1>1, <1>2, <3>1, <3>2
  <2> QED
    BY <1>1, <1>2, <1>5, <2>1, <2>2
<1>7. ToSet(timerlist') \subseteq ToSet(timerlist)
  <2>1. DOMAIN timerlist' = 1..Len(timerlist')
    BY <1>5, LenProperties
  <2> QED
    BY <1>1, <1>6, <2>1 DEF ToSet
<1> QED
  BY <1>1, <1>5, <1>7 DEF Drop, Restrict

(* The types of what describes the processes, interrupts and timers.       *)
KernelType ==
  /\ head \in Proc \cup {NULL} /\ next \in [Proc -> Proc \cup {NULL}]
  /\ state \in [Proc -> {"none", "running", "called"}] /\ autostart \subseteq Process
PollsType  == polls \subseteq Proc /\ pollRequested \in BOOLEAN
EventsType == events \in Seq(Events) /\ Len(events) <= NumEvents
RadioType  == packet \in BOOLEAN /\ odd \in 0..MaxOdd
TimersType == /\ timerlist \in Seq(Process) /\ timer \in [ToSet(timerlist) -> Timer]
              /\ nextLeft \in Time /\ skipped \in BOOLEAN
RestType   == /\ loop \in {"boot", "poll", "event", "sleep?", "asleep"}
              /\ twice \subseteq Process

LEMMA Types ==
  TypeOK <=> /\ KernelType /\ PollsType /\ EventsType /\ RadioType /\ TimersType /\ RestType
             /\ work \in Seq(Frames)
BY DEF TypeOK, KernelType, PollsType, EventsType, RadioType, TimersType, RestType, Timer

LEMMA TypesNext ==
  /\ KernelType' /\ PollsType' /\ EventsType' /\ RadioType' /\ TimersType' /\ RestType'
  /\ work' \in Seq(Frames)
  => TypeOK'
BY DEF TypeOK, KernelType, PollsType, EventsType, RadioType, TimersType, RestType, Timer

LEMMA TypesStay ==
  /\ KernelType /\ UNCHANGED kernel => KernelType'
  /\ PollsType /\ UNCHANGED <<polls, pollRequested>> => PollsType'
  /\ EventsType /\ UNCHANGED events => EventsType'
  /\ RadioType /\ UNCHANGED radio => RadioType'
  /\ TimersType /\ UNCHANGED timers => TimersType'
  /\ RestType /\ UNCHANGED <<loop, twice>> => RestType'
  /\ UNCHANGED work => (work \in Seq(Frames) => work' \in Seq(Frames))
BY DEF KernelType, PollsType, EventsType, RadioType, TimersType, RestType, kernel, radio, timers

LEMMA InitType == Init => TypeOK
<1> SUFFICES ASSUME Init PROVE TypeOK
  OBVIOUS
<1>1. KernelType
  BY Constants DEF Init, KernelType
<1>2. PollsType /\ RestType /\ events = <<>> /\ work = <<>>
  BY DEF Init, PollsType, RestType
<1>3. RadioType
  <2>1. packet = FALSE /\ odd = 0
    BY DEF Init
  <2>2. odd \in 0..MaxOdd
    BY <2>1, Constants
  <2> QED
    BY <2>1, <2>2 DEF RadioType
<1>4. TimersType
  <2>1. timerlist = <<>> /\ timer = <<>> /\ nextLeft = 0 /\ skipped = FALSE
    BY DEF Init
  <2>2. ToSet(timerlist) = {}
    BY <2>1 DEF ToSet
  <2>3. timer \in [{} -> Timer]
    BY <2>1
  <2>4. nextLeft \in Time
    BY <2>1, Constants DEF Time
  <2>5. skipped \in BOOLEAN
    BY <2>1
  <2> QED
    BY <2>1, <2>2, <2>3, <2>4, <2>5 DEF TimersType
<1>5. EventsType
  BY <1>2, Constants DEF EventsType
<1> QED
  BY <1>1, <1>2, <1>3, <1>4, <1>5, Types

LEMMA RequestType ==
  ASSUME TypeOK, etimer_request_poll
  PROVE  /\ polls' \subseteq Proc /\ pollRequested' \in BOOLEAN /\ skipped' \in BOOLEAN
         /\ process_poll(ETimer)
BY PollType, Constants DEF etimer_request_poll

LEMMA TickType == TypeOK /\ Tick => TypeOK'
<1> SUFFICES ASSUME TypeOK, Tick PROVE TypeOK'
  OBVIOUS
<1>1. PICK n \in 0..(1 + MaxLate), back \in {0, Correction}, m \in 0..MaxLate :
        /\ UNCHANGED kernel /\ UNCHANGED packet
        /\ UNCHANGED events /\ UNCHANGED work /\ UNCHANGED timerlist /\ UNCHANGED twice
        /\ odd' = IF <<n, back, m>> = <<1, 0, 0>> THEN odd ELSE odd + 1
        /\ odd' <= MaxOdd
        /\ timer' = [p \in DOMAIN timer |->
                       [timer[p] EXCEPT !.since = (@ + n - back + m) % Clock]]
        /\ nextLeft' = IF timerlist = <<>> THEN 0 ELSE (nextLeft - n + back - m) % Clock
        /\ \/ etimer_request_poll
           \/ UNCHANGED <<polls, pollRequested>> /\ skipped' \in BOOLEAN
        /\ loop' \in {"poll", loop}
  <2>1. skipped \in BOOLEAN
    BY Types DEF TimersType
  <2> QED
    BY <2>1 DEF Tick
<1>2. PollsType' /\ skipped' \in BOOLEAN
  BY <1>1, RequestType, TypesStay, Types DEF PollsType
<1>3. RestType'
  BY <1>1, Types DEF RestType
<1>4. RadioType'
  BY <1>1, Types, Constants DEF RadioType
<1>5. n \in Int /\ back \in Int /\ m \in Int
  BY Constants
<1>6. TimersType'
  <2>1. timerlist \in Seq(Process) /\ timer \in [ToSet(timerlist) -> Timer] /\ nextLeft \in Time
    BY Types DEF TimersType
  <2>2. ASSUME NEW p \in ToSet(timerlist) PROVE timer'[p] \in Timer
    <3>1. timer'[p] = [timer[p] EXCEPT !.since = (@ + n - back + m) % Clock]
      BY <1>1, <2>1
    <3>2. timer[p] \in Timer /\ timer[p].since \in Time
      BY <2>1 DEF Timer
    <3>3. timer[p].since + n - back + m \in Int
      BY <1>5, <3>2 DEF Time
    <3>4. (timer[p].since + n - back + m) % Clock \in Time
      BY <3>3, TimeType
    <3> QED
      BY <3>1, <3>2, <3>4 DEF Timer
  <2>3. timer' \in [ToSet(timerlist) -> Timer]
    BY <1>1, <2>1, <2>2
  <2>4. nextLeft - n + back - m \in Int
    BY <1>5, <2>1 DEF Time
  <2>5. nextLeft' \in Time
    BY <1>1, <2>4, TimeType, Constants DEF Time
  <2> QED
    BY <1>1, <1>2, <2>1, <2>3, <2>5 DEF TimersType
<1> QED
  BY <1>1, <1>2, <1>3, <1>4, <1>6, Types, TypesNext, TypesStay

LEMMA RadioInterruptType == TypeOK /\ RadioInterrupt => TypeOK'
<1> SUFFICES ASSUME TypeOK, RadioInterrupt PROVE TypeOK'
  OBVIOUS
<1>1. /\ UNCHANGED kernel /\ UNCHANGED timers /\ process_poll(Radio)
      /\ UNCHANGED events /\ UNCHANGED work /\ UNCHANGED <<loop, twice>>
      /\ packet' = TRUE /\ odd' = odd + 1 /\ odd < MaxOdd
  BY DEF RadioInterrupt
<1>2. PollsType'
  BY <1>1, PollType, Types, Constants DEF PollsType
<1>3. RadioType'
  BY <1>1, Types, Constants DEF RadioType
<1> QED
  BY <1>1, <1>2, <1>3, Types, TypesNext, TypesStay
-----------------------------------------------------------------------------
LEMMA IdleType ==
  ASSUME KernelType, NEW p \in Proc, Idle(p), UNCHANGED <<head, next, autostart>>
  PROVE  KernelType'
BY DEF KernelType, Idle

(* process_start(): the new process is linked and called.                  *)
LEMMA StartType ==
  ASSUME TypeOK, NEW p \in Process, NEW s \in Seq(Frames), process_start(p, s)
  PROVE  /\ head' \in Proc \cup {NULL} /\ next' \in [Proc -> Proc \cup {NULL}]
         /\ state' \in [Proc -> {"none", "running", "called"}] /\ work' \in Seq(Frames)
<1>1. Frame("call", p, NULL, "init") \in Frames
  BY FrameType, FrameTypes, Constants
<1>2. <<Frame("call", p, NULL, "init")>> \o s \in Seq(Frames)
  BY <1>1, ConcatProperties, Sizes
<1>3. p \in Proc /\ KernelType
  BY Types, Constants
<1> QED
  BY <1>2, <1>3 DEF process_start, Idle, KernelType

(* exit_process(): the process is told to be dead, or unlinked.            *)
LEMMA ExitType ==
  ASSUME TypeOK, NEW p \in Process, NEW s \in Seq(Frames), exit_process(p, s)
  PROVE  /\ head' \in Proc \cup {NULL} /\ next' \in [Proc -> Proc \cup {NULL}]
         /\ state' \in [Proc -> {"none", "running", "called"}] /\ work' \in Seq(Frames)
         /\ twice' \subseteq Process
<1>1. Frame("exit", START, p, "") \in Frames
  BY FrameType, FrameTypes, Constants
<1>2. <<Frame("exit", START, p, "")>> \o s \in Seq(Frames)
  BY <1>1, ConcatProperties, Sizes
<1>3. p \in Proc /\ KernelType /\ RestType
  BY Types, Constants
<1>4. /\ work' \in Seq(Frames)
      /\ Unlink(p) \/ UNCHANGED <<head, next>>
  BY <1>2 DEF exit_process
<1>5. head' \in Proc \cup {NULL} /\ next' \in [Proc -> Proc \cup {NULL}]
  BY <1>3, <1>4 DEF Unlink, KernelType
<1> QED
  BY <1>3, <1>4, <1>5 DEF exit_process, KernelType, RestType

(* The main loop.                                                          *)
LEMMA BootType == TypeOK /\ Boot => TypeOK'
<1> SUFFICES ASSUME TypeOK, Boot PROVE TypeOK'
  OBVIOUS
<1>1. /\ UNCHANGED events /\ UNCHANGED radio /\ UNCHANGED timers
      /\ UNCHANGED <<polls, pollRequested>> /\ UNCHANGED twice
  BY DEF Boot
<1>2. RestType'
  BY <1>1, Types DEF RestType, Boot
<1>3. CASE autostart = {}
  <2>1. UNCHANGED kernel /\ UNCHANGED work
    BY <1>3 DEF Boot
  <2> QED
    BY <1>1, <1>2, <2>1, Types, TypesNext, TypesStay
<1>4. CASE autostart # {}
  <2>1. PICK p \in autostart : process_start(p, <<>>) /\ autostart' = autostart \ {p}
    BY <1>4 DEF Boot
  <2>2. p \in Process /\ autostart' \subseteq Process
    BY <2>1, Types DEF KernelType
  <2>3. KernelType' /\ work' \in Seq(Frames)
    BY <2>1, <2>2, StartType, EmptySeq DEF KernelType
  <2> QED
    BY <1>1, <1>2, <2>3, Types, TypesNext, TypesStay
<1> QED
  BY <1>3, <1>4

LEMMA RunPollType == TypeOK /\ RunPoll => TypeOK'
<1> SUFFICES ASSUME TypeOK, RunPoll PROVE TypeOK'
  OBVIOUS
<1>1. /\ UNCHANGED kernel /\ UNCHANGED events /\ UNCHANGED radio /\ UNCHANGED timers
      /\ polls' = polls /\ pollRequested' = FALSE /\ loop' = "event" /\ twice' = twice
      /\ work' = IF pollRequested THEN <<Frame("poll", START, NULL, "")>> ELSE <<>>
  BY DEF RunPoll
<1>2. Frame("poll", START, NULL, "") \in Frames
  BY FrameType, FrameTypes, Constants
<1>3. work' \in Seq(Frames)
  BY <1>1, <1>2, Sizes
<1>4. PollsType' /\ RestType'
  BY <1>1, Types DEF PollsType, RestType
<1> QED
  BY <1>1, <1>3, <1>4, Types, TypesNext, TypesStay

LEMMA EventType ==
  ASSUME TypeOK, events # <<>>
  PROVE  /\ Head(events).p \in Process \cup {ALL} /\ Head(events).q = NULL
         /\ Head(events).ev \in {"radio", "timer", "message"}
         /\ Tail(events) \in Seq(Events) /\ Len(Tail(events)) <= NumEvents
<1>1. events \in Seq(Events) /\ Len(events) \in Nat /\ Len(events) <= NumEvents
  BY LenProperties DEF TypeOK
<1>2. /\ Head(events) \in Events /\ Tail(events) \in Seq(Events)
      /\ Len(Tail(events)) = Len(events) - 1
  BY <1>1, HeadTailProperties
<1> QED
  BY <1>1, <1>2, Constants DEF Events

LEMMA do_eventType == TypeOK /\ do_event => TypeOK'
<1> SUFFICES ASSUME TypeOK, do_event PROVE TypeOK'
  OBVIOUS
<1>1. /\ UNCHANGED kernel /\ UNCHANGED radio /\ UNCHANGED timers
      /\ UNCHANGED <<polls, pollRequested>> /\ loop' = "sleep?" /\ twice' = twice
  BY DEF do_event
<1>2. RestType'
  BY <1>1, Types DEF RestType
<1>3. CASE events = <<>>
  <2>1. UNCHANGED events /\ UNCHANGED work
    BY <1>3 DEF do_event
  <2> QED
    BY <1>1, <1>2, <2>1, Types, TypesNext, TypesStay
<1>4. CASE events # <<>>
  <2> DEFINE e == Head(events)
  <2>1. /\ e.p \in Process \cup {ALL} /\ e.q = NULL /\ e.ev \in {"radio", "timer", "message"}
        /\ Tail(events) \in Seq(Events) /\ Len(Tail(events)) <= NumEvents
    BY <1>4, EventType
  <2>2. /\ events' = Tail(events)
        /\ work' = IF e.p = ALL THEN <<Frame("cast", START, e.q, e.ev)>>
                   ELSE <<Frame("call", e.p, e.q, e.ev)>>
    BY <1>4 DEF do_event
  <2> HIDE DEF e
  <2>3. EventsType'
    BY <2>1, <2>2 DEF EventsType
  <2>4. /\ Frame("cast", START, e.q, e.ev) \in Frames
        /\ e.p # ALL => Frame("call", e.p, e.q, e.ev) \in Frames
    <3>1. e.q \in Proc \cup {NULL}
      BY <2>1
    <3>2. e.ev \in Told
      BY <2>1, FrameTypes
    <3>3. e.p # ALL => e.p \in Proc
      BY <2>1, Constants
    <3>4. Frame("cast", START, e.q, e.ev) \in Frames
      <4>1. /\ "cast" \in Points /\ "cast" # "exit" /\ START \in Proc \cup {START}
            /\ "cast" \notin {"call", "run", "return", "restart"}
        BY FrameTypes
      <4> QED
        BY <3>1, <3>2, <4>1, FrameType
    <3>5. ASSUME e.p # ALL PROVE Frame("call", e.p, e.q, e.ev) \in Frames
      BY <3>1, <3>2, <3>3, <3>5, FrameType, FrameTypes
    <3> QED
      BY <3>4, <3>5
  <2>5. work' \in Seq(Frames)
    BY <2>2, <2>4, Sizes
  <2> QED
    BY <1>1, <1>2, <2>3, <2>5, Types, TypesNext, TypesStay
<1> QED
  BY <1>3, <1>4

LEMMA SleepType == TypeOK /\ Sleep => TypeOK'
<1> SUFFICES ASSUME TypeOK, Sleep PROVE TypeOK'
  OBVIOUS
<1>1. /\ UNCHANGED kernel /\ UNCHANGED events /\ UNCHANGED radio /\ UNCHANGED timers
      /\ UNCHANGED <<polls, pollRequested>> /\ UNCHANGED work
      /\ loop' \in {"asleep", "poll"} /\ twice' = twice
  BY DEF Sleep
<1>2. RestType'
  BY <1>1, Types DEF RestType
<1> QED
  BY <1>1, <1>2, Types, TypesNext, TypesStay
-----------------------------------------------------------------------------
(* Loops over the list and calls.                                          *)
LEMMA Follows ==
  ASSUME TypeOK, work # <<>> PROVE Following(Head(work).p) \in Proc \cup {NULL}
BY Innermost, Types DEF Following, KernelType

(* A step that goes on in a loop or a call.                                *)
LEMMA GoesOn ==
  ASSUME TypeOK, KernelType', PollsType', work' \in Seq(Frames),
         UNCHANGED <<events, radio, timers, loop, twice>>
  PROVE  TypeOK'
<1>1. /\ UNCHANGED events /\ UNCHANGED radio /\ UNCHANGED timers
      /\ UNCHANGED <<loop, twice>>
  OBVIOUS
<1> QED
  BY <1>1, Types, TypesNext, TypesStay

LEMMA do_pollType == TypeOK /\ do_poll => TypeOK'
<1> SUFFICES ASSUME TypeOK, do_poll PROVE TypeOK'
  OBVIOUS
<1> DEFINE p == Following(Head(work).p)
<1>1. /\ work # <<>> /\ UNCHANGED <<head, next, autostart, pollRequested>>
      /\ UNCHANGED <<events, radio, timers, loop, twice>>
      /\ \/ p = NULL /\ Become(<<>>) /\ UNCHANGED <<polls, state>>
         \/ /\ p # NULL /\ polls' = polls \ {p} /\ Idle(p)
            /\ Become(<<Frame("call", p, NULL, "poll"), Frame("poll", p, NULL, "")>>)
         \/ p # NULL /\ Become(<<Frame("poll", p, NULL, "")>>) /\ UNCHANGED <<polls, state>>
  BY DEF do_poll, In
<1>2. p \in Proc \cup {NULL}
  BY <1>1, Follows
<1> HIDE DEF p
<1>3. p # NULL => /\ Frame("call", p, NULL, "poll") \in Frames
                  /\ Frame("poll", p, NULL, "") \in Frames
  BY <1>2, FrameType, FrameTypes
<1>4. work' \in Seq(Frames)
  <2>1. Frame("poll", START, NULL, "") \in Frames
    BY FrameType, FrameTypes, Constants
  <2> QED
    BY <1>1, <1>3, <2>1, MovesType
<1>5. PollsType'
  BY <1>1, Types DEF PollsType
<1>6. KernelType'
  BY <1>1, <1>2, Types DEF KernelType, Idle
<1> QED
  BY <1>1, <1>4, <1>5, <1>6, GoesOn

LEMMA BroadcastTypes == TypeOK /\ Broadcast => TypeOK'
<1> SUFFICES ASSUME TypeOK, Broadcast PROVE TypeOK'
  OBVIOUS
<1> DEFINE c == Head(work)
           p == Following(c.p)
           a == Frame("poll", START, NULL, "")
           b == Frame("call", p, c.q, c.ev)
           d == [c EXCEPT !.p = p]
<1>1. /\ work # <<>> /\ UNCHANGED kernel /\ polls' = polls
      /\ UNCHANGED <<events, radio, timers, loop, twice>>
      /\ \/ p = NULL /\ Become(<<>>) /\ UNCHANGED pollRequested
         \/ /\ p # NULL /\ pollRequested' = FALSE
            /\ Become((IF pollRequested THEN <<a>> ELSE <<>>) \o <<b, d>>)
  BY DEF Broadcast, In
<1>2. p \in Proc \cup {NULL} /\ c \in Frames
  BY <1>1, Follows, Innermost
<1>3. a \in Frames /\ (p # NULL => b \in Frames /\ d \in Frames)
  <2> HIDE DEF p, c
  <2>1. a \in Frames
    BY FrameType, FrameTypes, Constants
  <2>2. c.q \in Proc \cup {NULL} /\ c.ev \in Told
    BY <1>2 DEF Frames
  <2>3. p # NULL => b \in Frames
    BY <1>2, <2>2, FrameType, FrameTypes
  <2>4. p # NULL => d \in Frames
    BY <1>2 DEF Frames
  <2> QED
    BY <2>1, <2>3, <2>4
<1> HIDE DEF a, b, c, d, p
<1>4. p # NULL => <<a>> \o <<b, d>> = <<a, b, d>> /\ <<>> \o <<b, d>> = <<b, d>>
  BY <1>3, Joined
<1>5. Become(<<>>) \/ (p # NULL /\ (Become(<<a, b, d>>) \/ Become(<<b, d>>)))
  BY <1>1, <1>4
<1>6. work' \in Seq(Frames)
  BY <1>1, <1>2, <1>3, <1>5, MovesType
<1>7. PollsType'
  BY <1>1, Types DEF PollsType
<1> QED
  BY <1>1, <1>6, <1>7, Types, TypesStay, GoesOn

LEMMA call_processType == TypeOK /\ call_process => TypeOK'
<1> SUFFICES ASSUME TypeOK, call_process PROVE TypeOK'
  OBVIOUS
<1> DEFINE c == Head(work)
           a == [c EXCEPT !.f = "run"]
<1>1. /\ work # <<>> /\ UNCHANGED <<head, next, autostart>>
      /\ UNCHANGED <<polls, pollRequested>>
      /\ UNCHANGED <<events, radio, timers, loop, twice>>
      /\ \/ state' = [state EXCEPT ![c.p] = "called"] /\ Become(<<a>>)
         \/ Become(<<>>) /\ UNCHANGED state
  BY DEF call_process, In
<1>2. c \in Frames /\ c.f = "call"
  BY <1>1, Innermost DEF call_process, In
<1>3. a \in Frames
  <2> HIDE DEF c
  <2> QED
    BY <1>2, FrameTypes DEF Frames
<1> HIDE DEF a, c
<1>4. work' \in Seq(Frames)
  BY <1>1, <1>3, MovesType
<1>5. KernelType'
  BY <1>1, Types DEF KernelType
<1> QED
  BY <1>1, <1>4, <1>5, Types, TypesStay, GoesOn

LEMMA ExitTellsType == TypeOK /\ ExitTells => TypeOK'
<1> SUFFICES ASSUME TypeOK, ExitTells PROVE TypeOK'
  OBVIOUS
<1> DEFINE c == Head(work)
           q == Following(c.p)
           a == Frame("call", q, c.q, "exited")
           b == Frame("exit", q, c.q, "")
<1>1. /\ work # <<>> /\ UNCHANGED kernel /\ UNCHANGED <<polls, pollRequested>>
      /\ UNCHANGED <<events, radio, timers, loop, twice>>
      /\ q # NULL /\ Become((IF q = c.q THEN <<>> ELSE <<a>>) \o <<b>>)
  BY DEF ExitTells, In
<1>2. q \in Proc \cup {NULL} /\ c.q \in Process
  <2>1. c.f = "exit"
    BY DEF ExitTells, In
  <2> QED
    BY <1>1, <2>1, Follows, Innermost
<1>3. a \in Frames /\ b \in Frames
  <2> HIDE DEF c, q
  <2>1. q \in Proc /\ c.q \in Proc \cup {NULL}
    BY <1>1, <1>2, Constants
  <2>2. a \in Frames
    BY <2>1, FrameType, FrameTypes
  <2>3. b \in Frames
    BY <1>2, <2>1, FrameType, FrameTypes
  <2> QED
    BY <2>2, <2>3
<1> HIDE DEF a, b, c, q
<1>4. <<a>> \o <<b>> = <<a, b>> /\ <<>> \o <<b>> = <<b>>
  BY <1>3, Joined
<1>5. Become(<<a, b>>) \/ Become(<<b>>)
  BY <1>1, <1>4
<1>6. work' \in Seq(Frames)
  BY <1>1, <1>3, <1>5, MovesType
<1> QED
  BY <1>1, <1>6, Types, TypesStay, GoesOn

LEMMA ExitUnlinksType == TypeOK /\ ExitUnlinks => TypeOK'
<1> SUFFICES ASSUME TypeOK, ExitUnlinks PROVE TypeOK'
  OBVIOUS
<1>1. /\ work # <<>> /\ Unlink(Head(work).q) /\ Become(<<>>)
      /\ UNCHANGED <<state, autostart>> /\ UNCHANGED <<polls, pollRequested>>
      /\ UNCHANGED <<events, radio, timers, loop, twice>>
  BY DEF ExitUnlinks, In
<1>2. work' \in Seq(Frames)
  BY <1>1, MovesType, Innermost
<1>3. KernelType'
  <2> DEFINE p == Head(work).q
  <2>1. /\ head' = IF p = head THEN next[p] ELSE head
        /\ next' = [q \in Proc |-> IF q \in Listed /\ next[q] = p THEN next[p] ELSE next[q]]
    BY <1>1 DEF Unlink
  <2>2. p \in Process
    <3>1. Head(work).f = "exit"
      BY DEF ExitUnlinks, In
    <3> QED
      BY <1>1, <3>1, Innermost
  <2> HIDE DEF p
  <2> QED
    BY <1>1, <2>1, <2>2, Types, Constants DEF KernelType
<1> QED
  BY <1>1, <1>2, <1>3, Types, TypesStay, GoesOn
-----------------------------------------------------------------------------
(* Handlers.                                                               *)
LEMMA YieldType ==
  ASSUME TypeOK, work # <<>>, NEW p \in Proc, Yield(p), UNCHANGED <<head, next, autostart>>
  PROVE  KernelType' /\ work' \in Seq(Frames)
BY Innermost, IdleType, MovesType, Types DEF Yield

LEMMA RadioHandlerType == TypeOK /\ RadioHandler => TypeOK'
<1> SUFFICES ASSUME TypeOK, RadioHandler PROVE TypeOK'
  OBVIOUS
<1>1. /\ work # <<>> /\ Yield(Radio) /\ UNCHANGED <<head, next, autostart>>
      /\ UNCHANGED <<polls, pollRequested>> /\ UNCHANGED timers /\ UNCHANGED <<loop, twice>>
      /\ UNCHANGED odd
      /\ \/ packet' = FALSE /\ process_post(ALL, "radio", NULL)
         \/ UNCHANGED <<packet, events>>
  BY DEF RadioHandler, In
<1>2. KernelType' /\ work' \in Seq(Frames)
  BY <1>1, YieldType, Constants
<1>3. RadioType'
  BY <1>1, Types DEF RadioType
<1>4. EventsType'
  BY <1>1, PostType, Types, TypesStay DEF EventsType
<1> QED
  BY <1>1, <1>2, <1>3, <1>4, Types, TypesNext, TypesStay

LEMMA TimerExitedType == TypeOK /\ TimerExited => TypeOK'
<1> SUFFICES ASSUME TypeOK, TimerExited PROVE TypeOK'
  OBVIOUS
<1>1. /\ work # <<>> /\ Yield(ETimer) /\ UNCHANGED <<head, next, autostart>>
      /\ UNCHANGED <<polls, pollRequested>> /\ UNCHANGED radio /\ UNCHANGED <<loop, twice>>
      /\ UNCHANGED events /\ UNCHANGED <<nextLeft, skipped>>
      /\ \/ \E i \in DOMAIN timerlist : Drop(i)
         \/ UNCHANGED <<timerlist, timer>>
  BY DEF TimerExited, In
<1>2. KernelType' /\ work' \in Seq(Frames)
  BY <1>1, YieldType, Constants
<1>3. TimersType'
  <2>1. CASE UNCHANGED <<timerlist, timer>>
    BY <1>1, <2>1, Types DEF TimersType
  <2>2. ASSUME NEW i \in DOMAIN timerlist, Drop(i) PROVE TimersType'
    BY <1>1, <2>2, DropType, Types DEF TimersType
  <2> QED
    BY <1>1, <2>1, <2>2
<1> QED
  BY <1>1, <1>2, <1>3, Types, TypesNext, TypesStay

LEMMA AnnounceType ==
  ASSUME TypeOK, Announce
  PROVE  EventsType' /\ TimersType' /\ UNCHANGED <<state, polls, pollRequested, work>>
<1>1. PICK i \in DOMAIN timerlist : process_post(timerlist[i], "timer", NULL) /\ Drop(i)
  BY DEF Announce
<1>2. timerlist[i] \in Process
  BY <1>1, Types, ElementOfSeq, LenProperties DEF TimersType
<1>3. EventsType'
  BY <1>1, <1>2, PostType DEF EventsType
<1>4. timerlist' \in Seq(Process) /\ timer' \in [ToSet(timerlist') -> Timer]
  BY <1>1, DropType
<1>5. update_time(timerlist', timer')
  BY DEF Announce
<1>6. nextLeft' \in Time
  BY <1>4, <1>5, UpdateType
<1>7. UNCHANGED skipped /\ skipped \in BOOLEAN
  BY Types DEF Announce, TimersType
<1> QED
  BY <1>3, <1>4, <1>6, <1>7 DEF TimersType, Announce

LEMMA TimerPolledType == TypeOK /\ TimerPolled => TypeOK'
<1> SUFFICES ASSUME TypeOK, TimerPolled PROVE TypeOK'
  OBVIOUS
<1>1. /\ work # <<>> /\ UNCHANGED <<head, next, autostart>>
      /\ UNCHANGED radio /\ UNCHANGED <<loop, twice>>
      /\ \/ /\ Yield(ETimer) /\ UNCHANGED events /\ UNCHANGED <<timerlist, timer, nextLeft>>
            /\ \/ etimer_request_poll
               \/ UNCHANGED <<polls, pollRequested>> /\ UNCHANGED skipped
         \/ Announce
  BY DEF TimerPolled, In, timers
<1>2. CASE /\ Yield(ETimer) /\ UNCHANGED events /\ UNCHANGED <<timerlist, timer, nextLeft>>
           /\ \/ etimer_request_poll
              \/ UNCHANGED <<polls, pollRequested>> /\ UNCHANGED skipped
  <2>1. KernelType' /\ work' \in Seq(Frames)
    BY <1>1, <1>2, YieldType, Constants
  <2>2. PollsType' /\ skipped' \in BOOLEAN
    BY <1>2, RequestType, Types, TypesStay DEF PollsType, TimersType
  <2>3. TimersType'
    BY <1>2, <2>2, Types DEF TimersType
  <2> QED
    BY <1>1, <1>2, <2>1, <2>2, <2>3, Types, TypesNext, TypesStay
<1>3. CASE Announce
  <2>1. EventsType' /\ TimersType' /\ UNCHANGED <<state, polls, pollRequested, work>>
    BY <1>3, AnnounceType
  <2>2. UNCHANGED kernel /\ UNCHANGED <<polls, pollRequested>> /\ UNCHANGED work
    BY <1>1, <2>1 DEF kernel
  <2> QED
    BY <1>1, <2>1, <2>2, Types, TypesNext, TypesStay
<1> QED
  BY <1>1, <1>2, <1>3

LEMMA ReturnType == ASSUME NEW p \in Process PROVE TypeOK /\ Return(p) => TypeOK'
<1> SUFFICES ASSUME TypeOK, Return(p) PROVE TypeOK'
  OBVIOUS
<1>1. /\ work # <<>> /\ Yield(p) /\ UNCHANGED <<head, next, autostart>>
      /\ UNCHANGED <<polls, pollRequested>> /\ UNCHANGED <<events, radio, timers, loop, twice>>
  BY DEF Return, Ending, At
<1>2. KernelType' /\ work' \in Seq(Frames)
  BY <1>1, YieldType, Constants
<1> QED
  BY <1>1, <1>2, Types, TypesStay, GoesOn

LEMMA ExitTypes == ASSUME NEW p \in Process PROVE TypeOK /\ Exit(p) => TypeOK'
<1> SUFFICES ASSUME TypeOK, Exit(p) PROVE TypeOK'
  OBVIOUS
<1>1. /\ work # <<>> /\ exit_process(p, Tail(work)) /\ UNCHANGED autostart
      /\ UNCHANGED <<polls, pollRequested>> /\ UNCHANGED events /\ UNCHANGED radio
      /\ UNCHANGED timers /\ loop' = loop
  BY DEF Exit, Ending, At
<1>2. Tail(work) \in Seq(Frames)
  BY <1>1, HeadTailProperties, Types
<1>3. KernelType' /\ RestType' /\ work' \in Seq(Frames)
  BY <1>1, <1>2, ExitType, Types DEF KernelType, RestType
<1> QED
  BY <1>1, <1>3, Types, TypesNext, TypesStay

LEMMA AfterType ==
  ASSUME TypeOK, work # <<>>, NEW p \in Process, NEW f \in {"return", "restart"}
  PROVE  /\ Frame(f, p, NULL, "") \in Frames
         /\ <<Frame(f, p, NULL, "")>> \o Tail(work) \in Seq(Frames)
<1>1. Frame(f, p, NULL, "") \in Frames
  BY FrameType, FrameTypes, Constants
<1> QED
  BY <1>1, Replaced, Sizes, Types

LEMMA ExitOtherType == ASSUME NEW p \in Process PROVE TypeOK /\ ExitOther(p) => TypeOK'
<1> SUFFICES ASSUME TypeOK, ExitOther(p) PROVE TypeOK'
  OBVIOUS
<1> DEFINE s == <<Frame("restart", p, NULL, "")>> \o Tail(work)
<1>1. /\ work # <<>> /\ UNCHANGED autostart
      /\ UNCHANGED <<polls, pollRequested>> /\ UNCHANGED events /\ UNCHANGED radio
      /\ UNCHANGED timers /\ loop' = loop
      /\ \E q \in Process : exit_process(q, s)
  BY DEF ExitOther, Handling, At
<1>2. s \in Seq(Frames)
  BY <1>1, AfterType
<1> HIDE DEF s
<1>3. KernelType' /\ RestType' /\ work' \in Seq(Frames)
  BY <1>1, <1>2, ExitType, Types DEF KernelType, RestType
<1> QED
  BY <1>1, <1>3, Types, TypesNext, TypesStay

LEMMA StartTypes == ASSUME NEW p \in Process PROVE TypeOK /\ Start(p) => TypeOK'
<1> SUFFICES ASSUME TypeOK, Start(p) PROVE TypeOK'
  OBVIOUS
<1> DEFINE s == Returning(p) \o Tail(work)
<1>1. /\ work # <<>> /\ UNCHANGED autostart
      /\ UNCHANGED <<polls, pollRequested>> /\ UNCHANGED <<events, radio, timers, loop, twice>>
      /\ \E q \in Process : process_start(q, s)
  BY DEF Start, At
<1>2. s \in Seq(Frames)
  BY <1>1, AfterType DEF Returning
<1> HIDE DEF s
<1>3. KernelType' /\ work' \in Seq(Frames)
  BY <1>1, <1>2, StartType, Types DEF KernelType
<1> QED
  BY <1>1, <1>3, Types, TypesStay, GoesOn

LEMMA PostTypes == ASSUME NEW p \in Process PROVE TypeOK /\ Post(p) => TypeOK'
<1> SUFFICES ASSUME TypeOK, Post(p) PROVE TypeOK'
  OBVIOUS
<1>1. /\ work # <<>> /\ UNCHANGED kernel /\ UNCHANGED <<polls, pollRequested>>
      /\ UNCHANGED radio /\ UNCHANGED timers /\ UNCHANGED <<loop, twice>>
      /\ Become(Returning(p))
      /\ \E q \in Process : process_post(q, "message", NULL)
  BY DEF Post, Handling, At
<1>2. work' \in Seq(Frames)
  BY <1>1, AfterType DEF Returning, Become
<1>3. EventsType'
  BY <1>1, PostType DEF EventsType
<1> QED
  BY <1>1, <1>2, <1>3, Types, TypesNext, TypesStay

LEMMA etimer_setType == ASSUME NEW p \in Process PROVE TypeOK /\ etimer_set(p) => TypeOK'
<1> SUFFICES ASSUME TypeOK, etimer_set(p) PROVE TypeOK'
  OBVIOUS
<1>1. /\ work # <<>> /\ UNCHANGED kernel /\ UNCHANGED events /\ UNCHANGED radio
      /\ UNCHANGED <<loop, twice>> /\ Become(Returning(p)) /\ etimer_request_poll
      /\ timerlist' = IF p \in ToSet(timerlist) THEN timerlist ELSE <<p>> \o timerlist
      /\ update_time(timerlist', timer')
  BY DEF etimer_set, Handling, At
<1>2. PICK d \in 1..MaxDelay :
        timer' = [q \in ToSet(timerlist') |->
                    IF q = p THEN [since |-> 0, interval |-> d] ELSE timer[q]]
  BY DEF etimer_set
<1>3. /\ timerlist \in Seq(Process) /\ Len(timerlist) \in Nat /\ DOMAIN timerlist = 1..Len(timerlist)
      /\ timer \in [ToSet(timerlist) -> Timer]
  BY Types, LenProperties DEF TimersType
<1>4. timerlist' \in Seq(Process) /\ ToSet(timerlist') \subseteq ToSet(timerlist) \cup {p}
  <2>1. CASE p \in ToSet(timerlist)
    BY <1>1, <1>3, <2>1
  <2>2. CASE p \notin ToSet(timerlist)
    <3>1. <<p>> \in Seq(Process) /\ Len(<<p>>) = 1 /\ <<p>>[1] = p
      OBVIOUS
    <3>2. /\ timerlist' \in Seq(Process) /\ Len(timerlist') = 1 + Len(timerlist)
          /\ \A j \in 1..(1 + Len(timerlist)) :
               timerlist'[j] = IF j <= 1 THEN p ELSE timerlist[j - 1]
      BY <1>1, <1>3, <2>2, <3>1, ConcatProperties
    <3>3. DOMAIN timerlist' = 1..Len(timerlist')
      BY <3>2, LenProperties
    <3> QED
      BY <1>3, <3>2, <3>3 DEF ToSet
  <2> QED
    BY <2>1, <2>2
<1>5. [since |-> 0, interval |-> d] \in Timer
  BY <1>2, Constants DEF Timer, Time
<1>6. timer' \in [ToSet(timerlist') -> Timer]
  BY <1>2, <1>3, <1>4, <1>5
<1>7. TimersType'
  BY <1>1, <1>4, <1>6, UpdateType, RequestType DEF TimersType
<1>8. PollsType' /\ work' \in Seq(Frames)
  BY <1>1, RequestType, AfterType, Constants DEF PollsType, Become, Returning
<1> QED
  BY <1>1, <1>7, <1>8, Types, TypesNext, TypesStay

LEMMA etimer_stopType == ASSUME NEW p \in Process PROVE TypeOK /\ etimer_stop(p) => TypeOK'
<1> SUFFICES ASSUME TypeOK, etimer_stop(p) PROVE TypeOK'
  OBVIOUS
<1>1. /\ work # <<>> /\ UNCHANGED kernel /\ UNCHANGED <<polls, pollRequested>>
      /\ UNCHANGED events /\ UNCHANGED radio
      /\ UNCHANGED <<loop, twice>> /\ Become(Returning(p)) /\ UNCHANGED skipped
      /\ \E i \in DOMAIN timerlist : Drop(i)
      /\ update_time(timerlist', timer')
  BY DEF etimer_stop, Handling, At
<1>2. timerlist' \in Seq(Process) /\ timer' \in [ToSet(timerlist') -> Timer]
  BY <1>1, DropType
<1>3. TimersType'
  BY <1>1, <1>2, UpdateType, Types DEF TimersType
<1>4. work' \in Seq(Frames)
  BY <1>1, AfterType DEF Become, Returning
<1> QED
  BY <1>1, <1>3, <1>4, Types, TypesNext, TypesStay

LEMMA StepType == TypeOK /\ [Next]_vars => TypeOK'
<1>1. TypeOK /\ UNCHANGED vars => TypeOK'
  BY DEF TypeOK, vars, kernel, radio, timers
<1>2. ASSUME NEW p \in Process
      PROVE  TypeOK /\ (\/ Return(p) \/ Exit(p) \/ etimer_set(p) \/ etimer_stop(p)
                        \/ Post(p) \/ Start(p) \/ ExitOther(p)) => TypeOK'
  BY ReturnType, ExitTypes, etimer_setType, etimer_stopType, PostTypes, StartTypes,
     ExitOtherType
<1> QED
  BY <1>1, <1>2, BootType, RunPollType, do_eventType, SleepType, do_pollType, BroadcastTypes,
     call_processType, ExitTellsType, ExitUnlinksType, RadioHandlerType, TimerExitedType,
     TimerPolledType, TickType, RadioInterruptType
  DEF Next, Main

(* Whatever handlers do, calls, events and timers are what the code can    *)
(* handle: the queue never overflows and no loop follows a bad pointer.    *)
THEOREM TypeCorrect == Spec => []TypeOK
BY InitType, StepType, PTL DEF Spec
-----------------------------------------------------------------------------
(* What the CPU sleeps over.  A poll that the timer process has to get is  *)
(* requested, or a loop of do_poll() is on the way to it; every such loop  *)
(* comes to the timer process, for it is the last in the list, where no    *)
(* process is linked behind it and it never exits.                         *)
Linked == {p \in Proc : next[p] # NULL} \cup {ETimer}
Loops(w) == {c \in ToSet(w) : c.f = "poll"}
PollLoops == Loops(work)

ListInv ==
  /\ next[ETimer] = NULL /\ head \in Linked
  /\ \A p \in Proc : next[p] # NULL => next[p] \in Linked
  /\ \A c \in PollLoops : c.p \in Linked \cup {START}

PollInv ==
  /\ polls \subseteq {Radio, ETimer}
  /\ ETimer \in polls => pollRequested \/ \E c \in PollLoops : c.p # ETimer
  /\ loop = "asleep" => /\ work = <<>> /\ events = <<>> /\ ETimer \notin polls
                        /\ pollRequested => Radio \in polls

(* The calls that are under way, as a set.                                 *)
LEMMA FramesOf ==
  ASSUME NEW s \in Seq(Frames), s # <<>>
  PROVE  ToSet(s) = {Head(s)} \cup ToSet(Tail(s)) /\ Head(s) \in Frames
<1>1. /\ Len(s) \in Nat \ {0} /\ DOMAIN s = 1..Len(s) /\ Head(s) = s[1] /\ s[1] \in Frames
      /\ Tail(s) \in Seq(Frames) /\ Len(Tail(s)) = Len(s) - 1
      /\ \A i \in 1..(Len(s) - 1) : Tail(s)[i] = s[i + 1]
  BY HeadTailProperties, EmptySeq, LenProperties, ElementOfSeq
<1>2. DOMAIN Tail(s) = 1..(Len(s) - 1)
  BY <1>1, LenProperties
<1>3. \A i \in 2..Len(s) : i - 1 \in 1..(Len(s) - 1) /\ s[i] = Tail(s)[i - 1]
  BY <1>1
<1>4. ToSet(s) \subseteq {Head(s)} \cup ToSet(Tail(s))
  <2> SUFFICES ASSUME NEW i \in 1..Len(s), i # 1 PROVE s[i] \in ToSet(Tail(s))
    BY <1>1 DEF ToSet
  <2>1. i - 1 \in DOMAIN Tail(s) /\ s[i] = Tail(s)[i - 1]
    BY <1>1, <1>2, <1>3
  <2> QED
    BY <2>1 DEF ToSet
<1>5. \A i \in 1..(Len(s) - 1) : Tail(s)[i] = s[i + 1] /\ i + 1 \in 1..Len(s)
  BY <1>1
<1>6. {Head(s)} \cup ToSet(Tail(s)) \subseteq ToSet(s)
  BY <1>1, <1>2, <1>5 DEF ToSet
<1> QED
  BY <1>1, <1>4, <1>6

LEMMA FramesJoined ==
  ASSUME NEW s \in Seq(Frames), NEW t \in Seq(Frames)
  PROVE  ToSet(s \o t) = ToSet(s) \cup ToSet(t)
<1>1. /\ DOMAIN s = 1..Len(s) /\ DOMAIN t = 1..Len(t) /\ Len(s) \in Nat /\ Len(t) \in Nat
      /\ DOMAIN (s \o t) = 1..(Len(s) + Len(t))
      /\ \A i \in 1..(Len(s) + Len(t)) :
            (s \o t)[i] = IF i <= Len(s) THEN s[i] ELSE t[i - Len(s)]
  BY LenProperties, ConcatProperties
<1>2. ToSet(s \o t) \subseteq ToSet(s) \cup ToSet(t)
  <2> SUFFICES ASSUME NEW i \in 1..(Len(s) + Len(t))
               PROVE  (s \o t)[i] \in ToSet(s) \cup ToSet(t)
    BY <1>1 DEF ToSet
  <2>1. CASE i <= Len(s)
    BY <1>1, <2>1 DEF ToSet
  <2>2. CASE i > Len(s)
    <3>1. i - Len(s) \in 1..Len(t) /\ (s \o t)[i] = t[i - Len(s)]
      BY <1>1, <2>2
    <3> QED
      BY <1>1, <3>1 DEF ToSet
  <2> QED
    BY <1>1, <2>1, <2>2
<1>3. ToSet(s) \subseteq ToSet(s \o t)
  BY <1>1 DEF ToSet
<1>4. ToSet(t) \subseteq ToSet(s \o t)
  <2> SUFFICES ASSUME NEW i \in 1..Len(t) PROVE t[i] \in ToSet(s \o t)
    BY <1>1 DEF ToSet
  <2>1. i + Len(s) \in 1..(Len(s) + Len(t)) /\ ~(i + Len(s) <= Len(s)) /\ (i + Len(s)) - Len(s) = i
    BY <1>1
  <2>2. (s \o t)[i + Len(s)] = t[i]
    BY <1>1, <2>1
  <2> QED
    BY <1>1, <2>1, <2>2 DEF ToSet
<1> QED
  BY <1>2, <1>3, <1>4

LEMMA SetsOf ==
  ASSUME NEW a \in Frames, NEW b \in Frames, NEW c \in Frames
  PROVE  /\ ToSet(<<>>) = {} /\ ToSet(<<a>>) = {a} /\ ToSet(<<a, b>>) = {a, b}
         /\ ToSet(<<a, b, c>>) = {a, b, c}
<1>1. ToSet(<<>>) = {} /\ ToSet(<<a>>) = {a}
  BY DEF ToSet
<1>2. ToSet(<<a, b>>) = {a, b}
  <2>1. DOMAIN <<a, b>> = {1, 2} /\ <<a, b>>[1] = a /\ <<a, b>>[2] = b
    OBVIOUS
  <2> QED
    BY <2>1 DEF ToSet
<1>3. ToSet(<<a, b, c>>) = {a, b, c}
  <2>1. /\ DOMAIN <<a, b, c>> = {1, 2, 3}
        /\ <<a, b, c>>[1] = a /\ <<a, b, c>>[2] = b /\ <<a, b, c>>[3] = c
    OBVIOUS
  <2> QED
    BY <2>1 DEF ToSet
<1> QED
  BY <1>1, <1>2, <1>3

LEMMA LoopsTail ==
  ASSUME NEW w \in Seq(Frames), w # <<>>, Head(w).f # "poll"
  PROVE  Loops(Tail(w)) = Loops(w) /\ Tail(w) \in Seq(Frames)
BY FramesOf, HeadTailProperties DEF Loops

LEMMA LoopsPush ==
  ASSUME NEW w \in Seq(Frames), NEW a \in Frames, a.f # "poll"
  PROVE  Loops(<<a>> \o w) = Loops(w) /\ <<a>> \o w \in Seq(Frames)
<1>1. <<a>> \in Seq(Frames) /\ ToSet(<<a>>) = {a}
  BY Sizes, SetsOf, Zenon
<1> QED
  BY <1>1, FramesJoined, ConcatProperties DEF Loops

(* A call that is no loop gives way to others.                             *)
LEMMA LoopsStay ==
  ASSUME TypeOK, work # <<>>, Head(work).f # "poll",
         NEW a \in Frames, a.f # "poll", NEW b \in Frames, b.f # "poll",
         Become(<<>>) \/ Become(<<a>>) \/ Become(<<a, b>>)
  PROVE  PollLoops' = PollLoops
<1>1. work \in Seq(Frames)
  BY DEF TypeOK
<1>2. Tail(work) \in Seq(Frames) /\ Loops(Tail(work)) = Loops(work)
  BY <1>1, LoopsTail
<1>3. /\ <<>> \in Seq(Frames) /\ <<a>> \in Seq(Frames) /\ <<a, b>> \in Seq(Frames)
      /\ ToSet(<<>>) = {} /\ ToSet(<<a>>) = {a} /\ ToSet(<<a, b>>) = {a, b}
  BY Sizes, SetsOf
<1>4. ASSUME NEW fs \in {<<>>, <<a>>, <<a, b>>}
      PROVE  ToSet(fs \o Tail(work)) = ToSet(fs) \cup ToSet(Tail(work))
             /\ ToSet(fs) \subseteq {a, b}
  BY <1>2, <1>3, FramesJoined
<1>5. PICK fs \in {<<>>, <<a>>, <<a, b>>} : work' = fs \o Tail(work)
  BY DEF Become
<1>6. ToSet(work') = ToSet(fs) \cup ToSet(Tail(work)) /\ ToSet(fs) \subseteq {a, b}
  BY <1>4, <1>5
<1> QED
  BY <1>2, <1>6 DEF PollLoops, Loops

(* While a call is under way, nothing about polls changes but by a request.*)
LEMMA QuietPoll ==
  ASSUME PollInv, work # <<>>, loop' = loop, PollLoops' = PollLoops,
         UNCHANGED <<polls, pollRequested>> \/ process_poll(ETimer)
  PROVE  PollInv'
BY DEF PollInv, process_poll

LEMMA QuietList ==
  ASSUME ListInv, UNCHANGED <<head, next>>, PollLoops' = PollLoops
  PROVE  ListInv'
BY DEF ListInv, Linked

LEMMA LinkedGrows ==
  ASSUME ListInv, head' \in Linked', next'[ETimer] = NULL, Linked \subseteq Linked',
         \A p \in Proc : next'[p] # NULL => next'[p] \in Linked',
         PollLoops' = PollLoops
  PROVE  ListInv'
BY DEF ListInv

LEMMA ListStart ==
  ASSUME TypeOK, ListInv, NEW p \in Process, head' = p, next' = [next EXCEPT ![p] = head],
         PollLoops' = PollLoops
  PROVE  ListInv'
<1>1. /\ next \in [Proc -> Proc \cup {NULL}] /\ p \in Proc /\ p # ETimer /\ head \in Proc
      /\ head # NULL /\ ETimer \in Proc
  BY Constants DEF TypeOK, ListInv, Linked
<1>2. \A q \in Proc : next'[q] = IF q = p THEN head ELSE next[q]
  BY <1>1
<1>3. Linked \subseteq Linked' /\ p \in Linked'
  BY <1>1, <1>2 DEF Linked
<1> QED
  BY <1>1, <1>2, <1>3, LinkedGrows DEF ListInv

LEMMA ListUnlink ==
  ASSUME TypeOK, ListInv, NEW p \in Process, Unlink(p), PollLoops' = PollLoops
  PROVE  ListInv'
<1>1. /\ next \in [Proc -> Proc \cup {NULL}] /\ p \in Proc /\ p # ETimer /\ p # NULL
      /\ ETimer \in Proc /\ NULL \notin Proc
  BY Constants DEF TypeOK
<1>2. /\ head' = IF p = head THEN next[p] ELSE head
      /\ \A q \in Proc : next'[q] = IF q \in Listed /\ next[q] = p THEN next[p] ELSE next[q]
  BY DEF Unlink
<1>3. p \in Linked => next[p] # NULL /\ next[p] \in Linked
  BY <1>1 DEF ListInv, Linked
<1>4. /\ \A q \in Proc : next'[q] # NULL => next'[q] \in Linked
      /\ \A q \in Proc : next[q] # NULL => next'[q] # NULL
      /\ next'[ETimer] = NULL /\ head' \in Linked
  BY <1>1, <1>2, <1>3 DEF ListInv
<1>5. Linked \subseteq Linked'
  BY <1>4 DEF Linked
<1> QED
  BY <1>4, <1>5, LinkedGrows
-----------------------------------------------------------------------------
SleepInv == ListInv /\ PollInv

LEMMA InitSleep == Init => SleepInv
<1> SUFFICES ASSUME Init PROVE SleepInv
  OBVIOUS
<1>1. /\ head = Radio /\ next = [p \in Proc |-> IF p = Radio THEN ETimer ELSE NULL]
      /\ polls = {} /\ work = <<>> /\ loop = "boot"
  BY DEF Init
<1>2. PollLoops = {}
  BY <1>1 DEF PollLoops, Loops, ToSet
<1>3. ListInv
  BY <1>1, <1>2, Constants DEF ListInv, Linked
<1> QED
  BY <1>1, <1>3 DEF SleepInv, PollInv

LEMMA TickSleep == TypeOK /\ SleepInv /\ Tick => SleepInv'
<1> SUFFICES ASSUME TypeOK, SleepInv, Tick PROVE SleepInv'
  OBVIOUS
<1>1. /\ UNCHANGED <<head, next>> /\ UNCHANGED events /\ UNCHANGED work
      /\ \/ process_poll(ETimer) /\ (loop' = loop \/ loop' = "poll") /\ loop' # "asleep"
         \/ UNCHANGED <<polls, pollRequested>> /\ loop' = loop
  BY DEF Tick, kernel, etimer_request_poll
<1>2. PollLoops' = PollLoops
  BY <1>1 DEF PollLoops
<1>3. ListInv'
  BY <1>1, <1>2, QuietList DEF SleepInv
<1>4. PollInv'
  BY <1>1, <1>2 DEF SleepInv, PollInv, process_poll
<1> QED
  BY <1>3, <1>4 DEF SleepInv

LEMMA RadioInterruptSleep == TypeOK /\ SleepInv /\ RadioInterrupt => SleepInv'
<1> SUFFICES ASSUME TypeOK, SleepInv, RadioInterrupt PROVE SleepInv'
  OBVIOUS
<1>1. /\ UNCHANGED <<head, next>> /\ UNCHANGED events /\ UNCHANGED work /\ UNCHANGED loop
      /\ process_poll(Radio)
  BY DEF RadioInterrupt, kernel
<1>2. PollLoops' = PollLoops
  BY <1>1 DEF PollLoops
<1>3. ListInv'
  BY <1>1, <1>2, QuietList DEF SleepInv
<1>4. PollInv'
  BY <1>1, <1>2, Constants DEF SleepInv, PollInv, process_poll
<1> QED
  BY <1>3, <1>4 DEF SleepInv

(* process_start() and exit_process() leave the loops that poll alone.     *)
LEMMA StartSleep ==
  ASSUME TypeOK, ListInv, NEW p \in Process, NEW s \in Seq(Frames), Loops(s) = PollLoops,
         process_start(p, s)
  PROVE  ListInv' /\ PollLoops' = PollLoops
<1> DEFINE a == Frame("call", p, NULL, "init")
<1>1. a \in Frames /\ a.f = "call"
  <2>1. a \in Frames
    BY FrameType, FrameTypes, Constants
  <2> QED
    BY <2>1 DEF Frame
<1>2. \/ work' = s /\ UNCHANGED <<head, next>>
      \/ work' = <<a>> \o s /\ head' = p /\ next' = [next EXCEPT ![p] = head]
  BY DEF process_start
<1> HIDE DEF a
<1>3. PollLoops' = PollLoops
  BY <1>1, <1>2, LoopsPush DEF PollLoops
<1> QED
  BY <1>2, <1>3, QuietList, ListStart

LEMMA ExitSleep ==
  ASSUME TypeOK, ListInv, NEW p \in Process, NEW s \in Seq(Frames), Loops(s) = PollLoops,
         exit_process(p, s)
  PROVE  ListInv' /\ PollLoops' = PollLoops
<1> DEFINE a == Frame("exit", START, p, "")
<1>1. a \in Frames /\ a.f = "exit"
  <2>1. a \in Frames
    BY FrameType, FrameTypes, Constants
  <2> QED
    BY <2>1 DEF Frame
<1>2. /\ work' \in {s, <<a>> \o s}
      /\ Unlink(p) \/ UNCHANGED <<head, next>>
  BY DEF exit_process
<1> HIDE DEF a
<1>3. PollLoops' = PollLoops
  BY <1>1, <1>2, LoopsPush DEF PollLoops
<1> QED
  BY <1>2, <1>3, QuietList, ListUnlink

LEMMA BootSleep == TypeOK /\ SleepInv /\ Boot => SleepInv'
<1> SUFFICES ASSUME TypeOK, SleepInv, Boot PROVE SleepInv'
  OBVIOUS
<1>1. /\ UNCHANGED <<polls, pollRequested>> /\ loop = "boot" /\ work = <<>>
      /\ loop' \in {"boot", "poll"}
      /\ \/ UNCHANGED <<head, next>> /\ work' = work
         \/ \E p \in autostart : process_start(p, <<>>)
  BY DEF Boot, kernel
<1>2. autostart \subseteq Process /\ <<>> \in Seq(Frames) /\ Loops(<<>>) = PollLoops
  BY <1>1 DEF TypeOK, PollLoops
<1>3. ListInv' /\ PollLoops' = PollLoops
  <2>1. CASE UNCHANGED <<head, next>> /\ work' = work
    <3>1. PollLoops' = PollLoops
      BY <2>1 DEF PollLoops
    <3> QED
      BY <2>1, <3>1, QuietList DEF SleepInv
  <2>2. ASSUME NEW p \in autostart, process_start(p, <<>>)
        PROVE  ListInv' /\ PollLoops' = PollLoops
    BY <1>2, <2>2, StartSleep DEF SleepInv
  <2> QED
    BY <1>1, <2>1, <2>2
<1>4. PollInv'
  BY <1>1, <1>3 DEF SleepInv, PollInv
<1> QED
  BY <1>3, <1>4 DEF SleepInv

LEMMA RunPollSleep == TypeOK /\ SleepInv /\ RunPoll => SleepInv'
<1> SUFFICES ASSUME TypeOK, SleepInv, RunPoll PROVE SleepInv'
  OBVIOUS
<1> DEFINE a == Frame("poll", START, NULL, "")
<1>1. /\ UNCHANGED <<head, next>> /\ polls' = polls /\ pollRequested' = FALSE
      /\ loop' = "event" /\ work = <<>> /\ pollRequested \in BOOLEAN
      /\ work' = IF pollRequested THEN <<a>> ELSE <<>>
  BY DEF RunPoll, TypeOK, kernel
<1>2. a \in Frames /\ a.f = "poll" /\ a.p = START /\ START # ETimer
  <2>1. a \in Frames
    BY FrameType, FrameTypes
  <2> QED
    BY <2>1, Constants DEF Frame
<1> HIDE DEF a
<1>3. ToSet(<<>>) = {} /\ ToSet(<<a>>) = {a}
  BY <1>2, SetsOf
<1>4. PollLoops = {} /\ PollLoops' = IF pollRequested THEN {a} ELSE {}
  BY <1>1, <1>2, <1>3 DEF PollLoops, Loops
<1>5. ListInv'
  BY <1>1, <1>2, <1>4 DEF SleepInv, ListInv, Linked
<1>6. PollInv'
  BY <1>1, <1>2, <1>4 DEF SleepInv, PollInv
<1> QED
  BY <1>5, <1>6 DEF SleepInv

LEMMA do_eventSleep == TypeOK /\ SleepInv /\ do_event => SleepInv'
<1> SUFFICES ASSUME TypeOK, SleepInv, do_event PROVE SleepInv'
  OBVIOUS
<1>1. /\ UNCHANGED <<head, next>> /\ UNCHANGED <<polls, pollRequested>>
      /\ loop' = "sleep?" /\ work = <<>>
      /\ \/ work' = <<>>
         \/ \E f \in {"cast", "call"} : \E p, q, ev : work' = <<Frame(f, p, q, ev)>>
  BY DEF do_event, kernel
<1>2. PollLoops' = PollLoops
  <2>1. \A f \in {"cast", "call"} : \A p, q, ev : Frame(f, p, q, ev).f # "poll"
    BY DEF Frame
  <2>2. \A c : ToSet(<<c>>) = {c}
    BY DEF ToSet
  <2>3. ToSet(work) = {} /\ \A c \in ToSet(work') : c.f # "poll"
    BY <1>1, <2>1, <2>2 DEF ToSet
  <2> QED
    BY <2>3 DEF PollLoops, Loops
<1>3. PollInv'
  BY <1>1, <1>2 DEF SleepInv, PollInv
<1> QED
  BY <1>1, <1>2, <1>3, QuietList DEF SleepInv

LEMMA SleepSleep == TypeOK /\ SleepInv /\ Sleep => SleepInv'
<1> SUFFICES ASSUME TypeOK, SleepInv, Sleep PROVE SleepInv'
  OBVIOUS
<1>1. /\ UNCHANGED <<head, next>> /\ UNCHANGED events /\ UNCHANGED <<polls, pollRequested>>
      /\ work = <<>> /\ work' = work
      /\ loop' = IF MaySleep THEN "asleep" ELSE "poll"
  BY DEF Sleep, kernel
<1>2. PollLoops = {} /\ PollLoops' = {}
  BY <1>1 DEF PollLoops, Loops, ToSet
<1>3. PollInv'
  BY <1>1, <1>2 DEF SleepInv, PollInv, MaySleep
<1> QED
  BY <1>1, <1>2, <1>3, QuietList DEF SleepInv

(* The loop goes on to the process linked next, and comes to an end only   *)
(* behind the timer process.                                               *)
LEMMA NextLinked ==
  ASSUME TypeOK, ListInv, NEW c \in PollLoops
  PROVE  /\ Following(c.p) # NULL => Following(c.p) \in Linked
         /\ Following(c.p) = NULL => c.p = ETimer
<1>1. c.p \in Linked \cup {START} /\ head \in Linked /\ NULL \notin Proc /\ START \notin Proc
  BY Constants DEF ListInv
<1>2. \A q \in Linked : q \in Proc /\ (next[q] = NULL => q = ETimer)
  BY Constants DEF Linked
<1> QED
  BY <1>1, <1>2 DEF ListInv, Following

LEMMA do_pollSleep == TypeOK /\ SleepInv /\ do_poll => SleepInv'
<1> SUFFICES ASSUME TypeOK, SleepInv, do_poll PROVE SleepInv'
  OBVIOUS
<1> DEFINE h == Head(work)
           p == Following(h.p)
           a == Frame("call", p, NULL, "poll")
           b == Frame("poll", p, NULL, "")
<1>1. /\ work # <<>> /\ h.f = "poll" /\ UNCHANGED <<head, next, pollRequested>>
      /\ UNCHANGED <<events, loop>>
      /\ \/ p = NULL /\ Become(<<>>) /\ UNCHANGED polls
         \/ p # NULL /\ polls' = polls \ {p} /\ Become(<<a, b>>)
         \/ p # NULL /\ p \notin polls /\ Become(<<b>>) /\ UNCHANGED polls
  BY DEF do_poll, In
<1>2. work \in Seq(Frames) /\ Tail(work) \in Seq(Frames)
      /\ ToSet(work) = {h} \cup ToSet(Tail(work)) /\ h \in PollLoops
  BY <1>1, FramesOf, HeadTailProperties DEF TypeOK, PollLoops, Loops
<1>3. p \in Proc \cup {NULL} /\ (p # NULL => p \in Linked) /\ (p = NULL => h.p = ETimer)
  BY <1>1, <1>2, NextLinked, Follows DEF SleepInv
<1> HIDE DEF p, h
<1>4. p # NULL => a \in Frames /\ b \in Frames
  BY <1>3, FrameType, FrameTypes
<1>5. a.f = "call" /\ b.f = "poll" /\ b.p = p
  BY DEF Frame
<1> HIDE DEF a, b
<1>6. CASE p = NULL
  <2>1. work' = <<>> \o Tail(work)
    BY <1>1, <1>6 DEF Become
  <2>2. work' = Tail(work)
    BY <1>2, <2>1, ConcatEmptySeq
  <2>3. PollLoops' = {c \in ToSet(Tail(work)) : c.f = "poll"}
    BY <2>2 DEF PollLoops, Loops
  <2>4. PollLoops = PollLoops' \cup {h}
    BY <1>1, <1>2, <2>3 DEF PollLoops, Loops
  <2>5. ListInv'
    BY <1>1, <2>4 DEF SleepInv, ListInv, Linked
  <2>6. PollInv'
    BY <1>1, <1>3, <1>6, <2>4 DEF SleepInv, PollInv
  <2> QED
    BY <2>5, <2>6 DEF SleepInv
<1>7. CASE p # NULL
  <2>1. ToSet(work') = {b} \cup ToSet(Tail(work)) \/ ToSet(work') = {a, b} \cup ToSet(Tail(work))
    <3>1. /\ <<b>> \in Seq(Frames) /\ <<a, b>> \in Seq(Frames)
          /\ ToSet(<<b>>) = {b} /\ ToSet(<<a, b>>) = {a, b}
      <4>1. a \in Frames /\ b \in Frames
        BY <1>4, <1>7
      <4> HIDE DEF a, b
      <4>2. <<b>> \in Seq(Frames) /\ <<a, b>> \in Seq(Frames)
        BY <4>1, Sizes
      <4>3. ToSet(<<b>>) = {b} /\ ToSet(<<a, b>>) = {a, b}
        BY <4>1, SetsOf
      <4> QED
        BY <4>2, <4>3
    <3>2. work' = <<b>> \o Tail(work) \/ work' = <<a, b>> \o Tail(work)
      BY <1>1, <1>7 DEF Become
    <3>3. /\ ToSet(<<b>> \o Tail(work)) = {b} \cup ToSet(Tail(work))
          /\ ToSet(<<a, b>> \o Tail(work)) = {a, b} \cup ToSet(Tail(work))
      <4>1. ToSet(<<b>> \o Tail(work)) = ToSet(<<b>>) \cup ToSet(Tail(work))
        BY <1>2, <3>1, FramesJoined
      <4>2. ToSet(<<a, b>> \o Tail(work)) = ToSet(<<a, b>>) \cup ToSet(Tail(work))
        BY <1>2, <3>1, FramesJoined
      <4> QED
        BY <3>1, <4>1, <4>2
    <3> QED
      BY <3>2, <3>3
  <2>2. PollLoops' = {b} \cup {c \in ToSet(Tail(work)) : c.f = "poll"}
    BY <1>5, <2>1 DEF PollLoops, Loops
  <2>3. PollLoops = {h} \cup {c \in ToSet(Tail(work)) : c.f = "poll"}
    BY <1>1, <1>2 DEF PollLoops, Loops
  <2>4. ListInv'
    BY <1>1, <1>3, <1>5, <1>7, <2>2, <2>3 DEF SleepInv, ListInv, Linked
  <2>5. polls' \subseteq polls /\ (ETimer \notin polls' \/ p # ETimer)
    BY <1>1, <1>7
  <2>6. PollInv'
    <3>1. polls' \subseteq polls /\ pollRequested' = pollRequested /\ loop' = loop
          /\ loop # "asleep" /\ (ETimer \in polls' => p # ETimer)
      BY <1>1, <1>7 DEF SleepInv, PollInv
    <3> QED
      BY <1>5, <2>2, <3>1 DEF SleepInv, PollInv
  <2> QED
    BY <2>4, <2>6 DEF SleepInv
<1> QED
  BY <1>6, <1>7

LEMMA BroadcastSleep == TypeOK /\ SleepInv /\ Broadcast => SleepInv'
<1> SUFFICES ASSUME TypeOK, SleepInv, Broadcast PROVE SleepInv'
  OBVIOUS
<1> DEFINE c == Head(work)
           p == Following(c.p)
           a == Frame("poll", START, NULL, "")
           b == Frame("call", p, c.q, c.ev)
           d == [c EXCEPT !.p = p]
<1>1. /\ work # <<>> /\ c.f = "cast" /\ UNCHANGED <<head, next>> /\ polls' = polls
      /\ loop' = loop
      /\ \/ p = NULL /\ Become(<<>>) /\ UNCHANGED pollRequested
         \/ /\ p # NULL /\ pollRequested' = FALSE
            /\ Become((IF pollRequested THEN <<a>> ELSE <<>>) \o <<b, d>>)
  BY DEF Broadcast, In, kernel
<1>2. p \in Proc \cup {NULL} /\ c \in Frames /\ work \in Seq(Frames)
  BY <1>1, Follows, Innermost DEF TypeOK
<1>3. a \in Frames /\ (p # NULL => b \in Frames /\ d \in Frames)
  <2> HIDE DEF p, c
  <2>1. a \in Frames
    BY FrameType, FrameTypes
  <2>2. c.q \in Proc \cup {NULL} /\ c.ev \in Told
    BY <1>2 DEF Frames
  <2>3. p # NULL => b \in Frames
    BY <1>2, <2>2, FrameType, FrameTypes
  <2>4. p # NULL => d \in Frames
    BY <1>2 DEF Frames
  <2> QED
    BY <2>1, <2>3, <2>4
<1>4. a.f = "poll" /\ a.p = START /\ b.f = "call" /\ START # ETimer
  BY Constants DEF Frame
<1>5. d.f = "cast"
  <2> HIDE DEF p, c
  <2> QED
    BY <1>1, <1>2 DEF Frames
<1> HIDE DEF a, b, c, d, p
<1>6. CASE p = NULL \/ ~pollRequested
  <2>1. Become(<<>>) \/ (p # NULL /\ Become(<<b, d>>))
    BY <1>1, <1>3, <1>6, Joined
  <2>2. PollLoops' = PollLoops
    <3>1. CASE p = NULL
      <4>1. PICK e \in Frames : e.f # "poll"
        BY <1>2, <1>1
      <4>2. Become(<<>>)
        BY <2>1, <3>1
      <4> QED
        BY <1>1, <4>1, <4>2, LoopsStay DEF c
    <3>2. CASE p # NULL
      BY <1>1, <1>3, <1>4, <1>5, <2>1, <3>2, LoopsStay DEF c
    <3> QED
      BY <3>1, <3>2
  <2>3. pollRequested' = pollRequested
    BY <1>1, <1>6 DEF TypeOK
  <2> QED
    BY <1>1, <2>2, <2>3, QuietList, QuietPoll DEF SleepInv
<1>7. CASE p # NULL /\ pollRequested
  <2>1. work' = <<a, b, d>> \o Tail(work)
    BY <1>1, <1>3, <1>7, Joined DEF Become
  <2>2. Tail(work) \in Seq(Frames) /\ ToSet(work) = {c} \cup ToSet(Tail(work))
    BY <1>1, <1>2, FramesOf, HeadTailProperties DEF c
  <2>3. ToSet(work') = {a, b, d} \cup ToSet(Tail(work))
    <3>1. <<a, b, d>> \in Seq(Frames) /\ ToSet(<<a, b, d>>) = {a, b, d}
      <4>1. a \in Frames /\ b \in Frames /\ d \in Frames
        BY <1>3, <1>7
      <4> HIDE DEF a, b, d
      <4>2. <<a, b, d>> \in Seq(Frames)
        BY <4>1, Sizes
      <4>3. ToSet(<<a, b, d>>) = {a, b, d}
        <5>1. /\ DOMAIN <<a, b, d>> = {1, 2, 3}
              /\ <<a, b, d>>[1] = a /\ <<a, b, d>>[2] = b /\ <<a, b, d>>[3] = d
          OBVIOUS
        <5> QED
          BY <5>1 DEF ToSet
      <4> QED
        BY <4>2, <4>3
    <3> QED
      BY <2>1, <2>2, <3>1, FramesJoined
  <2>4. PollLoops' = PollLoops \cup {a}
    BY <1>1, <1>4, <1>5, <2>2, <2>3 DEF PollLoops, Loops
  <2>5. ListInv'
    BY <1>1, <1>4, <2>4 DEF SleepInv, ListInv, Linked
  <2>6. PollInv'
    BY <1>1, <1>4, <1>7, <2>4 DEF SleepInv, PollInv
  <2> QED
    BY <2>5, <2>6 DEF SleepInv
<1> QED
  BY <1>6, <1>7

LEMMA call_processSleep == TypeOK /\ SleepInv /\ call_process => SleepInv'
<1> SUFFICES ASSUME TypeOK, SleepInv, call_process PROVE SleepInv'
  OBVIOUS
<1> DEFINE c == Head(work)
           a == [c EXCEPT !.f = "run"]
<1>1. /\ work # <<>> /\ c.f = "call" /\ UNCHANGED <<head, next>> /\ loop' = loop
      /\ UNCHANGED <<polls, pollRequested>> /\ (Become(<<a>>) \/ Become(<<>>))
  BY DEF call_process, In
<1>2. a \in Frames /\ a.f = "run"
  <2>1. c \in Frames
    BY <1>1, Innermost
  <2> HIDE DEF c
  <2> QED
    BY <1>1, <2>1, FrameTypes DEF Frames
<1> HIDE DEF a
<1>3. PollLoops' = PollLoops
  BY <1>1, <1>2, LoopsStay
<1> QED
  BY <1>1, <1>3, QuietList, QuietPoll DEF SleepInv

LEMMA ExitTellsSleep == TypeOK /\ SleepInv /\ ExitTells => SleepInv'
<1> SUFFICES ASSUME TypeOK, SleepInv, ExitTells PROVE SleepInv'
  OBVIOUS
<1> DEFINE c == Head(work)
           q == Following(c.p)
           a == Frame("call", q, c.q, "exited")
           b == Frame("exit", q, c.q, "")
<1>1. /\ work # <<>> /\ c.f = "exit" /\ UNCHANGED <<head, next>> /\ loop' = loop
      /\ UNCHANGED <<polls, pollRequested>>
      /\ q # NULL /\ Become((IF q = c.q THEN <<>> ELSE <<a>>) \o <<b>>)
  BY DEF ExitTells, In, kernel
<1>2. q \in Proc /\ c.q \in Process
  BY <1>1, Follows, Innermost
<1>3. a \in Frames /\ b \in Frames
  <2> HIDE DEF c, q
  <2>1. c.q \in Proc \cup {NULL}
    BY <1>2, Constants
  <2>2. a \in Frames
    BY <1>2, <2>1, FrameType, FrameTypes
  <2>3. b \in Frames
    BY <1>2, <2>1, FrameType, FrameTypes
  <2> QED
    BY <2>2, <2>3
<1>4. a.f = "call" /\ b.f = "exit"
  BY DEF Frame
<1> HIDE DEF a, b, q
<1>5. Become(<<a, b>>) \/ Become(<<b>>)
  BY <1>1, <1>3, Joined
<1>6. PollLoops' = PollLoops
  BY <1>1, <1>3, <1>4, <1>5, LoopsStay
<1> QED
  BY <1>1, <1>6, QuietList, QuietPoll DEF SleepInv

LEMMA Returns ==
  ASSUME TypeOK, work # <<>>, Head(work).f # "poll", Become(<<>>)
  PROVE  PollLoops' = PollLoops
BY Innermost, LoopsStay

LEMMA ExitUnlinksSleep == TypeOK /\ SleepInv /\ ExitUnlinks => SleepInv'
<1> SUFFICES ASSUME TypeOK, SleepInv, ExitUnlinks PROVE SleepInv'
  OBVIOUS
<1>1. /\ work # <<>> /\ Head(work).f = "exit" /\ Unlink(Head(work).q) /\ Become(<<>>)
      /\ loop' = loop /\ UNCHANGED <<polls, pollRequested>> /\ Head(work).q \in Process
  BY Innermost DEF ExitUnlinks, In
<1>2. PollLoops' = PollLoops
  BY <1>1, Returns
<1> QED
  BY <1>1, <1>2, ListUnlink, QuietPoll DEF SleepInv

(* Handlers that change neither the list nor polls, but for a poll of the  *)
(* timer process.                                                          *)
LEMMA HandlerSleep ==
  ASSUME TypeOK, SleepInv, work # <<>>, Head(work).f # "poll", UNCHANGED <<head, next, loop>>,
         UNCHANGED <<polls, pollRequested>> \/ process_poll(ETimer),
         NEW p \in Process,
         Become(<<>>) \/ Become(Returning(p)) \/ work' = work
  PROVE  SleepInv'
<1> DEFINE a == Frame("return", p, NULL, "")
<1>1. a \in Frames
  BY FrameType, FrameTypes, Constants
<1>2. a.f = "return" /\ Returning(p) = <<a>>
  BY DEF Frame, Returning
<1> HIDE DEF a
<1>3. PollLoops' = PollLoops
  BY <1>1, <1>2, LoopsStay DEF PollLoops
<1> QED
  BY <1>3, QuietList, QuietPoll DEF SleepInv

LEMMA SystemSleep ==
  TypeOK /\ SleepInv /\ (RadioHandler \/ TimerExited \/ TimerPolled) => SleepInv'
<1> SUFFICES ASSUME TypeOK, SleepInv, RadioHandler \/ TimerExited \/ TimerPolled
             PROVE  SleepInv'
  OBVIOUS
<1>1. /\ work # <<>> /\ Head(work).f = "run" /\ UNCHANGED <<head, next>> /\ UNCHANGED loop
      /\ UNCHANGED <<polls, pollRequested>> \/ process_poll(ETimer)
      /\ Become(<<>>) \/ work' = work
  BY DEF RadioHandler, TimerExited, TimerPolled, Announce, In, Yield, etimer_request_poll
<1>2. PollLoops' = PollLoops
  BY <1>1, Returns DEF PollLoops
<1> QED
  BY <1>1, <1>2, QuietList, QuietPoll DEF SleepInv

LEMMA QuietHandlerSleep ==
  ASSUME NEW p \in Process
  PROVE  TypeOK /\ SleepInv /\ (Return(p) \/ etimer_set(p) \/ etimer_stop(p) \/ Post(p)) => SleepInv'
<1> SUFFICES ASSUME TypeOK, SleepInv, Return(p) \/ etimer_set(p) \/ etimer_stop(p) \/ Post(p)
             PROVE  SleepInv'
  OBVIOUS
<1>1. /\ work # <<>> /\ Head(work).f # "poll" /\ UNCHANGED <<head, next, loop>>
      /\ UNCHANGED <<polls, pollRequested>> \/ process_poll(ETimer)
      /\ Become(<<>>) \/ Become(Returning(p))
  BY DEF Return, etimer_set, etimer_stop, Post, Ending, Handling, At, Yield, kernel,
         etimer_request_poll
<1> QED
  BY <1>1, HandlerSleep

LEMMA ListHandlerSleep ==
  ASSUME NEW p \in Process
  PROVE  TypeOK /\ SleepInv /\ (Exit(p) \/ ExitOther(p) \/ Start(p)) => SleepInv'
<1> SUFFICES ASSUME TypeOK, SleepInv, Exit(p) \/ ExitOther(p) \/ Start(p) PROVE SleepInv'
  OBVIOUS
<1> DEFINE r == Frame("restart", p, NULL, "")
           t == Frame("return", p, NULL, "")
<1>1. /\ work # <<>> /\ Head(work).f # "poll" /\ loop' = loop
      /\ UNCHANGED <<polls, pollRequested>>
      /\ \E q \in Process : \/ exit_process(q, Tail(work))
                            \/ exit_process(q, <<r>> \o Tail(work))
                            \/ process_start(q, <<t>> \o Tail(work))
  BY DEF Exit, ExitOther, Start, Ending, Handling, At, Returning
<1>2. r \in Frames /\ t \in Frames
  <2>1. r \in Frames
    BY FrameType, FrameTypes, Constants
  <2>2. t \in Frames
    BY FrameType, FrameTypes, Constants
  <2> QED
    BY <2>1, <2>2
<1>3. r.f = "restart" /\ t.f = "return"
  BY DEF Frame
<1> HIDE DEF r, t
<1>4. Tail(work) \in Seq(Frames) /\ Loops(Tail(work)) = PollLoops
  BY <1>1, LoopsTail DEF TypeOK, PollLoops
<1>5. /\ <<r>> \o Tail(work) \in Seq(Frames) /\ Loops(<<r>> \o Tail(work)) = PollLoops
      /\ <<t>> \o Tail(work) \in Seq(Frames) /\ Loops(<<t>> \o Tail(work)) = PollLoops
  BY <1>2, <1>3, <1>4, LoopsPush
<1>6. ListInv' /\ PollLoops' = PollLoops
  BY <1>1, <1>4, <1>5, StartSleep, ExitSleep DEF SleepInv
<1> QED
  BY <1>1, <1>6, QuietPoll DEF SleepInv

LEMMA StepSleep == TypeOK /\ SleepInv /\ [Next]_vars => SleepInv'
<1>1. TypeOK /\ SleepInv /\ UNCHANGED vars => SleepInv'
  BY DEF SleepInv, ListInv, PollInv, Linked, PollLoops, vars, kernel
<1>2. ASSUME NEW p \in Process
      PROVE  TypeOK /\ SleepInv /\ (\/ Return(p) \/ Exit(p) \/ etimer_set(p) \/ etimer_stop(p)
                                    \/ Post(p) \/ Start(p) \/ ExitOther(p)) => SleepInv'
  BY QuietHandlerSleep, ListHandlerSleep
<1> QED
  BY <1>1, <1>2, BootSleep, RunPollSleep, do_eventSleep, SleepSleep, do_pollSleep,
     BroadcastSleep, call_processSleep, ExitTellsSleep, ExitUnlinksSleep, SystemSleep,
     TickSleep, RadioInterruptSleep
  DEF Next, Main

(* The CPU never sleeps over an event or a poll of the timer process, how- *)
(* ever interrupts fall and whatever handlers do to the list of processes  *)
(* while do_poll() goes through it (protosched.c:66).                      *)
THEOREM NothingIsSleptOver == Spec => []SleepsOnlyIdle
<1>1. SleepInv => SleepsOnlyIdle
  BY DEF SleepInv, PollInv, SleepsOnlyIdle
<1> QED
  BY <1>1, InitType, StepType, InitSleep, StepSleep, PTL DEF Spec
-----------------------------------------------------------------------------
(* The calls: a process has one call at a time, the processes that run are *)
(* in the list, an exit leaves neither the process in the list nor its     *)
(* timer behind.                                                           *)

(* A frame of F is nowhere in the call stack w, or in one place.           *)
Absent(w, F) == \A i \in DOMAIN w : w[i] \notin F
Once(w, F)   == \E i \in DOMAIN w : w[i] \in F /\ \A j \in DOMAIN w : w[j] \in F => j = i

Handlers      == {"run", "return", "restart"}
HandlersOf(p) == {c \in Frames : c.f \in Handlers /\ c.p = p}
ExitsOf(p)    == {c \in Frames : c.f = "exit" /\ c.q = p}

OneInv ==
  \A p \in Proc \ twice : IF state[p] = "called" THEN Once(work, HandlersOf(p))
                          ELSE Absent(work, HandlersOf(p))
HeldInv ==
  /\ \A p \in Proc \ twice : state[p] # "none" => p \in Listed
  /\ state[Radio] # "none" /\ state[ETimer] # "none"
ExitInv ==
  \A p \in Process \ twice :
    \/ Absent(work, ExitsOf(p))
    \/ Once(work, ExitsOf(p)) /\ state[p] = "none" /\ p \in Listed

(* Loops that poll, and loops over an event for all, have no handlers      *)
(* below them in the stack.                                                *)
Lower(w)      == \A i \in DOMAIN w : w[i].f \in {"call", "cast"}
LoopsBelow(w) == \A i, j \in DOMAIN w :
  i < j /\ w[i].f \in {"poll", "cast"} => w[j].f \in {"call", "cast"}

CallInv == OneInv /\ HeldInv /\ ExitInv /\ LoopsBelow(work)
-----------------------------------------------------------------------------
(* Frames that come and go.                                                *)
LEMMA Stacked ==
  ASSUME NEW s \in Seq(Frames), NEW t \in Seq(Frames)
  PROVE  /\ DOMAIN s = 1..Len(s) /\ DOMAIN t = 1..Len(t) /\ Len(s) \in Nat /\ Len(t) \in Nat
         /\ s \o t \in Seq(Frames) /\ DOMAIN (s \o t) = 1..(Len(s) + Len(t))
         /\ \A i \in 1..Len(s) : (s \o t)[i] = s[i]
         /\ \A i \in 1..Len(t) : (s \o t)[Len(s) + i] = t[i]
         /\ \A i \in DOMAIN (s \o t) : \/ i \in 1..Len(s)
                                       \/ \E j \in 1..Len(t) : i = Len(s) + j
<1>1. /\ DOMAIN s = 1..Len(s) /\ DOMAIN t = 1..Len(t) /\ Len(s) \in Nat /\ Len(t) \in Nat
      /\ s \o t \in Seq(Frames) /\ Len(s \o t) = Len(s) + Len(t)
      /\ DOMAIN (s \o t) = 1..(Len(s) + Len(t))
      /\ \A i \in 1..(Len(s) + Len(t)) :
            (s \o t)[i] = IF i <= Len(s) THEN s[i] ELSE t[i - Len(s)]
  BY LenProperties, ConcatProperties
<1>2. \A i \in 1..Len(s) : (s \o t)[i] = s[i]
  BY <1>1
<1>3. \A i \in 1..Len(t) : (s \o t)[Len(s) + i] = t[i]
  <2> TAKE i \in 1..Len(t)
  <2>1. Len(s) + i \in 1..(Len(s) + Len(t)) /\ ~(Len(s) + i <= Len(s)) /\ (Len(s) + i) - Len(s) = i
    BY <1>1
  <2> QED
    BY <1>1, <2>1
<1>4. \A i \in DOMAIN (s \o t) : i \in 1..Len(s) \/ \E j \in 1..Len(t) : i = Len(s) + j
  <2> SUFFICES ASSUME NEW i \in 1..(Len(s) + Len(t)), i \notin 1..Len(s)
               PROVE  \E j \in 1..Len(t) : i = Len(s) + j
    BY <1>1
  <2>1. i - Len(s) \in 1..Len(t) /\ i = Len(s) + (i - Len(s))
    BY <1>1
  <2> QED
    BY <2>1
<1> QED
  BY <1>1, <1>2, <1>3, <1>4

LEMMA Pushing ==
  ASSUME NEW s \in Seq(Frames), NEW t \in Seq(Frames), NEW F
  PROVE  /\ Absent(s, F) /\ Absent(t, F) => Absent(s \o t, F)
         /\ Absent(s, F) /\ Once(t, F) => Once(s \o t, F)
         /\ Once(s, F) /\ Absent(t, F) => Once(s \o t, F)
<1>1. Absent(s, F) /\ Absent(t, F) => Absent(s \o t, F)
  BY Stacked DEF Absent
<1>2. ASSUME Absent(s, F), Once(t, F) PROVE Once(s \o t, F)
  <2>1. PICK k \in 1..Len(t) : t[k] \in F /\ \A j \in 1..Len(t) : t[j] \in F => j = k
    BY <1>2, LenProperties DEF Once
  <2>2. Len(s) + k \in DOMAIN (s \o t) /\ (s \o t)[Len(s) + k] \in F
    BY <2>1, Stacked
  <2>3. ASSUME NEW j \in DOMAIN (s \o t), (s \o t)[j] \in F PROVE j = Len(s) + k
    <3>1. j \notin 1..Len(s)
      BY <1>2, <2>3, Stacked DEF Absent
    <3>2. PICK i \in 1..Len(t) : j = Len(s) + i
      BY <3>1, Stacked
    <3>3. (s \o t)[j] = t[i]
      BY <3>2, Stacked
    <3> QED
      BY <2>1, <2>3, <3>2, <3>3
  <2> QED
    BY <2>2, <2>3 DEF Once
<1>3. ASSUME Once(s, F), Absent(t, F) PROVE Once(s \o t, F)
  <2>1. PICK k \in 1..Len(s) : s[k] \in F /\ \A j \in 1..Len(s) : s[j] \in F => j = k
    BY <1>3, LenProperties DEF Once
  <2>2. k \in DOMAIN (s \o t) /\ (s \o t)[k] \in F
    BY <2>1, Stacked
  <2>3. ASSUME NEW j \in DOMAIN (s \o t), (s \o t)[j] \in F PROVE j = k
    <3>1. j \in 1..Len(s)
      BY <1>3, <2>3, Stacked DEF Absent
    <3> QED
      BY <2>1, <2>3, <3>1, Stacked
  <2> QED
    BY <2>2, <2>3 DEF Once
<1> QED
  BY <1>1, <1>2, <1>3

LEMMA Popping ==
  ASSUME NEW s \in Seq(Frames), s # <<>>, NEW F
  PROVE  /\ Tail(s) \in Seq(Frames)
         /\ Absent(s, F) => Head(s) \notin F /\ Absent(Tail(s), F)
         /\ Once(s, F) => IF Head(s) \in F THEN Absent(Tail(s), F) ELSE Once(Tail(s), F)
<1>1. /\ Tail(s) \in Seq(Frames) /\ Len(Tail(s)) = Len(s) - 1 /\ Len(s) \in Nat \ {0}
      /\ DOMAIN s = 1..Len(s) /\ DOMAIN Tail(s) = 1..(Len(s) - 1) /\ Head(s) = s[1]
      /\ \A i \in 1..(Len(s) - 1) : Tail(s)[i] = s[i + 1]
  BY HeadTailProperties, EmptySeq, LenProperties
<1>2. ASSUME Absent(s, F) PROVE Head(s) \notin F /\ Absent(Tail(s), F)
  BY <1>1, <1>2 DEF Absent
<1>3. ASSUME Once(s, F) PROVE IF Head(s) \in F THEN Absent(Tail(s), F) ELSE Once(Tail(s), F)
  <2>1. PICK k \in 1..Len(s) : s[k] \in F /\ \A j \in 1..Len(s) : s[j] \in F => j = k
    BY <1>1, <1>3 DEF Once
  <2>2. \A i \in DOMAIN Tail(s) : i + 1 \in 1..Len(s) /\ i + 1 # 1 /\ Tail(s)[i] = s[i + 1]
    BY <1>1
  <2>3. CASE k = 1
    BY <1>1, <2>1, <2>2, <2>3 DEF Absent
  <2>4. CASE k # 1
    <3>1. Head(s) \notin F
      BY <1>1, <2>1, <2>4
    <3>2. k - 1 \in DOMAIN Tail(s) /\ Tail(s)[k - 1] = s[k]
      BY <1>1, <2>1, <2>4
    <3>3. \A j \in DOMAIN Tail(s) : Tail(s)[j] \in F => j = k - 1
      BY <1>1, <2>1, <2>2
    <3> QED
      BY <2>1, <3>1, <3>2, <3>3 DEF Once
  <2> QED
    BY <2>3, <2>4
<1> QED
  BY <1>1, <1>2, <1>3

LEMMA Short ==
  ASSUME NEW a \in Frames, NEW b \in Frames, NEW F
  PROVE  /\ Absent(<<>>, F)
         /\ IF a \in F THEN Once(<<a>>, F) ELSE Absent(<<a>>, F)
         /\ a \notin F /\ b \notin F => Absent(<<a, b>>, F)
         /\ a \in F /\ b \notin F => Once(<<a, b>>, F)
         /\ a \notin F /\ b \in F => Once(<<a, b>>, F)
<1>1. Absent(<<>>, F)
  BY DEF Absent
<1>2. IF a \in F THEN Once(<<a>>, F) ELSE Absent(<<a>>, F)
  <2>1. DOMAIN <<a>> = {1} /\ <<a>>[1] = a
    OBVIOUS
  <2> QED
    BY <2>1 DEF Absent, Once
<1>3. DOMAIN <<a, b>> = {1, 2} /\ <<a, b>>[1] = a /\ <<a, b>>[2] = b
  OBVIOUS
<1>4. a \notin F /\ b \notin F => Absent(<<a, b>>, F)
  BY <1>3 DEF Absent
<1>5. a \in F /\ b \notin F => Once(<<a, b>>, F)
  BY <1>3 DEF Once
<1>6. a \notin F /\ b \in F => Once(<<a, b>>, F)
  BY <1>3 DEF Once
<1> QED
  BY <1>1, <1>2, <1>4, <1>5, <1>6

LEMMA Short3 ==
  ASSUME NEW a \in Frames, NEW b \in Frames, NEW c \in Frames, NEW F,
         a \notin F, b \notin F, c \notin F
  PROVE  Absent(<<a, b, c>>, F)
<1>1. /\ DOMAIN <<a, b, c>> = {1, 2, 3}
      /\ <<a, b, c>>[1] = a /\ <<a, b, c>>[2] = b /\ <<a, b, c>>[3] = c
  OBVIOUS
<1> QED
  BY <1>1 DEF Absent

(* The innermost call of w gives way to the calls fs.                      *)
LEMMA Swapped ==
  ASSUME NEW w \in Seq(Frames), w # <<>>, NEW fs \in Seq(Frames), NEW F
  PROVE  /\ Head(w) \notin F /\ Absent(fs, F) /\ Absent(w, F) => Absent(fs \o Tail(w), F)
         /\ Head(w) \notin F /\ Absent(fs, F) /\ Once(w, F) => Once(fs \o Tail(w), F)
         /\ Head(w) \in F /\ Once(fs, F) /\ Once(w, F) => Once(fs \o Tail(w), F)
         /\ Head(w) \in F /\ Absent(fs, F) /\ Once(w, F) => Absent(fs \o Tail(w), F)
         /\ Absent(w, F) /\ Once(fs, F) => Once(fs \o Tail(w), F)
         /\ Absent(w, F) => Head(w) \notin F
<1>1. /\ Tail(w) \in Seq(Frames)
      /\ Absent(w, F) => Head(w) \notin F /\ Absent(Tail(w), F)
      /\ Once(w, F) => IF Head(w) \in F THEN Absent(Tail(w), F) ELSE Once(Tail(w), F)
  BY Popping
<1>2. /\ Absent(fs, F) /\ Absent(Tail(w), F) => Absent(fs \o Tail(w), F)
      /\ Absent(fs, F) /\ Once(Tail(w), F) => Once(fs \o Tail(w), F)
      /\ Once(fs, F) /\ Absent(Tail(w), F) => Once(fs \o Tail(w), F)
  BY <1>1, Pushing
<1> QED
  BY <1>1, <1>2

LEMMA BelowShort ==
  ASSUME NEW a \in Frames, NEW b \in Frames, NEW c \in Frames
  PROVE  /\ LoopsBelow(<<>>) /\ LoopsBelow(<<a>>)
         /\ a.f \notin {"poll", "cast"} \/ b.f \in {"call", "cast"} => LoopsBelow(<<a, b>>)
         /\ b.f \in {"call", "cast"} /\ c.f \in {"call", "cast"} => LoopsBelow(<<a, b, c>>)
<1>1. LoopsBelow(<<>>) /\ LoopsBelow(<<a>>)
  <2>1. DOMAIN <<a>> = {1}
    OBVIOUS
  <2>2. \A i, j \in {1} : ~(i < j)
    OBVIOUS
  <2> QED
    BY <2>1, <2>2 DEF LoopsBelow
<1>2. a.f \notin {"poll", "cast"} \/ b.f \in {"call", "cast"} => LoopsBelow(<<a, b>>)
  <2>1. DOMAIN <<a, b>> = {1, 2} /\ <<a, b>>[1] = a /\ <<a, b>>[2] = b
    OBVIOUS
  <2>2. \A i, j \in {1, 2} : i < j => i = 1 /\ j = 2
    OBVIOUS
  <2> QED
    BY <2>1, <2>2 DEF LoopsBelow
<1>3. b.f \in {"call", "cast"} /\ c.f \in {"call", "cast"} => LoopsBelow(<<a, b, c>>)
  <2>1. /\ DOMAIN <<a, b, c>> = {1, 2, 3}
        /\ <<a, b, c>>[1] = a /\ <<a, b, c>>[2] = b /\ <<a, b, c>>[3] = c
    OBVIOUS
  <2>2. \A i, j \in {1, 2, 3} : i < j => j \in {2, 3}
    OBVIOUS
  <2> QED
    BY <2>1, <2>2 DEF LoopsBelow
<1> QED
  BY <1>1, <1>2, <1>3

LEMMA BelowTail ==
  ASSUME NEW w \in Seq(Frames), w # <<>>, LoopsBelow(w)
  PROVE  /\ LoopsBelow(Tail(w))
         /\ Head(w).f \in {"poll", "cast"} => Lower(Tail(w))
<1>1. /\ Len(Tail(w)) = Len(w) - 1 /\ Len(w) \in Nat \ {0}
      /\ DOMAIN w = 1..Len(w) /\ DOMAIN Tail(w) = 1..(Len(w) - 1) /\ Head(w) = w[1]
      /\ \A i \in 1..(Len(w) - 1) : Tail(w)[i] = w[i + 1]
  BY HeadTailProperties, EmptySeq, LenProperties
<1>2. \A i \in DOMAIN Tail(w) : /\ i + 1 \in DOMAIN w /\ Tail(w)[i] = w[i + 1]
                                /\ 1 \in DOMAIN w /\ 1 < i + 1
  BY <1>1
<1>3. \A i, j \in DOMAIN Tail(w) : i < j => i + 1 < j + 1
  BY <1>1
<1> QED
  BY <1>1, <1>2, <1>3 DEF LoopsBelow, Lower

LEMMA BelowPush ==
  ASSUME NEW s \in Seq(Frames), NEW t \in Seq(Frames), LoopsBelow(s), LoopsBelow(t),
         Lower(t) \/ \A i \in DOMAIN s : s[i].f \notin {"poll", "cast"}
  PROVE  LoopsBelow(s \o t)
<1> SUFFICES ASSUME NEW i \in DOMAIN (s \o t), NEW j \in DOMAIN (s \o t), i < j,
                    (s \o t)[i].f \in {"poll", "cast"}
             PROVE  (s \o t)[j].f \in {"call", "cast"}
  BY DEF LoopsBelow
<1>1. /\ DOMAIN s = 1..Len(s) /\ DOMAIN t = 1..Len(t) /\ Len(s) \in Nat /\ Len(t) \in Nat
      /\ \A k \in 1..Len(s) : (s \o t)[k] = s[k]
      /\ \A k \in 1..Len(t) : (s \o t)[Len(s) + k] = t[k]
      /\ i \in 1..Len(s) \/ \E k \in 1..Len(t) : i = Len(s) + k
      /\ j \in 1..Len(s) \/ \E k \in 1..Len(t) : j = Len(s) + k
  BY Stacked
<1>2. CASE j \in 1..Len(s)
  <2>1. i \in 1..Len(s)
    BY <1>1, <1>2
  <2> QED
    BY <1>1, <1>2, <2>1 DEF LoopsBelow
<1>3. ASSUME NEW k \in 1..Len(t), j = Len(s) + k PROVE (s \o t)[j].f \in {"call", "cast"}
  <2>1. (s \o t)[j] = t[k] /\ k \in DOMAIN t
    BY <1>1, <1>3
  <2>2. CASE i \in 1..Len(s)
    BY <1>1, <2>1, <2>2 DEF Lower
  <2>3. ASSUME NEW n \in 1..Len(t), i = Len(s) + n PROVE t[k].f \in {"call", "cast"}
    <3>1. n < k /\ t[n].f \in {"poll", "cast"} /\ n \in DOMAIN t
      BY <1>1, <1>3, <2>3
    <3> QED
      BY <2>1, <3>1 DEF LoopsBelow
  <2> QED
    BY <1>1, <2>1, <2>2, <2>3
<1> QED
  BY <1>1, <1>2, <1>3
-----------------------------------------------------------------------------
(* The list of processes.                                                  *)
LEMMA ReachLeast ==
  ASSUME TypeOK, NEW x \in Proc \cup {NULL}
  PROVE  /\ Reach(x) \subseteq Proc \cup {NULL} /\ x \in Reach(x) /\ Closed(Reach(x))
         /\ \A S \in SUBSET (Proc \cup {NULL}) : x \in S /\ Closed(S) => Reach(x) \subseteq S
<1>1. next \in [Proc -> Proc \cup {NULL}]
  BY DEF TypeOK
<1>2. /\ Reach(x) \subseteq Proc \cup {NULL} /\ x \in Reach(x)
      /\ \A S \in SUBSET (Proc \cup {NULL}) : x \in S /\ Closed(S) => Reach(x) \subseteq S
  BY DEF Reach
<1>3. ASSUME NEW y \in Reach(x), y # NULL PROVE next[y] \in Reach(x)
  <2>1. next[y] \in Proc \cup {NULL}
    BY <1>1, <1>2, <1>3
  <2>2. ASSUME NEW S \in SUBSET (Proc \cup {NULL}), x \in S, Closed(S) PROVE next[y] \in S
    <3>1. y \in S
      BY <1>2, <2>2
    <3> QED
      BY <1>3, <2>2, <3>1 DEF Closed
  <2> QED
    BY <2>1, <2>2 DEF Reach
<1> QED
  BY <1>2, <1>3 DEF Closed

LEMMA ListedStays == ASSUME UNCHANGED <<head, next>> PROVE Listed' = Listed
BY DEF Listed, Reach, Closed

LEMMA StartLists ==
  ASSUME TypeOK, NEW q \in Process, q \notin Listed,
         head' = q, next' = [next EXCEPT ![q] = head]
  PROVE  Listed \cup {q} \subseteq Listed'
<1>1. /\ next \in [Proc -> Proc \cup {NULL}] /\ head \in Proc \cup {NULL} /\ q \in Proc
      /\ q # NULL
  BY Constants DEF TypeOK
<1>2. \A x \in Proc : next'[x] = IF x = q THEN head ELSE next[x]
  BY <1>1
<1>3. /\ head \in Reach(head) /\ Closed(Reach(head)) /\ Reach(head) \subseteq Proc \cup {NULL}
      /\ \A S \in SUBSET (Proc \cup {NULL}) : head \in S /\ Closed(S) => Reach(head) \subseteq S
  BY <1>1, ReachLeast
<1>4. ASSUME NEW S \in SUBSET (Proc \cup {NULL}), head' \in S,
             \A p \in S \ {NULL} : next'[p] \in S
      PROVE  Reach(head) \subseteq S /\ q \in S
  <2> DEFINE T == S \cap Reach(head)
  <2>1. q \in S /\ head \in T
    BY <1>1, <1>2, <1>3, <1>4
  <2>2. ASSUME NEW x \in T \ {NULL} PROVE next[x] \in T
    <3>1. x # q /\ x \in Proc
      BY <1>1, <2>2 DEF Listed
    <3> QED
      BY <1>2, <1>3, <1>4, <2>2, <3>1 DEF Closed
  <2>3. T \in SUBSET (Proc \cup {NULL}) /\ Closed(T)
    BY <2>2 DEF Closed
  <2> QED
    BY <1>3, <2>1, <2>3
<1>5. Reach(head)' = {y \in Proc \cup {NULL} :
         \A S \in SUBSET (Proc \cup {NULL}) :
            head' \in S /\ (\A p \in S \ {NULL} : next'[p] \in S) => y \in S}
  BY DEF Reach, Closed
<1>6. Reach(head) \cup {q} \subseteq Reach(head)'
  BY <1>1, <1>3, <1>4, <1>5
<1> QED
  BY <1>1, <1>6 DEF Listed

LEMMA UnlinkLists ==
  ASSUME TypeOK, NEW q \in Process, Unlink(q)
  PROVE  Listed \ {q} \subseteq Listed'
<1>1. /\ next \in [Proc -> Proc \cup {NULL}] /\ head \in Proc \cup {NULL} /\ q \in Proc
      /\ q # NULL
  BY Constants DEF TypeOK
<1>2. /\ head' = IF q = head THEN next[q] ELSE head
      /\ \A x \in Proc : next'[x] = IF x \in Listed /\ next[x] = q THEN next[q] ELSE next[x]
  BY DEF Unlink
<1>3. /\ head \in Reach(head) /\ Closed(Reach(head)) /\ Reach(head) \subseteq Proc \cup {NULL}
      /\ \A S \in SUBSET (Proc \cup {NULL}) : head \in S /\ Closed(S) => Reach(head) \subseteq S
  BY <1>1, ReachLeast
<1>4. ASSUME NEW S \in SUBSET (Proc \cup {NULL}), head' \in S,
             \A p \in S \ {NULL} : next'[p] \in S
      PROVE  Reach(head) \subseteq S \cup {q}
  <2>1. CASE q = head \/ \E x \in S \cap Listed : next[x] = q
    <3>1. next[q] \in S
      BY <1>1, <1>2, <1>4, <2>1 DEF Listed
    <3>2. \A x \in (S \cup {q}) \ {NULL} : next[x] \in S \cup {q}
      BY <1>1, <1>2, <1>4, <3>1
    <3>3. head \in S \cup {q} /\ Closed(S \cup {q}) /\ S \cup {q} \in SUBSET (Proc \cup {NULL})
      BY <1>1, <1>2, <1>4, <3>2 DEF Closed
    <3> QED
      BY <1>3, <3>3
  <2>2. CASE q # head /\ ~\E x \in S \cap Listed : next[x] = q
    <3>1. \A x \in S \ {NULL} : next[x] \in S
      BY <1>1, <1>2, <1>4, <2>2
    <3>2. head \in S /\ Closed(S)
      BY <1>2, <1>4, <2>2, <3>1 DEF Closed
    <3> QED
      BY <1>3, <3>2
  <2> QED
    BY <2>1, <2>2
<1>5. Reach(head)' = {y \in Proc \cup {NULL} :
         \A S \in SUBSET (Proc \cup {NULL}) :
            head' \in S /\ (\A p \in S \ {NULL} : next'[p] \in S) => y \in S}
  BY DEF Reach, Closed
<1>6. Reach(head) \ {q} \subseteq Reach(head)'
  BY <1>1, <1>3, <1>4, <1>5
<1> QED
  BY <1>1, <1>6 DEF Listed
-----------------------------------------------------------------------------
(* What calls become when the innermost gives way to the calls fs.         *)
Keeps(w, v, F) == (Absent(w, F) => Absent(v, F)) /\ (Once(w, F) => Once(v, F))

LEMMA Kept ==
  ASSUME NEW w \in Seq(Frames), w # <<>>, NEW fs \in Seq(Frames), NEW F,
         IF Head(w) \in F THEN Once(fs, F) ELSE Absent(fs, F)
  PROVE  Keeps(w, fs \o Tail(w), F)
BY Swapped DEF Keeps

(* Only frames of handlers and of exits count.                             *)
LEMMA Neither ==
  ASSUME NEW c \in Frames, c.f \in {"poll", "cast", "call"}
  PROVE  /\ \A p \in Proc : c \notin HandlersOf(p)
         /\ \A p \in Process : c \notin ExitsOf(p)
BY DEF HandlersOf, ExitsOf, Handlers

LEMMA IsHandler ==
  ASSUME NEW c \in Frames, c.f \in Handlers, NEW p \in Proc
  PROVE  /\ c \in HandlersOf(p) <=> c.p = p
         /\ \A q \in Process : c \notin ExitsOf(q)
BY DEF HandlersOf, ExitsOf, Handlers

LEMMA IsExit ==
  ASSUME NEW c \in Frames, c.f = "exit", NEW q \in Process
  PROVE  /\ c \in ExitsOf(q) <=> c.q = q
         /\ \A p \in Proc : c \notin HandlersOf(p)
BY DEF HandlersOf, ExitsOf, Handlers

(* Everything but the call stack stays, and its handlers and exits too.    *)
LEMMA QuietCalls ==
  ASSUME CallInv, UNCHANGED <<head, next, state, twice>>, LoopsBelow(work'),
         \A p \in Proc : Keeps(work, work', HandlersOf(p)),
         \A p \in Process : Keeps(work, work', ExitsOf(p))
  PROVE  CallInv'
<1>1. OneInv'
  BY DEF CallInv, OneInv, Keeps, Absent, Once
<1>2. HeldInv'
  BY ListedStays DEF CallInv, HeldInv
<1>3. ExitInv'
  BY ListedStays DEF CallInv, ExitInv, Keeps, Absent, Once
<1> QED
  BY <1>1, <1>2, <1>3 DEF CallInv, LoopsBelow

LEMMA SwapCalls ==
  ASSUME TypeOK, CallInv, work # <<>>, NEW fs \in Seq(Frames), Become(fs), LoopsBelow(fs),
         Lower(Tail(work)) \/ \A i \in DOMAIN fs : fs[i].f \notin {"poll", "cast"},
         \A p \in Proc : IF Head(work) \in HandlersOf(p) THEN Once(fs, HandlersOf(p))
                         ELSE Absent(fs, HandlersOf(p)),
         \A p \in Process : IF Head(work) \in ExitsOf(p) THEN Once(fs, ExitsOf(p))
                            ELSE Absent(fs, ExitsOf(p))
  PROVE  /\ LoopsBelow(work')
         /\ \A p \in Proc : Keeps(work, work', HandlersOf(p))
         /\ \A p \in Process : Keeps(work, work', ExitsOf(p))
<1>1. work \in Seq(Frames) /\ Tail(work) \in Seq(Frames) /\ work' = fs \o Tail(work)
  BY Popping DEF TypeOK, Become
<1>2. LoopsBelow(work')
  BY <1>1, BelowTail, BelowPush DEF CallInv
<1>3. ASSUME NEW p \in Proc PROVE Keeps(work, work', HandlersOf(p))
  BY <1>1, Kept
<1>4. ASSUME NEW p \in Process PROVE Keeps(work, work', ExitsOf(p))
  BY <1>1, Kept
<1> QED
  BY <1>2, <1>3, <1>4
-----------------------------------------------------------------------------
(* Steps of loops and calls.                                               *)
Passing(fs) == \A i \in DOMAIN fs : fs[i].f \in {"poll", "cast", "call"}

LEMMA PassingAbsent ==
  ASSUME NEW fs \in Seq(Frames), Passing(fs)
  PROVE  /\ \A p \in Proc : Absent(fs, HandlersOf(p))
         /\ \A p \in Process : Absent(fs, ExitsOf(p))
<1>1. \A i \in DOMAIN fs : fs[i] \in Frames
  BY LenProperties, ElementOfSeq
<1> QED
  BY <1>1, Neither DEF Absent, Passing

LEMMA PassShort ==
  ASSUME NEW a \in Frames, a.f \in {"poll", "cast", "call"},
         NEW b \in Frames, b.f \in {"poll", "cast", "call"},
         NEW c \in Frames, c.f \in {"poll", "cast", "call"}
  PROVE  Passing(<<a>>) /\ Passing(<<a, b>>) /\ Passing(<<a, b, c>>)
<1>1. DOMAIN <<a>> = {1} /\ <<a>>[1] = a
  OBVIOUS
<1>2. DOMAIN <<a, b>> = {1, 2} /\ <<a, b>>[1] = a /\ <<a, b>>[2] = b
  OBVIOUS
<1>3. /\ DOMAIN <<a, b, c>> = {1, 2, 3}
      /\ <<a, b, c>>[1] = a /\ <<a, b, c>>[2] = b /\ <<a, b, c>>[3] = c
  OBVIOUS
<1>4. Passing(<<a>>)
  BY <1>1 DEF Passing
<1>5. Passing(<<a, b>>)
  BY <1>2 DEF Passing
<1>6. Passing(<<a, b, c>>)
  BY <1>3 DEF Passing
<1> QED
  BY <1>4, <1>5, <1>6

(* A loop or a call that ends.                                             *)
LEMMA Nothing ==
  /\ Passing(<<>>) /\ LoopsBelow(<<>>) /\ <<>> \in Seq(Frames)
BY DEF Passing, LoopsBelow

(* A loop or a call that gives way to loops and calls.                     *)
LEMMA PassCalls ==
  ASSUME TypeOK, CallInv, work # <<>>, Head(work).f \in {"poll", "cast", "call"},
         NEW fs \in Seq(Frames), Passing(fs), Become(fs), LoopsBelow(fs),
         Head(work).f \in {"poll", "cast"} \/ fs = <<>>,
         UNCHANGED <<head, next, state, twice>>
  PROVE  CallInv'
<1>1. work \in Seq(Frames) /\ Head(work) \in Frames
  BY Innermost DEF TypeOK
<1>2. Lower(Tail(work)) \/ \A i \in DOMAIN fs : fs[i].f \notin {"poll", "cast"}
  BY <1>1, BelowTail DEF CallInv
<1>3. /\ \A p \in Proc : IF Head(work) \in HandlersOf(p) THEN Once(fs, HandlersOf(p))
                         ELSE Absent(fs, HandlersOf(p))
      /\ \A p \in Process : IF Head(work) \in ExitsOf(p) THEN Once(fs, ExitsOf(p))
                            ELSE Absent(fs, ExitsOf(p))
  BY <1>1, Neither, PassingAbsent
<1>4. /\ LoopsBelow(work')
      /\ \A p \in Proc : Keeps(work, work', HandlersOf(p))
      /\ \A p \in Process : Keeps(work, work', ExitsOf(p))
  BY <1>2, <1>3, SwapCalls
<1> QED
  BY <1>4, QuietCalls

(* From the main loop, whose stack is empty.                               *)
LEMMA BaseCalls ==
  ASSUME TypeOK, CallInv, work = <<>>, NEW a \in Frames, a.f \in {"poll", "cast", "call"},
         work' \in {<<>>, <<a>>}, UNCHANGED <<head, next, state, twice>>
  PROVE  CallInv'
<1>1. LoopsBelow(work')
  BY BelowShort
<1>2. ASSUME NEW F, a \notin F PROVE Keeps(work, work', F)
  <2>1. Absent(work', F)
    BY <1>2, Short
  <2>2. ~Once(work, F)
    BY DEF Once
  <2> QED
    BY <2>1, <2>2 DEF Keeps
<1>3. /\ \A p \in Proc : Keeps(work, work', HandlersOf(p))
      /\ \A p \in Process : Keeps(work, work', ExitsOf(p))
  BY <1>2, Neither
<1> QED
  BY <1>1, <1>3, QuietCalls

LEMMA RunPollCalls == TypeOK /\ CallInv /\ RunPoll => CallInv'
<1> SUFFICES ASSUME TypeOK, CallInv, RunPoll PROVE CallInv'
  OBVIOUS
<1> DEFINE a == Frame("poll", START, NULL, "")
<1>1. work = <<>> /\ work' \in {<<>>, <<a>>} /\ UNCHANGED <<head, next, state, twice>>
  BY DEF RunPoll, kernel
<1>2. a \in Frames
  BY FrameType, FrameTypes
<1>3. a.f = "poll"
  BY DEF Frame
<1> HIDE DEF a
<1> QED
  BY <1>1, <1>2, <1>3, BaseCalls

LEMMA do_eventCalls == TypeOK /\ CallInv /\ do_event => CallInv'
<1> SUFFICES ASSUME TypeOK, CallInv, do_event PROVE CallInv'
  OBVIOUS
<1>1. work = <<>> /\ UNCHANGED <<head, next, state, twice>>
  BY DEF do_event, kernel
<1>2. CASE events = <<>>
  <2>1. work' = work
    BY <1>2 DEF do_event
  <2> QED
    BY <1>1, <2>1 DEF CallInv, OneInv, HeldInv, ExitInv, Listed, Reach, Closed
<1>3. CASE events # <<>>
  <2> DEFINE e == Head(events)
             c == Frame("cast", START, e.q, e.ev)
             d == Frame("call", e.p, e.q, e.ev)
  <2>1. IF e.p = ALL THEN work' = <<c>> ELSE work' = <<d>>
    BY <1>3 DEF do_event
  <2>2. e \in Events
    BY <1>3, HeadTailProperties DEF TypeOK
  <2>3. e.q \in Proc \cup {NULL} /\ e.ev \in Told /\ (e.p # ALL => e.p \in Proc)
    BY <2>2, Constants DEF Events, Told
  <2> HIDE DEF e
  <2>4. c.f = "cast" /\ d.f = "call"
    BY DEF Frame
  <2>5. c \in Frames /\ (e.p # ALL => d \in Frames)
    <3>1. c \in Frames
      BY <2>3, FrameTypes DEF Frame, Frames
    <3>2. e.p # ALL => d \in Frames
      BY <2>3, FrameType, FrameTypes
    <3> QED
      BY <3>1, <3>2
  <2> HIDE DEF c, d
  <2> QED
    BY <1>1, <2>1, <2>4, <2>5, BaseCalls
<1> QED
  BY <1>2, <1>3

LEMMA BroadcastCalls == TypeOK /\ CallInv /\ Broadcast => CallInv'
<1> SUFFICES ASSUME TypeOK, CallInv, Broadcast PROVE CallInv'
  OBVIOUS
<1> DEFINE c == Head(work)
           p == Following(c.p)
           a == Frame("poll", START, NULL, "")
           b == Frame("call", p, c.q, c.ev)
           d == [c EXCEPT !.p = p]
<1>1. /\ work # <<>> /\ c.f = "cast" /\ UNCHANGED <<head, next, state, twice>>
      /\ \/ p = NULL /\ Become(<<>>)
         \/ p # NULL /\ Become((IF pollRequested THEN <<a>> ELSE <<>>) \o <<b, d>>)
  BY DEF Broadcast, In, kernel
<1>2. p \in Proc \cup {NULL} /\ c \in Frames
  BY <1>1, Follows, Innermost DEF TypeOK
<1>3. a \in Frames /\ a.f = "poll"
  <2>1. a \in Frames
    BY FrameType, FrameTypes
  <2> QED
    BY <2>1 DEF Frame
<1>4. c.q \in Proc \cup {NULL} /\ c.ev \in Told
  BY <1>2 DEF Frames
<1>5. p # NULL => b \in Frames /\ b.f = "call" /\ d \in Frames /\ d.f = "cast"
  <2> HIDE DEF p, c
  <2>1. p # NULL => b \in Frames /\ b.f = "call"
    <3>1. b.f = "call"
      BY DEF Frame
    <3>2. p # NULL => b \in Frames
      BY <1>2, <1>4, FrameType, FrameTypes
    <3> QED
      BY <3>1, <3>2
  <2>2. p # NULL => d \in Frames /\ d.f = "cast"
    BY <1>1, <1>2 DEF Frames
  <2> QED
    BY <2>1, <2>2
<1> HIDE DEF a, b, d, p
<1>6. CASE p = NULL
  BY <1>1, <1>6, Nothing, PassCalls
<1>7. CASE p # NULL
  <2>1. Become(<<a, b, d>>) \/ Become(<<b, d>>)
    <3>1. a \in Frames /\ b \in Frames /\ d \in Frames
      BY <1>3, <1>5, <1>7
    <3>2. <<a>> \o <<b, d>> = <<a, b, d>> /\ <<>> \o <<b, d>> = <<b, d>>
      BY <3>1, Joined
    <3> QED
      BY <1>1, <1>7, <3>2
  <2>2. /\ <<a, b, d>> \in Seq(Frames) /\ LoopsBelow(<<a, b, d>>)
        /\ <<b, d>> \in Seq(Frames) /\ LoopsBelow(<<b, d>>)
    BY <1>3, <1>5, <1>7, Sizes, BelowShort
  <2>3. Passing(<<a, b, d>>) /\ Passing(<<b, d>>)
    BY <1>3, <1>5, <1>7, PassShort
  <2> QED
    BY <1>1, <2>1, <2>2, <2>3, PassCalls
<1> QED
  BY <1>6, <1>7

LEMMA do_pollCalls == TypeOK /\ SleepInv /\ CallInv /\ do_poll => CallInv'
<1> SUFFICES ASSUME TypeOK, SleepInv, CallInv, do_poll PROVE CallInv'
  OBVIOUS
<1> DEFINE p == Following(Head(work).p)
           a == Frame("call", p, NULL, "poll")
           b == Frame("poll", p, NULL, "")
<1>1. /\ work # <<>> /\ Head(work).f = "poll" /\ UNCHANGED <<head, next, twice>>
      /\ \/ p = NULL /\ Become(<<>>) /\ state' = state
         \/ p # NULL /\ p \in polls /\ Idle(p) /\ Become(<<a, b>>)
         \/ p # NULL /\ Become(<<b>>) /\ state' = state
  BY DEF do_poll, In
<1>2. p \in Proc \cup {NULL}
  BY <1>1, Follows
<1> HIDE DEF p
<1>3. a.f = "call" /\ b.f = "poll" /\ (p # NULL => a \in Frames /\ b \in Frames)
  <2>1. a.f = "call" /\ b.f = "poll"
    BY DEF Frame
  <2>2. p # NULL => a \in Frames /\ b \in Frames
    BY <1>2, FrameType, FrameTypes
  <2> QED
    BY <2>1, <2>2
<1> HIDE DEF a, b
<1>4. CASE p = NULL
  BY <1>1, <1>4, Nothing, PassCalls
<1>5. CASE p # NULL /\ Become(<<b>>) /\ state' = state
  <2>1. Passing(<<b>>) /\ LoopsBelow(<<b>>) /\ <<b>> \in Seq(Frames)
    BY <1>3, <1>5, BelowShort, Sizes, PassShort
  <2> QED
    BY <1>1, <1>5, <2>1, PassCalls
<1>6. CASE p # NULL /\ p \in polls /\ Idle(p) /\ Become(<<a, b>>)
  <2>1. p \in {Radio, ETimer} /\ p \in Proc /\ p \notin Process /\ p \notin twice
    BY <1>6, Constants DEF SleepInv, PollInv, TypeOK
  <2>2. /\ Passing(<<a, b>>) /\ LoopsBelow(<<a, b>>) /\ <<a, b>> \in Seq(Frames)
        /\ work \in Seq(Frames) /\ Head(work) \in Frames /\ Tail(work) \in Seq(Frames)
    <3>1. Passing(<<a, b>>) /\ LoopsBelow(<<a, b>>) /\ <<a, b>> \in Seq(Frames)
      BY <1>3, <1>6, BelowShort, Sizes, PassShort
    <3>2. work \in Seq(Frames) /\ Head(work) \in Frames
      BY <1>1, Innermost DEF TypeOK
    <3> QED
      BY <1>1, <3>1, <3>2, Popping
  <2>3. Lower(Tail(work))
    BY <1>1, <2>2, BelowTail DEF CallInv
  <2>4. /\ LoopsBelow(work')
        /\ \A r \in Proc : Keeps(work, work', HandlersOf(r))
        /\ \A r \in Process : Keeps(work, work', ExitsOf(r))
    <3>1. /\ \A r \in Proc : Head(work) \notin HandlersOf(r) /\ Absent(<<a, b>>, HandlersOf(r))
          /\ \A r \in Process : Head(work) \notin ExitsOf(r) /\ Absent(<<a, b>>, ExitsOf(r))
      BY <1>1, <2>2, Neither, PassingAbsent
    <3> QED
      BY <1>1, <1>6, <2>2, <2>3, <3>1, SwapCalls
  <2>5. Absent(work, HandlersOf(p))
    <3>1. \A i \in DOMAIN work : work[i].f \in {"poll", "call", "cast"} /\ work[i] \in Frames
      <4>1. /\ DOMAIN work = 1..Len(work) /\ work[1] = Head(work) /\ Len(work) \in Nat
            /\ \A i \in 1..Len(work) : work[i] \in Frames
        BY <1>1, <2>2, Innermost, LenProperties, ElementOfSeq
      <4>2. \A i \in 1..Len(work) : i # 1 => 1 < i /\ 1 \in 1..Len(work)
        BY <4>1
      <4> QED
        BY <1>1, <4>1, <4>2 DEF CallInv, LoopsBelow
    <3> QED
      BY <2>1, <3>1, Neither DEF Absent
  <2>6. state' = [state EXCEPT ![p] = "running"] /\ state \in [Proc -> {"none", "running", "called"}]
    BY <1>6 DEF Idle, TypeOK
  <2>7. OneInv'
    <3> SUFFICES ASSUME NEW r \in Proc \ twice
                 PROVE  IF state'[r] = "called" THEN Once(work', HandlersOf(r))
                        ELSE Absent(work', HandlersOf(r))
      BY <1>1 DEF OneInv, Absent, Once
    <3> QED
      BY <2>4, <2>5, <2>6 DEF CallInv, OneInv, Keeps
  <2>8. Listed' = Listed
    BY <1>1, ListedStays
  <2>9. HeldInv'
    BY <1>1, <2>1, <2>6, <2>8 DEF CallInv, HeldInv
  <2>10. ExitInv'
    <3> SUFFICES ASSUME NEW r \in Process \ twice
                 PROVE  \/ Absent(work', ExitsOf(r))
                        \/ Once(work', ExitsOf(r)) /\ state'[r] = "none" /\ r \in Listed'
      BY <1>1 DEF ExitInv, Absent, Once
    <3>1. state'[r] = state[r]
      BY <2>1, <2>6, Constants
    <3> QED
      BY <2>4, <2>8, <3>1 DEF CallInv, ExitInv, Keeps
  <2> QED
    BY <2>4, <2>7, <2>9, <2>10 DEF CallInv, LoopsBelow
<1> QED
  BY <1>1, <1>4, <1>5, <1>6

LEMMA call_processCalls == TypeOK /\ CallInv /\ call_process => CallInv'
<1> SUFFICES ASSUME TypeOK, CallInv, call_process PROVE CallInv'
  OBVIOUS
<1> DEFINE c == Head(work)
           d == [c EXCEPT !.f = "run"]
<1>1. /\ work # <<>> /\ c.f = "call" /\ UNCHANGED <<head, next, twice>>
      /\ \/ /\ state[c.p] = "running" /\ state' = [state EXCEPT ![c.p] = "called"]
            /\ Become(<<d>>)
         \/ Become(<<>>) /\ state' = state
  BY DEF call_process, In
<1>2. c \in Frames /\ c.p \in Proc /\ work \in Seq(Frames)
  BY <1>1, Innermost DEF TypeOK
<1> HIDE DEF c
<1>3. d \in Frames /\ d.f = "run" /\ d.p = c.p
  BY <1>1, <1>2 DEF Frames, Points
<1> HIDE DEF d
<1>4. CASE Become(<<>>) /\ state' = state
  BY <1>1, <1>4, Nothing, PassCalls DEF c
<1>5. CASE /\ state[c.p] = "running" /\ state' = [state EXCEPT ![c.p] = "called"]
           /\ Become(<<d>>)
  <2>1. state \in [Proc -> {"none", "running", "called"}]
    BY DEF TypeOK
  <2>2. <<d>> \in Seq(Frames) /\ LoopsBelow(<<d>>) /\ work' = <<d>> \o Tail(work)
    BY <1>3, <1>5, Sizes, BelowShort DEF Become
  <2>3. LoopsBelow(work')
    <3>1. \A i \in DOMAIN <<d>> : <<d>>[i].f \notin {"poll", "cast"}
      BY <1>3
    <3> QED
      BY <1>1, <1>2, <2>2, <3>1, Popping, BelowTail, BelowPush DEF CallInv
  <2>4. /\ \A p \in Proc : c \notin HandlersOf(p) /\ (d \in HandlersOf(p) <=> p = c.p)
        /\ \A p \in Process : c \notin ExitsOf(p) /\ d \notin ExitsOf(p)
    BY <1>1, <1>2, <1>3, Neither, IsHandler DEF Handlers
  <2>5. ASSUME NEW p \in Proc, p # c.p PROVE Keeps(work, work', HandlersOf(p))
    <3>1. Absent(<<d>>, HandlersOf(p))
      BY <1>3, <2>4, <2>5, Short
    <3> QED
      BY <1>1, <1>2, <2>2, <2>4, <3>1, Kept DEF c
  <2>6. ASSUME NEW p \in Process PROVE Keeps(work, work', ExitsOf(p))
    <3>1. Absent(<<d>>, ExitsOf(p))
      BY <1>3, <2>4, <2>6, Short
    <3> QED
      BY <1>1, <1>2, <2>2, <2>4, <3>1, Kept DEF c
  <2>7. Absent(work, HandlersOf(c.p)) => Once(work', HandlersOf(c.p))
    <3>1. Once(<<d>>, HandlersOf(c.p))
      BY <1>2, <1>3, <2>4, Short
    <3> QED
      BY <1>1, <1>2, <2>2, <3>1, Swapped
  <2>8. OneInv'
    <3> SUFFICES ASSUME NEW r \in Proc \ twice
                 PROVE  IF state'[r] = "called" THEN Once(work', HandlersOf(r))
                        ELSE Absent(work', HandlersOf(r))
      BY <1>1 DEF OneInv, Absent, Once
    <3> QED
      BY <1>2, <1>5, <2>1, <2>5, <2>7 DEF CallInv, OneInv, Keeps
  <2>9. Listed' = Listed
    BY <1>1, ListedStays
  <2>10. HeldInv'
    BY <1>1, <1>2, <1>5, <2>1, <2>9, Constants DEF CallInv, HeldInv
  <2>11. ExitInv'
    <3> SUFFICES ASSUME NEW r \in Process \ twice
                 PROVE  \/ Absent(work', ExitsOf(r))
                        \/ Once(work', ExitsOf(r)) /\ state'[r] = "none" /\ r \in Listed'
      BY <1>1 DEF ExitInv, Absent, Once
    <3>1. state[r] = "none" => state'[r] = "none"
      BY <1>2, <1>5, <2>1, Constants
    <3> QED
      BY <2>6, <2>9, <3>1 DEF CallInv, ExitInv, Keeps
  <2> QED
    BY <2>3, <2>8, <2>10, <2>11 DEF CallInv, LoopsBelow
<1> QED
  BY <1>1, <1>4, <1>5

LEMMA ExitTellsCalls == TypeOK /\ CallInv /\ ExitTells => CallInv'
<1> SUFFICES ASSUME TypeOK, CallInv, ExitTells PROVE CallInv'
  OBVIOUS
<1> DEFINE c == Head(work)
           q == Following(c.p)
           a == Frame("call", q, c.q, "exited")
           b == Frame("exit", q, c.q, "")
<1>1. /\ work # <<>> /\ c.f = "exit" /\ q # NULL /\ UNCHANGED <<head, next, state, twice>>
      /\ Become((IF q = c.q THEN <<>> ELSE <<a>>) \o <<b>>)
  BY DEF ExitTells, In, kernel
<1>2. q \in Proc /\ c \in Frames /\ c.q \in Process /\ work \in Seq(Frames)
  BY <1>1, Follows, Innermost DEF TypeOK
<1> HIDE DEF q, c
<1>3. a \in Frames /\ b \in Frames
  BY <1>2, FrameType, FrameTypes, Constants
<1>4. a.f = "call" /\ b.f = "exit" /\ b.q = c.q
  BY DEF Frame
<1> HIDE DEF a, b
<1>5. Become(<<b>>) \/ Become(<<a, b>>)
  BY <1>1, <1>3, Joined
<1>6. /\ \A p \in Proc : /\ c \notin HandlersOf(p) /\ a \notin HandlersOf(p)
                         /\ b \notin HandlersOf(p)
      /\ \A p \in Process : /\ c \in ExitsOf(p) <=> p = c.q
                            /\ b \in ExitsOf(p) <=> p = c.q
                            /\ a \notin ExitsOf(p)
  BY <1>1, <1>2, <1>3, <1>4, Neither, IsExit
<1>7. ASSUME NEW fs \in {<<b>>, <<a, b>>}, Become(fs) PROVE CallInv'
  <2>1. fs \in Seq(Frames) /\ LoopsBelow(fs)
    BY <1>3, <1>4, <1>7, Sizes, BelowShort
  <2>2. \A i \in DOMAIN fs : fs[i].f \notin {"poll", "cast"}
    <3>1. DOMAIN <<b>> = {1} /\ <<b>>[1] = b
      OBVIOUS
    <3>2. DOMAIN <<a, b>> = {1, 2} /\ <<a, b>>[1] = a /\ <<a, b>>[2] = b
      OBVIOUS
    <3> QED
      BY <1>4, <1>7, <3>1, <3>2
  <2>3. \A p \in Proc : IF c \in HandlersOf(p) THEN Once(fs, HandlersOf(p))
                        ELSE Absent(fs, HandlersOf(p))
    BY <1>3, <1>6, <1>7, Short
  <2>4. \A p \in Process : IF c \in ExitsOf(p) THEN Once(fs, ExitsOf(p))
                           ELSE Absent(fs, ExitsOf(p))
    BY <1>3, <1>6, <1>7, Short
  <2>5. /\ LoopsBelow(work')
        /\ \A p \in Proc : Keeps(work, work', HandlersOf(p))
        /\ \A p \in Process : Keeps(work, work', ExitsOf(p))
    BY <1>1, <1>7, <2>1, <2>2, <2>3, <2>4, SwapCalls DEF c
  <2> QED
    BY <1>1, <2>5, QuietCalls
<1> QED
  BY <1>5, <1>7

LEMMA ExitUnlinksCalls == TypeOK /\ CallInv /\ ExitUnlinks => CallInv'
<1> SUFFICES ASSUME TypeOK, CallInv, ExitUnlinks PROVE CallInv'
  OBVIOUS
<1> DEFINE c == Head(work)
           q == c.q
<1>1. /\ work # <<>> /\ c.f = "exit" /\ Unlink(q) /\ Become(<<>>)
      /\ UNCHANGED <<state, twice>>
  BY DEF ExitUnlinks, In
<1>2. q \in Process /\ q \in Proc /\ c \in Frames /\ work \in Seq(Frames)
  BY <1>1, Innermost, Constants DEF TypeOK
<1>3. Listed \ {q} \subseteq Listed'
  BY <1>1, <1>2, UnlinkLists
<1>4. /\ \A p \in Proc : c \notin HandlersOf(p)
      /\ \A p \in Process : c \in ExitsOf(p) <=> p = q
  BY <1>1, <1>2, IsExit
<1>5. /\ work' = <<>> \o Tail(work) /\ <<>> \in Seq(Frames)
      /\ Tail(work) \in Seq(Frames) /\ LoopsBelow(<<>>)
  BY <1>1, <1>2, Nothing, Popping DEF Become
<1>6. \A F : Absent(<<>>, F)
  BY DEF Absent
<1>7. LoopsBelow(work')
  <2>1. \A i \in DOMAIN <<>> : <<>>[i].f \notin {"poll", "cast"}
    OBVIOUS
  <2> QED
    BY <1>1, <1>2, <1>5, <2>1, BelowTail, BelowPush DEF CallInv
<1>8. ASSUME NEW p \in Proc PROVE Keeps(work, work', HandlersOf(p))
  BY <1>1, <1>2, <1>4, <1>5, <1>6, Kept
<1>9. ASSUME NEW p \in Process, p # q PROVE Keeps(work, work', ExitsOf(p))
  BY <1>1, <1>2, <1>4, <1>5, <1>6, <1>9, Kept
<1>10. Once(work, ExitsOf(q)) => Absent(work', ExitsOf(q))
  BY <1>1, <1>2, <1>4, <1>5, <1>6, Swapped
<1>11. ~Absent(work, ExitsOf(q))
  BY <1>1, <1>2, <1>4, Popping
<1> HIDE DEF c
<1>12. OneInv'
  BY <1>1, <1>8 DEF CallInv, OneInv, Keeps, Absent, Once
<1>13. HeldInv'
  <2>1. ASSUME NEW p \in Proc \ twice, state[p] # "none" PROVE p \in Listed'
    <3>1. p # q
      BY <1>2, <1>11, <2>1 DEF CallInv, ExitInv
    <3> QED
      BY <1>3, <2>1, <3>1 DEF CallInv, HeldInv
  <2> QED
    BY <1>1, <2>1 DEF CallInv, HeldInv
<1>14. ExitInv'
  <2> SUFFICES ASSUME NEW r \in Process \ twice
               PROVE  \/ Absent(work', ExitsOf(r))
                      \/ Once(work', ExitsOf(r)) /\ state'[r] = "none" /\ r \in Listed'
    BY <1>1 DEF ExitInv, Absent, Once
  <2> QED
    BY <1>1, <1>3, <1>9, <1>10, <1>11 DEF CallInv, ExitInv, Keeps
<1> QED
  BY <1>7, <1>12, <1>13, <1>14 DEF CallInv, LoopsBelow
-----------------------------------------------------------------------------
(* Handlers.                                                               *)
LEMMA YieldCalls ==
  ASSUME TypeOK, CallInv, work # <<>>, NEW p \in Proc, Head(work).p = p, Head(work).f \in Handlers,
         Yield(p), UNCHANGED <<head, next, twice>>
  PROVE  CallInv'
<1> DEFINE c == Head(work)
<1>1. c \in Frames /\ work \in Seq(Frames) /\ state \in [Proc -> {"none", "running", "called"}]
  BY Innermost DEF TypeOK
<1>2. state' = [state EXCEPT ![p] = "running"] /\ work' = <<>> \o Tail(work)
  BY DEF Yield, Idle, Become
<1>3. <<>> \in Seq(Frames) /\ Tail(work) \in Seq(Frames) /\ LoopsBelow(<<>>)
  BY <1>1, Nothing, Popping
<1>4. /\ \A r \in Proc : c \in HandlersOf(r) <=> r = p
      /\ \A r \in Process : c \notin ExitsOf(r)
  BY <1>1, IsHandler
<1>5. \A F : Absent(<<>>, F)
  BY DEF Absent
<1>6. LoopsBelow(work')
  <2>1. \A i \in DOMAIN <<>> : <<>>[i].f \notin {"poll", "cast"}
    OBVIOUS
  <2> QED
    BY <1>1, <1>2, <1>3, <2>1, BelowTail, BelowPush DEF CallInv
<1>7. ASSUME NEW r \in Proc, r # p PROVE Keeps(work, work', HandlersOf(r))
  BY <1>1, <1>2, <1>3, <1>4, <1>5, <1>7, Kept
<1>8. ASSUME NEW r \in Process PROVE Keeps(work, work', ExitsOf(r))
  BY <1>1, <1>2, <1>3, <1>4, <1>5, Kept
<1>9. /\ ~Absent(work, HandlersOf(p))
      /\ Once(work, HandlersOf(p)) => Absent(work', HandlersOf(p))
  BY <1>1, <1>2, <1>3, <1>4, <1>5, Swapped
<1> HIDE DEF c
<1>10. p \notin twice => state[p] = "called" /\ Once(work, HandlersOf(p)) /\ p \in Listed
  BY <1>9 DEF CallInv, OneInv, HeldInv
<1>11. OneInv'
  <2> SUFFICES ASSUME NEW r \in Proc \ twice
               PROVE  IF state'[r] = "called" THEN Once(work', HandlersOf(r))
                      ELSE Absent(work', HandlersOf(r))
    BY DEF OneInv, Absent, Once
  <2> QED
    BY <1>1, <1>2, <1>7, <1>9, <1>10 DEF CallInv, OneInv, Keeps
<1>12. Listed' = Listed
  BY ListedStays
<1>13. HeldInv'
  BY <1>1, <1>2, <1>10, <1>12, Constants DEF CallInv, HeldInv
<1>14. ExitInv'
  <2> SUFFICES ASSUME NEW r \in Process \ twice
               PROVE  \/ Absent(work', ExitsOf(r))
                      \/ Once(work', ExitsOf(r)) /\ state'[r] = "none" /\ r \in Listed'
    BY DEF ExitInv, Absent, Once
  <2> QED
    BY <1>1, <1>2, <1>8, <1>10, <1>12, Constants DEF CallInv, ExitInv, Keeps
<1> QED
  BY <1>6, <1>11, <1>13, <1>14 DEF CallInv, LoopsBelow

(* A handler that has done something goes on to return.                    *)
LEMMA ReturningCalls ==
  ASSUME TypeOK, CallInv, work # <<>>, NEW p \in Process, Head(work).p = p,
         Head(work).f \in Handlers, Become(Returning(p)), UNCHANGED <<head, next, state, twice>>
  PROVE  CallInv'
<1> DEFINE c == Head(work)
           a == Frame("return", p, NULL, "")
<1>1. c \in Frames /\ work \in Seq(Frames)
  BY Innermost DEF TypeOK
<1>2. a \in Frames /\ p \in Proc
  BY FrameType, FrameTypes, Constants
<1>3. a.f = "return" /\ a.p = p /\ Become(<<a>>)
  BY DEF Frame, Returning
<1> HIDE DEF a
<1>4. /\ \A r \in Proc : /\ c \in HandlersOf(r) <=> r = p
                         /\ a \in HandlersOf(r) <=> r = p
      /\ \A r \in Process : c \notin ExitsOf(r) /\ a \notin ExitsOf(r)
  BY <1>1, <1>2, <1>3, IsHandler DEF Handlers
<1>5. <<a>> \in Seq(Frames) /\ LoopsBelow(<<a>>)
  BY <1>2, Sizes, BelowShort
<1>6. \A i \in DOMAIN <<a>> : <<a>>[i].f \notin {"poll", "cast"}
  BY <1>3
<1>7. \A F : IF a \in F THEN Once(<<a>>, F) ELSE Absent(<<a>>, F)
  BY <1>2, Short
<1>8. /\ LoopsBelow(work')
      /\ \A r \in Proc : Keeps(work, work', HandlersOf(r))
      /\ \A r \in Process : Keeps(work, work', ExitsOf(r))
  BY <1>3, <1>4, <1>5, <1>6, <1>7, SwapCalls
<1> QED
  BY <1>8, QuietCalls

LEMMA SystemCalls ==
  TypeOK /\ CallInv /\ (RadioHandler \/ TimerExited \/ TimerPolled) => CallInv'
<1> SUFFICES ASSUME TypeOK, CallInv, RadioHandler \/ TimerExited \/ TimerPolled PROVE CallInv'
  OBVIOUS
<1>1. /\ work # <<>> /\ Head(work).f = "run" /\ UNCHANGED <<head, next, twice>>
      /\ \/ \E p \in {Radio, ETimer} : Head(work).p = p /\ Yield(p)
         \/ work' = work /\ state' = state
  BY DEF RadioHandler, TimerExited, TimerPolled, Announce, In
<1>2. CASE \E p \in {Radio, ETimer} : Head(work).p = p /\ Yield(p)
  BY <1>1, <1>2, YieldCalls, Constants DEF Handlers
<1>3. CASE work' = work /\ state' = state
  BY <1>1, <1>3, QuietCalls DEF Keeps, CallInv
<1> QED
  BY <1>1, <1>2, <1>3

LEMMA QuietHandlerCalls ==
  ASSUME NEW p \in Process
  PROVE  TypeOK /\ CallInv /\ (Return(p) \/ etimer_set(p) \/ etimer_stop(p) \/ Post(p)) => CallInv'
<1> SUFFICES ASSUME TypeOK, CallInv, Return(p) \/ etimer_set(p) \/ etimer_stop(p) \/ Post(p)
             PROVE  CallInv'
  OBVIOUS
<1>1. /\ work # <<>> /\ Head(work).p = p /\ Head(work).f \in Handlers
      /\ UNCHANGED <<head, next, twice>>
      /\ Yield(p) \/ (Become(Returning(p)) /\ state' = state)
  BY DEF Return, etimer_set, etimer_stop, Post, Ending, Handling, At, kernel, Handlers
<1> QED
  BY <1>1, YieldCalls, ReturningCalls, Constants

(* process_start(): the process was in no call, nor on the way out.        *)
LEMMA StartCalls ==
  ASSUME TypeOK, CallInv, NEW q \in Process, NEW s \in Seq(Frames), process_start(q, s),
         twice' = twice, LoopsBelow(s),
         \A p \in Proc : Keeps(work, s, HandlersOf(p)),
         \A p \in Process : Keeps(work, s, ExitsOf(p))
  PROVE  CallInv'
<1> DEFINE a == Frame("call", q, NULL, "init")
<1>1. a \in Frames /\ q \in Proc
  BY FrameType, FrameTypes, Constants
<1>2. a.f = "call"
  BY DEF Frame
<1>3. state \in [Proc -> {"none", "running", "called"}]
  BY DEF TypeOK
<1>4. CASE q \in Listed
  <2>1. work' = s /\ UNCHANGED <<head, next, state, twice>>
    BY <1>4 DEF process_start
  <2> QED
    BY <2>1, QuietCalls
<1>5. CASE q \notin Listed
  <2>1. /\ head' = q /\ next' = [next EXCEPT ![q] = head] /\ work' = <<a>> \o s
        /\ state' = [state EXCEPT ![q] = "running"]
    BY <1>5 DEF process_start, Idle
  <2> HIDE DEF a
  <2>2. Listed \cup {q} \subseteq Listed'
    BY <1>5, <2>1, StartLists
  <2>3. <<a>> \in Seq(Frames) /\ LoopsBelow(<<a>>)
    BY <1>1, Sizes, BelowShort
  <2>4. LoopsBelow(work')
    <3>1. \A i \in DOMAIN <<a>> : <<a>>[i].f \notin {"poll", "cast"}
      BY <1>2
    <3> QED
      BY <2>1, <2>3, <3>1, BelowPush
  <2>5. ASSUME NEW F, a \notin F, Keeps(work, s, F) PROVE Keeps(work, work', F)
    <3>1. Absent(<<a>>, F)
      BY <1>1, <2>5, Short
    <3> QED
      BY <2>1, <2>3, <2>5, <3>1, Pushing DEF Keeps
  <2>6. /\ \A p \in Proc : Keeps(work, work', HandlersOf(p))
        /\ \A p \in Process : Keeps(work, work', ExitsOf(p))
    BY <1>1, <1>2, <2>5, Neither
  <2>7. q \notin twice => Absent(work, HandlersOf(q)) /\ Absent(work, ExitsOf(q))
    BY <1>1, <1>5 DEF CallInv, OneInv, HeldInv, ExitInv
  <2>8. OneInv'
    <3> SUFFICES ASSUME NEW r \in Proc \ twice
                 PROVE  IF state'[r] = "called" THEN Once(work', HandlersOf(r))
                        ELSE Absent(work', HandlersOf(r))
      BY DEF OneInv, Absent, Once
    <3> QED
      BY <1>1, <1>3, <2>1, <2>6, <2>7 DEF CallInv, OneInv, Keeps
  <2>9. HeldInv'
    BY <1>1, <1>3, <2>1, <2>2, Constants DEF CallInv, HeldInv
  <2>10. ExitInv'
    <3> SUFFICES ASSUME NEW r \in Process \ twice
                 PROVE  \/ Absent(work', ExitsOf(r))
                        \/ Once(work', ExitsOf(r)) /\ state'[r] = "none" /\ r \in Listed'
      BY DEF ExitInv, Absent, Once
    <3> QED
      BY <1>1, <1>3, <2>1, <2>2, <2>6, <2>7, Constants DEF CallInv, ExitInv, Keeps
  <2> QED
    BY <2>4, <2>8, <2>9, <2>10 DEF CallInv, LoopsBelow
<1> QED
  BY <1>4, <1>5

(* exit_process(): s is the stack without the call of the process that     *)
(* exits, if it is in one.                                                 *)
LEMMA ExitCalls ==
  ASSUME TypeOK, CallInv, twice = {}, NEW q \in Process, NEW s \in Seq(Frames),
         exit_process(q, s), LoopsBelow(s), Absent(s, HandlersOf(q)),
         state[q] # "none" => q \in Listed,
         \A p \in Proc \ {q} : Keeps(work, s, HandlersOf(p)),
         \A p \in Process : Keeps(work, s, ExitsOf(p))
  PROVE  CallInv'
<1> DEFINE a == Frame("exit", START, q, "")
<1>1. a \in Frames /\ q \in Proc
  BY FrameType, FrameTypes, Constants
<1>2. a.f = "exit" /\ a.q = q
  BY DEF Frame
<1>3. state \in [Proc -> {"none", "running", "called"}]
  BY DEF TypeOK
<1>4. /\ state' = [state EXCEPT ![q] = "none"]
      /\ \A r \in Proc : state'[r] = IF r = q THEN "none" ELSE state[r]
  BY <1>1, <1>3 DEF exit_process
<1>5. twice \subseteq twice'
  BY DEF exit_process
<1>6. CASE q \in Listed /\ state[q] # "none"
  <2>1. work' = <<a>> \o s /\ UNCHANGED <<head, next>>
    BY <1>6 DEF exit_process
  <2> HIDE DEF a
  <2>2. /\ \A p \in Proc : a \notin HandlersOf(p)
        /\ \A p \in Process : a \in ExitsOf(p) <=> p = q
    BY <1>1, <1>2, IsExit
  <2>3. <<a>> \in Seq(Frames) /\ LoopsBelow(<<a>>)
    BY <1>1, Sizes, BelowShort
  <2>4. LoopsBelow(work')
    <3>1. \A i \in DOMAIN <<a>> : <<a>>[i].f \notin {"poll", "cast"}
      BY <1>2
    <3> QED
      BY <2>1, <2>3, <3>1, BelowPush
  <2>5. ASSUME NEW F, a \notin F
        PROVE  /\ Keeps(work, s, F) => Keeps(work, work', F)
               /\ Absent(s, F) => Absent(work', F)
    <3>1. Absent(<<a>>, F)
      BY <1>1, <2>5, Short
    <3> QED
      BY <2>1, <2>3, <3>1, Pushing DEF Keeps
  <2>6. /\ \A p \in Proc \ {q} : Keeps(work, work', HandlersOf(p))
        /\ Absent(work', HandlersOf(q))
        /\ \A p \in Process \ {q} : Keeps(work, work', ExitsOf(p))
    BY <1>1, <2>2, <2>5
  <2>7. Once(work', ExitsOf(q))
    <3>1. Absent(s, ExitsOf(q))
      BY <1>6 DEF CallInv, ExitInv, Keeps
    <3>2. Once(<<a>>, ExitsOf(q))
      BY <1>1, <2>2, Short
    <3> QED
      BY <2>1, <2>3, <3>1, <3>2, Pushing
  <2>8. Listed' = Listed
    BY <2>1, ListedStays
  <2>9. OneInv'
    <3> SUFFICES ASSUME NEW r \in Proc \ twice
                 PROVE  IF state'[r] = "called" THEN Once(work', HandlersOf(r))
                        ELSE Absent(work', HandlersOf(r))
      BY <1>5 DEF OneInv, Absent, Once
    <3> QED
      BY <1>4, <2>6 DEF CallInv, OneInv, Keeps
  <2>10. HeldInv'
    BY <1>4, <1>5, <2>8, Constants DEF CallInv, HeldInv
  <2>11. ExitInv'
    <3> SUFFICES ASSUME NEW r \in Process \ twice
                 PROVE  \/ Absent(work', ExitsOf(r))
                        \/ Once(work', ExitsOf(r)) /\ state'[r] = "none" /\ r \in Listed'
      BY <1>5 DEF ExitInv, Absent, Once
    <3> QED
      BY <1>4, <1>6, <2>6, <2>7, <2>8, Constants DEF CallInv, ExitInv, Keeps
  <2> QED
    BY <2>4, <2>9, <2>10, <2>11 DEF CallInv, LoopsBelow
<1>7. CASE state[q] = "none"
  <2>1. /\ work' = s
        /\ (Unlink(q) /\ q \in Listed) \/ UNCHANGED <<head, next>>
    BY <1>7 DEF exit_process
  <2>2. Listed \ {q} \subseteq Listed'
    BY <2>1, UnlinkLists, ListedStays
  <2>3. q \notin Listed => Listed' = Listed
    BY <2>1, ListedStays
  <2>4. OneInv'
    <3> SUFFICES ASSUME NEW r \in Proc \ twice
                 PROVE  IF state'[r] = "called" THEN Once(work', HandlersOf(r))
                        ELSE Absent(work', HandlersOf(r))
      BY <1>5 DEF OneInv, Absent, Once
    <3> QED
      BY <1>4, <2>1 DEF CallInv, OneInv, Keeps
  <2>5. HeldInv'
    BY <1>4, <1>5, <2>2, Constants DEF CallInv, HeldInv
  <2>6. ASSUME q \notin twice' PROVE Absent(work, ExitsOf(q)) \/ q \notin Listed
    <3>1. q \notin Exiting \/ q \notin Listed
      BY <2>6 DEF exit_process
    <3> QED
      BY <3>1 DEF Exiting, Absent, ExitsOf
  <2>7. ExitInv'
    <3> SUFFICES ASSUME NEW r \in Process \ twice'
                 PROVE  \/ Absent(work', ExitsOf(r))
                        \/ Once(work', ExitsOf(r)) /\ state'[r] = "none" /\ r \in Listed'
      BY DEF ExitInv, Absent, Once
    <3> QED
      BY <1>4, <1>5, <2>1, <2>2, <2>3, <2>6, Constants DEF CallInv, ExitInv, Keeps
  <2> QED
    BY <2>1, <2>4, <2>5, <2>7 DEF CallInv, LoopsBelow
<1> QED
  BY <1>6, <1>7

LEMMA BootCalls == TypeOK /\ CallInv /\ Boot => CallInv'
<1> SUFFICES ASSUME TypeOK, CallInv, Boot PROVE CallInv'
  OBVIOUS
<1>1. /\ work = <<>> /\ twice' = twice
      /\ \/ UNCHANGED kernel /\ work' = work
         \/ \E p \in autostart : process_start(p, <<>>)
  BY DEF Boot
<1>2. CASE UNCHANGED kernel /\ work' = work
  BY <1>1, <1>2, QuietCalls DEF kernel, Keeps, CallInv
<1>3. ASSUME NEW p \in autostart, process_start(p, <<>>) PROVE CallInv'
  <2>1. p \in Process /\ LoopsBelow(<<>>) /\ <<>> \in Seq(Frames)
    BY Nothing DEF TypeOK
  <2>2. \A F : Keeps(work, <<>>, F)
    BY <1>1 DEF Keeps
  <2> QED
    BY <1>1, <1>3, <2>1, <2>2, StartCalls
<1> QED
  BY <1>1, <1>2, <1>3

(* The stack below the handler of p, and with the rest of it on top.       *)
LEMMA HandlerStacks ==
  ASSUME TypeOK, CallInv, work # <<>>, NEW p \in Process, Head(work).p = p,
         Head(work).f \in Handlers, NEW f \in {"return", "restart"}
  PROVE  LET s == <<Frame(f, p, NULL, "")>> \o Tail(work)
             t == Tail(work)
         IN  /\ s \in Seq(Frames) /\ t \in Seq(Frames) /\ LoopsBelow(s) /\ LoopsBelow(t)
             /\ \A r \in Proc : Keeps(work, s, HandlersOf(r))
             /\ \A r \in Proc \ {p} : Keeps(work, t, HandlersOf(r))
             /\ \A r \in Process : Keeps(work, s, ExitsOf(r)) /\ Keeps(work, t, ExitsOf(r))
             /\ ~Absent(work, HandlersOf(p))
             /\ Once(work, HandlersOf(p)) => Absent(t, HandlersOf(p))
<1> DEFINE a == Frame(f, p, NULL, "")
           s == <<a>> \o Tail(work)
           t == Tail(work)
<1>1. Head(work) \in Frames /\ work \in Seq(Frames)
  BY Innermost DEF TypeOK
<1>2. a \in Frames /\ p \in Proc
  BY FrameType, FrameTypes, Constants
<1>3. a.f = f /\ a.p = p
  BY DEF Frame
<1> HIDE DEF a
<1>4. /\ \A r \in Proc : /\ Head(work) \in HandlersOf(r) <=> r = p
                         /\ a \in HandlersOf(r) <=> r = p
      /\ \A r \in Process : Head(work) \notin ExitsOf(r) /\ a \notin ExitsOf(r)
  BY <1>1, <1>2, <1>3, IsHandler DEF Handlers
<1>5. <<a>> \in Seq(Frames) /\ LoopsBelow(<<a>>) /\ t \in Seq(Frames)
  BY <1>1, <1>2, Sizes, BelowShort, Popping
<1>6. s \in Seq(Frames)
  BY <1>5, ConcatProperties
<1>7. LoopsBelow(t)
  BY <1>1, BelowTail DEF CallInv
<1>8. LoopsBelow(s)
  <2>1. \A i \in DOMAIN <<a>> : <<a>>[i].f \notin {"poll", "cast"}
    BY <1>3
  <2> QED
    BY <1>5, <1>7, <2>1, BelowPush
<1>9. \A F : IF a \in F THEN Once(<<a>>, F) ELSE Absent(<<a>>, F)
  BY <1>2, Short
<1>10. ASSUME NEW F, Head(work) \in F <=> a \in F PROVE Keeps(work, s, F)
  BY <1>1, <1>5, <1>9, <1>10, Kept
<1>11. ASSUME NEW F, Head(work) \notin F PROVE Keeps(work, t, F)
  BY <1>1, <1>11, Popping DEF Keeps
<1>12. /\ ~Absent(work, HandlersOf(p))
       /\ Once(work, HandlersOf(p)) => Absent(t, HandlersOf(p))
  BY <1>1, <1>2, <1>4, Popping
<1>13. /\ \A r \in Proc : Keeps(work, s, HandlersOf(r))
       /\ \A r \in Proc \ {p} : Keeps(work, t, HandlersOf(r))
       /\ \A r \in Process : Keeps(work, s, ExitsOf(r)) /\ Keeps(work, t, ExitsOf(r))
  BY <1>4, <1>10, <1>11
<1> QED
  BY <1>5, <1>6, <1>7, <1>8, <1>12, <1>13 DEF a

LEMMA ListHandlerCalls ==
  ASSUME NEW p \in Process
  PROVE  TypeOK /\ CallInv /\ (Exit(p) \/ ExitOther(p) \/ Start(p)) => CallInv'
<1> SUFFICES ASSUME TypeOK, CallInv, Exit(p) \/ ExitOther(p) \/ Start(p) PROVE CallInv'
  OBVIOUS
<1>1. work # <<>> /\ Head(work).p = p /\ Head(work).f \in Handlers /\ p \in Proc
  BY Constants DEF Exit, ExitOther, Start, Ending, Handling, At, Handlers
<1>2. CASE Exit(p)
  <2>1. twice = {} /\ exit_process(p, Tail(work))
    BY <1>2 DEF Exit, Doing
  <2>2. /\ Tail(work) \in Seq(Frames) /\ LoopsBelow(Tail(work))
        /\ \A r \in Proc \ {p} : Keeps(work, Tail(work), HandlersOf(r))
        /\ \A r \in Process : Keeps(work, Tail(work), ExitsOf(r))
        /\ ~Absent(work, HandlersOf(p))
        /\ Once(work, HandlersOf(p)) => Absent(Tail(work), HandlersOf(p))
    BY <1>1, HandlerStacks
  <2>3. Absent(Tail(work), HandlersOf(p)) /\ (state[p] # "none" => p \in Listed)
    BY <1>1, <2>1, <2>2 DEF CallInv, OneInv, HeldInv
  <2> QED
    BY <2>1, <2>2, <2>3, ExitCalls
<1>3. CASE ExitOther(p)
  <2> DEFINE s == <<Frame("restart", p, NULL, "")>> \o Tail(work)
  <2>1. PICK q \in Process : twice = {} /\ state[q] # "called" /\ exit_process(q, s)
    BY <1>3 DEF ExitOther, Doing
  <2>2. /\ s \in Seq(Frames) /\ LoopsBelow(s)
        /\ \A r \in Proc : Keeps(work, s, HandlersOf(r))
        /\ \A r \in Process : Keeps(work, s, ExitsOf(r))
    BY <1>1, HandlerStacks
  <2> HIDE DEF s
  <2>3. Absent(s, HandlersOf(q)) /\ (state[q] # "none" => q \in Listed)
    BY <2>1, <2>2, Constants DEF CallInv, OneInv, HeldInv, Keeps
  <2> QED
    BY <2>1, <2>2, <2>3, ExitCalls
<1>4. CASE Start(p)
  <2> DEFINE s == <<Frame("return", p, NULL, "")>> \o Tail(work)
  <2>1. PICK q \in Process : twice' = twice /\ process_start(q, s)
    BY <1>4 DEF Start, Returning
  <2>2. /\ s \in Seq(Frames) /\ LoopsBelow(s)
        /\ \A r \in Proc : Keeps(work, s, HandlersOf(r))
        /\ \A r \in Process : Keeps(work, s, ExitsOf(r))
    BY <1>1, HandlerStacks
  <2> HIDE DEF s
  <2> QED
    BY <2>1, <2>2, StartCalls
<1> QED
  BY <1>2, <1>3, <1>4
-----------------------------------------------------------------------------
LEMMA InitCalls == Init => CallInv
<1> SUFFICES ASSUME Init PROVE CallInv
  OBVIOUS
<1>1. /\ head = Radio /\ next = [p \in Proc |-> IF p = Radio THEN ETimer ELSE NULL]
      /\ state = [p \in Proc |-> IF p \in Process THEN "none" ELSE "running"]
      /\ work = <<>> /\ twice = {} /\ TypeOK
  BY InitType DEF Init
<1>2. \A F : Absent(work, F)
  BY <1>1 DEF Absent
<1>3. Radio \in Listed /\ ETimer \in Listed
  <2>1. /\ Reach(Radio) \subseteq Proc \cup {NULL} /\ Radio \in Reach(Radio) /\ Closed(Reach(Radio))
    BY <1>1, ReachLeast, Constants
  <2>2. ETimer \in Reach(Radio)
    BY <1>1, <2>1, Constants DEF Closed
  <2> QED
    BY <1>1, <2>1, <2>2, Constants DEF Listed
<1>4. \A p \in Proc : state[p] = IF p \in Process THEN "none" ELSE "running"
  BY <1>1
<1>5. OneInv
  BY <1>2, <1>4 DEF OneInv
<1>6. HeldInv
  <2>1. \A p \in Proc : p \notin Process => p \in {ETimer, Radio}
    BY DEF Proc
  <2> QED
    BY <1>3, <1>4, <2>1, Constants DEF HeldInv
<1>7. ExitInv
  BY <1>2 DEF ExitInv
<1> QED
  BY <1>1, <1>5, <1>6, <1>7, Nothing DEF CallInv

LEMMA StepCalls == TypeOK /\ SleepInv /\ CallInv /\ [Next]_vars => CallInv'
<1> SUFFICES ASSUME TypeOK, SleepInv, CallInv, [Next]_vars PROVE CallInv'
  OBVIOUS
<1>1. CASE UNCHANGED <<head, next, state, work, twice>>
  BY <1>1, QuietCalls DEF Keeps, CallInv
<1>2. CASE Tick \/ RadioInterrupt \/ Sleep \/ UNCHANGED vars
  <2>1. UNCHANGED <<head, next, state, work, twice>>
    BY <1>2 DEF Tick, RadioInterrupt, Sleep, vars, kernel
  <2> QED
    BY <1>1, <2>1
<1>3. ASSUME NEW p \in Process,
             \/ Return(p) \/ Exit(p) \/ etimer_set(p) \/ etimer_stop(p)
             \/ Post(p) \/ Start(p) \/ ExitOther(p)
      PROVE  CallInv'
  BY <1>3, QuietHandlerCalls, ListHandlerCalls
<1> QED
  BY <1>2, <1>3, BootCalls, RunPollCalls, do_eventCalls, do_pollCalls, BroadcastCalls,
     call_processCalls, ExitTellsCalls, ExitUnlinksCalls, SystemCalls DEF Next, Main

LEMMA CallsHold == Spec => [](TypeOK /\ SleepInv /\ CallInv)
BY InitType, InitSleep, InitCalls, StepType, StepSleep, StepCalls, PTL DEF Spec

(* A process has one call at a time: call_process() is entered only when   *)
(* its handler has returned and it has not exited, unless it was exited    *)
(* twice, whatever handlers start and exit while loops are suspended in    *)
(* calls of other handlers (process.c:185).                                *)
THEOREM CalledOnce == Spec => []OneCallEach
<1>1. TypeOK /\ CallInv => OneCallEach
  <2> SUFFICES ASSUME TypeOK, CallInv, NEW p \in Proc \ twice
               PROVE  Cardinality(Calls(p)) = IF state[p] = "called" THEN 1 ELSE 0
    BY DEF OneCallEach
  <2>1. \A i \in DOMAIN work : work[i] \in Frames
    BY LenProperties, ElementOfSeq DEF TypeOK
  <2>2. Calls(p) = {i \in DOMAIN work : work[i] \in HandlersOf(p)}
    BY <2>1 DEF Calls, HandlersOf, Handlers
  <2>3. CASE state[p] = "called"
    <3>1. PICK i \in DOMAIN work :
            work[i] \in HandlersOf(p) /\ \A j \in DOMAIN work : work[j] \in HandlersOf(p) => j = i
      BY <2>3 DEF CallInv, OneInv, Once
    <3>2. Calls(p) = {i}
      BY <2>2, <3>1
    <3> QED
      BY <2>3, <3>2, FS_Singleton
  <2>4. CASE state[p] # "called"
    <3>1. Calls(p) = {}
      BY <2>2, <2>4 DEF CallInv, OneInv, Absent
    <3> QED
      BY <2>4, <3>1, FS_EmptySet
  <2> QED
    BY <2>3, <2>4
<1> QED
  BY <1>1, CallsHold, PTL
-----------------------------------------------------------------------------
(* Exits.                                                                  *)

(* The frames that have yet to tell the timer process of the exit of p,    *)
(* and loops of exits at a place from which the list is not reached.       *)
TellsOf(p) ==
  {c \in Frames :
     \/ c.f = "exit" /\ c.q = p /\ c.p # ETimer
     \/ c.f \in {"call", "run"} /\ c.p = ETimer /\ c.q = p /\ c.ev = "exited"}
Astray == {c \in Frames : c.f = "exit" /\ c.p \notin Linked \cup {START}}

(* A frame of F is at most on top of the stack.                            *)
Top(w, F) == \A i \in DOMAIN w : w[i] \in F => i = 1

Distinct(l) == \A i, j \in DOMAIN l : l[i] = l[j] => i = j

(* Wherever a loop stands, it comes to the timer process.                  *)
ChainInv == \A x \in Linked : ETimer \in Reach(x)
GoneInv  == \A p \in Listed : state[p] = "none" => ~Absent(work, ExitsOf(p))
TimerInv ==
  /\ \A p \in ToSet(timerlist) : state[p] = "none" => ~Absent(work, TellsOf(p))
  /\ Distinct(timerlist)
StackInv == Absent(work, Astray) /\ Top(work, HandlersOf(ETimer))

ExitsInv == ChainInv /\ GoneInv /\ TimerInv /\ StackInv
-----------------------------------------------------------------------------
(* The list.                                                               *)
LEMMA ReachNext ==
  ASSUME TypeOK, NEW x \in Proc
  PROVE  /\ next[x] \in Reach(x)
         /\ Reach(NULL) = {NULL}
<1>1. x # NULL /\ x \in Reach(x) /\ Closed(Reach(x))
  BY ReachLeast, Constants
<1>2. next[x] \in Reach(x)
  BY <1>1 DEF Closed
<1>3. NULL \in {NULL} /\ Closed({NULL}) /\ {NULL} \in SUBSET (Proc \cup {NULL})
  BY DEF Closed
<1> QED
  BY <1>2, <1>3, ReachLeast

(* No process in the list is its own successor.                            *)
LEMMA NoLoop ==
  ASSUME TypeOK, ListInv, ChainInv, NEW q \in Process
  PROVE  next[q] # q
<1> SUFFICES ASSUME next[q] = q PROVE FALSE
  OBVIOUS
<1>1. q \in Proc /\ q # NULL /\ q # ETimer
  BY Constants
<1>2. ETimer \in Reach(q)
  BY <1>1 DEF Linked, ChainInv
<1>3. Closed({q}) /\ {q} \in SUBSET (Proc \cup {NULL})
  BY <1>1 DEF Closed
<1> QED
  BY <1>1, <1>2, <1>3, ReachLeast

LEMMA ReachAfter ==
  ASSUME NEW x
  PROVE  Reach(x)' = {y \in Proc \cup {NULL} :
           \A S \in SUBSET (Proc \cup {NULL}) :
              x \in S /\ (\A p \in S \ {NULL} : next'[p] \in S) => y \in S}
BY DEF Reach, Closed

LEMMA ListedAfter ==
  ASSUME NEW S \in SUBSET (Proc \cup {NULL}), head' \in S, \A p \in S \ {NULL} : next'[p] \in S
  PROVE  Listed' \subseteq S \ {NULL}
BY DEF Listed, Reach, Closed

LEMMA ChainStarts ==
  ASSUME TypeOK, ListInv, ChainInv, NEW q \in Process, q \notin Listed,
         head' = q, next' = [next EXCEPT ![q] = head]
  PROVE  ChainInv' /\ Listed' \subseteq Listed \cup {q} /\ Linked \subseteq Linked'
<1>1. /\ next \in [Proc -> Proc \cup {NULL}] /\ head \in Proc /\ q \in Proc
      /\ q # NULL /\ head # NULL /\ ETimer \in Proc /\ q # ETimer /\ head \in Linked
  BY Constants DEF TypeOK, ListInv, Linked
<1>2. \A x \in Proc : next'[x] = IF x = q THEN head ELSE next[x]
  BY <1>1
<1>3. /\ head \in Reach(head) /\ Closed(Reach(head)) /\ Reach(head) \subseteq Proc \cup {NULL}
      /\ q \notin Reach(head)
  BY <1>1, ReachLeast DEF Listed
<1>4. Listed' \subseteq Listed \cup {q}
  <2> DEFINE S == Reach(head) \cup {q}
  <2>1. S \in SUBSET (Proc \cup {NULL}) /\ head' \in S
    BY <1>1, <1>3
  <2>2. \A p \in S \ {NULL} : next'[p] \in S
    BY <1>1, <1>2, <1>3 DEF Closed
  <2>3. Listed' \subseteq S \ {NULL}
    BY <2>1, <2>2, ListedAfter
  <2> QED
    BY <1>1, <2>3 DEF Listed
<1>5. Linked \subseteq Linked' /\ Linked' \subseteq Linked \cup {q}
  BY <1>1, <1>2 DEF Linked
<1>6. ASSUME NEW S \in SUBSET (Proc \cup {NULL}), \A p \in S \ {NULL} : next'[p] \in S
      PROVE  /\ head \in S => ETimer \in S
             /\ \A x \in Linked \cup {q} : x \in S => ETimer \in S
  <2>1. head \in S => ETimer \in S
    <3> SUFFICES ASSUME head \in S PROVE ETimer \in S
      OBVIOUS
    <3> DEFINE T == S \cap Reach(head)
    <3>1. \A p \in T \ {NULL} : next[p] \in T
      BY <1>1, <1>2, <1>3, <1>6 DEF Closed
    <3>2. T \in SUBSET (Proc \cup {NULL}) /\ Closed(T) /\ head \in T
      BY <1>3, <3>1 DEF Closed
    <3>3. Reach(head) \subseteq T /\ ETimer \in Reach(head)
      BY <1>1, <3>2, ReachLeast DEF ChainInv
    <3> QED
      BY <3>3
  <2>2. ASSUME NEW x \in Linked \cup {q}, x \in S PROVE ETimer \in S
    <3>1. CASE q \in S
      BY <1>1, <1>2, <1>6, <2>1, <3>1
    <3>2. CASE q \notin S
      <4>1. Closed(S)
        BY <1>2, <1>6, <3>2 DEF Closed
      <4>2. x \in Linked /\ x \in Proc
        BY <1>1, <2>2, <3>2 DEF Linked
      <4> QED
        BY <2>2, <4>1, <4>2, ReachLeast DEF ChainInv
    <3> QED
      BY <3>1, <3>2
  <2> QED
    BY <2>1, <2>2
<1>7. ChainInv'
  <2> SUFFICES ASSUME NEW x \in Linked' PROVE ETimer \in Reach(x)'
    BY DEF ChainInv
  <2> QED
    BY <1>1, <1>5, <1>6, ReachAfter
<1> QED
  BY <1>4, <1>5, <1>7

LEMMA ChainUnlinks ==
  ASSUME TypeOK, ListInv, ChainInv, NEW q \in Process, Unlink(q)
  PROVE  ChainInv' /\ Listed' \subseteq Listed \ {q} /\ Linked \subseteq Linked'
<1>1. /\ next \in [Proc -> Proc \cup {NULL}] /\ head \in Proc /\ q \in Proc /\ NULL \notin Proc
      /\ q # NULL /\ head # NULL /\ ETimer \in Proc /\ q # ETimer /\ head \in Linked
  BY Constants DEF TypeOK, ListInv, Linked
<1>2. /\ head' = IF q = head THEN next[q] ELSE head
      /\ \A x \in Proc : next'[x] = IF x \in Listed /\ next[x] = q THEN next[q] ELSE next[x]
  BY DEF Unlink
<1>3. /\ head \in Reach(head) /\ Closed(Reach(head)) /\ Reach(head) \subseteq Proc \cup {NULL}
      /\ next[q] # q
  BY <1>1, ReachLeast, NoLoop
<1>4. Listed' \subseteq Listed \ {q}
  <2> DEFINE S == Reach(head) \ {q}
  <2>1. S \in SUBSET (Proc \cup {NULL}) /\ head' \in S
    BY <1>1, <1>2, <1>3 DEF Closed
  <2>2. \A p \in S \ {NULL} : next'[p] \in S
    <3> SUFFICES ASSUME NEW p \in S \ {NULL} PROVE next'[p] \in S
      OBVIOUS
    <3>1. p \in Proc /\ p \in Listed /\ next[p] \in Reach(head)
      BY <1>3 DEF Listed, Closed
    <3>2. next[p] = q => next[q] \in Reach(head)
      BY <1>1, <1>3, <3>1 DEF Closed
    <3> QED
      BY <1>2, <1>3, <3>1, <3>2
  <2>3. Listed' \subseteq S \ {NULL}
    BY <2>1, <2>2, ListedAfter
  <2> QED
    BY <2>3 DEF Listed
<1>5. Linked' = Linked
  <2>1. q \in Linked => next[q] # NULL
    BY <1>1 DEF Linked
  <2>2. \A x \in Proc : next[x] = q => q \in Linked
    BY <1>1 DEF ListInv
  <2>3. \A x \in Proc : next'[x] = NULL <=> next[x] = NULL
    BY <1>1, <1>2, <2>1, <2>2
  <2> QED
    BY <2>3 DEF Linked
<1>6. ASSUME NEW S \in SUBSET (Proc \cup {NULL}), \A p \in S \ {NULL} : next'[p] \in S,
             NEW x \in Linked, x \in S
      PROVE  ETimer \in S
  <2>1. x \in Proc /\ ETimer \in Reach(x)
    BY <1>1 DEF Linked, ChainInv
  <2>2. CASE \E y \in S \cap Listed : next[y] = q
    <3>1. next[q] \in S
      BY <1>1, <1>2, <1>6, <2>2 DEF Listed, Reach
    <3>2. \A y \in (S \cup {q}) \ {NULL} : next[y] \in S \cup {q}
      BY <1>1, <1>2, <1>6, <3>1
    <3>3. S \cup {q} \in SUBSET (Proc \cup {NULL}) /\ Closed(S \cup {q})
      BY <1>1, <3>2 DEF Closed
    <3>4. Reach(x) \subseteq S \cup {q}
      BY <1>6, <2>1, <3>3, ReachLeast
    <3> QED
      BY <1>1, <2>1, <3>4
  <2>3. CASE ~\E y \in S \cap Listed : next[y] = q
    <3>1. \A y \in S \ {NULL} : next[y] \in S
      BY <1>1, <1>2, <1>6, <2>3
    <3>2. Closed(S)
      BY <3>1 DEF Closed
    <3> QED
      BY <1>6, <2>1, <3>2, ReachLeast
  <2> QED
    BY <2>2, <2>3
<1>7. ChainInv'
  <2> SUFFICES ASSUME NEW x \in Linked' PROVE ETimer \in Reach(x)'
    BY DEF ChainInv
  <2> QED
    BY <1>1, <1>5, <1>6, ReachAfter
<1> QED
  BY <1>4, <1>5, <1>7

(* Where the loop of an exit goes.                                         *)
LEMMA ExitGoes ==
  ASSUME TypeOK, ListInv, StackInv, work # <<>>, Head(work).f = "exit"
  PROVE  /\ Following(Head(work).p) # NULL => Following(Head(work).p) \in Linked
         /\ Following(Head(work).p) = NULL => Head(work).p = ETimer
<1>1. Head(work) \in Frames /\ work \in Seq(Frames)
  BY Innermost DEF TypeOK
<1>2. Head(work) \notin Astray
  BY <1>1, Popping DEF StackInv
<1>3. Head(work).p \in Linked \cup {START} /\ head \in Linked /\ NULL \notin Proc /\ START \notin Proc
  BY <1>1, <1>2, Constants DEF Astray, ListInv
<1>4. \A q \in Linked : q \in Proc /\ (next[q] = NULL => q = ETimer)
  BY Constants DEF Linked
<1> QED
  BY <1>3, <1>4 DEF ListInv, Following
-----------------------------------------------------------------------------
(* Frames that come and go.                                                *)
Stays(w, v, F) == ~Absent(w, F) => ~Absent(v, F)

Goes(w, v) ==
  /\ \A p \in Process : Stays(w, v, ExitsOf(p)) /\ Stays(w, v, TellsOf(p))
  /\ Absent(v, Astray) /\ Top(v, HandlersOf(ETimer))

LEMMA Found ==
  ASSUME NEW s \in Seq(Frames), NEW t \in Seq(Frames), NEW F
  PROVE  ~Absent(s, F) \/ ~Absent(t, F) => ~Absent(s \o t, F)
<1>1. ASSUME NEW i \in DOMAIN s, s[i] \in F PROVE ~Absent(s \o t, F)
  <2>1. i \in DOMAIN (s \o t) /\ (s \o t)[i] = s[i]
    BY Stacked
  <2> QED
    BY <1>1, <2>1 DEF Absent
<1>2. ASSUME NEW i \in DOMAIN t, t[i] \in F PROVE ~Absent(s \o t, F)
  <2>1. Len(s) + i \in DOMAIN (s \o t) /\ (s \o t)[Len(s) + i] = t[i]
    BY Stacked
  <2> QED
    BY <1>2, <2>1 DEF Absent
<1> QED
  BY <1>1, <1>2 DEF Absent

LEMMA LeftFound ==
  ASSUME NEW w \in Seq(Frames), w # <<>>, NEW F, ~Absent(w, F), Head(w) \notin F
  PROVE  ~Absent(Tail(w), F)
<1>1. /\ Len(Tail(w)) = Len(w) - 1 /\ Len(w) \in Nat \ {0}
      /\ DOMAIN w = 1..Len(w) /\ DOMAIN Tail(w) = 1..(Len(w) - 1) /\ Head(w) = w[1]
      /\ \A i \in 1..(Len(w) - 1) : Tail(w)[i] = w[i + 1]
  BY HeadTailProperties, EmptySeq, LenProperties
<1>2. PICK i \in 1..Len(w) : w[i] \in F
  BY <1>1 DEF Absent
<1>3. i # 1
  BY <1>1, <1>2
<1>4. i - 1 \in DOMAIN Tail(w) /\ Tail(w)[i - 1] = w[i]
  BY <1>1, <1>3
<1> QED
  BY <1>2, <1>4 DEF Absent

LEMMA TopTail ==
  ASSUME NEW w \in Seq(Frames), w # <<>>, NEW F, Top(w, F)
  PROVE  Absent(Tail(w), F)
<1>1. /\ Len(Tail(w)) = Len(w) - 1 /\ Len(w) \in Nat \ {0}
      /\ DOMAIN w = 1..Len(w) /\ DOMAIN Tail(w) = 1..(Len(w) - 1)
      /\ \A i \in 1..(Len(w) - 1) : Tail(w)[i] = w[i + 1]
  BY HeadTailProperties, EmptySeq, LenProperties
<1>2. \A i \in DOMAIN Tail(w) : i + 1 \in DOMAIN w /\ i + 1 # 1 /\ Tail(w)[i] = w[i + 1]
  BY <1>1
<1> QED
  BY <1>2 DEF Top, Absent

LEMMA TopPush ==
  ASSUME NEW s \in Seq(Frames), NEW t \in Seq(Frames), NEW F, Top(s, F), Absent(t, F)
  PROVE  Top(s \o t, F)
<1> SUFFICES ASSUME NEW i \in DOMAIN (s \o t), (s \o t)[i] \in F PROVE i = 1
  BY DEF Top
<1>1. i \in 1..Len(s) \/ \E j \in 1..Len(t) : i = Len(s) + j
  BY Stacked
<1>2. CASE i \in 1..Len(s)
  <2>1. i \in DOMAIN s /\ (s \o t)[i] = s[i]
    BY <1>2, Stacked
  <2> QED
    BY <2>1 DEF Top
<1>3. ASSUME NEW j \in 1..Len(t), i = Len(s) + j PROVE FALSE
  <2>1. j \in DOMAIN t /\ (s \o t)[i] = t[j]
    BY <1>3, Stacked
  <2> QED
    BY <2>1 DEF Absent
<1> QED
  BY <1>1, <1>2, <1>3

LEMMA TopAbsent == ASSUME NEW w, NEW F, Absent(w, F) PROVE Top(w, F)
BY DEF Absent, Top

(* A frame that has no part in exits.                                      *)
Plain(c) == c.f # "exit" /\ ~(c.p = ETimer /\ c.ev = "exited" /\ c.f \in {"call", "run"})

LEMMA IsPlain ==
  ASSUME NEW c \in Frames
  PROVE  /\ Plain(c) => \A p \in Process : c \notin ExitsOf(p) /\ c \notin TellsOf(p)
         /\ c.f # "exit" => c \notin Astray
         /\ c.f \notin Handlers \/ c.p # ETimer => c \notin HandlersOf(ETimer)
BY DEF Plain, ExitsOf, TellsOf, Astray, HandlersOf

LEMMA PassingGoes ==
  ASSUME NEW fs \in Seq(Frames), Passing(fs)
  PROVE  Absent(fs, Astray) /\ Absent(fs, HandlersOf(ETimer))
<1>1. \A i \in DOMAIN fs : fs[i] \in Frames /\ fs[i].f \in {"poll", "cast", "call"}
  BY LenProperties, ElementOfSeq DEF Passing
<1> QED
  BY <1>1, IsPlain DEF Absent, Handlers

(* The innermost call, which has no part in exits, gives way to fs.        *)
LEMMA PlainGoes ==
  ASSUME TypeOK, StackInv, work # <<>>, Plain(Head(work)), NEW fs \in Seq(Frames),
         Absent(fs, Astray), Top(fs, HandlersOf(ETimer)), NEW v, v = fs \o Tail(work)
  PROVE  Goes(work, v)
<1>1. work \in Seq(Frames) /\ Head(work) \in Frames
  BY Innermost DEF TypeOK
<1>2. /\ Tail(work) \in Seq(Frames) /\ Absent(Tail(work), Astray)
      /\ Absent(Tail(work), HandlersOf(ETimer))
  BY <1>1, Popping, TopTail DEF StackInv
<1>3. Absent(v, Astray) /\ Top(v, HandlersOf(ETimer))
  BY <1>2, Pushing, TopPush
<1>4. ASSUME NEW F, Head(work) \notin F PROVE Stays(work, v, F)
  BY <1>1, <1>2, <1>4, LeftFound, Found DEF Stays
<1>5. \A p \in Process : Head(work) \notin ExitsOf(p) /\ Head(work) \notin TellsOf(p)
  BY <1>1, IsPlain
<1> QED
  BY <1>3, <1>4, <1>5 DEF Goes

LEMMA SameGoes == ASSUME StackInv PROVE Goes(work, work)
BY DEF Goes, Stays, StackInv
-----------------------------------------------------------------------------
(* What is left to show of a step.                                         *)
LEMMA ExitsAfter ==
  ASSUME TypeOK', CallInv', ChainInv', Linked \subseteq Linked', GoneInv, TimerInv,
         Absent(work', Astray), Top(work', HandlersOf(ETimer)), Distinct(timerlist'),
         \A p \in Process : p \in Listed' /\ state'[p] = "none" =>
            \/ p \in Listed /\ state[p] = "none" /\ Stays(work, work', ExitsOf(p))
            \/ ~Absent(work', ExitsOf(p)),
         \A p \in Process : p \in ToSet(timerlist') /\ state'[p] = "none" =>
            \/ p \in ToSet(timerlist) /\ state[p] = "none" /\ Stays(work, work', TellsOf(p))
            \/ ~Absent(work', TellsOf(p))
  PROVE  ExitsInv'
<1>1. \A p \in Proc : state'[p] = "none" => p \in Process
  BY DEF CallInv, HeldInv, Proc
<1>2. Listed' \subseteq Proc
  BY Constants DEF Listed, Reach
<1>3. GoneInv'
  <2> SUFFICES ASSUME NEW p \in Process, p \in Listed', state'[p] = "none"
               PROVE  ~Absent(work', ExitsOf(p))
    BY <1>1, <1>2 DEF GoneInv, Absent
  <2> QED
    BY DEF GoneInv, Stays
<1>4. ToSet(timerlist') \subseteq Process
  <2>1. timerlist' \in Seq(Process)
    BY DEF TypeOK
  <2> QED
    BY <2>1, LenProperties, ElementOfSeq DEF ToSet
<1>5. TimerInv'
  <2> SUFFICES ASSUME NEW p \in Process, p \in ToSet(timerlist'), state'[p] = "none"
               PROVE  ~Absent(work', TellsOf(p))
    BY <1>4 DEF TimerInv, Absent, Distinct
  <2> QED
    BY DEF TimerInv, Stays
<1>6. StackInv'
  <2>1. Astray' \subseteq Astray
    BY DEF Astray
  <2> QED
    BY <2>1 DEF StackInv, Absent, Top
<1> QED
  BY <1>3, <1>5, <1>6 DEF ExitsInv

(* A step that changes neither the list nor makes a process exit.          *)
LEMMA QuietExits ==
  ASSUME TypeOK', CallInv', ExitsInv, UNCHANGED <<head, next>>, Goes(work, work'),
         \A p \in Process : state'[p] = "none" => state[p] = "none",
         Distinct(timerlist'),
         \A p \in Process : p \in ToSet(timerlist') /\ state'[p] = "none" =>
            p \in ToSet(timerlist) \/ ~Absent(work', TellsOf(p))
  PROVE  ExitsInv'
<1>1. ChainInv' /\ Linked \subseteq Linked'
  BY DEF ExitsInv, ChainInv, Linked, Reach, Closed
<1>2. Listed' = Listed
  BY ListedStays
<1> QED
  BY <1>1, <1>2, ExitsAfter DEF ExitsInv, Goes

(* One that leaves the timers alone as well.                               *)
LEMMA CalmExits ==
  ASSUME TypeOK', CallInv', ExitsInv, UNCHANGED <<head, next, timerlist>>, Goes(work, work'),
         \A p \in Process : state'[p] = "none" => state[p] = "none"
  PROVE  ExitsInv'
<1>1. Distinct(timerlist') /\ ToSet(timerlist') = ToSet(timerlist)
  BY DEF ExitsInv, TimerInv, Distinct
<1> QED
  BY <1>1, QuietExits
-----------------------------------------------------------------------------
(* The main loop, loops and calls.                                         *)
LEMMA BaseExits ==
  ASSUME TypeOK', CallInv', ExitsInv, work = <<>>, NEW a \in Frames, a.f \in {"poll", "cast", "call"},
         work' \in {<<>>, <<a>>}, UNCHANGED <<head, next, state, timerlist>>
  PROVE  ExitsInv'
<1>1. a \notin Astray /\ a \notin HandlersOf(ETimer)
  BY IsPlain DEF Handlers
<1>2. Absent(work', Astray) /\ Absent(work', HandlersOf(ETimer))
  BY <1>1, Short
<1>3. \A F : Absent(work, F)
  BY DEF Absent
<1>4. Goes(work, work')
  BY <1>2, <1>3, TopAbsent DEF Goes, Stays
<1> QED
  BY <1>4, CalmExits

LEMMA MainExits ==
  ASSUME TypeOK, TypeOK', CallInv', ExitsInv, RunPoll \/ do_event
  PROVE  ExitsInv'
<1>1. CASE RunPoll
  <2> DEFINE a == Frame("poll", START, NULL, "")
  <2>1. /\ work = <<>> /\ work' \in {<<>>, <<a>>}
        /\ UNCHANGED <<head, next, state, timerlist>>
    BY <1>1 DEF RunPoll, kernel, timers
  <2>2. a \in Frames
    BY FrameType, FrameTypes
  <2>3. a.f = "poll"
    BY DEF Frame
  <2> HIDE DEF a
  <2> QED
    BY <2>1, <2>2, <2>3, BaseExits
<1>2. CASE do_event
  <2>1. work = <<>> /\ UNCHANGED <<head, next, state, timerlist>>
    BY <1>2 DEF do_event, kernel, timers
  <2>2. CASE events = <<>>
    <3>1. work' = work
      BY <1>2, <2>2 DEF do_event
    <3>2. Goes(work, work')
      BY <3>1, SameGoes DEF ExitsInv, Goes, Stays, Absent, Top
    <3> QED
      BY <2>1, <3>2, CalmExits
  <2>3. CASE events # <<>>
    <3> DEFINE e == Head(events)
               c == Frame("cast", START, e.q, e.ev)
               d == Frame("call", e.p, e.q, e.ev)
    <3>1. IF e.p = ALL THEN work' = <<c>> ELSE work' = <<d>>
      BY <1>2, <2>3 DEF do_event
    <3>2. e \in Events
      BY <2>3, HeadTailProperties DEF TypeOK
    <3>3. e.q \in Proc \cup {NULL} /\ e.ev \in Told /\ (e.p # ALL => e.p \in Proc)
      BY <3>2, Constants DEF Events, Told
    <3> HIDE DEF e
    <3>4. c.f = "cast" /\ d.f = "call"
      BY DEF Frame
    <3>5. c \in Frames
      BY <3>3, FrameTypes DEF Frame, Frames
    <3>6. e.p # ALL => d \in Frames
      BY <3>3, FrameType, FrameTypes
    <3> HIDE DEF c, d
    <3> QED
      BY <2>1, <3>1, <3>4, <3>5, <3>6, BaseExits
  <2> QED
    BY <2>2, <2>3
<1> QED
  BY <1>1, <1>2

LEMMA LoopExits ==
  ASSUME TypeOK, TypeOK', CallInv', ExitsInv, do_poll \/ Broadcast
  PROVE  ExitsInv'
<1> DEFINE c == Head(work)
           p == Following(c.p)
           a == Frame("poll", START, NULL, "")
           b == Frame("call", p, NULL, "poll")
           d == Frame("poll", p, NULL, "")
           e == Frame("call", p, c.q, c.ev)
           g == [c EXCEPT !.p = p]
<1>1. /\ work # <<>> /\ c.f \in {"poll", "cast"} /\ UNCHANGED <<head, next, timerlist>>
      /\ state' = state \/ Idle(p)
      /\ \/ Become(<<>>)
         \/ p # NULL /\ c.f = "poll" /\ (Become(<<b, d>>) \/ Become(<<d>>))
         \/ p # NULL /\ c.f = "cast" /\ (Become(<<a>> \o <<e, g>>) \/ Become(<<>> \o <<e, g>>))
  BY DEF do_poll, Broadcast, In, kernel, timers
<1>2. p \in Proc \cup {NULL} /\ c \in Frames
  BY <1>1, Follows, Innermost DEF TypeOK
<1>3. c.q \in Proc \cup {NULL} /\ c.ev \in Told
  BY <1>2 DEF Frames
<1>4. \A q \in Process : state'[q] = "none" => state[q] = "none"
  <2> HIDE DEF p
  <2>1. state \in [Proc -> {"none", "running", "called"}] /\ Process \subseteq Proc
    BY Constants DEF TypeOK
  <2>2. state' = state \/ state' = [state EXCEPT ![p] = "running"]
    BY <1>1 DEF Idle
  <2> QED
    BY <2>1, <2>2
<1> HIDE DEF p, c
<1>5. a.f = "poll" /\ b.f = "call" /\ d.f = "poll" /\ e.f = "call"
  BY DEF Frame
<1>6. a \in Frames
  BY FrameType, FrameTypes
<1>7. p # NULL => b \in Frames /\ d \in Frames
  BY <1>2, FrameType, FrameTypes
<1>8. p # NULL => e \in Frames
  BY <1>2, <1>3, FrameType, FrameTypes
<1>9. c.f = "cast" /\ p # NULL => g \in Frames /\ g.f = "cast"
  BY <1>1, <1>2 DEF Frames
<1> HIDE DEF a, b, d, e, g
<1>10. PICK fs \in Seq(Frames) : Passing(fs) /\ Become(fs)
  <2>1. CASE Become(<<>>)
    BY <2>1, Nothing
  <2>2. CASE p # NULL /\ c.f = "poll" /\ (Become(<<b, d>>) \/ Become(<<d>>))
    <3>1. <<b, d>> \in Seq(Frames) /\ <<d>> \in Seq(Frames)
      BY <1>7, <2>2, Sizes
    <3>2. Passing(<<b, d>>) /\ Passing(<<d>>)
      BY <1>5, <1>7, <2>2, PassShort
    <3> QED
      BY <2>2, <3>1, <3>2
  <2>3. CASE p # NULL /\ c.f = "cast" /\ (Become(<<a>> \o <<e, g>>) \/ Become(<<>> \o <<e, g>>))
    <3>1. <<a>> \o <<e, g>> = <<a, e, g>> /\ <<>> \o <<e, g>> = <<e, g>>
      BY <1>6, <1>8, <1>9, <2>3, Joined
    <3>2. <<a, e, g>> \in Seq(Frames) /\ <<e, g>> \in Seq(Frames)
      BY <1>6, <1>8, <1>9, <2>3, Sizes
    <3>3. Passing(<<a, e, g>>) /\ Passing(<<e, g>>)
      BY <1>5, <1>6, <1>8, <1>9, <2>3, PassShort
    <3> QED
      BY <2>3, <3>1, <3>2, <3>3
  <2> QED
    BY <1>1, <2>1, <2>2, <2>3
<1>11. Plain(Head(work))
  BY <1>1 DEF Plain, c
<1>12. Goes(work, work')
  BY <1>1, <1>10, <1>11, PassingGoes, TopAbsent, PlainGoes DEF ExitsInv, Become
<1> QED
  BY <1>1, <1>4, <1>12, CalmExits

(* The timer process is running when it is told of an exit: it is in a     *)
(* call only on top of the stack.                                          *)
LEMMA TimerListens ==
  ASSUME TypeOK, CallInv, StackInv, work # <<>>, Head(work).f = "call"
  PROVE  state[ETimer] = "running"
<1>1. ETimer \in Proc \ twice /\ state[ETimer] \in {"none", "running", "called"}
  BY Constants DEF TypeOK
<1>2. state[ETimer] # "none"
  BY DEF CallInv, HeldInv
<1>3. ASSUME state[ETimer] = "called" PROVE FALSE
  <2>1. PICK i \in DOMAIN work : work[i] \in HandlersOf(ETimer)
    BY <1>1, <1>3 DEF CallInv, OneInv, Once
  <2>2. i = 1
    BY <2>1 DEF StackInv, Top
  <2> QED
    BY <2>1, <2>2, Innermost DEF HandlersOf, Handlers
<1> QED
  BY <1>1, <1>2, <1>3

LEMMA call_processExits ==
  ASSUME TypeOK, TypeOK', CallInv, CallInv', ExitsInv, call_process
  PROVE  ExitsInv'
<1> DEFINE c == Head(work)
           d == [c EXCEPT !.f = "run"]
<1>1. /\ work # <<>> /\ c.f = "call" /\ UNCHANGED <<head, next, timerlist>>
      /\ \/ /\ state[c.p] = "running" /\ state' = [state EXCEPT ![c.p] = "called"]
            /\ Become(<<d>>)
         \/ Become(<<>>) /\ state' = state /\ state[c.p] # "running"
  BY DEF call_process, In, timers
<1>2. c \in Frames /\ c.p \in Proc /\ work \in Seq(Frames)
  BY <1>1, Innermost DEF TypeOK
<1>3. StackInv /\ state[ETimer] = "running"
  BY <1>1, TimerListens DEF ExitsInv
<1>4. CASE Become(<<>>) /\ state' = state /\ state[c.p] # "running"
  <2>1. Plain(c)
    BY <1>1, <1>3, <1>4 DEF Plain
  <2>2. Goes(work, work')
    BY <1>1, <1>3, <1>4, <2>1, Nothing, PassingGoes, TopAbsent, PlainGoes DEF Become
  <2> QED
    BY <1>1, <1>4, <2>2, CalmExits
<1>5. CASE /\ state[c.p] = "running" /\ state' = [state EXCEPT ![c.p] = "called"]
           /\ Become(<<d>>)
  <2> HIDE DEF c
  <2>1. d \in Frames /\ d.f = "run" /\ d.p = c.p /\ d.q = c.q /\ d.ev = c.ev
    BY <1>1, <1>2 DEF Frames, Points
  <2> HIDE DEF d
  <2>2. \A p \in Process : /\ c \notin ExitsOf(p)
                           /\ c \in TellsOf(p) => d \in TellsOf(p)
    BY <1>1, <1>2, <2>1 DEF ExitsOf, TellsOf
  <2>3. <<d>> \in Seq(Frames) /\ work' = <<d>> \o Tail(work)
    BY <1>5, <2>1, Sizes DEF Become
  <2>4. Tail(work) \in Seq(Frames)
    BY <1>1, <1>2, Popping
  <2>5. ASSUME NEW F, c \in F => d \in F PROVE Stays(work, work', F)
    <3>1. d \in F => ~Absent(<<d>>, F)
      BY DEF Absent
    <3>2. c \notin F /\ ~Absent(work, F) => ~Absent(Tail(work), F)
      BY <1>1, <1>2, LeftFound DEF c
    <3> QED
      BY <2>3, <2>4, <2>5, <3>1, <3>2, Found DEF Stays
  <2>6. \A p \in Process : Stays(work, work', ExitsOf(p)) /\ Stays(work, work', TellsOf(p))
    BY <2>2, <2>5
  <2>7. d \notin Astray
    BY <2>1, IsPlain
  <2>8. Absent(work', Astray)
    <3>1. Absent(<<d>>, Astray) /\ Absent(Tail(work), Astray)
      BY <1>1, <1>2, <1>3, <2>1, <2>7, Short, Popping DEF StackInv
    <3> QED
      BY <2>3, <2>4, <3>1, Pushing
  <2>9. Top(work', HandlersOf(ETimer))
    <3>1. Top(<<d>>, HandlersOf(ETimer))
      BY DEF Top
    <3> QED
      BY <1>1, <1>2, <1>3, <2>3, <2>4, <3>1, TopTail, TopPush DEF StackInv
  <2>10. \A p \in Process : state'[p] = "none" => state[p] = "none"
    BY <1>5 DEF TypeOK
  <2> QED
    BY <1>1, <2>6, <2>8, <2>9, <2>10, CalmExits DEF Goes
<1> QED
  BY <1>1, <1>4, <1>5

(* The loop of an exit goes on: it calls the process it comes to, unless   *)
(* that is the one that exits.                                             *)
LEMMA ExitTellsExits ==
  ASSUME TypeOK, TypeOK', CallInv', ListInv, ExitsInv, ExitTells
  PROVE  ExitsInv'
<1> DEFINE c == Head(work)
           q == Following(c.p)
           a == Frame("call", q, c.q, "exited")
           b == Frame("exit", q, c.q, "")
<1>1. /\ work # <<>> /\ c.f = "exit" /\ UNCHANGED <<head, next, timerlist>> /\ state' = state
      /\ q # NULL /\ Become((IF q = c.q THEN <<>> ELSE <<a>>) \o <<b>>)
  BY DEF ExitTells, In, kernel, timers
<1>2. /\ q \in Proc /\ c.q \in Process /\ q \in Linked /\ c.q # ETimer
      /\ c \in Frames /\ work \in Seq(Frames)
  BY <1>1, ExitGoes, Follows, Innermost, Constants DEF ExitsInv, TypeOK
<1>3. c.q \in Proc \cup {NULL}
  BY <1>2, Constants
<1> HIDE DEF c, q
<1>4. a \in Frames /\ b \in Frames
  <2>1. a \in Frames
    BY <1>2, <1>3, FrameType, FrameTypes
  <2>2. b \in Frames
    BY <1>2, <1>3, FrameType, FrameTypes
  <2> QED
    BY <2>1, <2>2
<1>5. /\ a.f = "call" /\ a.p = q /\ a.q = c.q /\ a.ev = "exited"
      /\ b.f = "exit" /\ b.p = q /\ b.q = c.q
  BY DEF Frame
<1> HIDE DEF a, b
<1>6. PICK fs \in {<<a, b>>, <<b>>} : work' = fs \o Tail(work) /\ (q # c.q => fs = <<a, b>>)
  BY <1>1, <1>4, Joined DEF Become
<1>7. fs \in Seq(Frames) /\ Tail(work) \in Seq(Frames)
  <2>1. <<a, b>> \in Seq(Frames) /\ <<b>> \in Seq(Frames)
    BY <1>4, Sizes
  <2> QED
    BY <1>1, <1>2, <1>6, <2>1, Popping
<1>8. ASSUME NEW F, c \in F => b \in F \/ (fs = <<a, b>> /\ a \in F) PROVE Stays(work, work', F)
  <2>1. b \in F => ~Absent(fs, F)
    <3>1. /\ 1 \in DOMAIN <<b>> /\ <<b>>[1] = b /\ 2 \in DOMAIN <<a, b>> /\ <<a, b>>[2] = b
      OBVIOUS
    <3> QED
      BY <1>6, <3>1 DEF Absent
  <2>2. fs = <<a, b>> /\ a \in F => ~Absent(fs, F)
    <3>1. 1 \in DOMAIN <<a, b>> /\ <<a, b>>[1] = a
      OBVIOUS
    <3> QED
      BY <3>1 DEF Absent
  <2>3. c \notin F /\ ~Absent(work, F) => ~Absent(Tail(work), F)
    BY <1>1, <1>2, LeftFound DEF c
  <2> QED
    BY <1>6, <1>7, <1>8, <2>1, <2>2, <2>3, Found DEF Stays
<1>9. ASSUME NEW p \in Process
      PROVE  /\ c \in ExitsOf(p) => b \in ExitsOf(p)
             /\ c \in TellsOf(p) => b \in TellsOf(p) \/ (fs = <<a, b>> /\ a \in TellsOf(p))
  <2>1. c \in ExitsOf(p) => b \in ExitsOf(p)
    BY <1>1, <1>4, <1>5 DEF ExitsOf
  <2>2. c \in TellsOf(p) => c.q = p
    BY <1>1 DEF TellsOf
  <2>3. c.q = p /\ q # ETimer => b \in TellsOf(p)
    BY <1>4, <1>5 DEF TellsOf
  <2>4. c.q = p /\ q = ETimer => fs = <<a, b>> /\ a \in TellsOf(p)
    BY <1>2, <1>4, <1>5, <1>6 DEF TellsOf
  <2> QED
    BY <2>1, <2>2, <2>3, <2>4
<1>10. \A p \in Process : Stays(work, work', ExitsOf(p)) /\ Stays(work, work', TellsOf(p))
  BY <1>8, <1>9
<1>11. a \notin Astray /\ b \notin Astray /\ a \notin HandlersOf(ETimer) /\ b \notin HandlersOf(ETimer)
  BY <1>2, <1>5 DEF Astray, HandlersOf, Handlers
<1>12. Absent(fs, Astray) /\ Absent(fs, HandlersOf(ETimer))
  BY <1>4, <1>6, <1>11, Short
<1>13. Absent(Tail(work), Astray) /\ Absent(Tail(work), HandlersOf(ETimer))
  <2>1. Absent(work, Astray) /\ Top(work, HandlersOf(ETimer))
    BY DEF ExitsInv, StackInv
  <2> QED
    BY <1>1, <1>2, <2>1, Popping, TopTail
<1>14. Absent(work', Astray) /\ Absent(work', HandlersOf(ETimer))
  BY <1>6, <1>7, <1>12, <1>13, Pushing
<1>15. Goes(work, work')
  BY <1>10, <1>14, TopAbsent DEF Goes
<1> QED
  BY <1>1, <1>15, CalmExits

(* The loop of an exit is over: everyone has been told.                    *)
LEMMA ExitUnlinksExits ==
  ASSUME TypeOK, TypeOK', CallInv', ListInv, ExitsInv, ExitUnlinks
  PROVE  ExitsInv'
<1> DEFINE c == Head(work)
<1>1. /\ work # <<>> /\ c.f = "exit" /\ Following(c.p) = NULL
      /\ Unlink(c.q) /\ Become(<<>>) /\ state' = state /\ timerlist' = timerlist
  BY DEF ExitUnlinks, In, timers
<1>2. c.q \in Process /\ c \in Frames /\ work \in Seq(Frames) /\ c.p = ETimer
  BY <1>1, ExitGoes, Innermost DEF ExitsInv, TypeOK
<1>3. ChainInv' /\ Listed' \subseteq Listed \ {c.q} /\ Linked \subseteq Linked'
  BY <1>1, <1>2, ChainUnlinks DEF ExitsInv
<1>4. work' = Tail(work)
  <2>1. Tail(work) \in Seq(Frames) /\ work' = <<>> \o Tail(work)
    BY <1>1, <1>2, Popping DEF Become
  <2> QED
    BY <2>1, ConcatEmptySeq
<1>5. ASSUME NEW F, c \notin F PROVE Stays(work, work', F)
  BY <1>1, <1>2, <1>4, <1>5, LeftFound DEF Stays
<1>6. \A p \in Process : c \notin TellsOf(p) /\ (p # c.q => c \notin ExitsOf(p))
  BY <1>1, <1>2 DEF TellsOf, ExitsOf
<1>7. Absent(work', Astray) /\ Absent(work', HandlersOf(ETimer))
  <2>1. Absent(work, Astray) /\ Top(work, HandlersOf(ETimer))
    BY DEF ExitsInv, StackInv
  <2> QED
    BY <1>1, <1>2, <1>4, <2>1, Popping, TopTail
<1>8. \A p \in Process : p \in Listed' =>
        p \in Listed /\ Stays(work, work', ExitsOf(p))
  BY <1>3, <1>5, <1>6
<1>9. \A p \in Process : Stays(work, work', TellsOf(p))
  BY <1>5, <1>6
<1>10. Distinct(timerlist') /\ ToSet(timerlist') = ToSet(timerlist)
  BY <1>1 DEF ExitsInv, TimerInv, Distinct
<1> QED
  BY <1>1, <1>3, <1>7, <1>8, <1>9, <1>10, TopAbsent, ExitsAfter DEF ExitsInv
-----------------------------------------------------------------------------
(* Timers.                                                                 *)
LEMMA DropOnce ==
  ASSUME TypeOK, Distinct(timerlist), NEW i \in DOMAIN timerlist, Drop(i)
  PROVE  Distinct(timerlist') /\ ToSet(timerlist') \subseteq ToSet(timerlist) \ {timerlist[i]}
<1>1. /\ timerlist \in Seq(Process) /\ Len(timerlist) \in Nat
      /\ DOMAIN timerlist = 1..Len(timerlist) /\ i \in 1..Len(timerlist)
  BY LenProperties DEF TypeOK
<1> DEFINE a == SubSeq(timerlist, 1, i - 1)
           b == SubSeq(timerlist, i + 1, Len(timerlist))
           old(j) == IF j < i THEN j ELSE j + 1
<1>2. /\ a \in Seq(Process) /\ Len(a) = i - 1
      /\ \A j \in 1..(i - 1) : a[j] = timerlist[j]
  BY <1>1
<1>3. /\ b \in Seq(Process) /\ Len(b) = Len(timerlist) - i
      /\ \A j \in 1..(Len(timerlist) - i) : b[j] = timerlist[i + j]
  BY <1>1
<1>4. timerlist' = a \o b
  BY DEF Drop, RemoveAt
<1> HIDE DEF a, b
<1>5. /\ Len(timerlist') = Len(timerlist) - 1 /\ DOMAIN timerlist' = 1..(Len(timerlist) - 1)
      /\ \A j \in 1..(Len(timerlist) - 1) :
            timerlist'[j] = IF j <= i - 1 THEN a[j] ELSE b[j - (i - 1)]
  <2>1. /\ timerlist' \in Seq(Process) /\ Len(timerlist') = Len(a) + Len(b)
        /\ \A j \in 1..(Len(a) + Len(b)) :
              timerlist'[j] = IF j <= Len(a) THEN a[j] ELSE b[j - Len(a)]
    BY <1>2, <1>3, <1>4, ConcatProperties
  <2>2. Len(a) + Len(b) = Len(timerlist) - 1
    BY <1>1, <1>2, <1>3
  <2>3. DOMAIN timerlist' = 1..Len(timerlist')
    BY <2>1, LenProperties
  <2> QED
    BY <1>2, <2>1, <2>2, <2>3
<1>6. \A j \in DOMAIN timerlist' : /\ old(j) \in DOMAIN timerlist /\ old(j) # i
                                   /\ timerlist'[j] = timerlist[old(j)]
  <2> TAKE j \in DOMAIN timerlist'
  <2>1. j \in 1..(Len(timerlist) - 1)
    BY <1>5
  <2>2. CASE j < i
    <3>1. j \in 1..(i - 1) /\ j <= i - 1
      BY <1>1, <2>1, <2>2
    <3> QED
      BY <1>1, <1>2, <1>5, <2>1, <2>2, <3>1
  <2>3. CASE ~(j < i)
    <3>1. j - (i - 1) \in 1..(Len(timerlist) - i) /\ ~(j <= i - 1) /\ i + (j - (i - 1)) = j + 1
      BY <1>1, <2>1, <2>3
    <3>2. timerlist'[j] = timerlist[j + 1]
      BY <1>3, <1>5, <2>1, <3>1
    <3>3. j + 1 \in 1..Len(timerlist) /\ j + 1 # i
      BY <1>1, <2>1, <2>3
    <3> QED
      BY <1>1, <2>3, <3>2, <3>3
  <2> QED
    BY <2>2, <2>3
<1>7. \A j, k \in DOMAIN timerlist' : old(j) = old(k) => j = k
  BY <1>1, <1>5
<1> HIDE DEF old
<1>8. Distinct(timerlist')
  BY <1>6, <1>7 DEF Distinct
<1>9. ToSet(timerlist') \subseteq ToSet(timerlist) \ {timerlist[i]}
  BY <1>6 DEF ToSet, Distinct
<1> QED
  BY <1>8, <1>9

LEMMA PutOnce ==
  ASSUME TypeOK, Distinct(timerlist), NEW p \in Process, p \notin ToSet(timerlist)
  PROVE  /\ Distinct(<<p>> \o timerlist)
         /\ ToSet(<<p>> \o timerlist) \subseteq ToSet(timerlist) \cup {p}
<1> DEFINE l == <<p>> \o timerlist
<1>1. /\ timerlist \in Seq(Process) /\ Len(timerlist) \in Nat
      /\ DOMAIN timerlist = 1..Len(timerlist) /\ <<p>> \in Seq(Process) /\ Len(<<p>>) = 1
      /\ <<p>>[1] = p
  BY LenProperties DEF TypeOK
<1>2. /\ Len(l) = 1 + Len(timerlist) /\ DOMAIN l = 1..(1 + Len(timerlist))
      /\ \A j \in 1..(1 + Len(timerlist)) : l[j] = IF j <= 1 THEN <<p>>[j] ELSE timerlist[j - 1]
  <2>1. /\ l \in Seq(Process) /\ Len(l) = Len(<<p>>) + Len(timerlist)
        /\ \A j \in 1..(Len(<<p>>) + Len(timerlist)) :
              l[j] = IF j <= Len(<<p>>) THEN <<p>>[j] ELSE timerlist[j - Len(<<p>>)]
    BY <1>1, ConcatProperties
  <2>2. DOMAIN l = 1..Len(l)
    BY <2>1, LenProperties
  <2> QED
    BY <1>1, <2>1, <2>2
<1> HIDE DEF l
<1>3. l[1] = p
  <2>1. 1 \in 1..(1 + Len(timerlist)) /\ 1 <= 1
    BY <1>1
  <2> QED
    BY <1>1, <1>2, <2>1
<1>4. \A j \in DOMAIN l : j # 1 => j - 1 \in DOMAIN timerlist /\ l[j] = timerlist[j - 1]
  <2> SUFFICES ASSUME NEW j \in 1..(1 + Len(timerlist)), j # 1
               PROVE  j - 1 \in DOMAIN timerlist /\ l[j] = timerlist[j - 1]
    BY <1>2
  <2>1. ~(j <= 1) /\ j - 1 \in 1..Len(timerlist)
    BY <1>1
  <2> QED
    BY <1>1, <1>2, <2>1
<1>5. \A j \in DOMAIN l : j # 1 => l[j] # p
  BY <1>4 DEF ToSet
<1>6. \A j, k \in DOMAIN l : j - 1 = k - 1 => j = k
  BY <1>1, <1>2
<1>7. Distinct(l)
  <2> SUFFICES ASSUME NEW j \in DOMAIN l, NEW k \in DOMAIN l, l[j] = l[k] PROVE j = k
    BY DEF Distinct
  <2>1. CASE j = 1 \/ k = 1
    BY <1>3, <1>5, <2>1
  <2>2. CASE j # 1 /\ k # 1
    BY <1>4, <1>6, <2>2 DEF Distinct
  <2> QED
    BY <2>1, <2>2
<1>8. ToSet(l) \subseteq ToSet(timerlist) \cup {p}
  BY <1>3, <1>4 DEF ToSet
<1> QED
  BY <1>7, <1>8 DEF l

(* A handler that has no part in exits gives way to fs.                    *)
LEMMA HandlerExits ==
  ASSUME TypeOK, TypeOK', CallInv', ExitsInv, work # <<>>, Plain(Head(work)),
         NEW fs \in Seq(Frames), Passing(fs) \/ \E p \in Process : fs = Returning(p), Become(fs),
         UNCHANGED <<head, next>>, state' = state \/ \E p \in Proc : Idle(p),
         Distinct(timerlist'),
         \A p \in Process : p \in ToSet(timerlist') /\ state'[p] = "none" => p \in ToSet(timerlist)
  PROVE  ExitsInv'
<1>1. Absent(fs, Astray) /\ Absent(fs, HandlersOf(ETimer))
  <2>1. CASE Passing(fs)
    BY <2>1, PassingGoes
  <2>2. ASSUME NEW p \in Process, fs = Returning(p)
        PROVE  Absent(fs, Astray) /\ Absent(fs, HandlersOf(ETimer))
    <3> DEFINE a == Frame("return", p, NULL, "")
    <3>1. a \in Frames
      BY FrameType, FrameTypes, Constants
    <3>2. a.f = "return" /\ a.p = p /\ fs = <<a>> /\ p # ETimer
      BY <2>2, Constants DEF Frame, Returning
    <3> HIDE DEF a
    <3>3. a \notin Astray /\ a \notin HandlersOf(ETimer)
      BY <3>1, <3>2, IsPlain
    <3> QED
      BY <3>1, <3>2, <3>3, Short
  <2> QED
    BY <2>1, <2>2
<1>2. Goes(work, work')
  BY <1>1, TopAbsent, PlainGoes DEF ExitsInv, Become
<1>3. \A q \in Process : state'[q] = "none" => state[q] = "none"
  <2>1. state \in [Proc -> {"none", "running", "called"}] /\ Process \subseteq Proc
    BY Constants DEF TypeOK
  <2>2. state' = state \/ \E p \in Proc : state' = [state EXCEPT ![p] = "running"]
    BY DEF Idle
  <2> QED
    BY <2>1, <2>2
<1> QED
  BY <1>2, <1>3, QuietExits

(* The timer process forgets the timer when it is told.                    *)
LEMMA TimerExitedExits ==
  ASSUME TypeOK, TypeOK', CallInv', ExitsInv, TimerExited
  PROVE  ExitsInv'
<1> DEFINE c == Head(work)
<1>1. /\ work # <<>> /\ c.f = "run" /\ c.p = ETimer /\ c.ev # "poll"
      /\ UNCHANGED <<head, next>> /\ Idle(ETimer) /\ Become(<<>>)
      /\ IF c.ev = "exited" /\ c.q \in ToSet(timerlist)
         THEN \E i \in DOMAIN timerlist : timerlist[i] = c.q /\ Drop(i)
         ELSE UNCHANGED <<timerlist, timer>>
  BY DEF TimerExited, In, Yield
<1>2. c \in Frames /\ work \in Seq(Frames)
  BY <1>1, Innermost DEF TypeOK
<1>3. /\ Distinct(timerlist') /\ ToSet(timerlist') \subseteq ToSet(timerlist)
      /\ c.ev = "exited" => c.q \notin ToSet(timerlist')
  <2>1. CASE c.ev = "exited" /\ c.q \in ToSet(timerlist)
    <3>1. PICK i \in DOMAIN timerlist : timerlist[i] = c.q /\ Drop(i)
      BY <1>1, <2>1
    <3> QED
      BY <3>1, DropOnce DEF ExitsInv, TimerInv
  <2>2. CASE ~(c.ev = "exited" /\ c.q \in ToSet(timerlist))
    <3>1. timerlist' = timerlist
      BY <1>1, <2>2
    <3>2. Distinct(timerlist') /\ ToSet(timerlist') = ToSet(timerlist)
      BY <3>1 DEF ExitsInv, TimerInv, Distinct
    <3> QED
      BY <2>2, <3>2
  <2> QED
    BY <2>1, <2>2
<1>4. work' = Tail(work)
  <2>1. Tail(work) \in Seq(Frames) /\ work' = <<>> \o Tail(work)
    BY <1>1, <1>2, Popping DEF Become
  <2> QED
    BY <2>1, ConcatEmptySeq
<1>5. ASSUME NEW F, c \notin F PROVE Stays(work, work', F)
  BY <1>1, <1>2, <1>4, <1>5, LeftFound DEF Stays
<1>6. \A p \in Process : /\ c \notin ExitsOf(p)
                         /\ p \in ToSet(timerlist') => c \notin TellsOf(p)
  BY <1>1, <1>3 DEF TellsOf, ExitsOf
<1>7. Absent(work', Astray) /\ Absent(work', HandlersOf(ETimer))
  <2>1. Absent(work, Astray) /\ Top(work, HandlersOf(ETimer))
    BY DEF ExitsInv, StackInv
  <2> QED
    BY <1>1, <1>2, <1>4, <2>1, Popping, TopTail
<1>8. \A p \in Process : state'[p] = state[p]
  <2>1. state \in [Proc -> {"none", "running", "called"}] /\ state' = [state EXCEPT ![ETimer] = "running"]
    BY <1>1 DEF TypeOK, Idle
  <2> QED
    BY <2>1, Constants
<1>9. ChainInv' /\ Linked \subseteq Linked' /\ Listed' = Listed
  BY <1>1, ListedStays DEF ExitsInv, ChainInv, Linked, Reach, Closed
<1>10. \A p \in Process : Stays(work, work', ExitsOf(p))
  BY <1>5, <1>6
<1>11. \A p \in Process : p \in ToSet(timerlist') => p \in ToSet(timerlist) /\ Stays(work, work', TellsOf(p))
  BY <1>3, <1>5, <1>6
<1> QED
  BY <1>3, <1>7, <1>8, <1>9, <1>10, <1>11, TopAbsent, ExitsAfter DEF ExitsInv

LEMMA SystemExits ==
  ASSUME TypeOK, TypeOK', CallInv', ExitsInv, RadioHandler \/ TimerExited \/ TimerPolled
  PROVE  ExitsInv'
<1>1. /\ ETimer # Radio /\ ETimer \in Proc /\ Radio \in Proc /\ <<>> \in Seq(Frames) /\ Passing(<<>>)
      /\ Distinct(timerlist)
  BY Constants, Nothing DEF ExitsInv, TimerInv
<1>2. CASE RadioHandler
  <2>1. /\ work # <<>> /\ Head(work).f = "run" /\ Head(work).p = Radio /\ Idle(Radio) /\ Become(<<>>)
        /\ UNCHANGED <<head, next>> /\ timerlist' = timerlist
    BY <1>2 DEF RadioHandler, In, Yield, timers
  <2>2. Plain(Head(work)) /\ Distinct(timerlist')
    BY <1>1, <2>1 DEF Plain, Distinct
  <2> QED
    BY <1>1, <2>1, <2>2, HandlerExits
<1>3. CASE TimerPolled
  <2>1. /\ work # <<>> /\ Head(work).f = "run" /\ Head(work).ev = "poll" /\ UNCHANGED <<head, next>>
        /\ (Yield(ETimer) /\ timerlist' = timerlist) \/ Announce
    BY <1>3 DEF TimerPolled, In, timers
  <2>2. CASE Yield(ETimer) /\ timerlist' = timerlist
    <3>1. Plain(Head(work)) /\ Distinct(timerlist') /\ Idle(ETimer) /\ Become(<<>>)
      BY <1>1, <2>1, <2>2 DEF Plain, Distinct, Yield
    <3> QED
      BY <1>1, <2>1, <2>2, <3>1, HandlerExits
  <2>3. CASE Announce
    <3>1. PICK i \in DOMAIN timerlist : Drop(i)
      BY <2>3 DEF Announce
    <3>2. work' = work /\ state' = state
      BY <2>3 DEF Announce
    <3>3. Distinct(timerlist') /\ ToSet(timerlist') \subseteq ToSet(timerlist)
      BY <1>1, <3>1, DropOnce
    <3>4. Goes(work, work')
      BY <3>2, SameGoes DEF ExitsInv, Goes, Stays, Absent, Top
    <3> QED
      BY <2>1, <3>2, <3>3, <3>4, QuietExits
  <2> QED
    BY <2>1, <2>2, <2>3
<1> QED
  BY <1>2, <1>3, TimerExitedExits

LEMMA QuietHandlerExits ==
  ASSUME NEW p \in Process
  PROVE  /\ TypeOK /\ TypeOK' /\ CallInv /\ CallInv' /\ ExitsInv
         /\ Return(p) \/ etimer_set(p) \/ etimer_stop(p) \/ Post(p)
         => ExitsInv'
<1> SUFFICES ASSUME TypeOK, TypeOK', CallInv, CallInv', ExitsInv,
                    Return(p) \/ etimer_set(p) \/ etimer_stop(p) \/ Post(p)
             PROVE  ExitsInv'
  OBVIOUS
<1>1. /\ p \in Proc /\ p # ETimer /\ <<>> \in Seq(Frames) /\ Passing(<<>>)
      /\ Distinct(timerlist)
  BY Constants, Nothing DEF ExitsInv, TimerInv
<1>2. Returning(p) \in Seq(Frames)
  <2>1. Frame("return", p, NULL, "") \in Frames
    BY FrameType, FrameTypes, Constants
  <2> QED
    BY <2>1, Sizes DEF Returning
<1>3. /\ work # <<>> /\ Head(work).p = p /\ Head(work).f \in Handlers /\ UNCHANGED <<head, next>>
      /\ state' = state \/ Idle(p)
      /\ Become(<<>>) \/ Become(Returning(p))
  BY DEF Return, etimer_set, etimer_stop, Post, Ending, Handling, At, Yield, kernel, Handlers
<1>4. Plain(Head(work))
  BY <1>1, <1>3 DEF Plain, Handlers
<1>5. /\ Distinct(timerlist')
      /\ \A q \in Process : q \in ToSet(timerlist') /\ state'[q] = "none" => q \in ToSet(timerlist)
  <2>1. CASE Return(p) \/ Post(p)
    <3>1. timerlist' = timerlist
      BY <2>1 DEF Return, Post, timers
    <3> QED
      BY <1>1, <3>1 DEF Distinct
  <2>2. CASE etimer_stop(p)
    <3>1. PICK i \in DOMAIN timerlist : Drop(i)
      BY <2>2 DEF etimer_stop
    <3> QED
      BY <1>1, <3>1, DropOnce
  <2>3. CASE etimer_set(p)
    <3>1. /\ twice = {} /\ state' = state
          /\ timerlist' = IF p \in ToSet(timerlist) THEN timerlist ELSE <<p>> \o timerlist
      BY <2>3 DEF etimer_set, Doing, kernel
    <3>2. state[p] = "called"
      <4>1. Head(work) \in HandlersOf(p) /\ work \in Seq(Frames)
        BY <1>3, Innermost DEF HandlersOf, TypeOK
      <4>2. ~Absent(work, HandlersOf(p))
        BY <1>3, <4>1, Popping
      <4> QED
        BY <1>1, <3>1, <4>2 DEF CallInv, OneInv
    <3>3. CASE p \in ToSet(timerlist)
      BY <1>1, <3>1, <3>3 DEF Distinct
    <3>4. CASE p \notin ToSet(timerlist)
      BY <1>1, <3>1, <3>2, <3>4, PutOnce
    <3> QED
      BY <3>3, <3>4
  <2> QED
    BY <2>1, <2>2, <2>3
<1> QED
  BY <1>1, <1>2, <1>3, <1>4, <1>5, HandlerExits
-----------------------------------------------------------------------------
(* Starts and exits.                                                       *)
LEMMA GoesPush ==
  ASSUME NEW w, NEW s \in Seq(Frames), NEW a \in Frames, a \notin Astray, Goes(w, s),
         Absent(s, HandlersOf(ETimer))
  PROVE  Goes(w, <<a>> \o s)
<1>1. <<a>> \in Seq(Frames) /\ Absent(<<a>>, Astray)
  BY Sizes, Short
<1>2. Absent(<<a>> \o s, Astray)
  BY <1>1, Pushing DEF Goes
<1>3. Top(<<a>>, HandlersOf(ETimer))
  <2>1. DOMAIN <<a>> = {1}
    OBVIOUS
  <2> QED
    BY <2>1 DEF Top
<1>4. Top(<<a>> \o s, HandlersOf(ETimer))
  BY <1>1, <1>3, TopPush
<1>5. \A F : Stays(w, s, F) => Stays(w, <<a>> \o s, F)
  BY <1>1, Found DEF Stays
<1> QED
  BY <1>2, <1>4, <1>5 DEF Goes

LEMMA StartExits ==
  ASSUME TypeOK, TypeOK', CallInv', ListInv, ExitsInv, NEW q \in Process, NEW s \in Seq(Frames),
         process_start(q, s), Goes(work, s), Absent(s, HandlersOf(ETimer)), timerlist' = timerlist
  PROVE  ExitsInv'
<1>1. state \in [Proc -> {"none", "running", "called"}] /\ q \in Proc
  BY Constants DEF TypeOK
<1>2. CASE q \in Listed
  <2>1. work' = s /\ UNCHANGED <<head, next>> /\ state' = state
    BY <1>2 DEF process_start
  <2>2. Goes(work, work')
    BY <2>1
  <2> QED
    BY <2>1, <2>2, CalmExits
<1>3. CASE q \notin Listed
  <2> DEFINE a == Frame("call", q, NULL, "init")
  <2>1. /\ head' = q /\ next' = [next EXCEPT ![q] = head] /\ work' = <<a>> \o s
        /\ state' = [state EXCEPT ![q] = "running"]
    BY <1>3 DEF process_start, Idle
  <2>2. a \in Frames /\ a.f = "call"
    <3>1. a \in Frames
      BY FrameType, FrameTypes, Constants
    <3>2. a.f = "call"
      BY DEF Frame
    <3> QED
      BY <3>1, <3>2
  <2> HIDE DEF a
  <2>3. Goes(work, work')
    BY <2>1, <2>2, IsPlain, GoesPush
  <2>4. ChainInv' /\ Listed' \subseteq Listed \cup {q} /\ Linked \subseteq Linked'
    BY <1>3, <2>1, ChainStarts DEF ExitsInv
  <2>5. \A p \in Process : state'[p] = "none" => p # q /\ state[p] = "none"
    BY <1>1, <2>1, Constants
  <2>6. \A p \in Process : Stays(work, work', ExitsOf(p)) /\ Stays(work, work', TellsOf(p))
    BY <2>3 DEF Goes
  <2>7. Absent(work', Astray) /\ Top(work', HandlersOf(ETimer))
    BY <2>3 DEF Goes
  <2>8. Distinct(timerlist') /\ ToSet(timerlist') = ToSet(timerlist)
    BY DEF ExitsInv, TimerInv, Distinct
  <2> QED
    BY <2>4, <2>5, <2>6, <2>7, <2>8, ExitsAfter DEF ExitsInv
<1> QED
  BY <1>2, <1>3

LEMMA ExitExits ==
  ASSUME TypeOK, TypeOK', CallInv', ListInv, ExitsInv, NEW q \in Process, NEW s \in Seq(Frames),
         exit_process(q, s), Goes(work, s), Absent(s, HandlersOf(ETimer)), timerlist' = timerlist
  PROVE  ExitsInv'
<1>1. state \in [Proc -> {"none", "running", "called"}] /\ q \in Proc
  BY Constants DEF TypeOK
<1>2. /\ ChainInv /\ GoneInv /\ TimerInv
      /\ Distinct(timerlist') /\ ToSet(timerlist') = ToSet(timerlist)
  BY DEF ExitsInv, TimerInv, Distinct
<1>3. CASE q \in Listed /\ state[q] # "none"
  <2> DEFINE a == Frame("exit", START, q, "")
  <2>1. /\ work' = <<a>> \o s /\ UNCHANGED <<head, next>>
        /\ state' = [state EXCEPT ![q] = "none"]
    BY <1>3 DEF exit_process
  <2>2. a \in Frames
    BY FrameType, FrameTypes, Constants
  <2>3. a.f = "exit" /\ a.q = q /\ a.p = START /\ START # ETimer
    BY Constants DEF Frame
  <2> HIDE DEF a
  <2>4. a \in ExitsOf(q) /\ a \in TellsOf(q) /\ a \notin Astray
    BY <2>2, <2>3 DEF ExitsOf, TellsOf, Astray
  <2>5. Goes(work, work')
    BY <2>1, <2>2, <2>4, GoesPush
  <2>6. \A F : a \in F => ~Absent(work', F)
    <3>1. <<a>> \in Seq(Frames) /\ 1 \in DOMAIN <<a>> /\ <<a>>[1] = a
      BY <2>2
    <3>2. \A F : a \in F => ~Absent(<<a>>, F)
      BY <3>1 DEF Absent
    <3> QED
      BY <2>1, <3>1, <3>2, Found
  <2>7. ChainInv' /\ Linked \subseteq Linked' /\ Listed' = Listed
    BY <1>2, <2>1, ListedStays DEF ChainInv, Linked, Reach, Closed
  <2>8. \A p \in Process : state'[p] = "none" => p = q \/ state[p] = "none"
    BY <1>1, <2>1, Constants
  <2>9. \A p \in Process : Stays(work, work', ExitsOf(p)) /\ Stays(work, work', TellsOf(p))
    BY <2>5 DEF Goes
  <2>10. Absent(work', Astray) /\ Top(work', HandlersOf(ETimer))
    BY <2>5 DEF Goes
  <2>11. ~Absent(work', ExitsOf(q)) /\ ~Absent(work', TellsOf(q))
    BY <2>4, <2>6
  <2> QED
    BY <1>2, <2>7, <2>8, <2>9, <2>10, <2>11, ExitsAfter
<1>4. CASE ~(q \in Listed /\ state[q] # "none")
  <2>1. work' = s /\ IF q \in Listed THEN Unlink(q) ELSE UNCHANGED <<head, next>>
    BY <1>4 DEF exit_process
  <2>2. \A p \in Process : state'[p] = state[p]
    <3>1. state' = [state EXCEPT ![q] = IF q \in Listed THEN "none" ELSE @]
      BY DEF exit_process
    <3> QED
      BY <1>1, <1>4, <3>1, Constants
  <2>3. ChainInv' /\ Linked \subseteq Linked' /\ Listed' \subseteq Listed
    <3>1. CASE Unlink(q)
      BY <1>2, <3>1, ChainUnlinks
    <3>2. CASE UNCHANGED <<head, next>>
      BY <1>2, <3>2, ListedStays DEF ChainInv, Linked, Reach, Closed
    <3> QED
      BY <2>1, <3>1, <3>2
  <2>4. \A p \in Process : Stays(work, work', ExitsOf(p)) /\ Stays(work, work', TellsOf(p))
    BY <2>1 DEF Goes
  <2>5. Absent(work', Astray) /\ Top(work', HandlersOf(ETimer))
    BY <2>1 DEF Goes
  <2> QED
    BY <1>2, <2>2, <2>3, <2>4, <2>5, ExitsAfter
<1> QED
  BY <1>3, <1>4

LEMMA BootExits ==
  ASSUME TypeOK, TypeOK', CallInv', ListInv, ExitsInv, Boot
  PROVE  ExitsInv'
<1>1. /\ work = <<>> /\ timerlist' = timerlist
      /\ \/ UNCHANGED kernel /\ work' = work
         \/ \E p \in autostart : process_start(p, <<>>)
  BY DEF Boot, timers
<1>2. CASE UNCHANGED kernel /\ work' = work
  <2>1. Goes(work, work')
    BY <1>2, SameGoes DEF ExitsInv, Goes, Stays, Absent, Top
  <2> QED
    BY <1>1, <1>2, <2>1, CalmExits DEF kernel
<1>3. ASSUME NEW p \in autostart, process_start(p, <<>>) PROVE ExitsInv'
  <2>1. p \in Process /\ <<>> \in Seq(Frames)
    BY Nothing DEF TypeOK
  <2>2. \A F : Absent(<<>>, F)
    BY DEF Absent
  <2>3. Goes(work, <<>>)
    BY <1>1, SameGoes DEF ExitsInv
  <2> QED
    BY <1>1, <1>3, <2>1, <2>2, <2>3, StartExits
<1> QED
  BY <1>1, <1>2, <1>3

LEMMA ListHandlerExits ==
  ASSUME NEW p \in Process
  PROVE  /\ TypeOK /\ TypeOK' /\ CallInv' /\ ListInv /\ ExitsInv
         /\ Exit(p) \/ ExitOther(p) \/ Start(p)
         => ExitsInv'
<1> SUFFICES ASSUME TypeOK, TypeOK', CallInv', ListInv, ExitsInv, Exit(p) \/ ExitOther(p) \/ Start(p)
             PROVE  ExitsInv'
  OBVIOUS
<1> DEFINE r == Frame("restart", p, NULL, "")
           t == Frame("return", p, NULL, "")
<1>1. /\ work # <<>> /\ Head(work).p = p /\ Head(work).f \in Handlers /\ timerlist' = timerlist
      /\ \/ exit_process(p, Tail(work))
         \/ \E q \in Process : \/ exit_process(q, <<r>> \o Tail(work))
                                \/ process_start(q, <<t>> \o Tail(work))
  BY DEF Exit, ExitOther, Start, Ending, Handling, At, Returning, timers, Handlers
<1>2. p \in Proc /\ p # ETimer /\ work \in Seq(Frames)
  BY Constants DEF TypeOK
<1>3. r \in Frames /\ t \in Frames
  <2>1. r \in Frames
    BY FrameType, FrameTypes, Constants
  <2>2. t \in Frames
    BY FrameType, FrameTypes, Constants
  <2> QED
    BY <2>1, <2>2
<1>4. r.f = "restart" /\ t.f = "return" /\ r.p = p /\ t.p = p
  BY DEF Frame
<1> HIDE DEF r, t
<1>5. Plain(Head(work)) /\ StackInv
  BY <1>1, <1>2 DEF Plain, Handlers, ExitsInv
<1>6. /\ Tail(work) \in Seq(Frames) /\ Absent(Tail(work), HandlersOf(ETimer))
      /\ <<>> \o Tail(work) = Tail(work)
  BY <1>1, <1>2, <1>5, Popping, TopTail, ConcatEmptySeq DEF StackInv
<1>7. Goes(work, Tail(work))
  <2>1. <<>> \in Seq(Frames) /\ \A F : Absent(<<>>, F)
    BY Nothing DEF Absent
  <2> QED
    BY <1>1, <1>5, <1>6, <2>1, TopAbsent, PlainGoes
<1>8. ASSUME NEW a \in Frames, a.f \in {"restart", "return"}, a.p = p
      PROVE  /\ <<a>> \o Tail(work) \in Seq(Frames) /\ Goes(work, <<a>> \o Tail(work))
             /\ Absent(<<a>> \o Tail(work), HandlersOf(ETimer))
  <2>1. a \notin Astray /\ a \notin HandlersOf(ETimer)
    BY <1>2, <1>8, IsPlain
  <2>2. <<a>> \in Seq(Frames) /\ Absent(<<a>>, HandlersOf(ETimer))
    BY <2>1, Sizes, Short
  <2> QED
    BY <1>6, <1>7, <2>1, <2>2, Stacked, Pushing, GoesPush
<1> QED
  BY <1>1, <1>3, <1>4, <1>6, <1>7, <1>8, ExitExits, StartExits
-----------------------------------------------------------------------------
LEMMA InitExits == Init => ExitsInv
<1> SUFFICES ASSUME Init PROVE ExitsInv
  OBVIOUS
<1>1. /\ head = Radio /\ next = [p \in Proc |-> IF p = Radio THEN ETimer ELSE NULL]
      /\ work = <<>> /\ timerlist = <<>> /\ TypeOK
  BY InitType DEF Init
<1>2. \A F : Absent(work, F)
  BY <1>1 DEF Absent
<1>3. ChainInv
  <2> SUFFICES ASSUME NEW x \in Linked PROVE ETimer \in Reach(x)
    BY DEF ChainInv
  <2>1. x \in {Radio, ETimer}
    BY <1>1, Constants DEF Linked
  <2>2. x \in Reach(x) /\ (x = Radio => next[x] = ETimer)
    BY <1>1, <2>1, ReachLeast, Constants
  <2> QED
    BY <1>1, <2>1, <2>2, ReachNext, Constants
<1>4. GoneInv
  <2> SUFFICES ASSUME NEW p \in Listed PROVE state[p] # "none"
    BY DEF GoneInv
  <2>1. {Radio, ETimer, NULL} \in SUBSET (Proc \cup {NULL}) /\ Closed({Radio, ETimer, NULL})
    BY <1>1, Constants DEF Closed
  <2>2. p \in {Radio, ETimer}
    BY <1>1, <2>1, ReachLeast, Constants DEF Listed
  <2> QED
    BY <2>2, Constants DEF Init
<1>5. TimerInv
  BY <1>1 DEF TimerInv, Distinct, ToSet
<1> QED
  BY <1>2, <1>3, <1>4, <1>5, TopAbsent DEF ExitsInv, StackInv

LEMMA StepExits ==
  TypeOK /\ TypeOK' /\ SleepInv /\ CallInv /\ CallInv' /\ ExitsInv /\ [Next]_vars => ExitsInv'
<1> SUFFICES ASSUME TypeOK, TypeOK', SleepInv, CallInv, CallInv', ExitsInv, [Next]_vars
             PROVE  ExitsInv'
  OBVIOUS
<1>1. ListInv
  BY DEF SleepInv
<1>2. CASE Tick \/ RadioInterrupt \/ Sleep \/ UNCHANGED vars
  <2>1. UNCHANGED <<head, next, timerlist>> /\ state' = state /\ work' = work
    BY <1>2 DEF Tick, RadioInterrupt, Sleep, vars, kernel, timers
  <2>2. Goes(work, work')
    BY <2>1, SameGoes DEF ExitsInv, Goes, Stays, Absent, Top
  <2> QED
    BY <2>1, <2>2, CalmExits
<1>3. ASSUME NEW p \in Process,
             \/ Return(p) \/ Exit(p) \/ etimer_set(p) \/ etimer_stop(p)
             \/ Post(p) \/ Start(p) \/ ExitOther(p)
      PROVE  ExitsInv'
  BY <1>1, <1>3, QuietHandlerExits, ListHandlerExits
<1> QED
  BY <1>1, <1>2, <1>3, BootExits, MainExits, LoopExits, call_processExits, ExitTellsExits,
     ExitUnlinksExits, SystemExits DEF Next, Main

(* Whatever handlers start, exit and restart while loops over the list are *)
(* suspended in calls of other handlers, the list ends, it holds what runs *)
(* and besides only what is about to leave it, and the timer of a process  *)
(* that exits is not forgotten: a loop that has yet to come to the timer   *)
(* process, or the call of it, is in the stack (process.c:137).            *)
THEOREM ExitsLeaveNothing == Spec => []ExitsSound
<1>1. TypeOK /\ SleepInv /\ CallInv /\ ExitsInv => ExitsSound
  <2> SUFFICES ASSUME TypeOK, SleepInv, CallInv, ExitsInv PROVE ExitsSound
    OBVIOUS
  <2>1. /\ head \in Linked /\ head \in Proc /\ next[ETimer] = NULL /\ ETimer \in Proc
        /\ NULL \notin Proc
    BY Constants DEF SleepInv, ListInv, Linked
  <2>2. NULL \in Reach(head)
    <3>1. ETimer \in Reach(head) /\ Closed(Reach(head))
      BY <2>1, ReachLeast DEF ExitsInv, ChainInv
    <3> QED
      BY <2>1, <3>1 DEF Closed
  <2>3. {p \in Proc : state[p] # "none"} \subseteq Listed \cup twice
    BY DEF CallInv, HeldInv
  <2>4. \A p \in Listed : state[p] = "none" => p \in Exiting
    BY DEF ExitsInv, GoneInv, Absent, ExitsOf, Exiting
  <2>5. ASSUME NEW p \in ToSet(timerlist), state[p] = "none" PROVE TellsTimer(p)
    <3>1. PICK i \in DOMAIN work : work[i] \in TellsOf(p)
      BY <2>5 DEF ExitsInv, TimerInv, Absent
    <3>2. CASE work[i].f = "exit"
      <4>1. work[i].q = p /\ work[i].p # ETimer
        BY <3>1, <3>2 DEF TellsOf
      <4>2. work[i].p \in Linked \cup {START}
        BY <3>1, <3>2 DEF ExitsInv, StackInv, Absent, Astray, TellsOf
      <4>3. Following(work[i].p) \in Linked
        <5>1. CASE work[i].p = START
          BY <2>1, <5>1 DEF Following
        <5>2. CASE work[i].p # START
          <6>1. work[i].p \in Proc /\ next[work[i].p] # NULL
            BY <4>1, <4>2, <5>2, <2>1 DEF Linked
          <6> QED
            BY <4>2, <5>2, <6>1 DEF SleepInv, ListInv, Following
        <5> QED
          BY <5>1, <5>2
      <4> QED
        BY <3>2, <4>1, <4>3 DEF TellsTimer, ExitsInv, ChainInv
    <3>3. CASE work[i].f # "exit"
      BY <3>1, <3>3 DEF TellsOf, TellsTimer
    <3> QED
      BY <3>2, <3>3
  <2> QED
    BY <2>2, <2>3, <2>4, <2>5 DEF ExitsSound
<1> QED
  BY <1>1, CallsHold, InitExits, StepExits, PTL DEF Spec
=============================================================================
