--------------------------- MODULE CsmaAckProofs ---------------------------
(***************************************************************************)
(* Proofs about the acknowledged MAC, for any set of nodes: the queue      *)
(* between the calls of the two threads, the timer and the tries of a      *)
(* queued packet, and what an acknowledgement means.                       *)
(***************************************************************************)
EXTENDS CsmaAck, TLAPS

(* The pointers of the queue, while it is not torn: the tail is wrong only *)
(* between the two stores of an insertion, and of a removal by an ack.     *)
Tail(n) == last[n] = IF first[n] = P THEN P ELSE HEAD
Pointers(n) ==
  /\ chain[n] = NULL
  /\ pc[n] = "linking" => last[n] = HEAD /\ (first[n] = P \/ cb[n] = "acked")
  /\ pc[n] # "linking" /\ cb[n] # "acked" => Tail(n)
  /\ pc[n] # "linking" /\ cb[n] = "acked" => last[n] = P
  /\ cb[n] \in {"pop", "unlink", "walk"} => first[n] = P
  /\ cb[n] \in {"acked", "freeing"} => first[n] = NULL

(* The slot, while the queue is not torn: it is in use before it is linked *)
(* and, with an ack, after it is unlinked; netQueuePop() frees it before.  *)
Usage(n) ==
  /\ pc[n] = "used" => /\ slot[n].isUsed /\ cb[n] \notin {"acked", "freeing"}
                       /\ first[n] = P => cb[n] = "unlink"
  /\ pc[n] # "used" => (slot[n].isUsed <=> \/ first[n] = P /\ cb[n] # "unlink"
                                           \/ cb[n] \in {"acked", "freeing"})

(* The timer is marked as running before its alarm is set, and a packet    *)
(* that its sender and the callback have left has both.                    *)
TimerInv(n) ==
  /\ sendTimerRunning[n] /\ ~alarm[n] => cb[n] = "schedule" \/ pc[n] = "starting"
  /\ cb[n] = "schedule" => sendTimerRunning[n]
  /\ first[n] = P /\ cb[n] \in {"idle", "acked", "freeing"} =>
       /\ pc[n] = "starting" => sendTimerRunning[n]
       /\ pc[n] \in {"idle", "sent", "used"} => sendTimerRunning[n] /\ alarm[n]

(* Once its sender has reset them, the tries are those of the packet.      *)
TriesInv(n) ==
  pc[n] \notin {"used", "linking", "queued"}
  => slot[n].tries <= tried[n] \/ tried[n] = MaxAttempts

NodeInv(n) == /\ n \notin torn => Pointers(n) /\ Usage(n)
              /\ TimerInv(n)
              /\ TriesInv(n)

Inv == TypeOK /\ \A n \in Node : NodeInv(n)

(* Acks are on the air only for packets that were delivered, and frames    *)
(* and queues hold packets of those who send.                              *)
AcksTrue ==
  /\ \A f \in air : f.kind = "ack" =>
       f.dst \in Sender /\ [src |-> f.dst, seq |-> f.seq] \in delivered
  /\ \A f \in air : f.kind = "data" => f.src \in Sender
  /\ \A n \in Node \ Sender : pc[n] = "idle" /\ first[n] = NULL /\ chain[n] = NULL

LEMMA Constants ==
  /\ Sender \subseteq Node /\ MaxAttempts \in Nat /\ MaxAttempts > 0
  /\ Seqnums \in Nat /\ Seqnums > 2 /\ Tries \in Nat /\ MaxAttempts < Tries
  /\ NULL # P /\ P # HEAD /\ NULL # HEAD
BY CsmaAssumption DEF NULL, P, HEAD

Frames == [kind : {"data", "ack"}, src : Node, dst : Node \cup Nexthop,
           seq : 1..(Seqnums - 1), at : Node]

LEMMA HeardType ==
  ASSUME NEW k \in {"data", "ack"}, NEW n \in Node, NEW d \in Node \cup Nexthop,
         NEW q \in 1..(Seqnums - 1), NEW h \in Heard(k, n, d, q)
  PROVE  /\ h \subseteq Frames
         /\ \A f \in h : f.kind = k /\ f.src = n /\ f.dst = d /\ f.seq = q
BY Constants DEF Heard, Frames

LEMMA SeqnumType ==
  ASSUME TypeOK, NEW n \in Node PROVE Seqnum(n) \in 1..(Seqnums - 1)
BY Constants DEF TypeOK, Seqnum

Slots == [isUsed : BOOLEAN, data : 0..(Seqnums - 1), tries : 0..(Tries - 1)]

(* A try more, counted modulo Tries.                                       *)
LEMMA NextTry ==
  ASSUME NEW t \in 0..(Tries - 1)
  PROVE  (t + 1) % Tries \in 0..(Tries - 1) /\ (t + 1) % Tries <= t + 1
<1>1. t + 1 \in 1..Tries /\ Tries \in Nat /\ Tries > 0
  BY Constants
<1>2. CASE t + 1 = Tries
  <2>1. (t + 1) % Tries = 0
    BY <1>1, <1>2, Z3
  <2> QED
    BY <1>1, <2>1
<1>3. CASE t + 1 < Tries
  <2>1. (t + 1) % Tries = t + 1
    BY <1>1, <1>3, Z3
  <2> QED
    BY <1>1, <1>3, <2>1
<1> QED
  BY <1>1, <1>2, <1>3

(* What the invariant of node m is about stays as it is.                   *)
Same(m) ==
  /\ pc'[m] = pc[m] /\ cb'[m] = cb[m] /\ first'[m] = first[m] /\ last'[m] = last[m]
  /\ chain'[m] = chain[m] /\ slot'[m] = slot[m] /\ tried'[m] = tried[m]
  /\ sendTimerRunning'[m] = sendTimerRunning[m] /\ alarm'[m] = alarm[m]
  /\ m \notin torn' => m \notin torn

LEMMA SameInv == ASSUME NEW m \in Node, NodeInv(m), Same(m) PROVE NodeInv(m)'
BY DEF NodeInv, Pointers, Tail, Usage, TimerInv, TriesInv, Same

LEMMA InitInv == Init => Inv
BY Constants
DEF Init, Inv, NodeInv, Pointers, Tail, Usage, TimerInv, TriesInv, TypeOK, NULL, P, HEAD

(* A step of n that keeps the types, the rest of the other nodes and the   *)
(* invariant of n keeps the invariant.                                     *)
LEMMA OfOneNode ==
  ASSUME NEW n \in Node, Inv, TypeOK', NodeInv(n)', \A m \in Node \ {n} : Same(m)
  PROVE  Inv'
BY SameInv DEF Inv

LEMMA SendInv == ASSUME NEW n \in Node, Inv, Send(n) PROVE Inv'
<1>1. Seqnum(n) \in 1..(Seqnums - 1)
  BY SeqnumType DEF Inv
<1>2. (Seqnum(n) + 1) % Seqnums \in 0..(Seqnums - 1)
  BY <1>1, Constants, Z3
<1>3. PICK d \in Nexthop \ {n} :
        \E heard \in Heard("data", n, d, Seqnum(n)) : air' = air \cup heard
  BY DEF Send
<1>4. air' \subseteq Frames
  BY <1>1, <1>3, HeardType DEF Inv, TypeOK, Frames
<1>5. mySeqnum' \in [Node -> 0..(Seqnums - 1)] /\ packet' \in [Node -> 0..(Seqnums - 1)]
  BY <1>1, <1>2, Constants DEF Send, Inv, TypeOK
<1>6. TypeOK'
  BY <1>4, <1>5 DEF Send, Goto, Inv, TypeOK, Frames, queue, timer
<1>7. \A m \in Node \ {n} : Same(m)
  BY DEF Send, Goto, Inv, TypeOK, Same, queue, timer
<1>8. NodeInv(n)'
  BY DEF Send, Goto, Inv, TypeOK, NodeInv, Pointers, Tail, Usage, TimerInv, TriesInv,
         queue, timer
<1> QED
  BY <1>6, <1>7, <1>8, OfOneNode

USE DEF Goto, Step, Free, RemoveHead, Locked, send, queue, timer

LEMMA AddPacketInv == ASSUME NEW n \in Node, Inv, AddPacket(n) PROVE Inv'
<1>1. TypeOK'
  <2>1. slot \in [Node -> Slots] /\ packet[n] \in 0..(Seqnums - 1)
    BY DEF Inv, TypeOK, Slots
  <2>2. slot' \in [Node -> Slots]
    <3>1. CASE slot[n].isUsed
      BY <2>1, <3>1 DEF AddPacket
    <3>2. CASE ~slot[n].isUsed
      <4>1. slot' = [slot EXCEPT ![n].isUsed = TRUE, ![n].data = packet[n]]
        BY <3>2 DEF AddPacket
      <4> QED
        BY <2>1, <4>1 DEF Slots
    <3> QED
      BY <3>1, <3>2
  <2>3. /\ packet' \in [Node -> 0..(Seqnums - 1)] /\ tried' \in [Node -> 0..MaxAttempts]
        /\ pc' \in {[pc EXCEPT ![n] = "idle"], [pc EXCEPT ![n] = "used"]}
        /\ UNCHANGED <<air, delivered, mySeqnum, first, last, chain, timer, cb, torn>>
    BY Constants DEF AddPacket, Inv, TypeOK
  <2> QED
    BY <2>2, <2>3 DEF Inv, TypeOK, Slots
<1>2. \A m \in Node \ {n} : Same(m)
  BY DEF AddPacket, Inv, TypeOK, Same
<1>3. NodeInv(n)'
  <2>1. n \notin torn' => Pointers(n)' /\ Usage(n)'
    BY Constants DEF AddPacket, Inv, TypeOK, NodeInv, Pointers, Tail, Usage
  <2>2. TimerInv(n)'
    BY Constants DEF AddPacket, Inv, TypeOK, NodeInv, TimerInv
  <2>3. TriesInv(n)'
    BY Constants DEF AddPacket, Inv, TypeOK, NodeInv, TriesInv
  <2> QED
    BY <2>1, <2>2, <2>3 DEF NodeInv
<1> QED
  BY <1>1, <1>2, <1>3, OfOneNode

LEMMA LinkFirstInv == ASSUME NEW n \in Node, Inv, LinkFirst(n) PROVE Inv'
<1>1. TypeOK'
  BY Constants DEF LinkFirst, Inv, TypeOK
<1>2. \A m \in Node \ {n} : Same(m)
  BY DEF LinkFirst, Inv, TypeOK, Same
<1>3. NodeInv(n)'
  <2>1. n \notin torn' => Pointers(n)' /\ Usage(n)'
    BY Constants DEF LinkFirst, Inv, TypeOK, NodeInv, Pointers, Tail, Usage
  <2>2. TimerInv(n)'
    BY Constants DEF LinkFirst, Inv, TypeOK, NodeInv, TimerInv
  <2>3. TriesInv(n)'
    BY Constants DEF LinkFirst, Inv, TypeOK, NodeInv, TriesInv
  <2> QED
    BY <2>1, <2>2, <2>3 DEF NodeInv
<1> QED
  BY <1>1, <1>2, <1>3, OfOneNode

LEMMA LinkLastInv == ASSUME NEW n \in Node, Inv, LinkLast(n) PROVE Inv'
<1>1. TypeOK'
  BY Constants DEF LinkLast, Inv, TypeOK
<1>2. \A m \in Node \ {n} : Same(m)
  BY DEF LinkLast, Inv, TypeOK, Same
<1>3. NodeInv(n)'
  <2>1. n \notin torn' => Pointers(n)' /\ Usage(n)'
    BY Constants DEF LinkLast, Inv, TypeOK, NodeInv, Pointers, Tail, Usage
  <2>2. TimerInv(n)'
    BY Constants DEF LinkLast, Inv, TypeOK, NodeInv, TimerInv
  <2>3. TriesInv(n)'
    BY Constants DEF LinkLast, Inv, TypeOK, NodeInv, TriesInv
  <2> QED
    BY <2>1, <2>2, <2>3 DEF NodeInv
<1> QED
  BY <1>1, <1>2, <1>3, OfOneNode

LEMMA ResetTriesInv == ASSUME NEW n \in Node, Inv, ResetTries(n) PROVE Inv'
<1>1. TypeOK'
  BY Constants DEF ResetTries, Inv, TypeOK
<1>2. \A m \in Node \ {n} : Same(m)
  BY DEF ResetTries, Inv, TypeOK, Same
<1>3. NodeInv(n)'
  <2>1. n \notin torn' => Pointers(n)' /\ Usage(n)'
    BY Constants DEF ResetTries, Inv, TypeOK, NodeInv, Pointers, Tail, Usage
  <2>2. TimerInv(n)'
    BY Constants DEF ResetTries, Inv, TypeOK, NodeInv, TimerInv
  <2>3. TriesInv(n)'
    BY Constants DEF ResetTries, Inv, TypeOK, NodeInv, TriesInv
  <2> QED
    BY <2>1, <2>2, <2>3 DEF NodeInv
<1> QED
  BY <1>1, <1>2, <1>3, OfOneNode

LEMMA SetTimeInv == ASSUME NEW n \in Node, Inv, SetTime(n) PROVE Inv'
<1>1. TypeOK'
  BY Constants DEF SetTime, Inv, TypeOK
<1>2. \A m \in Node \ {n} : Same(m)
  BY DEF SetTime, Inv, TypeOK, Same
<1>3. NodeInv(n)'
  <2>1. n \notin torn' => Pointers(n)' /\ Usage(n)'
    BY Constants DEF SetTime, Inv, TypeOK, NodeInv, Pointers, Tail, Usage
  <2>2. TimerInv(n)'
    BY Constants DEF SetTime, Inv, TypeOK, NodeInv, TimerInv
  <2>3. TriesInv(n)'
    BY Constants DEF SetTime, Inv, TypeOK, NodeInv, TriesInv
  <2> QED
    BY <2>1, <2>2, <2>3 DEF NodeInv
<1> QED
  BY <1>1, <1>2, <1>3, OfOneNode

LEMMA TestTimerInv == ASSUME NEW n \in Node, Inv, TestTimer(n) PROVE Inv'
<1>1. TypeOK'
  BY Constants DEF TestTimer, Inv, TypeOK
<1>2. \A m \in Node \ {n} : Same(m)
  BY DEF TestTimer, Inv, TypeOK, Same
<1>3. NodeInv(n)'
  <2>1. n \notin torn' => Pointers(n)' /\ Usage(n)'
    BY Constants DEF TestTimer, Inv, TypeOK, NodeInv, Pointers, Tail, Usage
  <2>2. TimerInv(n)'
    BY Constants DEF TestTimer, Inv, TypeOK, NodeInv, TimerInv
  <2>3. TriesInv(n)'
    BY Constants DEF TestTimer, Inv, TypeOK, NodeInv, TriesInv
  <2> QED
    BY <2>1, <2>2, <2>3 DEF NodeInv
<1> QED
  BY <1>1, <1>2, <1>3, OfOneNode

LEMMA StartTimerInv == ASSUME NEW n \in Node, Inv, StartTimer(n) PROVE Inv'
<1>1. TypeOK'
  BY Constants DEF StartTimer, Inv, TypeOK
<1>2. \A m \in Node \ {n} : Same(m)
  BY DEF StartTimer, Inv, TypeOK, Same
<1>3. NodeInv(n)'
  <2>1. n \notin torn' => Pointers(n)' /\ Usage(n)'
    BY Constants DEF StartTimer, Inv, TypeOK, NodeInv, Pointers, Tail, Usage
  <2>2. TimerInv(n)'
    BY Constants DEF StartTimer, Inv, TypeOK, NodeInv, TimerInv
  <2>3. TriesInv(n)'
    BY Constants DEF StartTimer, Inv, TypeOK, NodeInv, TriesInv
  <2> QED
    BY <2>1, <2>2, <2>3 DEF NodeInv
<1> QED
  BY <1>1, <1>2, <1>3, OfOneNode

LEMMA SetAlarmInv == ASSUME NEW n \in Node, Inv, SetAlarm(n) PROVE Inv'
<1>1. TypeOK'
  BY Constants DEF SetAlarm, Inv, TypeOK
<1>2. \A m \in Node \ {n} : Same(m)
  BY DEF SetAlarm, Inv, TypeOK, Same
<1>3. NodeInv(n)'
  <2>1. n \notin torn' => Pointers(n)' /\ Usage(n)'
    BY Constants DEF SetAlarm, Inv, TypeOK, NodeInv, Pointers, Tail, Usage
  <2>2. TimerInv(n)'
    BY Constants DEF SetAlarm, Inv, TypeOK, NodeInv, TimerInv
  <2>3. TriesInv(n)'
    BY Constants DEF SetAlarm, Inv, TypeOK, NodeInv, TriesInv
  <2> QED
    BY <2>1, <2>2, <2>3 DEF NodeInv
<1> QED
  BY <1>1, <1>2, <1>3, OfOneNode

LEMMA FireInv == ASSUME NEW n \in Node, Inv, Fire(n) PROVE Inv'
<1>1. TypeOK'
  BY Constants DEF Fire, Inv, TypeOK
<1>2. \A m \in Node \ {n} : Same(m)
  BY DEF Fire, Inv, TypeOK, Same
<1>3. NodeInv(n)'
  <2>1. n \notin torn' => Pointers(n)' /\ Usage(n)'
    BY Constants DEF Fire, Inv, TypeOK, NodeInv, Pointers, Tail, Usage
  <2>2. TimerInv(n)'
    BY Constants DEF Fire, Inv, TypeOK, NodeInv, TimerInv
  <2>3. TriesInv(n)'
    BY Constants DEF Fire, Inv, TypeOK, NodeInv, TriesInv
  <2> QED
    BY <2>1, <2>2, <2>3 DEF NodeInv
<1> QED
  BY <1>1, <1>2, <1>3, OfOneNode

LEMMA ExpireInv == ASSUME NEW n \in Node, Inv, Expire(n) PROVE Inv'
<1>1. TypeOK'
  BY Constants DEF Expire, Inv, TypeOK
<1>2. \A m \in Node \ {n} : Same(m)
  BY DEF Expire, Inv, TypeOK, Same
<1>3. NodeInv(n)'
  <2>1. n \notin torn' => Pointers(n)' /\ Usage(n)'
    BY Constants DEF Expire, Inv, TypeOK, NodeInv, Pointers, Tail, Usage
  <2>2. TimerInv(n)'
    BY Constants DEF Expire, Inv, TypeOK, NodeInv, TimerInv
  <2>3. TriesInv(n)'
    BY Constants DEF Expire, Inv, TypeOK, NodeInv, TriesInv
  <2> QED
    BY <2>1, <2>2, <2>3 DEF NodeInv
<1> QED
  BY <1>1, <1>2, <1>3, OfOneNode

LEMMA PopInv == ASSUME NEW n \in Node, Inv, Pop(n) PROVE Inv'
<1>1. TypeOK'
  BY Constants DEF Pop, Inv, TypeOK
<1>2. \A m \in Node \ {n} : Same(m)
  BY DEF Pop, Inv, TypeOK, Same
<1>3. NodeInv(n)'
  <2>1. n \notin torn' => Pointers(n)' /\ Usage(n)'
    BY Constants DEF Pop, Inv, TypeOK, NodeInv, Pointers, Tail, Usage
  <2>2. TimerInv(n)'
    BY Constants DEF Pop, Inv, TypeOK, NodeInv, TimerInv
  <2>3. TriesInv(n)'
    BY Constants DEF Pop, Inv, TypeOK, NodeInv, TriesInv
  <2> QED
    BY <2>1, <2>2, <2>3 DEF NodeInv
<1> QED
  BY <1>1, <1>2, <1>3, OfOneNode

LEMMA UnlinkInv == ASSUME NEW n \in Node, Inv, Unlink(n) PROVE Inv'
<1>1. TypeOK'
  BY Constants DEF Unlink, Inv, TypeOK
<1>2. \A m \in Node \ {n} : Same(m)
  BY DEF Unlink, Inv, TypeOK, Same
<1>3. NodeInv(n)'
  <2>1. n \notin torn' => Pointers(n)' /\ Usage(n)'
    BY Constants DEF Unlink, Inv, TypeOK, NodeInv, Pointers, Tail, Usage
  <2>2. TimerInv(n)'
    BY Constants DEF Unlink, Inv, TypeOK, NodeInv, TimerInv
  <2>3. TriesInv(n)'
    BY Constants DEF Unlink, Inv, TypeOK, NodeInv, TriesInv
  <2> QED
    BY <2>1, <2>2, <2>3 DEF NodeInv
<1> QED
  BY <1>1, <1>2, <1>3, OfOneNode

LEMMA LookInv == ASSUME NEW n \in Node, Inv, Look(n) PROVE Inv'
<1>1. TypeOK'
  BY Constants DEF Look, Inv, TypeOK
<1>2. \A m \in Node \ {n} : Same(m)
  BY DEF Look, Inv, TypeOK, Same
<1>3. NodeInv(n)'
  <2>1. n \notin torn' => Pointers(n)' /\ Usage(n)'
    BY Constants DEF Look, Inv, TypeOK, NodeInv, Pointers, Tail, Usage
  <2>2. TimerInv(n)'
    BY Constants DEF Look, Inv, TypeOK, NodeInv, TimerInv
  <2>3. TriesInv(n)'
    BY Constants DEF Look, Inv, TypeOK, NodeInv, TriesInv
  <2> QED
    BY <2>1, <2>2, <2>3 DEF NodeInv
<1> QED
  BY <1>1, <1>2, <1>3, OfOneNode

LEMMA EarlyInv == ASSUME NEW n \in Node, Inv, Early(n) PROVE Inv'
<1>1. TypeOK'
  BY Constants DEF Early, Inv, TypeOK
<1>2. \A m \in Node \ {n} : Same(m)
  BY DEF Early, Inv, TypeOK, Same
<1>3. NodeInv(n)'
  <2>1. n \notin torn' => Pointers(n)' /\ Usage(n)'
    BY Constants DEF Early, Inv, TypeOK, NodeInv, Pointers, Tail, Usage
  <2>2. TimerInv(n)'
    BY Constants DEF Early, Inv, TypeOK, NodeInv, TimerInv
  <2>3. TriesInv(n)'
    BY Constants DEF Early, Inv, TypeOK, NodeInv, TriesInv
  <2> QED
    BY <2>1, <2>2, <2>3 DEF NodeInv
<1> QED
  BY <1>1, <1>2, <1>3, OfOneNode

LEMMA RetryInv == ASSUME NEW n \in Node, Inv, Retry(n) PROVE Inv'
<1> DEFINE next == (slot[n].tries + 1) % Tries
<1>0. /\ slot \in [Node -> Slots] /\ slot[n].tries \in 0..(Tries - 1)
      /\ next \in 0..(Tries - 1) /\ next <= slot[n].tries + 1
      /\ slot' = [slot EXCEPT ![n].tries = next]
      /\ tried' = [tried EXCEPT ![n] = IF @ = MaxAttempts THEN @ ELSE @ + 1]
  BY NextTry DEF Retry, Inv, TypeOK, Slots
<1> HIDE DEF next
<1>1. TypeOK'
  <2>1. slot' \in [Node -> Slots]
    BY <1>0 DEF Slots
  <2>2. tried' \in [Node -> 0..MaxAttempts]
    <3>1. tried \in [Node -> 0..MaxAttempts]
      BY DEF Inv, TypeOK
    <3>2. (IF tried[n] = MaxAttempts THEN tried[n] ELSE tried[n] + 1) \in 0..MaxAttempts
      BY <3>1, Constants
    <3>3. tried' = [tried EXCEPT ![n] = IF tried[n] = MaxAttempts THEN tried[n]
                                        ELSE tried[n] + 1]
      BY <1>0
    <3> QED
      BY <3>1, <3>2, <3>3
  <2> QED
    BY <2>1, <2>2 DEF Retry, Inv, TypeOK, Slots
<1>2. \A m \in Node \ {n} : Same(m)
  BY DEF Retry, Inv, TypeOK, Same
<1>3. NodeInv(n)'
  <2>1. n \notin torn' => Pointers(n)' /\ Usage(n)'
    BY Constants DEF Retry, Inv, TypeOK, NodeInv, Pointers, Tail, Usage
  <2>2. TimerInv(n)'
    BY Constants DEF Retry, Inv, TypeOK, NodeInv, TimerInv
  <2>3. TriesInv(n)'
    <3>1. slot'[n].tries = next /\ tried[n] \in 0..MaxAttempts /\ pc'[n] = pc[n]
      BY <1>0 DEF Retry, Inv, TypeOK
    <3>2. tried'[n] = IF tried[n] = MaxAttempts THEN tried[n] ELSE tried[n] + 1
      BY <1>0 DEF Inv, TypeOK
    <3> QED
      BY <1>0, <3>1, <3>2, Constants DEF Inv, NodeInv, TriesInv
  <2> QED
    BY <2>1, <2>2, <2>3 DEF NodeInv
<1> QED
  BY <1>1, <1>2, <1>3, OfOneNode

LEMMA RestartInv == ASSUME NEW n \in Node, Inv, Restart(n) PROVE Inv'
<1>1. TypeOK'
  BY Constants DEF Restart, Inv, TypeOK
<1>2. \A m \in Node \ {n} : Same(m)
  BY DEF Restart, Inv, TypeOK, Same
<1>3. NodeInv(n)'
  <2>1. n \notin torn' => Pointers(n)' /\ Usage(n)'
    BY Constants DEF Restart, Inv, TypeOK, NodeInv, Pointers, Tail, Usage
  <2>2. TimerInv(n)'
    BY Constants DEF Restart, Inv, TypeOK, NodeInv, TimerInv
  <2>3. TriesInv(n)'
    BY Constants DEF Restart, Inv, TypeOK, NodeInv, TriesInv
  <2> QED
    BY <2>1, <2>2, <2>3 DEF NodeInv
<1> QED
  BY <1>1, <1>2, <1>3, OfOneNode

LEMMA ScheduleInv == ASSUME NEW n \in Node, Inv, Schedule(n) PROVE Inv'
<1>1. TypeOK'
  BY Constants DEF Schedule, Inv, TypeOK
<1>2. \A m \in Node \ {n} : Same(m)
  BY DEF Schedule, Inv, TypeOK, Same
<1>3. NodeInv(n)'
  <2>1. n \notin torn' => Pointers(n)' /\ Usage(n)'
    BY Constants DEF Schedule, Inv, TypeOK, NodeInv, Pointers, Tail, Usage
  <2>2. TimerInv(n)'
    BY Constants DEF Schedule, Inv, TypeOK, NodeInv, TimerInv
  <2>3. TriesInv(n)'
    BY Constants DEF Schedule, Inv, TypeOK, NodeInv, TriesInv
  <2> QED
    BY <2>1, <2>2, <2>3 DEF NodeInv
<1> QED
  BY <1>1, <1>2, <1>3, OfOneNode

LEMMA AckTailInv == ASSUME NEW n \in Node, Inv, AckTail(n) PROVE Inv'
<1>1. TypeOK'
  BY Constants DEF AckTail, Inv, TypeOK
<1>2. \A m \in Node \ {n} : Same(m)
  BY DEF AckTail, Inv, TypeOK, Same
<1>3. NodeInv(n)'
  <2>1. n \notin torn' => Pointers(n)' /\ Usage(n)'
    BY Constants DEF AckTail, Inv, TypeOK, NodeInv, Pointers, Tail, Usage
  <2>2. TimerInv(n)'
    BY Constants DEF AckTail, Inv, TypeOK, NodeInv, TimerInv
  <2>3. TriesInv(n)'
    BY Constants DEF AckTail, Inv, TypeOK, NodeInv, TriesInv
  <2> QED
    BY <2>1, <2>2, <2>3 DEF NodeInv
<1> QED
  BY <1>1, <1>2, <1>3, OfOneNode

LEMMA AckFreeInv == ASSUME NEW n \in Node, Inv, AckFree(n) PROVE Inv'
<1>1. TypeOK'
  BY Constants DEF AckFree, Inv, TypeOK
<1>2. \A m \in Node \ {n} : Same(m)
  BY DEF AckFree, Inv, TypeOK, Same
<1>3. NodeInv(n)'
  <2>1. n \notin torn' => Pointers(n)' /\ Usage(n)'
    BY Constants DEF AckFree, Inv, TypeOK, NodeInv, Pointers, Tail, Usage
  <2>2. TimerInv(n)'
    BY Constants DEF AckFree, Inv, TypeOK, NodeInv, TimerInv
  <2>3. TriesInv(n)'
    BY Constants DEF AckFree, Inv, TypeOK, NodeInv, TriesInv
  <2> QED
    BY <2>1, <2>2, <2>3 DEF NodeInv
<1> QED
  BY <1>1, <1>2, <1>3, OfOneNode

LEMMA DeliverInv == ASSUME NEW n \in Node, NEW f \in air, Inv, Deliver(n, f) PROVE Inv'
<1>1. f \in Frames /\ air \subseteq Frames
  BY DEF Inv, TypeOK, Frames
<1>2. air' \subseteq Frames /\ delivered' \subseteq [src : Node, seq : 1..(Seqnums - 1)]
  <2>1. CASE filterPass(n, f)
    <3>1. \E heard \in Heard("ack", n, f.src, f.seq) : air' = (air \ {f}) \cup heard
      BY <2>1 DEF Deliver
    <3>2. air' \subseteq Frames
      BY <1>1, <3>1, HeardType DEF Frames
    <3>3. delivered' \subseteq [src : Node, seq : 1..(Seqnums - 1)]
      BY <1>1, <2>1 DEF Deliver, Inv, TypeOK, Frames
    <3> QED
      BY <3>2, <3>3
  <2>2. CASE ~filterPass(n, f)
    BY <1>1, <2>2 DEF Deliver, Inv, TypeOK
  <2> QED
    BY <2>1, <2>2
<1>3. TypeOK'
  BY <1>2 DEF Deliver, Inv, TypeOK, Frames
<1>4. \A m \in Node : Same(m)
  BY DEF Deliver, Same
<1> QED
  BY <1>3, <1>4, SameInv DEF Inv

LEMMA AcknowledgeInv ==
  ASSUME NEW n \in Node, NEW f \in air, Inv, Acknowledge(n, f) PROVE Inv'
<1>1. CASE ~matchPacketBySeqnum(n, f)
  <2>1. TypeOK'
    BY <1>1 DEF Acknowledge, Inv, TypeOK
  <2>2. \A m \in Node : Same(m)
    BY <1>1 DEF Acknowledge, Same
  <2> QED
    BY <2>1, <2>2, SameInv DEF Inv
<1>2. CASE matchPacketBySeqnum(n, f)
  <2>1. /\ first' = [first EXCEPT ![n] = chain[n]] /\ chain' = [chain EXCEPT ![n] = NULL]
        /\ cb' = [cb EXCEPT ![n] = "acked"] /\ cb[n] = "idle" /\ first[n] = P
        /\ air' = air \ {f} /\ UNCHANGED <<delivered, send, last, slot, timer, tried, torn>>
    BY <1>2 DEF Acknowledge, Arrives, matchPacketBySeqnum
  <2>2. TypeOK'
    BY <2>1 DEF Inv, TypeOK
  <2>3. \A m \in Node \ {n} : Same(m)
    BY <2>1 DEF Inv, TypeOK, Same
  <2>4. n \notin torn => Pointers(n)' /\ Usage(n)'
    BY <2>1, Constants DEF Inv, TypeOK, NodeInv, Pointers, Tail, Usage
  <2>5. TimerInv(n)'
    BY <2>1, Constants DEF Inv, TypeOK, NodeInv, TimerInv
  <2>6. TriesInv(n)'
    BY <2>1, Constants DEF Inv, TypeOK, NodeInv, TriesInv
  <2>7. NodeInv(n)'
    BY <2>1, <2>4, <2>5, <2>6 DEF NodeInv
  <2> QED
    BY <2>2, <2>3, <2>7, OfOneNode
<1> QED
  BY <1>1, <1>2

LEMMA StepInv == Inv /\ [Next]_vars => Inv'
<1>1. ASSUME Inv, UNCHANGED vars PROVE Inv'
  <2>1. TypeOK'
    BY <1>1 DEF vars, Inv, TypeOK
  <2>2. \A m \in Node : Same(m)
    BY <1>1 DEF vars, Same
  <2> QED
    BY <1>1, <2>1, <2>2, SameInv DEF Inv
<1>2. ASSUME Inv, NEW n \in Node, User(n) PROVE Inv'
  BY <1>2, SendInv, AddPacketInv, LinkFirstInv, LinkLastInv, ResetTriesInv, SetTimeInv,
     TestTimerInv, StartTimerInv, SetAlarmInv DEF User
<1>3. ASSUME Inv, NEW n \in Node, sendTimerCb(n) PROVE Inv'
  BY <1>3, FireInv, ExpireInv, PopInv, UnlinkInv, LookInv, EarlyInv, RetryInv, RestartInv,
     ScheduleInv DEF sendTimerCb
<1>4. ASSUME Inv, NEW n \in Node, netQueueRemovePacket(n) PROVE Inv'
  BY <1>4, AckTailInv, AckFreeInv DEF netQueueRemovePacket
<1>5. ASSUME Inv, NEW n \in Node, pollCsmaMac(n) PROVE Inv'
  BY <1>5, DeliverInv, AcknowledgeInv DEF pollCsmaMac
<1> QED
  BY <1>1, <1>2, <1>3, <1>4, <1>5 DEF Next

LEMMA InvHolds == Spec => []Inv
BY InitInv, StepInv, PTL DEF Spec

(* The variables of the MAC keep their types, sequence numbers are not 0.  *)
THEOREM TypeCorrect == Spec => []TypeOK
BY InvHolds, PTL DEF Inv

(* Outside the calls that change it the queue is a queue, wherever the     *)
(* threads preempt each other (net_queue.c:42-86), until an ack or an      *)
(* insertion falls into one of the two places where it is torn.            *)
THEOREM QueueStaysSound == Spec => []QueueSound
<1>1. Inv => QueueSound
  BY Constants DEF Inv, NodeInv, Pointers, Tail, Usage, QueueSound
<1> QED
  BY <1>1, InvHolds, PTL

(* A packet that is queued has a timer that runs, also in a torn queue,    *)
(* and is given up after its own tries only.                               *)
THEOREM NothingIsForgotten == Spec => []NeverForgotten
<1>1. Inv => NeverForgotten
  BY Constants DEF Inv, TypeOK, NodeInv, TimerInv, TriesInv, NeverForgotten
<1> QED
  BY <1>1, InvHolds, PTL
-----------------------------------------------------------------------------
LEMMA AcksTrueInit == Init => AcksTrue
BY DEF Init, AcksTrue

LEMMA SendAcks == ASSUME NEW n \in Node, Inv, AcksTrue, Send(n) PROVE AcksTrue'
<1>1. PICK d \in Nexthop \ {n} :
        \E heard \in Heard("data", n, d, Seqnum(n)) : air' = air \cup heard
  BY DEF Send
<1>2. PICK heard \in Heard("data", n, d, Seqnum(n)) : air' = air \cup heard
  BY <1>1
<1>3. \A f \in heard : f.kind = "data" /\ f.src = n
  BY <1>2, SeqnumType, HeardType DEF Inv
<1>4. delivered' = {p \in delivered : p.src # n \/ p.seq # Seqnum(n)}
  BY DEF Send
<1>5. ASSUME NEW f \in air', f.kind = "ack"
      PROVE  f.dst \in Sender /\ [src |-> f.dst, seq |-> f.seq] \in delivered'
  <2>1. f \in air
    BY <1>2, <1>3, <1>5
  <2>2. f.dst # n \/ f.seq # Seqnum(n)
    BY <2>1 DEF Send
  <2> QED
    BY <1>4, <1>5, <2>1, <2>2 DEF AcksTrue
<1>6. \A f \in air' : f.kind = "data" => f.src \in Sender
  BY <1>2, <1>3 DEF AcksTrue, Send
<1>7. \A m \in Node \ Sender : pc'[m] = "idle" /\ first'[m] = NULL /\ chain'[m] = NULL
  BY DEF AcksTrue, Send, Inv, TypeOK
<1> QED
  BY <1>5, <1>6, <1>7 DEF AcksTrue

LEMMA DeliverAcks ==
  ASSUME NEW n \in Node, NEW f \in air, Inv, AcksTrue, Deliver(n, f) PROVE AcksTrue'
<1>1. UNCHANGED <<pc, first, chain>>
  BY DEF Deliver
<1>2. f \in Frames
  BY DEF Inv, TypeOK, Frames
<1>3. CASE ~filterPass(n, f)
  BY <1>1, <1>3 DEF Deliver, AcksTrue
<1>4. CASE filterPass(n, f)
  <2>1. PICK heard \in Heard("ack", n, f.src, f.seq) : air' = (air \ {f}) \cup heard
    BY <1>4 DEF Deliver
  <2>2. \A g \in heard : g.kind = "ack" /\ g.dst = f.src /\ g.seq = f.seq
    BY <1>2, <2>1, HeardType DEF Frames
  <2>3. f.src \in Sender
    BY DEF AcksTrue, Deliver, Arrives
  <2>4. delivered' = delivered \cup {[src |-> f.src, seq |-> f.seq]}
    BY <1>4 DEF Deliver, filterPass
  <2> QED
    BY <1>1, <2>1, <2>2, <2>3, <2>4 DEF AcksTrue
<1> QED
  BY <1>3, <1>4

LEMMA OtherAcks ==
  ASSUME Inv, AcksTrue, [Next]_vars,
         ~ \E n \in Node : Send(n) \/ \E f \in air : Deliver(n, f)
  PROVE  AcksTrue'
<1>1. air' \subseteq air /\ delivered' = delivered
  BY DEF Next, User, sendTimerCb, pollCsmaMac, netQueueRemovePacket, AddPacket, LinkFirst,
         LinkLast, ResetTries, SetTime, TestTimer, StartTimer, SetAlarm, Fire, Expire, Pop,
         Unlink, Look, Early, Retry, Restart, Schedule, Acknowledge, AckTail, AckFree, vars
<1> DEFINE Kept(m) == pc'[m] = "idle" /\ first'[m] = NULL /\ chain'[m] = NULL
<1>2. ASSUME NEW m \in Node \ Sender PROVE Kept(m)
  <2>1. pc[m] = "idle" /\ first[m] = NULL /\ chain[m] = NULL
    BY DEF AcksTrue
  <2>2. ASSUME NEW n \in Node, User(n), ~Send(n) PROVE Kept(m)
    <3>1. n # m
      BY <2>1, <2>2 DEF User, AddPacket, LinkFirst, LinkLast, ResetTries, SetTime, TestTimer,
                        StartTimer, SetAlarm
    <3> QED
      BY <2>1, <2>2, <3>1 DEF User, AddPacket, LinkFirst, LinkLast, ResetTries, SetTime,
                TestTimer, StartTimer, SetAlarm, Inv, TypeOK
  <2>3. ASSUME NEW n \in Node, sendTimerCb(n) PROVE Kept(m)
    BY <2>1, <2>3 DEF sendTimerCb, Fire, Expire, Pop, Unlink, Look, Early, Retry, Restart,
                      Schedule, Inv, TypeOK
  <2>4. ASSUME NEW n \in Node, netQueueRemovePacket(n) PROVE Kept(m)
    BY <2>1, <2>4 DEF netQueueRemovePacket, AckTail, AckFree
  <2>5. ASSUME NEW n \in Node, NEW f \in air, Acknowledge(n, f) PROVE Kept(m)
    BY <2>1, <2>5, Constants DEF Acknowledge, matchPacketBySeqnum, Inv, TypeOK
  <2>6. ASSUME UNCHANGED vars PROVE Kept(m)
    BY <2>1, <2>6 DEF vars
  <2> HIDE DEF Kept
  <2> QED
    BY <2>2, <2>3, <2>4, <2>5, <2>6 DEF Next, pollCsmaMac
<1> QED
  BY <1>1, <1>2 DEF AcksTrue

LEMMA AcksTrueStep == Inv /\ AcksTrue /\ [Next]_vars => AcksTrue'
BY SendAcks, DeliverAcks, OtherAcks

(* With one sender in reach, an ack that removes the packet is for this    *)
(* packet, which has been delivered to the node that it is for, or, if its *)
(* next hop is not known (csma-ack.c:159), to one that heard it.  With two *)
(* senders it may be the ack of the other: pollCsmaMac() does not look at  *)
(* its address (csma-ack.c:210).                                           *)
THEOREM AckedIsDelivered ==
  ASSUME NEW s, Sender = {s} PROVE Spec => AckMeansDelivered
<1>1. ASSUME Inv, AcksTrue, NEW n \in Node, NEW f \in air,
             Acknowledge(n, f), cb'[n] = "acked"
      PROVE  [src |-> n, seq |-> slot[n].data] \in delivered
  <2>1. matchPacketBySeqnum(n, f) /\ f.kind = "ack"
    BY <1>1 DEF Acknowledge, Arrives
  <2>2. slot[n].data = f.seq /\ n \in Sender
    BY <1>1, <2>1, Constants DEF matchPacketBySeqnum, AcksTrue
  <2>3. f.dst = n
    BY <1>1, <2>1, <2>2 DEF AcksTrue
  <2> QED
    BY <1>1, <2>1, <2>2, <2>3 DEF AcksTrue
<1>2. Spec => []AcksTrue
  BY AcksTrueInit, AcksTrueStep, InvHolds, PTL DEF Spec
<1>3. Inv /\ AcksTrue => (\A n \in Node, f \in air :
        Acknowledge(n, f) /\ cb'[n] = "acked"
        => [src |-> n, seq |-> slot[n].data] \in delivered)
  BY <1>1
<1> QED
  BY <1>2, <1>3, InvHolds, PTL DEF AckMeansDelivered
=============================================================================
