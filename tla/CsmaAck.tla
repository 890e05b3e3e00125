------------------------------ MODULE CsmaAck ------------------------------
(***************************************************************************)
(* The MAC protocol with acknowledgements (net/mac/csma-ack.c) and the     *)
(* packet queue below it (net/net_queue.c, STAILQ of lib/list.h), on nodes *)
(* that hear each other over a lossy channel.  On every node the user      *)
(* thread sends; the kernel thread takes received frames and runs the      *)
(* callback of the timer.  Either may run between any two steps of the     *)
(* other: the kernel thread preempts the user thread, and is preempted     *)
(* itself at the wraparounds of the clock (threads/timing.c).  A packet is *)
(* known by its sequence number.                                           *)
(***************************************************************************)
EXTENDS Integers, FiniteSets

CONSTANTS Node,
          Sender,       \* the nodes whose user thread sends
          Nexthop,      \* the next hops (immedDst) of the packets they send:
                        \* nodes, others that are not in reach, or ANY
          MaxAttempts,  \* MAC_PROTOCOL_MAX_ATTEMPTS
          Tries,        \* tries are counted modulo Tries (2^8)
          Seqnums       \* sequence numbers are counted modulo Seqnums (2^8)

ANY == "any"  \* immedDst 0, of packets without a known next hop

ASSUME CsmaAssumption ==
  /\ IsFiniteSet(Node) /\ Sender \subseteq Node /\ ANY \notin Node
  /\ MaxAttempts \in Nat \ {0} /\ Tries \in Nat /\ MaxAttempts < Tries
  /\ Seqnums \in Nat /\ Seqnums > 2

VARIABLES
  air,       \* frames on their way, a copy for each node that hears them
  delivered, \* packets passed to recvCb of a node that they are for, any
             \* node if their next hop is not known (history)
  pc,        \* the user thread in sendCsmaMac()
  mySeqnum,
  packet,    \* the number of the packet being sent, until it is queued
  first, last, chain,  \* packetQueue: stqh_first, stqh_last; p->chain
  slot,      \* queuedPackets[0]: isUsed, data, sendTries
  young,     \* ackTime of the packet in slot may be later than the alarm
  sendTimerRunning,
  alarm,     \* sendTimer is set
  cb,        \* the kernel thread in sendTimerCb() or netQueueRemovePacket()
  tried,     \* how often the packet in slot was tried again, at most
             \* MaxAttempts (history)
  torn       \* nodes whose queue was spoilt (history): an ack unlinked the
             \* packet between the stores of its insertion, or the packet was
             \* inserted while the one before was free but not yet unlinked

send   == <<pc, mySeqnum, packet>>
queue  == <<first, last, chain, slot>>
timer  == <<young, sendTimerRunning, alarm>>
vars   == <<air, delivered, send, queue, timer, cb, tried, torn>>

NULL == "NULL"
P    == "p"     \* the only packet of the queue, queuedPackets[0]
HEAD == "head"  \* &stqh_first, where stqh_last points at first

Init ==
  /\ air = {} /\ delivered = {}
  /\ pc = [n \in Node |-> "idle"] /\ mySeqnum = [n \in Node |-> 0]
  /\ packet = [n \in Node |-> 0]
  /\ first = [n \in Node |-> NULL] /\ last = [n \in Node |-> HEAD]
  /\ chain = [n \in Node |-> NULL]
  /\ slot = [n \in Node |-> [isUsed |-> FALSE, data |-> 0, tries |-> 0]]
  /\ young = [n \in Node |-> FALSE]
  /\ sendTimerRunning = [n \in Node |-> FALSE] /\ alarm = [n \in Node |-> FALSE]
  /\ cb = [n \in Node |-> "idle"]
  /\ tried = [n \in Node |-> 0] /\ torn = {}

(* The frame is heard by any of the other nodes, or by none.  An ack means *)
(* nothing to a node that does not send.                                   *)
Heard(kind, n, dst, seq) ==
  {{[kind |-> kind, src |-> n, dst |-> dst, seq |-> seq, at |-> m] : m \in ears} :
     ears \in SUBSET ((IF kind = "ack" THEN Sender ELSE Node) \ {n})}
-----------------------------------------------------------------------------
(* Mutant of Seqnum: 0 is not skipped.                                     *)
SeqnumZero(n) == mySeqnum[n]

(* ackMacBuildHeader(): 0 is not a sequence number.                        *)
Seqnum(n) == IF mySeqnum[n] = 0 THEN 1 ELSE mySeqnum[n]

(* The user thread of n takes a step to a place in sendCsmaMac().          *)
Goto(n, place) == pc' = [pc EXCEPT ![n] = place]

(* macSendEx(): the packet is sent first, and queued then.  Its next hop   *)
(* may be unknown (routePacket()).  Bound: neither frames nor the packet   *)
(* in the queue live so long that their sequence number is used again.     *)
Stored(n) == slot[n].isUsed \/ first[n] = P
Send(n) ==
  /\ n \in Sender /\ pc[n] = "idle"
  /\ \A f \in air : f.seq = Seqnum(n) => n \notin {f.src, f.dst}
  /\ Stored(n) => slot[n].data # Seqnum(n)
  /\ mySeqnum' = [mySeqnum EXCEPT ![n] = (Seqnum(n) + 1) % Seqnums]
  /\ packet' = [packet EXCEPT ![n] = Seqnum(n)]
  /\ \E d \in Nexthop \ {n} :
       \E heard \in Heard("data", n, d, Seqnum(n)) : air' = air \cup heard
  /\ delivered' = {p \in delivered : p.src # n \/ p.seq # Seqnum(n)}
  /\ Goto(n, "sent")
  /\ UNCHANGED <<queue, timer, cb, tried, torn>>

(* netQueueAddPacket(): with the slot in use the packet is refused.        *)
AddPacket(n) ==
  /\ pc[n] = "sent"
  /\ packet' = [packet EXCEPT ![n] = 0]
  /\ IF slot[n].isUsed THEN Goto(n, "idle") /\ UNCHANGED <<slot, tried>>
     ELSE /\ slot' = [slot EXCEPT ![n].isUsed = TRUE, ![n].data = packet[n]]
          /\ tried' = [tried EXCEPT ![n] = 0]
          /\ Goto(n, "used")
  /\ UNCHANGED <<air, delivered, mySeqnum, first, last, chain, timer, cb, torn>>

(* STAILQ_INSERT_TAIL, with the queue locked: the stores to the packet and *)
(* to where the tail points, then the store to the tail.                   *)
LinkFirst(n) ==
  /\ pc[n] = "used"
  /\ IF last[n] = HEAD
     THEN first' = [first EXCEPT ![n] = P] /\ chain' = [chain EXCEPT ![n] = NULL]
     ELSE chain' = [chain EXCEPT ![n] = P] /\ UNCHANGED first
  /\ torn' = IF cb[n] = "unlink" THEN torn \cup {n} ELSE torn
  /\ Goto(n, "linking")
  /\ UNCHANGED <<air, delivered, mySeqnum, packet, last, slot, timer, cb, tried>>

LinkLast(n) ==
  /\ pc[n] = "linking"
  /\ last' = [last EXCEPT ![n] = P]
  /\ Goto(n, "queued")
  /\ UNCHANGED <<air, delivered, mySeqnum, packet, first, chain, slot, timer, cb, tried, torn>>

Locked(n) == pc[n] = "linking"

ResetTries(n) ==
  /\ pc[n] = "queued"
  /\ slot' = [slot EXCEPT ![n].tries = 0]
  /\ Goto(n, "reset")
  /\ UNCHANGED <<air, delivered, mySeqnum, packet, first, last, chain, timer, cb, tried, torn>>

SetTime(n) ==
  /\ pc[n] = "reset"
  /\ young' = [young EXCEPT ![n] = alarm[n] \/ cb[n] # "idle"]
  /\ Goto(n, "timed")
  /\ UNCHANGED <<air, delivered, mySeqnum, packet, queue, sendTimerRunning,
                 alarm, cb, tried, torn>>

(* The timer is started if it does not run: the test and the two writes.   *)
TestTimer(n) ==
  /\ pc[n] = "timed"
  /\ Goto(n, IF sendTimerRunning[n] THEN "idle" ELSE "stopped")
  /\ UNCHANGED <<air, delivered, mySeqnum, packet, queue, timer, cb, tried, torn>>

StartTimer(n) ==
  /\ pc[n] = "stopped"
  /\ sendTimerRunning' = [sendTimerRunning EXCEPT ![n] = TRUE]
  /\ Goto(n, "starting")
  /\ UNCHANGED <<air, delivered, mySeqnum, packet, queue, young, alarm, cb, tried, torn>>

SetAlarm(n) ==
  /\ pc[n] = "starting"
  /\ alarm' = [alarm EXCEPT ![n] = TRUE]
  /\ Goto(n, "idle")
  /\ UNCHANGED <<air, delivered, mySeqnum, packet, queue, young, sendTimerRunning,
                 cb, tried, torn>>
-----------------------------------------------------------------------------
(* sendTimerCb(): the kernel thread of n goes on from one place in it to   *)
(* another.                                                                *)
Step(n, from, to) == cb[n] = from /\ cb' = [cb EXCEPT ![n] = to]

(* Its alarm is off the list when it is called.                            *)
Fire(n) ==
  /\ alarm[n] /\ Step(n, "idle", "expire")
  /\ alarm' = [alarm EXCEPT ![n] = FALSE]
  /\ sendTimerRunning' = [sendTimerRunning EXCEPT ![n] = FALSE]
  /\ UNCHANGED <<air, delivered, send, queue, young, tried, torn>>

(* A packet that has had its tries is dropped ...                          *)
Expire(n) ==
  /\ Step(n, "expire", IF first[n] = P /\ slot[n].tries = MaxAttempts THEN "pop" ELSE "look")
  /\ UNCHANGED <<air, delivered, send, queue, timer, tried, torn>>

(* ... by netQueuePop(): it is marked as free before the queue is locked,  *)
(* and unlinked then.                                                      *)
Free(n) == slot' = [slot EXCEPT ![n].isUsed = FALSE]

Pop(n) ==
  /\ Step(n, "pop", "unlink")
  /\ Free(n)
  /\ UNCHANGED <<air, delivered, send, first, last, chain, timer, tried, torn>>

(* Mutant of RemoveHead: the pointer to the tail stays.                    *)
RemoveHeadOnly(n) == first' = [first EXCEPT ![n] = chain[n]] /\ UNCHANGED last

(* STAILQ_REMOVE_HEAD                                                      *)
RemoveHead(n) ==
  /\ first' = [first EXCEPT ![n] = chain[n]]
  /\ last' = [last EXCEPT ![n] = IF chain[n] = NULL THEN HEAD ELSE @]

Unlink(n) ==
  /\ ~Locked(n) /\ Step(n, "unlink", "expire")
  /\ RemoveHead(n)
  /\ UNCHANGED <<air, delivered, send, chain, slot, timer, tried, torn>>

(* Nothing is done for an empty queue.                                     *)
Look(n) ==
  /\ Step(n, "look", IF first[n] = NULL THEN "idle" ELSE "walk")
  /\ UNCHANGED <<air, delivered, send, queue, timer, tried, torn>>

(* The loop over the queue ends at a packet whose time has not come;       *)
Early(n) ==
  /\ young[n] /\ Step(n, "walk", "restart")
  /\ young' = [young EXCEPT ![n] = FALSE]
  /\ UNCHANGED <<air, delivered, send, queue, sendTimerRunning, alarm, tried, torn>>

(* Mutant of Retry: the tries are not counted.                             *)
RetryAlways(n) ==
  /\ Step(n, "walk", IF chain[n] = NULL THEN "restart" ELSE "walk")
  /\ young' = [young EXCEPT ![n] = FALSE]
  /\ UNCHANGED <<air, delivered, send, queue, sendTimerRunning, alarm, tried, torn>>

(* any other is tried again: nobody sets dataLength, so that radioSend()   *)
(* is asked to send nothing, and no node hears a packet.                   *)
Retry(n) ==
  /\ Step(n, "walk", IF chain[n] = NULL THEN "restart" ELSE "walk")
  /\ young' = [young EXCEPT ![n] = FALSE]
  /\ slot' = [slot EXCEPT ![n].tries = (@ + 1) % Tries]
  /\ tried' = [tried EXCEPT ![n] = IF @ = MaxAttempts THEN @ ELSE @ + 1]
  /\ UNCHANGED <<air, delivered, send, first, last, chain, sendTimerRunning, alarm, torn>>

(* Mutant of Restart: the flag is not set again.                           *)
RestartUnmarked(n) ==
  /\ Step(n, "restart", "schedule")
  /\ UNCHANGED <<air, delivered, send, queue, timer, tried, torn>>

Restart(n) ==
  /\ Step(n, "restart", "schedule")
  /\ sendTimerRunning' = [sendTimerRunning EXCEPT ![n] = TRUE]
  /\ UNCHANGED <<air, delivered, send, queue, young, alarm, tried, torn>>

Schedule(n) ==
  /\ Step(n, "schedule", "idle")
  /\ alarm' = [alarm EXCEPT ![n] = TRUE]
  /\ UNCHANGED <<air, delivered, send, queue, young, sendTimerRunning, tried, torn>>
-----------------------------------------------------------------------------
(* pollCsmaMac(): frames, in any order.                                    *)
Arrives(n, f, kind) == f.at = n /\ f.kind = kind /\ cb[n] = "idle"

(* Mutant of filterPass: all data passes.                                  *)
filterNothing(n, f) == f.dst \in Nexthop \cup {n, ANY}

(* Data for another next hop is dropped.                                   *)
filterPass(n, f) == f.dst \in {n, ANY}

(* Data goes to recvCb, then the ack is sent at once, to where it came     *)
(* from.                                                                   *)
Deliver(n, f) ==
  /\ Arrives(n, f, "data")
  /\ IF filterPass(n, f)
     THEN /\ delivered' = delivered \cup
                            {[src |-> f.src, seq |-> f.seq] : d \in {f.dst} \cap {n, ANY}}
          /\ \E heard \in Heard("ack", n, f.src, f.seq) : air' = (air \ {f}) \cup heard
     ELSE air' = air \ {f} /\ UNCHANGED delivered
  /\ UNCHANGED <<send, queue, timer, cb, tried, torn>>

(* Mutant of matchPacketBySeqnum: any packet matches.                      *)
matchAnything(n, f) == first[n] = P

(* The sequence number is all that an ack is matched by.                   *)
matchPacketBySeqnum(n, f) == first[n] = P /\ slot[n].data = f.seq

(* netQueueRemovePacket(), without the lock: STAILQ_REMOVE_IF unlinks the  *)
(* packet that matches, ...                                                *)
Acknowledge(n, f) ==
  /\ Arrives(n, f, "ack")
  /\ air' = air \ {f}
  /\ IF matchPacketBySeqnum(n, f)
     THEN /\ first' = [first EXCEPT ![n] = chain[n]]
          /\ chain' = [chain EXCEPT ![n] = NULL]
          /\ cb' = [cb EXCEPT ![n] = "acked"]
     ELSE UNCHANGED <<first, chain, cb>>
  /\ UNCHANGED <<delivered, send, last, slot, timer, tried, torn>>

(* ... corrects the tail if it pointed to the packet, ...                  *)
AckTail(n) ==
  /\ Step(n, "acked", "freeing")
  /\ last' = [last EXCEPT ![n] = IF @ = P THEN HEAD ELSE @]
  /\ torn' = IF Locked(n) THEN torn \cup {n} ELSE torn
  /\ UNCHANGED <<air, delivered, send, first, chain, slot, timer, tried>>

(* ... and then the slot is free.                                          *)
AckFree(n) ==
  /\ Step(n, "freeing", "idle")
  /\ Free(n)
  /\ UNCHANGED <<air, delivered, send, first, last, chain, timer, tried, torn>>
-----------------------------------------------------------------------------
User(n) == \/ Send(n) \/ AddPacket(n) \/ LinkFirst(n) \/ LinkLast(n) \/ ResetTries(n)
           \/ SetTime(n) \/ TestTimer(n) \/ StartTimer(n) \/ SetAlarm(n)

sendTimerCb(n) == \/ Fire(n) \/ Expire(n) \/ Pop(n) \/ Unlink(n) \/ Look(n) \/ Early(n)
                  \/ Retry(n) \/ Restart(n) \/ Schedule(n)

netQueueRemovePacket(n) == AckTail(n) \/ AckFree(n)

pollCsmaMac(n) == \E f \in air : Deliver(n, f) \/ Acknowledge(n, f)

Next == \E n \in Node : User(n) \/ sendTimerCb(n) \/ pollCsmaMac(n) \/ netQueueRemovePacket(n)

Spec == Init /\ [][Next]_vars

(* Alarms that are set fire, and calls that have begun are completed.      *)
FairSpec == /\ Spec
            /\ \A n \in Sender : /\ SF_vars(sendTimerCb(n))
                                 /\ WF_vars(netQueueRemovePacket(n))
                                 /\ WF_vars(User(n) /\ pc[n] # "idle")
-----------------------------------------------------------------------------
TypeOK ==
  /\ air \subseteq [kind : {"data", "ack"}, src : Node, dst : Node \cup Nexthop,
                    seq : 1..(Seqnums - 1), at : Node]
  /\ delivered \subseteq [src : Node, seq : 1..(Seqnums - 1)]
  /\ pc \in [Node -> {"idle", "sent", "used", "linking", "queued", "reset", "timed",
                      "stopped", "starting"}]
  /\ mySeqnum \in [Node -> 0..(Seqnums - 1)]
  /\ packet \in [Node -> 0..(Seqnums - 1)]
  /\ first \in [Node -> {NULL, P}] /\ last \in [Node -> {HEAD, P}]
  /\ chain \in [Node -> {NULL, P}]
  /\ slot \in [Node -> [isUsed : BOOLEAN, data : 0..(Seqnums - 1), tries : 0..(Tries - 1)]]
  /\ young \in [Node -> BOOLEAN] /\ sendTimerRunning \in [Node -> BOOLEAN]
  /\ alarm \in [Node -> BOOLEAN]
  /\ cb \in [Node -> {"idle", "expire", "pop", "unlink", "look", "walk", "restart",
                      "schedule", "acked", "freeing"}]
  /\ tried \in [Node -> 0..MaxAttempts] /\ torn \subseteq Node

(* Outside the calls that change it the queue is a queue: the slot is in   *)
(* use if and only if it is linked, and the pointer to the tail is right.  *)
(* The calls of the two threads overlap, with and without the lock         *)
(* (net_queue.c:63-66, 83).  In two cases only that does harm: when an ack *)
(* unlinks the packet between the stores of its insertion, and when a      *)
(* packet is inserted after netQueuePop() has freed the slot and before it *)
(* has locked the queue; then it is linked to itself.                      *)
QueueSound ==
  \A n \in Node \ torn :
    pc[n] \notin {"used", "linking"} /\ cb[n] \notin {"unlink", "acked", "freeing"} =>
      /\ slot[n].isUsed <=> first[n] = P
      /\ last[n] = IF first[n] = P THEN P ELSE HEAD
      /\ chain[n] = NULL

(* A packet that leaves the queue by an ack has been delivered: acks come  *)
(* from the receiver (mac.h).  A packet without a known next hop has been  *)
(* taken by some node, which need not be on the way to its destination:    *)
(* filterPass() lets it pass on every node, and every one that hears it    *)
(* acknowledges it.                                                        *)
AckMeansDelivered ==
  [][\A n \in Node, f \in air :
       Acknowledge(n, f) /\ cb'[n] = "acked"
       => [src |-> n, seq |-> slot[n].data] \in delivered]_vars

(* No packet is forgotten, nor given up before it has been tried again as  *)
(* often as it should be: one that is queued has a timer that runs, but    *)
(* while its sender or the callback is about to start it, and the count    *)
(* that it is dropped by is its own.  Before its sender has reset the      *)
(* count (csma-ack.c:95) it is that of the packet before; the packet may   *)
(* be dropped then without a single try.                                   *)
NeverForgotten ==
  \A n \in Node : first[n] = P =>
    /\ pc[n] \in {"idle", "sent", "used"} /\ cb[n] = "idle" => sendTimerRunning[n] /\ alarm[n]
    /\ pc[n] \notin {"used", "linking", "queued"} /\ slot[n].tries = MaxAttempts
       => tried[n] = MaxAttempts

(* The slot becomes free again, whatever the channel loses, unless the     *)
(* queue was torn: a packet that is linked to nothing but itself is either *)
(* never found, or the callback goes around in it for ever.                *)
SlotFreedUnlessTorn == \A n \in Sender : slot[n].isUsed ~> (~slot[n].isUsed \/ n \in torn)
=============================================================================
