----------------------------- MODULE DvRouting -----------------------------
(***************************************************************************)
(* Distance vector routing (net/routing/dv.c, dv-bs.c).  A base station,   *)
(* the root, floods routing information; every other node keeps the way to *)
(* the root that it has heard of and passes it on, later, by a timer.      *)
(*                                                                         *)
(* A handler is one step: the kernel thread of a node runs receive and     *)
(* timer callbacks one after the other.  A broadcast reaches any of the    *)
(* other nodes; a node has one buffer for received packets.  Time is kept  *)
(* only as whether the information of a node is still valid.               *)
(***************************************************************************)
EXTENDS Integers, FiniteSets

CONSTANTS Node,     \* all but the root
          Root, NULL,
          MaxHop,   \* MAX_HOP_COUNT
          Seqnums   \* sequence numbers are counted modulo Seqnums (2^16)

ASSUME DvAssumption ==
  /\ Root \notin Node /\ NULL \notin Node \cup {Root}
  /\ MaxHop \in Nat \ {0} /\ Seqnums \in Nat /\ Seqnums > 2

VARIABLES
  rootSeqnum,   \* mySeqnum of the base station
  seqnum,       \* lastSeenSeqnum, hopCountToRoot, nexthopToRoot
  hopCount,
  nexthop,
  valid,        \* nodes with isRoutingInfoValid()
  timesLeft,    \* data of roForwardTimer: not 0 means it is active
  forwardAlarm, \* nodes with roForwardTimer in the list of alarms
  requestAlarm, \* and with roRequestTimer
  buffer,       \* the packet that the radio has received
  lapsed,       \* history: nodes that have lost information, or have taken
                \* older or worse information after theirs had expired
  owes,         \* history: nodes with news that they have not passed on
  stuck         \* history: nodes where roForwardTimerCb() has found nothing
                \* to send and left the timer marked active

root    == <<rootSeqnum>>
info    == <<seqnum, hopCount, nexthop, valid>>
timers  == <<timesLeft, forwardAlarm, requestAlarm>>
history == <<lapsed, owes, stuck>>
vars    == <<root, info, timers, buffer, history>>

Seqnum  == 0..(Seqnums - 1)
Request == [type |-> "request"]
Info(src, seq, hop) == [type |-> "info", src |-> src, seq |-> seq, hop |-> hop]
Packets == {Request} \cup {Info(s, q, h) : s \in Node \cup {Root}, q \in Seqnum, h \in 1..MaxHop}
None    == [type |-> "none"]

(* timeAfter16(), of the difference.                                       *)
After(d) == (d % Seqnums) \in 1..(Seqnums \div 2)

Init ==
  /\ rootSeqnum = 0
  /\ seqnum = [n \in Node |-> 0] /\ hopCount = [n \in Node |-> MaxHop]
  /\ nexthop = [n \in Node |-> NULL] /\ valid = {}
  /\ timesLeft = [n \in Node |-> 0] /\ forwardAlarm = {} /\ requestAlarm = Node
  /\ buffer = [n \in Node |-> None]
  /\ lapsed = {} /\ owes = {} /\ stuck = {}

(* A broadcast of n: any of the others hear it, in place of a packet that  *)
(* they have not read.                                                     *)
Broadcast(n, p) ==
  \E heard \in SUBSET (Node \ {n}) :
    buffer' = [m \in Node |-> IF m \in heard THEN p ELSE buffer[m]]

Informed(n) == nexthop[n] # NULL
-----------------------------------------------------------------------------
(* roOriginateTimerCb() of the root; a request only makes it come sooner.  *)
(* Bound: no node is so far behind that its information looks newer.       *)
Originate ==
  LET next == (rootSeqnum + 1) % Seqnums
  IN  /\ \A n \in Node : Informed(n) => ~After(seqnum[n] - next)
      /\ \A n \in Node : buffer[n].type = "info" => ~After(buffer[n].seq - next)
      /\ rootSeqnum' = next
      /\ Broadcast(Root, Info(Root, next, 1))
      /\ UNCHANGED <<info, timers, history>>

(* The information of n expires, long after its request timer has fired.   *)
Expire(n) ==
  /\ n \in valid /\ n \notin requestAlarm
  /\ valid' = valid \ {n}
  /\ UNCHANGED <<root, seqnum, hopCount, nexthop, timers, buffer, history>>

(* Mutant of Activate: the alarm of a timer that is not active is not set. *)
MarkOnly(n) ==
  /\ timesLeft' = [timesLeft EXCEPT ![n] = IF @ = 0 THEN 1 ELSE @]
  /\ UNCHANGED forwardAlarm

(* markForwardTimerActive(1) and alarmSchedule(), unless it is active.     *)
Activate(n) ==
  /\ timesLeft' = [timesLeft EXCEPT ![n] = IF @ = 0 THEN 1 ELSE @]
  /\ forwardAlarm' = IF timesLeft[n] = 0 THEN forwardAlarm \cup {n} ELSE forwardAlarm

(* roForwardTimerCb(), without a way to the root: nothing is done, and the *)
(* timer stays marked active.                                              *)
ForwardNothing(n) ==
  /\ n \in forwardAlarm /\ hopCount[n] >= MaxHop
  /\ forwardAlarm' = forwardAlarm \ {n}
  /\ stuck' = IF timesLeft[n] # 0 THEN stuck \cup {n} ELSE stuck
  /\ UNCHANGED <<root, info, timesLeft, requestAlarm, buffer, lapsed, owes>>

(* Mutant of Forward: the hop is not counted.                              *)
ForwardSame(n) ==
  /\ n \in forwardAlarm /\ hopCount[n] < MaxHop
  /\ Broadcast(n, Info(n, seqnum[n], hopCount[n]))
  /\ timesLeft' = [timesLeft EXCEPT ![n] = (@ - 1) % 65536]
  /\ forwardAlarm' = IF timesLeft'[n] = 0 THEN forwardAlarm \ {n} ELSE forwardAlarm
  /\ owes' = owes \ {n}
  /\ UNCHANGED <<root, info, requestAlarm, lapsed, stuck>>

(* Mutant of Forward: there is no limit.                                   *)
ForwardFar(n) ==
  /\ n \in forwardAlarm
  /\ Broadcast(n, Info(n, seqnum[n], hopCount[n] + 1))
  /\ timesLeft' = [timesLeft EXCEPT ![n] = (@ - 1) % 65536]
  /\ forwardAlarm' = IF timesLeft'[n] = 0 THEN forwardAlarm \ {n} ELSE forwardAlarm
  /\ owes' = owes \ {n}
  /\ UNCHANGED <<root, info, requestAlarm, lapsed, stuck>>

(* roForwardTimerCb(): the information is passed on, valid or not, as many *)
(* times as the 16-bit counter says.                                       *)
Forward(n) ==
  /\ n \in forwardAlarm /\ hopCount[n] < MaxHop
  /\ Broadcast(n, Info(n, seqnum[n], hopCount[n] + 1))
  /\ timesLeft' = [timesLeft EXCEPT ![n] = (@ - 1) % 65536]
  /\ forwardAlarm' = IF timesLeft'[n] = 0 THEN forwardAlarm \ {n} ELSE forwardAlarm
  /\ owes' = owes \ {n}
  /\ UNCHANGED <<root, info, requestAlarm, lapsed, stuck>>

(* Mutant of RequestRoute: whether the information is valid is not asked.  *)
RequestAlways(n) ==
  /\ n \in requestAlarm
  /\ requestAlarm' = requestAlarm \ {n}
  /\ Broadcast(n, Request)
  /\ timesLeft' = [timesLeft EXCEPT ![n] = 0]
  /\ stuck' = stuck \ {n}
  /\ UNCHANGED <<root, info, forwardAlarm, lapsed, owes>>

(* roRequestTimerCb(), once after a start.                                 *)
RequestRoute(n) ==
  /\ n \in requestAlarm
  /\ requestAlarm' = requestAlarm \ {n}
  /\ IF n \in valid THEN UNCHANGED <<timesLeft, buffer, stuck>>
     ELSE /\ Broadcast(n, Request)
          /\ timesLeft' = [timesLeft EXCEPT ![n] = 0]
          /\ stuck' = stuck \ {n}
  /\ UNCHANGED <<root, info, forwardAlarm, lapsed, owes>>

(* routingReceive() of a request: the answer is left to the timer.         *)
ReceiveRequest(n) ==
  /\ buffer[n] = Request
  /\ buffer' = [buffer EXCEPT ![n] = None]
  /\ Activate(n)
  /\ UNCHANGED <<root, info, requestAlarm, history>>

(* The packet is newer than what n knows, or as new and from a node that   *)
(* is nearer to the root.                                                  *)
Better(p, n) == \/ After(p.seq - seqnum[n])
                \/ p.seq = seqnum[n] /\ p.hop < hopCount[n]

(* routingReceive() of information: what is valid is only replaced by      *)
(* something better, what has expired by anything.                         *)
Accepts(n, p) == (n \notin valid \/ Better(p, n)) /\ p.hop <= MaxHop

ReceiveInfo(n) ==
  /\ buffer[n].type = "info"
  /\ buffer' = [buffer EXCEPT ![n] = None]
  /\ LET p == buffer[n]
     IN  IF ~Accepts(n, p) THEN UNCHANGED <<info, timesLeft, forwardAlarm, history>>
         ELSE /\ seqnum' = [seqnum EXCEPT ![n] = p.seq]
              /\ hopCount' = [hopCount EXCEPT ![n] = p.hop]
              /\ nexthop' = [nexthop EXCEPT ![n] = p.src]
              /\ valid' = valid \cup {n}
              /\ Activate(n)
              /\ lapsed' = IF Informed(n) /\ ~Better(p, n) THEN lapsed \cup {n} ELSE lapsed
              /\ owes' = IF p.hop < MaxHop THEN owes \cup {n} ELSE owes \ {n}
              /\ UNCHANGED stuck
  /\ UNCHANGED <<root, requestAlarm>>

(* A node is reset; routingInit().                                         *)
Reset(n) ==
  /\ seqnum' = [seqnum EXCEPT ![n] = 0] /\ hopCount' = [hopCount EXCEPT ![n] = MaxHop]
  /\ nexthop' = [nexthop EXCEPT ![n] = NULL] /\ valid' = valid \ {n}
  /\ timesLeft' = [timesLeft EXCEPT ![n] = 0]
  /\ forwardAlarm' = forwardAlarm \ {n} /\ requestAlarm' = requestAlarm \cup {n}
  /\ buffer' = [buffer EXCEPT ![n] = None]
  /\ lapsed' = lapsed \cup {n} /\ owes' = owes \ {n} /\ stuck' = stuck \ {n}
  /\ UNCHANGED root
-----------------------------------------------------------------------------
Next == Originate \/ \E n \in Node : \/ Expire(n) \/ ForwardNothing(n) \/ Forward(n)
                                     \/ RequestRoute(n) \/ ReceiveRequest(n)
                                     \/ ReceiveInfo(n) \/ Reset(n)

Spec == Init /\ [][Next]_vars
-----------------------------------------------------------------------------
TypeOK ==
  /\ rootSeqnum \in Seqnum
  /\ seqnum \in [Node -> Seqnum] /\ hopCount \in [Node -> 1..MaxHop]
  /\ nexthop \in [Node -> Node \cup {Root, NULL}] /\ valid \subseteq Node
  /\ timesLeft \in [Node -> 0..1]
  /\ forwardAlarm \subseteq Node /\ requestAlarm \subseteq Node
  /\ buffer \in [Node -> Packets \cup {None}]
  /\ lapsed \subseteq Node /\ owes \subseteq Node /\ stuck \subseteq Node

(* The next hop knows more: it has newer information, or is nearer to the  *)
(* root with the same.  So routes do not turn in a circle, unless through  *)
(* a node that has lapsed: neither Forward nor an expired node asks        *)
(* whether information was valid or came from itself.                      *)
NextHopCloser ==
  \A n \in Node : nexthop[n] \in Node \ lapsed =>
    LET m == nexthop[n]
    IN  \/ After(seqnum[m] - seqnum[n])
        \/ seqnum[m] = seqnum[n] /\ hopCount[m] < hopCount[n]

(* The timer never finds its counter at 0 when there is something to send: *)
(* it would send 65536 times.                                              *)
NoFlood == \A n \in forwardAlarm : timesLeft[n] = 0 => hopCount[n] >= MaxHop

(* News are passed on: a node that has some has its timer set.  Only a     *)
(* timer that fired before there was any information never runs again.     *)
NewsScheduled == owes \subseteq forwardAlarm \cup stuck
=============================================================================
