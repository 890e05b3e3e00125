-------------------------- MODULE DvRoutingProofs --------------------------
(***************************************************************************)
(* Proofs about distance vector routing, for any set of nodes, any limit   *)
(* of hops and any width of the sequence numbers: the forwarding timer     *)
(* never counts below 0, news are passed on, and routes lead towards the   *)
(* root.                                                                   *)
(***************************************************************************)
EXTENDS DvRouting, TLAPS

(* What the timers of a node keep.  The request timer finds no information *)
(* but valid one, which is why it may reset the counter of the other.      *)
TimersInv ==
  /\ \A n \in requestAlarm \ valid : hopCount[n] = MaxHop
  /\ \A n \in owes : hopCount[n] < MaxHop
  /\ \A n \in Node : timesLeft[n] # 0 => n \in forwardAlarm \cup stuck

Inv == TypeOK /\ TimersInv /\ NoFlood /\ NewsScheduled

LEMMA Constants ==
  /\ Root \notin Node /\ NULL \notin Node /\ NULL # Root
  /\ MaxHop \in Nat /\ MaxHop > 0 /\ Seqnums \in Nat /\ Seqnums > 2
BY DvAssumption

LEMMA RequestType == Request \in Packets
BY DEF Packets

LEMMA InfoIsPacket ==
  ASSUME NEW s \in Node \cup {Root}, NEW q \in Seqnum, NEW h \in 1..MaxHop
  PROVE  Info(s, q, h) \in Packets
BY DEF Packets

(* A packet with information that is in a buffer.                          *)
LEMMA InfoFields ==
  ASSUME NEW p \in Packets \cup {None}, p.type = "info"
  PROVE  p.src \in Node \cup {Root} /\ p.seq \in Seqnum /\ p.hop \in 1..MaxHop
BY DEF Packets, Request, None, Info

LEMMA BroadcastType ==
  ASSUME TypeOK, NEW n, NEW p \in Packets, Broadcast(n, p)
  PROVE  buffer' \in [Node -> Packets \cup {None}]
BY DEF Broadcast, TypeOK

(* Setting the forwarding timer.                                           *)
LEMMA Activates ==
  ASSUME TypeOK, TimersInv, NEW n \in Node, Activate(n)
  PROVE  /\ timesLeft' \in [Node -> 0..1] /\ forwardAlarm' \subseteq Node
         /\ timesLeft'[n] = 1 /\ forwardAlarm \subseteq forwardAlarm'
         /\ n \in forwardAlarm' \cup stuck
         /\ \A m \in Node \ {n} : /\ timesLeft'[m] = timesLeft[m]
                                  /\ m \in forwardAlarm' <=> m \in forwardAlarm
BY DEF TypeOK, TimersInv, Activate

LEMMA InitInv == Init => Inv
BY Constants DEF Init, Inv, TypeOK, TimersInv, NoFlood, NewsScheduled, Seqnum

LEMMA OriginateInv == Inv /\ Originate => Inv'
<1> SUFFICES ASSUME Inv, Originate PROVE Inv'
  OBVIOUS
<1> DEFINE next == (rootSeqnum + 1) % Seqnums
<1>1. next \in Seqnum
  BY Constants, Z3 DEF Inv, TypeOK, Seqnum
<1>2. Info(Root, next, 1) \in Packets
  BY <1>1, Constants, InfoIsPacket
<1>3. rootSeqnum' \in Seqnum /\ Broadcast(Root, Info(Root, next, 1))
  BY <1>1 DEF Originate
<1>4. buffer' \in [Node -> Packets \cup {None}]
  BY <1>2, <1>3, BroadcastType DEF Inv
<1> QED
  BY <1>3, <1>4 DEF Originate, Inv, TypeOK, TimersInv, NoFlood, NewsScheduled, info,
                    timers, history

LEMMA ExpireInv == ASSUME NEW n \in Node PROVE Inv /\ Expire(n) => Inv'
BY DEF Expire, Inv, TypeOK, TimersInv, NoFlood, NewsScheduled, root, timers, history

LEMMA ForwardNothingInv ==
  ASSUME NEW n \in Node PROVE Inv /\ ForwardNothing(n) => Inv'
<1> SUFFICES ASSUME Inv, ForwardNothing(n) PROVE Inv'
  OBVIOUS
<1>1. /\ UNCHANGED <<rootSeqnum, seqnum, hopCount, nexthop, valid, timesLeft, requestAlarm,
                     buffer, lapsed, owes>>
      /\ forwardAlarm' = forwardAlarm \ {n} /\ hopCount[n] >= MaxHop
      /\ stuck' = IF timesLeft[n] # 0 THEN stuck \cup {n} ELSE stuck
  BY DEF ForwardNothing, root, info
<1>2. TypeOK'
  BY <1>1 DEF Inv, TypeOK
<1>3. n \notin owes
  BY <1>1, Constants DEF Inv, TypeOK, TimersInv
<1> QED
  BY <1>1, <1>2, <1>3 DEF Inv, TimersInv, NoFlood, NewsScheduled

LEMMA ForwardInv == ASSUME NEW n \in Node PROVE Inv /\ Forward(n) => Inv'
<1> SUFFICES ASSUME Inv, Forward(n) PROVE Inv'
  OBVIOUS
<1>1. timesLeft[n] = 1
  BY Constants DEF Forward, Inv, TypeOK, NoFlood
<1> DEFINE left == (timesLeft[n] - 1) % 65536
<1>2. left = 0
  BY <1>1
<1>3. /\ timesLeft' = [timesLeft EXCEPT ![n] = left]
      /\ forwardAlarm' = IF timesLeft'[n] = 0 THEN forwardAlarm \ {n} ELSE forwardAlarm
  BY DEF Forward
<1> HIDE DEF left
<1>4. timesLeft' = [timesLeft EXCEPT ![n] = 0] /\ forwardAlarm' = forwardAlarm \ {n}
  BY <1>2, <1>3 DEF Inv, TypeOK
<1>5. Info(n, seqnum[n], hopCount[n] + 1) \in Packets
  BY Constants, InfoIsPacket DEF Forward, Inv, TypeOK
<1>6. buffer' \in [Node -> Packets \cup {None}]
  BY <1>5, BroadcastType DEF Forward, Inv
<1>7. /\ UNCHANGED <<rootSeqnum, seqnum, hopCount, nexthop, valid, requestAlarm, lapsed, stuck>>
      /\ owes' = owes \ {n}
  BY DEF Forward, root, info
<1>8. timesLeft' \in [Node -> 0..1] /\ forwardAlarm' \subseteq Node
  BY <1>4 DEF Inv, TypeOK
<1>9. TypeOK'
  BY <1>6, <1>7, <1>8 DEF Inv, TypeOK
<1> QED
  BY <1>4, <1>7, <1>9 DEF Inv, TypeOK, TimersInv, NoFlood, NewsScheduled

LEMMA RequestRouteInv == ASSUME NEW n \in Node PROVE Inv /\ RequestRoute(n) => Inv'
<1> SUFFICES ASSUME Inv, RequestRoute(n) PROVE Inv'
  OBVIOUS
<1>1. CASE n \in valid
  BY <1>1 DEF RequestRoute, Inv, TypeOK, TimersInv, NoFlood, NewsScheduled, root, info
<1>2. CASE n \notin valid
  <2>1. hopCount[n] = MaxHop /\ n \notin owes
    BY <1>2, Constants DEF RequestRoute, Inv, TimersInv
  <2>2. buffer' \in [Node -> Packets \cup {None}]
    BY <1>2, RequestType, BroadcastType DEF RequestRoute, Inv
  <2>3. /\ UNCHANGED <<rootSeqnum, seqnum, hopCount, nexthop, valid, forwardAlarm, lapsed, owes>>
        /\ requestAlarm' = requestAlarm \ {n} /\ stuck' = stuck \ {n}
        /\ timesLeft' = [timesLeft EXCEPT ![n] = 0]
    BY <1>2 DEF RequestRoute, root, info
  <2>4. TypeOK'
    BY <2>2, <2>3 DEF Inv, TypeOK
  <2> QED
    BY <2>1, <2>3, <2>4, Constants DEF Inv, TypeOK, TimersInv, NoFlood, NewsScheduled
<1> QED
  BY <1>1, <1>2

LEMMA ReceiveRequestInv ==
  ASSUME NEW n \in Node PROVE Inv /\ ReceiveRequest(n) => Inv'
<1> SUFFICES ASSUME Inv, ReceiveRequest(n) PROVE Inv'
  OBVIOUS
<1>1. TypeOK /\ TimersInv /\ Activate(n)
  BY DEF Inv, ReceiveRequest
<1> QED
  BY <1>1, Activates
  DEF ReceiveRequest, Inv, TypeOK, TimersInv, NoFlood, NewsScheduled, root, info, history

LEMMA ReceiveInfoInv == ASSUME NEW n \in Node PROVE Inv /\ ReceiveInfo(n) => Inv'
<1> SUFFICES ASSUME Inv, ReceiveInfo(n) PROVE Inv'
  OBVIOUS
<1> DEFINE p == buffer[n]
<1>1. p.src \in Node \cup {Root} /\ p.seq \in Seqnum /\ p.hop \in 1..MaxHop
  BY InfoFields DEF ReceiveInfo, Inv, TypeOK
<1>2. buffer' \in [Node -> Packets \cup {None}]
  BY DEF ReceiveInfo, Inv, TypeOK
<1>3. CASE ~Accepts(n, p)
  BY <1>2, <1>3
  DEF ReceiveInfo, Inv, TypeOK, TimersInv, NoFlood, NewsScheduled, root, info, history
<1>4. CASE Accepts(n, p)
  <2>1. TypeOK /\ TimersInv /\ Activate(n)
    BY <1>4 DEF Inv, ReceiveInfo
  <2>2. /\ seqnum' = [seqnum EXCEPT ![n] = p.seq]
        /\ hopCount' = [hopCount EXCEPT ![n] = p.hop]
        /\ nexthop' = [nexthop EXCEPT ![n] = p.src]
        /\ valid' = valid \cup {n}
        /\ lapsed' \in {lapsed, lapsed \cup {n}}
        /\ owes' = IF p.hop < MaxHop THEN owes \cup {n} ELSE owes \ {n}
        /\ stuck' = stuck /\ rootSeqnum' = rootSeqnum /\ requestAlarm' = requestAlarm
    BY <1>4 DEF ReceiveInfo, root
  <2> HIDE DEF p
  <2>3. TypeOK'
    BY <1>1, <1>2, <2>1, <2>2, Activates DEF TypeOK
  <2>4. TimersInv' /\ NewsScheduled'
    BY <1>1, <2>1, <2>2, Activates DEF Inv, TypeOK, TimersInv, NewsScheduled
  <2>5. NoFlood'
    BY <1>1, <2>1, <2>2, Activates DEF Inv, TypeOK, NoFlood
  <2> QED
    BY <2>3, <2>4, <2>5 DEF Inv
<1> QED
  BY <1>3, <1>4

LEMMA ResetInv == ASSUME NEW n \in Node PROVE Inv /\ Reset(n) => Inv'
BY Constants
DEF Reset, Inv, TypeOK, TimersInv, NoFlood, NewsScheduled, Seqnum, root, None

LEMMA StepInv == Inv /\ [Next]_vars => Inv'
<1>1. ASSUME Inv, UNCHANGED vars PROVE Inv'
  BY <1>1 DEF vars, root, info, timers, history, Inv, TypeOK, TimersInv, NoFlood,
              NewsScheduled
<1> QED
  BY <1>1, OriginateInv, ExpireInv, ForwardNothingInv, ForwardInv, RequestRouteInv,
     ReceiveRequestInv, ReceiveInfoInv, ResetInv DEF Next

LEMMA InvHolds == Spec => []Inv
BY InitInv, StepInv, PTL DEF Spec

(* The variables keep their types; the counter of the forwarding timer is  *)
(* never more than 1.                                                      *)
THEOREM TypeCorrect == Spec => []TypeOK
BY InvHolds, PTL DEF Inv

(* The forwarding timer never sends 65536 times (dv.c, roForwardTimerCb). *)
THEOREM NeverFloods == Spec => []NoFlood
BY InvHolds, PTL DEF Inv

(* A node with news has its timer set, or has one that is stuck.           *)
THEOREM NewsAreScheduled == Spec => []NewsScheduled
BY InvHolds, PTL DEF Inv
-----------------------------------------------------------------------------
(* How far the sequence number q is behind r, that of the root; the bound  *)
(* of Originate keeps all that matter within half of the numbers.          *)
Age(r, q) == IF r >= q THEN r - q ELSE r - q + Seqnums
Half      == Seqnums - Seqnums \div 2

(* The information <<q, h>> is better than <<p, i>>.                       *)
Ahead(q, h, p, i) == Age(rootSeqnum, q) < Age(rootSeqnum, p) \/ (q = p /\ h < i)

(* Node m has better information than <<q, h>>.                            *)
Knows(m, q, h) == Informed(m) /\ Ahead(seqnum[m], hopCount[m], q, h)

RouteInv(n) ==
  /\ Informed(n) => Age(rootSeqnum, seqnum[n]) < Half
  /\ ~Informed(n) => hopCount[n] = MaxHop
  /\ nexthop[n] \in Node \ lapsed => Knows(nexthop[n], seqnum[n], hopCount[n])

PacketInv(n) ==
  buffer[n].type = "info" =>
    /\ Age(rootSeqnum, buffer[n].seq) < Half /\ buffer[n].src # n
    /\ buffer[n].src \in Node \ lapsed =>
         Knows(buffer[n].src, buffer[n].seq, buffer[n].hop)

RoutesInv == \A n \in Node : RouteInv(n) /\ PacketInv(n)

LEMMA HalfType == Half \in Nat /\ Half > 0 /\ Half < Seqnums /\ 2 * Half <= Seqnums + 1
BY Constants DEF Half

LEMMA AgeType ==
  ASSUME NEW r \in Seqnum, NEW q \in Seqnum
  PROVE  Age(r, q) \in 0..(Seqnums - 1)
BY Constants DEF Seqnum, Age

LEMMA SameAge ==
  ASSUME NEW r \in Seqnum, NEW p \in Seqnum, NEW q \in Seqnum
  PROVE  Age(r, p) = Age(r, q) <=> p = q
BY Constants DEF Seqnum, Age

(* Remainders of small numbers.                                            *)
LEMMA SmallMod ==
  ASSUME NEW d \in Int, NEW k \in Nat, k > 0, -k < d, d < 2 * k
  PROVE  d % k = IF d < 0 THEN d + k ELSE IF d < k THEN d ELSE d - k
BY Z3

LEMMA NextSeqnum ==
  ASSUME NEW r \in Seqnum
  PROVE  /\ (r + 1) % Seqnums = IF r = Seqnums - 1 THEN 0 ELSE r + 1
         /\ (r + 1) % Seqnums \in Seqnum
<1> DEFINE d == r + 1
<1>1. d \in Int /\ -Seqnums < d /\ d < 2 * Seqnums /\ ~(d < 0)
  BY Constants DEF Seqnum
<1> HIDE DEF d
<1>2. d % Seqnums = IF d < 0 THEN d + Seqnums
                    ELSE IF d < Seqnums THEN d ELSE d - Seqnums
  BY <1>1, SmallMod, Constants
<1> QED
  BY <1>1, <1>2, Constants DEF Seqnum, d

LEMMA AfterOf ==
  ASSUME NEW p \in Seqnum, NEW q \in Seqnum
  PROVE  After(p - q) <=> IF p < q THEN p - q + Seqnums <= Seqnums \div 2
                          ELSE p # q /\ p - q <= Seqnums \div 2
<1>1. p - q \in Int /\ -Seqnums < p - q /\ p - q < 2 * Seqnums
  BY Constants DEF Seqnum
<1>2. (p - q) % Seqnums = IF p - q < 0 THEN p - q + Seqnums
                          ELSE IF p - q < Seqnums THEN p - q ELSE p - q - Seqnums
  BY <1>1, SmallMod, Constants
<1> QED
  BY <1>2, Constants DEF After, Seqnum

(* Within the bound, newer is less far behind.                             *)
LEMMA AfterIsAhead ==
  ASSUME NEW r \in Seqnum, NEW p \in Seqnum, NEW q \in Seqnum,
         Age(r, p) < Half, Age(r, q) < Half
  PROVE  After(p - q) <=> Age(r, p) < Age(r, q)
BY AfterOf, Constants DEF Seqnum, Age, Half

(* When the root counts on, all get one further behind.                    *)
LEMMA AgeGrows ==
  ASSUME NEW r \in Seqnum, NEW q \in Seqnum, NEW s \in Seqnum, s = (r + 1) % Seqnums,
         Age(r, q) < Half, ~After(q - s)
  PROVE  Age(s, q) = Age(r, q) + 1 /\ Age(s, q) < Half
<1>1. s = IF r = Seqnums - 1 THEN 0 ELSE r + 1
  BY NextSeqnum
<1> QED
  BY <1>1, AfterOf, Constants DEF Seqnum, Age, Half

LEMMA AheadTransitive ==
  ASSUME TypeOK, NEW p \in Seqnum, NEW q \in Seqnum, NEW s \in Seqnum,
         NEW h \in Int, NEW i \in Int, NEW j \in Int,
         Ahead(p, h, q, i), Ahead(q, i, s, j)
  PROVE  Ahead(p, h, s, j)
<1>1. rootSeqnum \in Seqnum
  BY DEF TypeOK
<1>2. \A x \in {p, q, s} : Age(rootSeqnum, x) \in Int
  BY <1>1, AgeType, Constants
<1> QED
  BY <1>2 DEF Ahead

(* What Better means, within the bound.                                    *)
LEMMA BetterIsAhead ==
  ASSUME TypeOK, NEW n \in Node, NEW p, p.seq \in Seqnum,
         Age(rootSeqnum, p.seq) < Half, Age(rootSeqnum, seqnum[n]) < Half
  PROVE  Better(p, n) <=> Ahead(p.seq, p.hop, seqnum[n], hopCount[n])
<1>1. rootSeqnum \in Seqnum /\ seqnum[n] \in Seqnum
  BY DEF TypeOK
<1>2. After(p.seq - seqnum[n]) <=> Age(rootSeqnum, p.seq) < Age(rootSeqnum, seqnum[n])
  BY <1>1, AfterIsAhead
<1> QED
  BY <1>2 DEF Better, Ahead

LEMMA RoutesInit == Init => RoutesInv
BY Constants DEF Init, RoutesInv, RouteInv, PacketInv, Informed, None

(* Who lost nothing and learnt nothing, and got no packet.                 *)
LEMMA RoutesUnchanged ==
  ASSUME RoutesInv, UNCHANGED <<rootSeqnum, seqnum, hopCount, nexthop>>,
         lapsed \subseteq lapsed',
         \A n \in Node : buffer'[n] = buffer[n] \/ buffer'[n] \in {None, Request}
  PROVE  RoutesInv'
<1>1. ASSUME NEW n \in Node PROVE RouteInv(n)' /\ PacketInv(n)'
  BY DEF RoutesInv, RouteInv, PacketInv, Informed, Knows, Ahead, Age, None, Request
<1> QED
  BY <1>1 DEF RoutesInv

LEMMA OriginateRoutes == ASSUME Inv, RoutesInv, Originate PROVE RoutesInv'
<1> DEFINE r == rootSeqnum
           next == (rootSeqnum + 1) % Seqnums
<1>1. /\ rootSeqnum' = next
      /\ \A n \in Node : Informed(n) => ~After(seqnum[n] - next)
      /\ \A n \in Node : buffer[n].type = "info" => ~After(buffer[n].seq - next)
      /\ Broadcast(Root, Info(Root, next, 1))
      /\ UNCHANGED <<seqnum, hopCount, nexthop, lapsed>>
  BY DEF Originate, info, history
<1>2. r \in Seqnum /\ next \in Seqnum /\ next = (r + 1) % Seqnums
  BY NextSeqnum DEF Inv, TypeOK
<1> HIDE DEF next
<1>3. \A q \in Seqnum : Age(r, q) < Half /\ ~After(q - next) =>
        Age(next, q) = Age(r, q) + 1 /\ Age(next, q) < Half /\ Age(r, q) \in Int
  BY <1>2, AgeGrows, AgeType, Constants
<1>4. \A n \in Node : Informed(n) => /\ seqnum[n] \in Seqnum
                                     /\ Age(next, seqnum[n]) = Age(r, seqnum[n]) + 1
                                     /\ Age(next, seqnum[n]) < Half
                                     /\ Age(r, seqnum[n]) \in Int
  BY <1>1, <1>3 DEF Inv, TypeOK, RoutesInv, RouteInv
<1>5. \A n \in Node : buffer[n].type = "info" =>
        /\ Age(next, buffer[n].seq) = Age(r, buffer[n].seq) + 1
        /\ Age(next, buffer[n].seq) < Half /\ Age(r, buffer[n].seq) \in Int
  BY <1>1, <1>3, InfoFields DEF Inv, TypeOK, RoutesInv, PacketInv
<1>6. ASSUME NEW n \in Node PROVE RouteInv(n)'
  <2>1. Informed(n) <=> Informed(n)'
    BY <1>1 DEF Informed
  <2>2. CASE ~Informed(n)
    BY <1>1, <2>1, <2>2, Constants DEF RoutesInv, RouteInv, Informed
  <2>3. CASE Informed(n)
    BY <1>1, <1>4, <2>1, <2>3 DEF RoutesInv, RouteInv, Knows, Ahead, Informed
  <2> QED
    BY <2>2, <2>3
<1>7. ASSUME NEW n \in Node PROVE PacketInv(n)'
  <2>1. CASE buffer'[n] = buffer[n]
    BY <1>1, <1>4, <1>5, <2>1 DEF RoutesInv, PacketInv, Knows, Ahead, Informed
  <2>2. CASE buffer'[n] = Info(Root, next, 1)
    <3>1. buffer'[n].src = Root /\ buffer'[n].seq = next
      BY <2>2 DEF Info
    <3>2. Age(rootSeqnum', next) = 0
      BY <1>1, <1>2, Constants DEF Age, Seqnum
    <3> QED
      BY <3>1, <3>2, HalfType, Constants DEF PacketInv
  <2> QED
    BY <1>1, <2>1, <2>2 DEF Broadcast
<1> QED
  BY <1>6, <1>7 DEF RoutesInv

(* What a node passes on is what it knows, with a hop more.                *)
LEMMA ForwardRoutes ==
  ASSUME Inv, RoutesInv, NEW n \in Node, Forward(n) PROVE RoutesInv'
<1> DEFINE p == Info(n, seqnum[n], hopCount[n] + 1)
<1>1. /\ UNCHANGED <<rootSeqnum, seqnum, hopCount, nexthop, lapsed>>
      /\ Broadcast(n, p) /\ hopCount[n] < MaxHop
  BY DEF Forward, root, info
<1>2. p.src = n /\ p.seq = seqnum[n] /\ p.hop = hopCount[n] + 1
  BY DEF Info
<1> HIDE DEF p
<1>3. hopCount[n] \in Int /\ Informed(n)
  BY <1>1, Constants DEF Inv, TypeOK, RoutesInv, RouteInv
<1>4. Knows(n, p.seq, p.hop) /\ Age(rootSeqnum, p.seq) < Half
  BY <1>2, <1>3 DEF Knows, Ahead, RoutesInv, RouteInv
<1>5. ASSUME NEW m \in Node PROVE PacketInv(m)'
  <2>1. CASE buffer'[m] = buffer[m]
    BY <1>1, <2>1 DEF RoutesInv, PacketInv, Knows, Ahead, Informed
  <2>2. CASE buffer'[m] = p /\ m # n
    BY <1>1, <1>2, <1>4, <2>2 DEF PacketInv, Knows, Ahead, Informed
  <2> QED
    BY <1>1, <2>1, <2>2 DEF Broadcast
<1>6. ASSUME NEW m \in Node PROVE RouteInv(m)'
  BY <1>1 DEF RoutesInv, RouteInv, Knows, Ahead, Informed
<1> QED
  BY <1>5, <1>6 DEF RoutesInv

(* News make a node no worse a next hop, unless it has lapsed.             *)
LEMMA ReceiveInfoRoutes ==
  ASSUME Inv, RoutesInv, NEW n \in Node, ReceiveInfo(n) PROVE RoutesInv'
<1> DEFINE p == buffer[n]
<1>1. /\ p.src \in Node \cup {Root} /\ p.seq \in Seqnum /\ p.hop \in 1..MaxHop
      /\ p.src # n /\ p.type = "info"
  BY InfoFields DEF ReceiveInfo, Inv, TypeOK, RoutesInv, PacketInv
<1>2. buffer' = [buffer EXCEPT ![n] = None] /\ rootSeqnum' = rootSeqnum
  BY DEF ReceiveInfo, root
<1>3. CASE ~Accepts(n, p)
  <2>1. UNCHANGED <<seqnum, hopCount, nexthop, lapsed>>
    BY <1>3 DEF ReceiveInfo, info, history
  <2> QED
    BY <1>2, <2>1, RoutesUnchanged DEF Inv, TypeOK
<1>4. CASE Accepts(n, p)
  <2>1. /\ seqnum' = [seqnum EXCEPT ![n] = p.seq]
        /\ hopCount' = [hopCount EXCEPT ![n] = p.hop]
        /\ nexthop' = [nexthop EXCEPT ![n] = p.src]
        /\ lapsed' = IF Informed(n) /\ ~Better(p, n) THEN lapsed \cup {n} ELSE lapsed
    BY <1>4 DEF ReceiveInfo
  <2>2. /\ Age(rootSeqnum, p.seq) < Half
        /\ p.src \in Node \ lapsed => Knows(p.src, p.seq, p.hop)
    BY <1>1 DEF RoutesInv, PacketInv
  <2> HIDE DEF p
  <2>3. /\ seqnum'[n] = p.seq /\ hopCount'[n] = p.hop /\ nexthop'[n] = p.src
        /\ \A m \in Node \ {n} : /\ seqnum'[m] = seqnum[m] /\ hopCount'[m] = hopCount[m]
                                 /\ nexthop'[m] = nexthop[m]
    BY <2>1 DEF Inv, TypeOK
  <2>4. Informed(n)' /\ \A m \in Node \ {n} : Informed(m)' <=> Informed(m)
    BY <1>1, <2>3, Constants DEF Informed
  <2>5. ASSUME NEW m \in Node \ lapsed', NEW q \in Seqnum, NEW h \in Int, Knows(m, q, h)
        PROVE  Knows(m, q, h)'
    <3>1. CASE m # n
      BY <1>2, <2>3, <2>4, <2>5, <3>1 DEF Knows, Ahead
    <3>2. CASE m = n
      <4>1. Informed(n) /\ Better(p, n)
        BY <2>1, <2>5, <3>2 DEF Knows
      <4>2. Age(rootSeqnum, seqnum[n]) < Half
        BY <4>1 DEF RoutesInv, RouteInv
      <4>3. Ahead(p.seq, p.hop, seqnum[n], hopCount[n])
        BY <1>1, <2>2, <4>1, <4>2, BetterIsAhead DEF Inv
      <4>4. Ahead(seqnum[n], hopCount[n], q, h)
        BY <2>5, <3>2 DEF Knows
      <4>5. Ahead(p.seq, p.hop, q, h)
        BY <1>1, <4>3, <4>4, AheadTransitive, Constants DEF Inv, TypeOK
      <4> QED
        BY <1>2, <2>3, <2>4, <3>2, <4>5 DEF Knows, Ahead
    <3> QED
      BY <3>1, <3>2
  <2>6. lapsed \subseteq lapsed'
    BY <2>1
  <2>7. RouteInv(n)'
    <3>1. PICK from, q, h : from = p.src /\ q = p.seq /\ h = p.hop
      OBVIOUS
    <3>2. from \in Node \ lapsed' => Knows(from, q, h)'
      BY <1>1, <2>2, <2>5, <2>6, <3>1, Constants
    <3>3. nexthop'[n] = from /\ seqnum'[n] = q /\ hopCount'[n] = h
      BY <2>3, <3>1
    <3>4. nexthop'[n] \in Node \ lapsed' => Knows(nexthop[n], seqnum[n], hopCount[n])'
      BY <3>2, <3>3 DEF Knows, Ahead, Informed
    <3> QED
      BY <1>2, <2>2, <2>4, <3>1, <3>3, <3>4 DEF RouteInv
  <2>8. ASSUME NEW m \in Node \ {n} PROVE RouteInv(m)'
    <3>1. seqnum[m] \in Seqnum /\ hopCount[m] \in Int /\ RouteInv(m)
      BY Constants DEF Inv, TypeOK, RoutesInv
    <3>2. nexthop[m] \in Node \ lapsed' => Knows(nexthop[m], seqnum[m], hopCount[m])'
      BY <2>3, <2>5, <2>6, <3>1 DEF RouteInv
    <3> QED
      BY <1>2, <2>3, <2>4, <3>1, <3>2 DEF RouteInv
  <2>9. ASSUME NEW m \in Node PROVE PacketInv(m)'
    <3>1. CASE m = n
      BY <1>2, <3>1 DEF PacketInv, None, Inv, TypeOK
    <3>2. CASE m # n /\ buffer[m].type = "info"
      <4>1. buffer[m].seq \in Seqnum /\ buffer[m].hop \in Int /\ PacketInv(m)
        BY <3>2, InfoFields DEF Inv, TypeOK, RoutesInv
      <4>2. buffer'[m] = buffer[m]
        BY <1>2, <3>2 DEF Inv, TypeOK
      <4> QED
        BY <1>2, <2>5, <2>6, <3>2, <4>1, <4>2 DEF PacketInv
    <3>3. CASE m # n /\ buffer[m].type # "info"
      BY <1>2, <3>3 DEF PacketInv, Inv, TypeOK
    <3> QED
      BY <3>1, <3>2, <3>3
  <2> QED
    BY <2>7, <2>8, <2>9 DEF RoutesInv
<1> QED
  BY <1>3, <1>4

LEMMA OtherRoutes ==
  ASSUME Inv, RoutesInv, NEW n \in Node,
         \/ Expire(n) \/ ForwardNothing(n) \/ RequestRoute(n) \/ ReceiveRequest(n)
         \/ UNCHANGED vars
  PROVE  RoutesInv'
<1>1. UNCHANGED <<rootSeqnum, seqnum, hopCount, nexthop, lapsed>>
  BY DEF Expire, ForwardNothing, RequestRoute, ReceiveRequest, vars, root, info, history
<1>2. ASSUME NEW m \in Node PROVE buffer'[m] = buffer[m] \/ buffer'[m] \in {None, Request}
  BY DEF Expire, ForwardNothing, RequestRoute, ReceiveRequest, Broadcast, vars, Inv, TypeOK
<1> QED
  BY <1>1, <1>2, RoutesUnchanged

(* A node that is reset knows nothing, and has lapsed.                     *)
LEMMA ResetRoutes == ASSUME Inv, RoutesInv, NEW n \in Node, Reset(n) PROVE RoutesInv'
<1>1. /\ rootSeqnum' = rootSeqnum /\ lapsed' = lapsed \cup {n}
      /\ hopCount'[n] = MaxHop /\ nexthop'[n] = NULL /\ buffer'[n] = None
      /\ \A m \in Node \ {n} : /\ seqnum'[m] = seqnum[m] /\ hopCount'[m] = hopCount[m]
                               /\ nexthop'[m] = nexthop[m] /\ buffer'[m] = buffer[m]
  BY DEF Reset, root, Inv, TypeOK
<1>2. RouteInv(n)' /\ PacketInv(n)'
  BY <1>1, Constants DEF RouteInv, PacketInv, Informed, None
<1>3. ASSUME NEW m \in Node \ {n} PROVE RouteInv(m)' /\ PacketInv(m)'
  BY <1>1 DEF RoutesInv, RouteInv, PacketInv, Knows, Ahead, Informed
<1> QED
  BY <1>2, <1>3 DEF RoutesInv

LEMMA RoutesStep == Inv /\ RoutesInv /\ [Next]_vars => RoutesInv'
<1>1. ASSUME Inv, RoutesInv, UNCHANGED vars PROVE RoutesInv'
  BY <1>1, RoutesUnchanged DEF vars, root, info, history
<1> QED
  BY <1>1, OriginateRoutes, ForwardRoutes, ReceiveInfoRoutes, OtherRoutes, ResetRoutes DEF Next

(* Every next hop that has not lapsed is nearer to the root, or has newer  *)
(* information: routes cannot turn in a circle among such nodes (dv.c,     *)
(* routingReceive).                                                        *)
THEOREM RoutesLeadToRoot == Spec => []NextHopCloser
<1>1. ASSUME TypeOK, RoutesInv PROVE NextHopCloser
  <2> SUFFICES ASSUME NEW n \in Node, nexthop[n] \in Node \ lapsed
               PROVE  LET m == nexthop[n]
                      IN  \/ After(seqnum[m] - seqnum[n])
                          \/ seqnum[m] = seqnum[n] /\ hopCount[m] < hopCount[n]
    BY DEF NextHopCloser
  <2> DEFINE m == nexthop[n]
  <2>1. Informed(m) /\ Ahead(seqnum[m], hopCount[m], seqnum[n], hopCount[n]) /\ Informed(n)
    BY <1>1, Constants DEF RoutesInv, RouteInv, Knows, Informed
  <2>2. /\ rootSeqnum \in Seqnum /\ seqnum[m] \in Seqnum /\ seqnum[n] \in Seqnum
        /\ Age(rootSeqnum, seqnum[m]) < Half /\ Age(rootSeqnum, seqnum[n]) < Half
    BY <1>1, <2>1 DEF TypeOK, RoutesInv, RouteInv
  <2> QED
    BY <2>1, <2>2, AfterIsAhead DEF Ahead
<1>2. Inv /\ RoutesInv => NextHopCloser
  BY <1>1 DEF Inv
<1>3. Spec => []RoutesInv
  BY RoutesInit, RoutesStep, InvHolds, PTL DEF Spec
<1> QED
  BY <1>2, <1>3, InvHolds, PTL
=============================================================================
