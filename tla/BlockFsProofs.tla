---------------------------- MODULE BlockFsProofs ----------------------------
(***************************************************************************)
(* Proofs about module BlockFs, for all threads, names, table sizes, block *)
(* sizes and file sizes: handles, control blocks and locks, and then the   *)
(* blocks of the files: the invariant, and the calls that open, flush,     *)
(* close and write a file.                                                 *)
(***************************************************************************)
EXTENDS BlockFs, FiniteSetTheorems, TLAPS

(* What a thread has in its local variables, by the point it is at.        *)
IdleLocals     == [pc : {"idle"}]
OpenLocals     == [pc : {"open"}, fd : Slot]
SearchLocals   == [pc : {"find fcb", "alloc fcb"}, op : {"open"}, fd : Slot, mode : Mode,
                   new : Name \cup {NoName}, id : Entry, i : Slot]
RemoveLocals   == [pc : {"find fcb"}, op : {"remove"}, id : Entry, i : Slot]
HandleLocals   == [pc : {"alloc handle"}, fd : Slot, i : Slot, mode : Mode]
AllocateLocals == [pc : {"allocate"}, h : Slot]
EraseLocals    == [pc : {"erase"}, h : Slot, s : Seg]
LinkLocals     == [pc : {"link"}, h : Slot, b : Block]
WriteLocals    == [pc : {"flush", "program"}, op : {"write"}, h : Slot]
FlushLocals    == [pc : {"flush", "program"}, op : {"sync", "close"}, h : Slot, fd : Slot]
CloseLocals    == [pc : {"close fcb"}, fd : Slot, i : Slot, h : Slot]
ClosedLocals   == [pc : {"close handle"}, fd : Slot, h : Slot]
FreeLocals     == [pc : {"free"}, id : Entry, b : Block \cup {INVAL, NoBlock},
                   left : 0..MaxSize]
Locals == UNION {IdleLocals, OpenLocals, SearchLocals, RemoveLocals, HandleLocals,
                 AllocateLocals, EraseLocals, LinkLocals, WriteLocals, FlushLocals,
                 CloseLocals, ClosedLocals, FreeLocals}

(* Types, without the bound of the reference counts and with the block a   *)
(* broken chain would lead to.                                             *)
Types ==
  /\ table \in [Block -> {FREE, USED, AVAIL}]
  /\ dir \in [Entry -> [name : Name \cup {NoName}, first : Block \cup {INVAL}, size : 0..MaxSize]]
  /\ next \in [Block -> Block \cup {INVAL, NoBlock}]
  /\ data \in [Block -> [Cell -> (Entry \X (0..MaxSize)) \cup {Blank, Junk}]]
  /\ fcb \in [Slot -> [id : Entry \cup {INVAL}, refcount : Nat, writer : BOOLEAN,
                       first : Block \cup {INVAL}, size : 0..MaxSize]]
  /\ handle \in [Slot -> [fcb : Slot \cup {INVAL}, mode : Mode \cup {"read"}, pos : 0..MaxSize,
                          curr : Block \cup {INVAL, NoBlock}]]
  /\ openFiles \in [Slot -> [owner : Thread \cup {Nobody}, handle : Slot \cup {INVAL}]]
  /\ root \in Thread \cup {Nobody} /\ tableLock \in Thread \cup {Nobody}
  /\ fcbLock \in [Slot -> Thread \cup {Nobody}]
  /\ at \in [Thread -> Locals]
  /\ unsynced \in SUBSET Entry /\ length \in [Entry -> 0..MaxSize]

Opening(t) == \/ Pc(t) \in {"open", "alloc fcb", "alloc handle"}
              \/ Pc(t) = "find fcb" /\ at[t].op = "open"
Closing(t) == \/ Pc(t) \in {"close fcb", "close handle"}
              \/ Pc(t) \in {"flush", "program"} /\ at[t].op = "close"
Writing(t) == Pc(t) \in {"allocate", "erase", "link", "flush", "program"}

(* A call works on an open file of its thread: it has a slot without a     *)
(* handle while it opens it, and with the call's handle later.             *)
CallOwnsFile(t) ==
  /\ Opening(t) => openFiles[at[t].fd] = [owner |-> t, handle |-> INVAL]
  /\ Closing(t) => openFiles[at[t].fd] = [owner |-> t, handle |-> at[t].h]
  /\ Writing(t) => /\ \E fd \in Slot : openFiles[fd] = [owner |-> t, handle |-> at[t].h]
                   /\ Appends(handle[at[t].h].mode)
  /\ Pc(t) = "close fcb" => FcbOf(at[t].h) = at[t].i
  /\ Pc(t) \in {"allocate", "erase", "link"} => handle[at[t].h].pos < MaxSize

CallsOwnFiles == \A t \in Thread : CallOwnsFile(t)

(* Open files and handles in use are the same, one for one.                *)
SlotSound(fd) ==
  LET o == openFiles[fd]
  IN  /\ o.owner = Nobody => o.handle = INVAL
      /\ o.owner # Nobody /\ o.handle = INVAL => Opening(o.owner) /\ at[o.owner].fd = fd
      /\ o.handle # INVAL => FcbOf(o.handle) # INVAL

FilesHaveHandles ==
  /\ \A fd \in Slot : SlotSound(fd)
  /\ \A c, d \in Slot : openFiles[c].handle = openFiles[d].handle /\ openFiles[c].handle # INVAL
                          => c = d
  /\ \A h \in Slot : FcbOf(h) # INVAL => \E fd \in Slot : openFiles[fd].handle = h

LocksOf(t) ==
  /\ root = t <=> Pc(t) \in {"find fcb", "alloc fcb", "free"}
  /\ tableLock = t <=> Pc(t) \in {"erase", "link"}
  /\ \A i \in Slot : fcbLock[i] = t <=> Writing(t) /\ FcbOf(at[t].h) = i

LocksHeld == \A t \in Thread : LocksOf(t)

(* The control block that the open file fd has a reference to.             *)
Use(fd) ==
  LET t == openFiles[fd].owner
      h == openFiles[fd].handle
  IN  IF t = Nobody THEN INVAL
      ELSE IF h # INVAL
      THEN IF Pc(t) = "close handle" /\ at[t].fd = fd THEN INVAL ELSE FcbOf(h)
      ELSE IF Pc(t) = "alloc handle" THEN at[t].i ELSE INVAL

(* It may write through it.                                                *)
MayWrite(fd) ==
  LET t == openFiles[fd].owner
      h == openFiles[fd].handle
  IN  /\ Use(fd) # INVAL
      /\ ~(Pc(t) = "close fcb" /\ at[t].fd = fd)
      /\ Appends(IF h # INVAL THEN handle[h].mode ELSE at[t].mode)

Users(i) == {fd \in Slot : Use(fd) = i}

Counted ==
  \A i \in Slot : /\ fcb[i].refcount = Cardinality(Users(i))
                  /\ fcb[i].id = INVAL => fcb[i] = NoFcb
                  /\ fcb[i].id # INVAL => Users(i) # {}

WritersAlone ==
  /\ \A fd \in Slot : MayWrite(fd) => fcb[Use(fd)].writer
  /\ \A c, d \in Slot : MayWrite(c) /\ MayWrite(d) /\ Use(c) = Use(d) => c = d

(* An entry has one control block at most, whoever looks for it: a search  *)
(* has rootMutex, and nobody allocates a control block without.            *)
FcbsDiffer == \A i, j \in Slot : fcb[i].id = fcb[j].id /\ fcb[i].id # INVAL => i = j
FcbsNamed  == \A i \in Slot : fcb[i].id # INVAL => dir[fcb[i].id].name # NoName
SearchOf(t) ==
  /\ Pc(t) = "find fcb" => /\ dir[at[t].id].name # NoName
                           /\ at[t].op = "open" => at[t].new = NoName
                           /\ \A j \in Slot : j < at[t].i => fcb[j].id # at[t].id
  /\ Pc(t) = "alloc fcb" => /\ at[t].new = NoName <=> dir[at[t].id].name # NoName
                            /\ \E j \in Slot : j >= at[t].i /\ fcb[j].id = INVAL
  /\ Pc(t) \in {"alloc fcb", "free"} => \A j \in Slot : fcb[j].id # at[t].id
  /\ Pc(t) = "free" => dir[at[t].id].name # NoName

OneFcbEach == FcbsDiffer /\ FcbsNamed /\ \A t \in Thread : SearchOf(t)

TablesInv == /\ Types /\ CallsOwnFiles /\ FilesHaveHandles /\ LocksHeld
             /\ Counted /\ WritersAlone /\ OneFcbEach
------------------------------------------------------------------------------
(* Induction over the natural numbers, from the well-founded order of      *)
(* finite sets, and the least element of a set of numbers.                 *)
LEMMA LeastNumber ==
  ASSUME NEW T \in SUBSET Nat, T # {}
  PROVE  \E m \in T : \A k \in T : m <= k
<1> DEFINE R == StrictSubsetOrdering(Nat)
<1> DEFINE U == {0..n : n \in T}
<1>1. IsWellFoundedOn(R, FiniteSubsetsOf(Nat))
  BY FS_StrictSubsetOrderingWellFounded
<1>2. U \subseteq FiniteSubsetsOf(Nat) /\ U # {}
  <2>1. ASSUME NEW n \in T PROVE 0..n \in FiniteSubsetsOf(Nat)
    <3>1. IsFiniteSet(0..n)
      BY FS_Interval
    <3> QED
      BY <3>1 DEF FiniteSubsetsOf
  <2> QED
    BY <2>1
<1>3. PICK x \in U : \A y \in U : ~(<<y, x>> \in R)
  <2> HIDE DEF U, R
  <2> QED
    BY <1>1, <1>2, WFMin
<1>4. PICK m \in T : x = 0..m
  OBVIOUS
<1>5. ASSUME NEW k \in T PROVE m <= k
  <2>1. ~(<<0..k, 0..m>> \in R)
    BY <1>3, <1>4
  <2>2. k \in Nat /\ m \in Nat
    OBVIOUS
  <2>3. ~(k < m)
    <3> SUFFICES ASSUME k < m PROVE FALSE
      OBVIOUS
    <3>1. 0..k \subseteq 0..m /\ 0..k # 0..m
      <4>1. m \in 0..m /\ m \notin 0..k
        BY <2>2
      <4> QED
        BY <2>2, <4>1
    <3>2. 0..k \in SUBSET Nat /\ 0..m \in SUBSET Nat
      BY <2>2
    <3> QED
      BY <3>1, <3>2, <2>1 DEF StrictSubsetOrdering
  <2> QED
    BY <2>2, <2>3
<1> QED
  BY <1>5

LEMMA SetInduction ==
  ASSUME NEW T, 0 \in T, \A n \in Nat : n \in T => n + 1 \in T
  PROVE  \A n \in Nat : n \in T
<1> DEFINE B == {n \in Nat : n \notin T}
<1>1. SUFFICES ASSUME B # {} PROVE FALSE
  OBVIOUS
<1>2. B \in SUBSET Nat
  OBVIOUS
<1>3. PICK m \in B : \A k \in B : m <= k
  <2> HIDE DEF B
  <2> QED
    BY <1>1, <1>2, LeastNumber
<1>4. m \in Nat /\ m # 0 /\ m \notin T
  BY <1>3
<1>5. m - 1 \in Nat /\ m - 1 < m /\ (m - 1) + 1 = m
  BY <1>4
<1>6. m - 1 \notin B
  <2> HIDE DEF B
  <2> QED
    BY <1>3, <1>5, <1>4
<1> QED
  BY <1>6, <1>5, <1>4

LEMMA LeastIs ==
  ASSUME NEW T \in SUBSET Nat, T # {}
  PROVE  Least(T) \in T /\ \A k \in T : Least(T) <= k
<1>1. \E m \in T : \A k \in T : m <= k
  BY LeastNumber
<1> QED
  BY <1>1 DEF Least

------------------------------------------------------------------------------
(* Constants and local variables.                                          *)
LEMMA Constants ==
  /\ Entries \in Nat /\ Entries > 0 /\ MaxOpen \in Nat /\ MaxOpen > 0
  /\ Segments \in Nat /\ Segments > 0 /\ PerSegment \in Nat /\ PerSegment > 0
  /\ BlockData \in Nat /\ BlockData > 0 /\ MaxSize \in Nat /\ MaxSize > 0
<1>1. \A x \in {Entries, MaxOpen, Segments, PerSegment, BlockData} : x \in Nat /\ x # 0
  BY FsAssumption
<1>2. /\ Entries \in Nat /\ Entries # 0 /\ MaxOpen \in Nat /\ MaxOpen # 0
      /\ Segments \in Nat /\ Segments # 0 /\ PerSegment \in Nat /\ PerSegment # 0
      /\ BlockData \in Nat /\ BlockData # 0
  BY <1>1
<1>3. MaxSize \in Nat /\ MaxSize # 0
  BY FsAssumption
<1> QED
  BY <1>2, <1>3

LEMMA OtherConstants ==
  /\ Mode \in SUBSET {"read", "append", "append nocache"}
  /\ IsFiniteSet(Thread) /\ Nobody \notin Thread /\ NoName \notin Name
BY FsAssumption, NamesAssumption

LEMMA Slots ==
  /\ 0 \in Slot /\ Slot \in SUBSET Nat /\ INVAL \notin Slot
  /\ IsFiniteSet(Slot) /\ Cardinality(Slot) = MaxOpen
  /\ \A i \in Nat : i + 1 \in Slot => i \in Slot
<1>1. MaxOpen \in Nat /\ MaxOpen > 0
  BY Constants
<1>2. IsFiniteSet(Slot) /\ Cardinality(Slot) = MaxOpen
  BY <1>1, FS_Interval DEF Slot
<1> QED
  BY <1>1, <1>2 DEF Slot, INVAL

LEMMA NotInval ==
  /\ INVAL \notin Entry /\ INVAL \notin Block /\ INVAL # NoBlock /\ NoBlock \notin Block
  /\ Entry \in SUBSET Nat /\ Block \in SUBSET Nat
<1>1. Segments * PerSegment \in Nat
  BY Constants
<1> DEFINE N == Segments * PerSegment
<1>2. Block = 0..(N - 1) /\ N \in Nat
  BY <1>1 DEF Block
<1> HIDE DEF N
<1>3. Entry \in SUBSET Nat /\ INVAL \notin Entry
  BY Constants DEF Entry, INVAL
<1> QED
  BY <1>2, <1>3 DEF INVAL, NoBlock

LEMMA LocalsAre ==
  ASSUME NEW l \in Locals
  PROVE  /\ l.pc = "idle" => l \in IdleLocals
         /\ l.pc = "open" => l \in OpenLocals
         /\ l.pc = "find fcb" =>
              /\ l.op \in {"open", "remove"} /\ l.id \in Entry /\ l.i \in Slot
              /\ l.op = "open" => l \in SearchLocals
              /\ l.op = "remove" => l \in RemoveLocals
         /\ l.pc = "alloc fcb" => l \in SearchLocals
         /\ l.pc = "alloc handle" => l \in HandleLocals
         /\ l.pc = "allocate" => l \in AllocateLocals
         /\ l.pc = "erase" => l \in EraseLocals
         /\ l.pc = "link" => l \in LinkLocals
         /\ l.pc \in {"flush", "program"} =>
              /\ l.op \in {"write", "sync", "close"} /\ l.h \in Slot
              /\ l.op = "write" => l \in WriteLocals
              /\ l.op # "write" => l \in FlushLocals
         /\ l.pc = "close fcb" => l \in CloseLocals
         /\ l.pc = "close handle" => l \in ClosedLocals
         /\ l.pc = "free" => l \in FreeLocals
         /\ l.pc \in {"idle", "open", "find fcb", "alloc fcb", "alloc handle", "allocate", "erase",
                      "link", "flush", "program", "close fcb", "close handle", "free"}
<1>1. \/ l \in IdleLocals \/ l \in OpenLocals \/ l \in SearchLocals \/ l \in RemoveLocals
      \/ l \in HandleLocals \/ l \in AllocateLocals \/ l \in EraseLocals \/ l \in LinkLocals
      \/ l \in WriteLocals \/ l \in FlushLocals \/ l \in CloseLocals \/ l \in ClosedLocals
      \/ l \in FreeLocals
  BY DEF Locals
<1>2. /\ l \in IdleLocals => l.pc = "idle"
      /\ l \in OpenLocals => l.pc = "open"
      /\ l \in SearchLocals => /\ l.pc \in {"find fcb", "alloc fcb"} /\ l.op = "open"
                               /\ l.id \in Entry /\ l.i \in Slot
      /\ l \in RemoveLocals => /\ l.pc = "find fcb" /\ l.op = "remove"
                               /\ l.id \in Entry /\ l.i \in Slot
      /\ l \in HandleLocals => l.pc = "alloc handle"
  BY DEF IdleLocals, OpenLocals, SearchLocals, RemoveLocals, HandleLocals
<1>3. /\ l \in AllocateLocals => l.pc = "allocate"
      /\ l \in EraseLocals => l.pc = "erase"
      /\ l \in LinkLocals => l.pc = "link"
      /\ l \in WriteLocals => l.pc \in {"flush", "program"} /\ l.op = "write" /\ l.h \in Slot
      /\ l \in FlushLocals => /\ l.pc \in {"flush", "program"} /\ l.op \in {"sync", "close"}
                              /\ l.h \in Slot
      /\ l \in CloseLocals => l.pc = "close fcb"
      /\ l \in ClosedLocals => l.pc = "close handle"
      /\ l \in FreeLocals => l.pc = "free"
  BY DEF AllocateLocals, EraseLocals, LinkLocals, WriteLocals, FlushLocals, CloseLocals,
         ClosedLocals, FreeLocals
<1> QED
  BY <1>1, <1>2, <1>3

Resumed(l, m, pc, i) ==
  /\ m \in Locals /\ m.pc = pc /\ m.i = i /\ m.id = l.id /\ m.op = l.op
  /\ l.pc = "alloc fcb" \/ l.op = "open" => m.fd = l.fd /\ m.new = l.new /\ m.mode = l.mode

LEMMA SearchGoesOn ==
  ASSUME NEW l \in Locals, l.pc \in {"find fcb", "alloc fcb"}, NEW i \in Slot
  PROVE  Resumed(l, [l EXCEPT !.i = i], l.pc, i)
<1> DEFINE m == [l EXCEPT !.i = i]
<1>1. l \in SearchLocals \/ l \in RemoveLocals
  BY LocalsAre
<1>2. CASE l \in SearchLocals
  <2>1. m \in SearchLocals /\ m.pc = l.pc /\ m.i = i /\ m.id = l.id /\ m.op = l.op
        /\ m.fd = l.fd /\ m.new = l.new /\ m.mode = l.mode
    BY <1>2 DEF SearchLocals
  <2> QED
    BY <2>1 DEF Locals, Resumed
<1>3. CASE l \in RemoveLocals
  <2>1. l.op = "remove" /\ l.pc = "find fcb"
    BY <1>3 DEF RemoveLocals
  <2>2. m \in RemoveLocals /\ m.pc = l.pc /\ m.i = i /\ m.id = l.id /\ m.op = l.op
    BY <1>3 DEF RemoveLocals
  <2> QED
    BY <2>1, <2>2 DEF Locals, Resumed
<1> QED
  BY <1>1, <1>2, <1>3

LEMMA SearchAllocates ==
  ASSUME NEW l \in Locals, l.pc \in {"find fcb", "alloc fcb"}, l.op = "open", NEW i \in Slot
  PROVE  Resumed(l, [l EXCEPT !.pc = "alloc fcb", !.i = i], "alloc fcb", i)
<1> DEFINE m == [l EXCEPT !.pc = "alloc fcb", !.i = i]
<1>1. l \in SearchLocals
  BY LocalsAre
<1>2. m \in SearchLocals /\ m.pc = "alloc fcb" /\ m.i = i /\ m.id = l.id /\ m.op = l.op
      /\ m.fd = l.fd /\ m.new = l.new /\ m.mode = l.mode
  BY <1>1 DEF SearchLocals
<1> QED
  BY <1>2 DEF Locals, Resumed

FlushResumed(l, m, pc) == /\ m \in Locals /\ m.pc = pc /\ m.h = l.h /\ m.op = l.op
                          /\ l.op # "write" => m.fd = l.fd

LEMMA FlushGoesOn ==
  ASSUME NEW l \in Locals, l.pc \in {"flush", "program"}, NEW pc \in {"flush", "program"}
  PROVE  FlushResumed(l, [l EXCEPT !.pc = pc], pc)
<1> DEFINE m == [l EXCEPT !.pc = pc]
<1>1. l \in WriteLocals \/ l \in FlushLocals
  BY LocalsAre
<1>2. CASE l \in WriteLocals
  <2>1. m \in WriteLocals /\ m.pc = pc /\ m.h = l.h /\ m.op = l.op /\ l.op = "write"
    BY <1>2 DEF WriteLocals
  <2> QED
    BY <2>1 DEF Locals, FlushResumed
<1>3. CASE l \in FlushLocals
  <2>1. m \in FlushLocals /\ m.pc = pc /\ m.h = l.h /\ m.op = l.op /\ m.fd = l.fd
    BY <1>3 DEF FlushLocals
  <2> QED
    BY <2>1 DEF Locals, FlushResumed
<1> QED
  BY <1>1, <1>2, <1>3
------------------------------------------------------------------------------
(* Chains of blocks, one step after the other.                             *)
IsWalk(first, n, f) ==
  /\ f = [k \in 0..n |-> f[k]] /\ f[0] = first
  /\ \A k \in 0..n : k # 0 => f[k] = fsBlockGetNext(f[k - 1])

LEMMA WalksAgree ==
  ASSUME NEW first, NEW n \in Nat, NEW f, IsWalk(first, n, f),
         NEW m \in Nat, NEW g, IsWalk(first, m, g), NEW k \in Nat, k <= n, k <= m
  PROVE  f[k] = g[k]
<1> DEFINE T == {j \in Nat : j <= n /\ j <= m => f[j] = g[j]}
<1>1. 0 \in T
  BY DEF IsWalk
<1>2. ASSUME NEW j \in Nat, j \in T PROVE j + 1 \in T
  <2> SUFFICES ASSUME j + 1 <= n, j + 1 <= m PROVE f[j + 1] = g[j + 1]
    OBVIOUS
  <2>1. f[j] = g[j]
    BY <1>2
  <2>2. j + 1 \in 0..n /\ j + 1 \in 0..m /\ j + 1 # 0 /\ (j + 1) - 1 = j
    OBVIOUS
  <2>3. f[j + 1] = fsBlockGetNext(f[j]) /\ g[j + 1] = fsBlockGetNext(g[j])
    BY <2>2 DEF IsWalk
  <2> QED
    BY <2>1, <2>3
<1>3. k \in T
  <2> HIDE DEF T
  <2> QED
    BY <1>1, <1>2, SetInduction
<1> QED
  BY <1>3

LEMMA WalkExists ==
  ASSUME NEW first, NEW n \in Nat
  PROVE  \E f : IsWalk(first, n, f)
<1> DEFINE T == {j \in Nat : \E f : IsWalk(first, j, f)}
<1>1. 0 \in T
  <2>1. IsWalk(first, 0, [k \in 0..0 |-> first])
    BY DEF IsWalk
  <2> QED
    BY <2>1
<1>2. ASSUME NEW j \in Nat, j \in T PROVE j + 1 \in T
  <2>1. PICK f : IsWalk(first, j, f)
    BY <1>2
  <2> DEFINE g == [k \in 0..(j + 1) |-> IF k <= j THEN f[k] ELSE fsBlockGetNext(f[j])]
  <2>2. g = [k \in 0..(j + 1) |-> g[k]] /\ g[0] = first
    BY <2>1 DEF IsWalk
  <2>3. ASSUME NEW k \in 0..(j + 1), k # 0 PROVE g[k] = fsBlockGetNext(g[k - 1])
    <3>1. k - 1 \in 0..(j + 1) /\ k - 1 <= j /\ g[k - 1] = f[k - 1]
      BY <2>3
    <3>2. CASE k <= j
      <4>1. k \in 0..j /\ g[k] = f[k]
        BY <3>2
      <4>2. f[k] = fsBlockGetNext(f[k - 1])
        BY <4>1, <2>1, <2>3 DEF IsWalk
      <4> QED
        BY <4>1, <4>2, <3>1
    <3>3. CASE ~(k <= j)
      <4>1. k = j + 1 /\ k - 1 = j
        BY <3>3
      <4>2. g[k] = fsBlockGetNext(f[j])
        BY <3>3
      <4> QED
        BY <4>1, <4>2, <3>1
    <3> QED
      BY <3>2, <3>3
  <2>4. IsWalk(first, j + 1, g)
    <3> HIDE DEF g
    <3> QED
      BY <2>2, <2>3 DEF IsWalk
  <2> QED
    BY <2>4
<1>3. n \in T
  <2> HIDE DEF T
  <2> QED
    BY <1>1, <1>2, SetInduction
<1> QED
  BY <1>3

LEMMA AlongIsWalk ==
  ASSUME NEW first, NEW n \in Nat
  PROVE  \E f : IsWalk(first, n, f) /\ Along(first, n) = f[n]
<1> DEFINE Body(f) == [k \in 0..n |-> IF k = 0 THEN first ELSE fsBlockGetNext(f[k - 1])]
<1> DEFINE W == CHOOSE f : f = Body(f)
<1>1. PICK g : IsWalk(first, n, g)
  BY WalkExists
<1>2. g = Body(g)
  <2>1. ASSUME NEW k \in 0..n PROVE g[k] = Body(g)[k]
    BY <1>1 DEF IsWalk
  <2>2. g = [k \in 0..n |-> g[k]]
    BY <1>1 DEF IsWalk
  <2> QED
    BY <2>1, <2>2
<1>3. W = Body(W)
  <2> HIDE DEF W, Body
  <2>1. W = CHOOSE f : f = Body(f)
    BY DEF W
  <2> QED
    BY <1>2, <2>1
<1>4. IsWalk(first, n, W)
  <2> HIDE DEF W
  <2>1. /\ W = [k \in 0..n |-> W[k]]
        /\ \A k \in 0..n : W[k] = IF k = 0 THEN first ELSE fsBlockGetNext(W[k - 1])
    BY <1>3
  <2>2. W[0] = first
    BY <2>1
  <2>3. W = [k \in 0..n |-> W[k]]
    BY <2>1
  <2>4. \A k \in 0..n : k # 0 => W[k] = fsBlockGetNext(W[k - 1])
    BY <2>1
  <2> QED
    BY <2>2, <2>3, <2>4 DEF IsWalk
<1>5. Along(first, n) = W[n]
  BY DEF Along
<1> QED
  BY <1>4, <1>5

LEMMA AlongIs ==
  ASSUME NEW first
  PROVE  /\ Along(first, 0) = first
         /\ \A n \in Nat : Along(first, n + 1) = fsBlockGetNext(Along(first, n))
<1>1. Along(first, 0) = first
  BY AlongIsWalk DEF IsWalk
<1>2. ASSUME NEW n \in Nat PROVE Along(first, n + 1) = fsBlockGetNext(Along(first, n))
  <2>1. PICK f : IsWalk(first, n, f) /\ Along(first, n) = f[n]
    BY AlongIsWalk
  <2>2. PICK g : IsWalk(first, n + 1, g) /\ Along(first, n + 1) = g[n + 1]
    BY AlongIsWalk
  <2>3. f[n] = g[n]
    BY <2>1, <2>2, WalksAgree
  <2>4. n + 1 \in 0..(n + 1) /\ n + 1 # 0 /\ (n + 1) - 1 = n
    OBVIOUS
  <2>5. g[n + 1] = fsBlockGetNext(g[n])
    BY <2>2, <2>4 DEF IsWalk
  <2> QED
    BY <2>1, <2>2, <2>3, <2>5
<1> QED
  BY <1>1, <1>2
------------------------------------------------------------------------------
(* What the invariant says of one call.                                    *)
LEMMA CallTypes ==
  ASSUME Types, NEW t \in Thread
  PROVE  /\ at[t] \in Locals
         /\ Opening(t) => at[t].fd \in Slot
         /\ Closing(t) => at[t].fd \in Slot /\ at[t].h \in Slot
         /\ Writing(t) => at[t].h \in Slot
<1>1. at[t] \in Locals
  BY DEF Types
<1>2. Opening(t) => at[t].fd \in Slot
  BY <1>1, LocalsAre DEF Opening, Pc, OpenLocals, SearchLocals, HandleLocals
<1>3. Closing(t) => at[t].fd \in Slot /\ at[t].h \in Slot
  <2>1. Closing(t) => \/ at[t] \in CloseLocals \/ at[t] \in ClosedLocals \/ at[t] \in FlushLocals
    BY <1>1, LocalsAre DEF Closing, Pc
  <2> QED
    BY <2>1 DEF CloseLocals, ClosedLocals, FlushLocals
<1>4. Writing(t) => at[t].h \in Slot
  BY <1>1, LocalsAre DEF Writing, Pc, AllocateLocals, EraseLocals, LinkLocals
<1> QED
  BY <1>1, <1>2, <1>3, <1>4

(* The file a writing call works on.                                       *)
LEMMA WritingFile ==
  ASSUME Types, CallsOwnFiles, FilesHaveHandles, NEW t \in Thread, Writing(t)
  PROVE  /\ at[t].h \in Slot /\ FcbOf(at[t].h) \in Slot
         /\ \E fd \in Slot : openFiles[fd] = [owner |-> t, handle |-> at[t].h]
         /\ Appends(handle[at[t].h].mode)
<1>1. at[t].h \in Slot
  BY CallTypes
<1>2. PICK fd \in Slot : openFiles[fd] = [owner |-> t, handle |-> at[t].h]
  BY DEF CallsOwnFiles, CallOwnsFile
<1>3. openFiles[fd].handle = at[t].h /\ at[t].h # INVAL
  BY <1>1, <1>2, Slots
<1>4. FcbOf(at[t].h) # INVAL
  BY <1>3 DEF FilesHaveHandles, SlotSound
<1>5. FcbOf(at[t].h) \in Slot
  BY <1>1, <1>4 DEF Types, FcbOf
<1> QED
  BY <1>1, <1>2, <1>5 DEF CallsOwnFiles, CallOwnsFile

LEMMA UseTypes ==
  ASSUME Types, NEW fd \in Slot
  PROVE  Use(fd) \in Slot \cup {INVAL}
<1>1. openFiles[fd].owner \in Thread \cup {Nobody} /\ openFiles[fd].handle \in Slot \cup {INVAL}
  BY DEF Types
<1>2. openFiles[fd].handle # INVAL => FcbOf(openFiles[fd].handle) \in Slot \cup {INVAL}
  BY <1>1 DEF Types, FcbOf
<1>3. \A t \in Thread : Pc(t) = "alloc handle" => at[t].i \in Slot
  BY LocalsAre DEF Types, Pc, HandleLocals
<1> QED
  BY <1>1, <1>2, <1>3 DEF Use

(* A control block is in use exactly while it has users.                   *)
LEMMA UsersFinite ==
  ASSUME NEW i
  PROVE  /\ IsFiniteSet(Users(i)) /\ Cardinality(Users(i)) \in 0..MaxOpen
         /\ Cardinality(Users(i)) = 0 <=> Users(i) = {}
<1>1. Users(i) \in SUBSET Slot
  BY DEF Users
<1>2. IsFiniteSet(Users(i)) /\ Cardinality(Users(i)) <= MaxOpen
  BY <1>1, Slots, FS_Subset
<1>3. Cardinality(Users(i)) \in Nat
  BY <1>2, FS_CardinalityType
<1>4. Cardinality(Users(i)) = 0 <=> Users(i) = {}
  BY <1>2, FS_EmptySet
<1> QED
  BY <1>2, <1>3, <1>4, Constants

LEMMA InUseIfUsed ==
  ASSUME Types, Counted, NEW i \in Slot
  PROVE  fcb[i].id # INVAL <=> Users(i) # {}
<1>1. fcb[i].id = INVAL => Users(i) = {}
  <2> SUFFICES ASSUME fcb[i].id = INVAL PROVE Users(i) = {}
    OBVIOUS
  <2>1. fcb[i].refcount = 0
    BY DEF Counted, NoFcb
  <2> QED
    BY <2>1, UsersFinite DEF Counted
<1> QED
  BY <1>1 DEF Counted

(* An open file that is not being given back uses a control block of a     *)
(* file.                                                                   *)
LEMMA OpenFileUses ==
  ASSUME Types, FilesHaveHandles, Counted, NEW fd \in Slot,
         openFiles[fd].owner # Nobody, openFiles[fd].handle # INVAL
  PROVE  LET t == openFiles[fd].owner
             h == openFiles[fd].handle
         IN  /\ t \in Thread /\ h \in Slot /\ FcbOf(h) \in Slot
             /\ ~(Pc(t) = "close handle" /\ at[t].fd = fd) =>
                  /\ Use(fd) = FcbOf(h) /\ fd \in Users(FcbOf(h))
                  /\ fcb[FcbOf(h)].id \in Entry
<1> DEFINE t == openFiles[fd].owner
<1> DEFINE h == openFiles[fd].handle
<1>1. t \in Thread /\ h \in Slot
  BY DEF Types
<1>2. FcbOf(h) \in Slot
  BY <1>1 DEF FilesHaveHandles, SlotSound, Types, FcbOf
<1>3. ASSUME ~(Pc(t) = "close handle" /\ at[t].fd = fd)
      PROVE  Use(fd) = FcbOf(h) /\ fd \in Users(FcbOf(h))
  BY <1>1, <1>3, OtherConstants DEF Use, Users
<1>4. ASSUME ~(Pc(t) = "close handle" /\ at[t].fd = fd)
      PROVE  fcb[FcbOf(h)].id \in Entry
  <2>1. fcb[FcbOf(h)].id # INVAL
    BY <1>2, <1>3, <1>4, InUseIfUsed
  <2> QED
    BY <2>1, <1>2 DEF Types
<1> QED
  BY <1>1, <1>2, <1>3, <1>4
------------------------------------------------------------------------------
(* What a step of thread t leaves alone.                                   *)
LEMMA OthersOwn ==
  ASSUME Types, CallsOwnFiles, NEW t \in Thread,
         \A u \in Thread : u # t => at'[u] = at[u],
         \A fd \in Slot : openFiles[fd].owner \notin {t, Nobody} => openFiles'[fd] = openFiles[fd],
         \A fd \in Slot : openFiles[fd].owner \notin {t, Nobody} /\ openFiles[fd].handle # INVAL =>
           handle'[openFiles[fd].handle] = handle[openFiles[fd].handle],
         CallOwnsFile(t)'
  PROVE  CallsOwnFiles'
<1> SUFFICES ASSUME NEW u \in Thread, u # t PROVE CallOwnsFile(u)'
  BY DEF CallsOwnFiles
<1>1. at'[u] = at[u] /\ u \notin {t, Nobody}
  BY OtherConstants
<1>2. Opening(u)' = Opening(u) /\ Closing(u)' = Closing(u) /\ Writing(u)' = Writing(u)
      /\ Pc(u)' = Pc(u)
  BY <1>1 DEF Opening, Closing, Writing, Pc
<1>3. CallOwnsFile(u)
  BY DEF CallsOwnFiles
<1>4. Opening(u) => openFiles'[at[u].fd] = openFiles[at[u].fd]
  <2> SUFFICES ASSUME Opening(u) PROVE openFiles'[at[u].fd] = openFiles[at[u].fd]
    OBVIOUS
  <2>1. at[u].fd \in Slot
    BY CallTypes
  <2>2. openFiles[at[u].fd] = [owner |-> u, handle |-> INVAL]
    BY <1>3 DEF CallOwnsFile
  <2>3. openFiles[at[u].fd].owner = u
    BY <2>2
  <2> QED
    BY <2>1, <2>3, <1>1
<1>5. Closing(u) => /\ openFiles'[at[u].fd] = openFiles[at[u].fd]
                    /\ handle'[at[u].h] = handle[at[u].h]
  <2> SUFFICES ASSUME Closing(u)
               PROVE  /\ openFiles'[at[u].fd] = openFiles[at[u].fd]
                      /\ handle'[at[u].h] = handle[at[u].h]
    OBVIOUS
  <2>1. at[u].fd \in Slot /\ at[u].h \in Slot /\ at[u].h # INVAL
    BY CallTypes, Slots
  <2>2. openFiles[at[u].fd] = [owner |-> u, handle |-> at[u].h]
    BY <1>3 DEF CallOwnsFile
  <2>3. openFiles[at[u].fd].owner = u /\ openFiles[at[u].fd].handle = at[u].h
    BY <2>2
  <2> QED
    BY <2>1, <2>3, <1>1
<1>6. Writing(u) => /\ \E fd \in Slot : openFiles'[fd] = [owner |-> u, handle |-> at[u].h]
                    /\ handle'[at[u].h] = handle[at[u].h]
  <2> SUFFICES ASSUME Writing(u)
               PROVE  /\ \E fd \in Slot : openFiles'[fd] = [owner |-> u, handle |-> at[u].h]
                      /\ handle'[at[u].h] = handle[at[u].h]
    OBVIOUS
  <2>1. PICK fd \in Slot : openFiles[fd] = [owner |-> u, handle |-> at[u].h]
    BY <1>3 DEF CallOwnsFile
  <2>2. openFiles[fd].owner = u /\ openFiles[fd].handle = at[u].h /\ at[u].h # INVAL
    BY <2>1, CallTypes, Slots
  <2> QED
    BY <2>1, <2>2, <1>1
<1>7. Pc(u) \in {"allocate", "erase", "link"} => Writing(u)
  BY DEF Writing
<1>8. Pc(u) = "close fcb" => Closing(u)
  BY DEF Closing
<1> QED
  BY <1>1, <1>2, <1>3, <1>4, <1>5, <1>6, <1>7, <1>8 DEF CallOwnsFile, FcbOf

LEMMA FilesSame ==
  ASSUME FilesHaveHandles, Types, NEW t \in Thread,
         \A u \in Thread : u # t => at'[u] = at[u],
         openFiles' = openFiles, \A h \in Slot : handle'[h].fcb = handle[h].fcb,
         Opening(t) => Opening(t)' /\ at'[t].fd = at[t].fd
  PROVE  FilesHaveHandles'
<1>1. \A u \in Thread : Opening(u) => Opening(u)' /\ at'[u].fd = at[u].fd
  BY DEF Opening, Pc
<1>2. \A fd \in Slot : /\ openFiles[fd].owner \in Thread \cup {Nobody}
                       /\ openFiles[fd].handle \in Slot \cup {INVAL}
  BY DEF Types
<1>3. \A h \in Slot : FcbOf(h)' = FcbOf(h)
  BY DEF FcbOf
<1> QED
  BY <1>1, <1>2, <1>3 DEF FilesHaveHandles, SlotSound

(* The calls after which an open file uses another control block, or none, *)
(* are few.                                                                *)
Counts(pc) == pc \in {"alloc handle", "close handle"}

LEMMA UseSame ==
  ASSUME Types, NEW t \in Thread,
         \A u \in Thread : u # t => at'[u] = at[u],
         \A fd \in Slot :
           \/ openFiles'[fd] = openFiles[fd]
           \/ /\ openFiles[fd].handle = INVAL /\ openFiles[fd].owner \in {t, Nobody}
              /\ openFiles'[fd].handle = INVAL /\ openFiles'[fd].owner \in {t, Nobody},
         \A h \in Slot : handle'[h].fcb = handle[h].fcb,
         ~Counts(Pc(t)), ~Counts(at'[t].pc)
  PROVE  /\ \A fd \in Slot : Use(fd)' = Use(fd)
         /\ \A i : Users(i)' = Users(i)
<1>1. ASSUME NEW fd \in Slot PROVE Use(fd)' = Use(fd)
  <2>1. openFiles[fd].owner \in Thread \cup {Nobody} /\ openFiles[fd].handle \in Slot \cup {INVAL}
    BY DEF Types
  <2>2. CASE openFiles'[fd] = openFiles[fd]
    <3>1. CASE openFiles[fd].owner = t
      BY <2>1, <2>2, <3>1 DEF Use, Counts, Pc, FcbOf
    <3>2. CASE openFiles[fd].owner # t
      BY <2>1, <2>2, <3>2 DEF Use, Pc, FcbOf
    <3> QED
      BY <3>1, <3>2
  <2>3. CASE openFiles'[fd] # openFiles[fd]
    BY <2>3 DEF Use, Counts, Pc
  <2> QED
    BY <2>2, <2>3
<1> QED
  BY <1>1 DEF Users

LEMMA MayWriteSame ==
  ASSUME Types, NEW t \in Thread,
         \A u \in Thread : u # t => at'[u] = at[u],
         \A fd \in Slot : Use(fd) # INVAL => openFiles'[fd] = openFiles[fd],
         \A fd \in Slot : Use(fd)' = Use(fd),
         \A h \in Slot : handle'[h].mode = handle[h].mode,
         ~Counts(Pc(t)), Pc(t) # "close fcb"
  PROVE  \A fd \in Slot : MayWrite(fd)' => MayWrite(fd)
<1> SUFFICES ASSUME NEW fd \in Slot, MayWrite(fd)' PROVE MayWrite(fd)
  OBVIOUS
<1>1. Use(fd) # INVAL /\ openFiles'[fd] = openFiles[fd]
  BY DEF MayWrite
<1>2. openFiles[fd].owner \in Thread /\ openFiles[fd].handle \in Slot \cup {INVAL}
  BY <1>1 DEF Types, Use
<1>3. openFiles[fd].owner = t => openFiles[fd].handle # INVAL
  BY <1>1 DEF Use, Counts
<1>4. CASE openFiles[fd].owner = t
  BY <1>1, <1>2, <1>3, <1>4 DEF MayWrite
<1>5. CASE openFiles[fd].owner # t
  BY <1>1, <1>2, <1>5 DEF MayWrite, Pc
<1> QED
  BY <1>4, <1>5

LEMMA CountedSame ==
  ASSUME Counted, \A i : Users(i)' = Users(i),
         \A i \in Slot : /\ fcb'[i].id = fcb[i].id /\ fcb'[i].refcount = fcb[i].refcount
                         /\ fcb[i].id = INVAL => fcb'[i] = fcb[i]
  PROVE  Counted'
BY DEF Counted

LEMMA WritersSame ==
  ASSUME WritersAlone, \A fd \in Slot : Use(fd)' = Use(fd),
         \A fd \in Slot : MayWrite(fd)' => MayWrite(fd),
         \A fd \in Slot : MayWrite(fd)' => fcb'[Use(fd)].writer = fcb[Use(fd)].writer
  PROVE  WritersAlone'
BY DEF WritersAlone

(* Searches and removals go on when no entry gets a control block and none *)
(* changes between having a name and having none.                          *)
LEMMA EntriesSame ==
  ASSUME OneFcbEach, Types, NEW t \in Thread,
         \A u \in Thread : u # t => at'[u] = at[u],
         \A i \in Slot : fcb'[i].id \in {fcb[i].id, INVAL},
         \A e \in Entry : dir'[e].name = NoName <=> dir[e].name = NoName,
         SearchOf(t)'
  PROVE  OneFcbEach'
<1>1. \A i \in Slot : fcb[i].id \in Entry \cup {INVAL}
  BY DEF Types
<1>2. FcbsDiffer'
  BY DEF OneFcbEach, FcbsDiffer
<1>3. FcbsNamed'
  BY <1>1 DEF OneFcbEach, FcbsNamed
<1>4. ASSUME NEW u \in Thread, u # t PROVE SearchOf(u)'
  <2>1. CASE Pc(u)' \notin {"find fcb", "alloc fcb", "free"}
    BY <2>1 DEF SearchOf
  <2>2. CASE Pc(u)' \in {"find fcb", "alloc fcb", "free"}
    <3>1. at'[u] = at[u] /\ Pc(u)' = Pc(u)
      BY <1>4 DEF Pc
    <3>2. at[u].id \in Entry
      <4>1. at[u] \in Locals
        BY DEF Types
      <4> QED
        BY <4>1, <2>2, <3>1, LocalsAre DEF Pc, SearchLocals, FreeLocals
    <3>3. SearchOf(u)
      BY DEF OneFcbEach
    <3>4. dir'[at[u].id].name = NoName <=> dir[at[u].id].name = NoName
      BY <3>2
    <3>5. \A j \in Slot : fcb[j].id # at[u].id => fcb'[j].id # at[u].id
      BY <3>2, NotInval
    <3>6. \A j \in Slot : fcb[j].id = INVAL => fcb'[j].id = INVAL
      OBVIOUS
    <3> QED
      BY <3>1, <3>3, <3>4, <3>5, <3>6 DEF SearchOf
  <2> QED
    BY <2>1, <2>2
<1> QED
  BY <1>2, <1>3, <1>4 DEF OneFcbEach

LEMMA LocksSame ==
  ASSUME LocksHeld, NEW t \in Thread,
         \A u \in Thread : u # t => at'[u] = at[u],
         \A u \in Thread : u # t => /\ root' = u <=> root = u
                                    /\ tableLock' = u <=> tableLock = u
                                    /\ \A i \in Slot : fcbLock'[i] = u <=> fcbLock[i] = u
                                    /\ Writing(u) => FcbOf(at[u].h)' = FcbOf(at[u].h),
         LocksOf(t)'
  PROVE  LocksHeld'
<1> SUFFICES ASSUME NEW u \in Thread, u # t PROVE LocksOf(u)'
  BY DEF LocksHeld
<1>1. at'[u] = at[u] /\ Pc(u)' = Pc(u) /\ Writing(u)' = Writing(u)
  BY DEF Pc, Writing
<1>2. LocksOf(u)
  BY DEF LocksHeld
<1> QED
  BY <1>1, <1>2 DEF LocksOf, FcbOf

LEMMA Moves ==
  ASSUME Types, NEW t \in Thread, NEW loc \in Locals, at' = [at EXCEPT ![t] = loc]
  PROVE  /\ at' \in [Thread -> Locals] /\ at'[t] = loc
         /\ \A u \in Thread : u # t => at'[u] = at[u]
BY DEF Types

(* A step that neither opens nor closes a file.                            *)
LEMMA QuietTables ==
  ASSUME TablesInv, Types', NEW t \in Thread,
         \A u \in Thread : u # t => at'[u] = at[u],
         openFiles' = openFiles,
         \A h \in Slot : handle'[h].fcb = handle[h].fcb /\ handle'[h].mode = handle[h].mode,
         \A fd \in Slot : openFiles[fd].owner \notin {t, Nobody} /\ openFiles[fd].handle # INVAL =>
           handle'[openFiles[fd].handle] = handle[openFiles[fd].handle],
         \A i \in Slot : /\ fcb'[i].id = fcb[i].id /\ fcb'[i].refcount = fcb[i].refcount
                         /\ fcb'[i].writer = fcb[i].writer
                         /\ fcb[i].id = INVAL => fcb'[i] = fcb[i],
         \A u \in Thread : u # t => /\ root' = u <=> root = u
                                    /\ tableLock' = u <=> tableLock = u
                                    /\ \A i \in Slot : fcbLock'[i] = u <=> fcbLock[i] = u,
         ~Counts(Pc(t)), ~Counts(at'[t].pc), Pc(t) # "close fcb",
         Opening(t) => Opening(t)' /\ at'[t].fd = at[t].fd,
         CallOwnsFile(t)', LocksOf(t)', OneFcbEach'
  PROVE  TablesInv'
<1>1. /\ Types /\ CallsOwnFiles /\ FilesHaveHandles /\ LocksHeld
      /\ Counted /\ WritersAlone /\ OneFcbEach
  BY DEF TablesInv
<1>2. CallsOwnFiles'
  BY <1>1, OthersOwn
<1>3. FilesHaveHandles'
  BY <1>1, FilesSame
<1>4. LocksHeld'
  <2>1. ASSUME NEW u \in Thread, u # t, Writing(u)
        PROVE  FcbOf(at[u].h)' = FcbOf(at[u].h)
    <3>1. at'[u] = at[u] /\ at[u].h \in Slot
      BY <1>1, <2>1, CallTypes
    <3>2. handle'[at[u].h].fcb = handle[at[u].h].fcb
      BY <3>1
    <3> QED
      BY <3>1, <3>2 DEF FcbOf
  <2> QED
    BY <2>1, <1>1, LocksSame
<1>5. (\A fd \in Slot : Use(fd)' = Use(fd)) /\ \A i : Users(i)' = Users(i)
  BY <1>1, UseSame
<1>6. Counted'
  BY <1>1, <1>5, CountedSame
<1>7. WritersAlone'
  <2>1. \A fd \in Slot : MayWrite(fd)' => MayWrite(fd)
    BY <1>1, <1>5, MayWriteSame
  <2>2. \A fd \in Slot : MayWrite(fd)' => Use(fd) \in Slot
    BY <2>1, <1>1, UseTypes DEF MayWrite
  <2> QED
    BY <2>1, <2>2, <1>1, <1>5, WritersSame
<1> QED
  BY <1>1, <1>2, <1>3, <1>4, <1>6, <1>7 DEF TablesInv
LEMMA Quiet ==
  ASSUME TablesInv, Types', NEW t \in Thread,
         \A u \in Thread : u # t => at'[u] = at[u],
         openFiles' = openFiles,
         \A h \in Slot : handle'[h].fcb = handle[h].fcb /\ handle'[h].mode = handle[h].mode,
         \A fd \in Slot : openFiles[fd].owner \notin {t, Nobody} /\ openFiles[fd].handle # INVAL =>
           handle'[openFiles[fd].handle] = handle[openFiles[fd].handle],
         \A i \in Slot : /\ fcb'[i].id = fcb[i].id /\ fcb'[i].refcount = fcb[i].refcount
                         /\ fcb'[i].writer = fcb[i].writer
                         /\ fcb[i].id = INVAL => fcb'[i] = fcb[i],
         \A e \in Entry : dir'[e].name = NoName <=> dir[e].name = NoName,
         \A u \in Thread : u # t => /\ root' = u <=> root = u
                                    /\ tableLock' = u <=> tableLock = u
                                    /\ \A i \in Slot : fcbLock'[i] = u <=> fcbLock[i] = u,
         ~Counts(Pc(t)), ~Counts(at'[t].pc), Pc(t) # "close fcb",
         Opening(t) => Opening(t)' /\ at'[t].fd = at[t].fd,
         SearchOf(t)', CallOwnsFile(t)', LocksOf(t)'
  PROVE  TablesInv'
<1>1. OneFcbEach /\ Types
  BY DEF TablesInv
<1>2. OneFcbEach'
  BY <1>1, EntriesSame
<1> QED
  BY <1>2, QuietTables
------------------------------------------------------------------------------
(* Where chains lead.                                                      *)
Link == Block \cup {INVAL, NoBlock}

LEMMA AlongTypes ==
  ASSUME Types, NEW first \in Link, NEW n \in Nat
  PROVE  Along(first, n) \in Link
<1> DEFINE T == {k \in Nat : Along(first, k) \in Link}
<1>1. 0 \in T
  BY AlongIs
<1>2. ASSUME NEW k \in Nat, k \in T PROVE k + 1 \in T
  <2>1. Along(first, k + 1) = fsBlockGetNext(Along(first, k))
    BY AlongIs
  <2>2. fsBlockGetNext(Along(first, k)) \in Link
    BY <1>2 DEF fsBlockGetNext, Types, Link
  <2> QED
    BY <2>1, <2>2
<1> HIDE DEF T
<1>3. n \in T
  BY <1>1, <1>2, SetInduction
<1> QED
  BY <1>3 DEF T

LEMMA BlocksForIs ==
  ASSUME NEW n \in Nat
  PROVE  /\ BlocksFor(n) \in Nat /\ (BlocksFor(n) = 0 <=> n = 0)
         /\ n <= BlockData * BlocksFor(n) /\ BlockData * BlocksFor(n) < n + BlockData
<1>1. BlockData \in Nat /\ BlockData > 0
  BY Constants
<1> DEFINE q == (n + BlockData - 1) \div BlockData
<1>2. q \in Int /\ BlockData * q <= n + BlockData - 1 /\ n + BlockData - 1 < BlockData * q + BlockData
  BY <1>1
<1>3. BlocksFor(n) = q
  BY DEF BlocksFor
<1> HIDE DEF q
<1>4. q >= 0
  <2> SUFFICES ASSUME q <= -1 PROVE FALSE
    BY <1>2
  <2>1. BlockData * q <= -BlockData
    BY <1>1, <1>2
  <2> QED
    BY <1>1, <1>2, <2>1
<1>5. q = 0 => n = 0
  BY <1>1, <1>2
<1>6. n = 0 => q = 0
  <2> SUFFICES ASSUME n = 0, q >= 1 PROVE FALSE
    BY <1>4, <1>2
  <2>1. BlockData * q >= BlockData
    BY <1>1, <1>2
  <2> QED
    BY <1>1, <1>2, <2>1
<1>7. BlockData * q \in Int
  BY <1>1, <1>2
<1> QED
  BY <1>1, <1>2, <1>3, <1>4, <1>5, <1>6, <1>7

LEMMA SeekTypes ==
  ASSUME Types, NEW first \in Link, NEW pos \in Nat
  PROVE  seekBlock(first, pos) \in Link
<1>1. (IF pos = 0 THEN 0 ELSE BlocksFor(pos) - 1) \in Nat
  BY BlocksForIs
<1> QED
  BY <1>1, AlongTypes DEF seekBlock
------------------------------------------------------------------------------
(* The tables have one size.  A call that has a slot of openFiles[] and no *)
(* control block, or no handle, leaves one for itself.                     *)
LEMMA FreeFcb ==
  ASSUME Types, CallsOwnFiles, Counted, NEW t \in Thread, Opening(t), ~Counts(Pc(t))
  PROVE  \E j \in Slot : fcb[j].id = INVAL
<1> SUFFICES ASSUME \A j \in Slot : fcb[j].id # INVAL PROVE FALSE
  OBVIOUS
<1> DEFINE own == at[t].fd
<1>1. own \in Slot /\ Use(own) = INVAL
  <2>1. own \in Slot
    BY CallTypes
  <2>2. openFiles[own] = [owner |-> t, handle |-> INVAL]
    BY DEF CallsOwnFiles, CallOwnsFile
  <2>3. openFiles[own].owner = t /\ openFiles[own].handle = INVAL
    BY <2>2
  <2> HIDE DEF own
  <2> QED
    BY <2>1, <2>3 DEF Use, Counts
<1>2. \A j \in Slot : \E fd \in Slot \ {own} : Use(fd) = j
  <2>1. \A j \in Slot : Users(j) # {}
    BY DEF Counted
  <2> QED
    BY <2>1, <1>1, Slots DEF Users
<1> DEFINE f == [j \in Slot |-> CHOOSE fd \in Slot \ {own} : Use(fd) = j]
<1>3. \A j \in Slot : f[j] \in Slot \ {own} /\ Use(f[j]) = j
  BY <1>2
<1>4. f \in [Slot -> Slot \ {own}]
  BY <1>3
<1>5. IsFiniteSet(Slot \ {own}) /\ Cardinality(Slot \ {own}) < Cardinality(Slot)
  <2>1. Cardinality(Slot \ {own}) = Cardinality(Slot) - 1 /\ IsFiniteSet(Slot \ {own})
    BY <1>1, Slots, FS_RemoveElement
  <2> QED
    BY <2>1, Slots, Constants
<1> HIDE DEF f
<1>6. \E x, y \in Slot : x # y /\ f[x] = f[y]
  <2> DEFINE others == Slot \ {own}
  <2>1. f \in [Slot -> others] /\ IsFiniteSet(others) /\ Cardinality(others) < Cardinality(Slot)
    BY <1>4, <1>5
  <2> HIDE DEF others
  <2> QED
    BY <2>1, Slots, FS_PigeonHole
<1> QED
  BY <1>3, <1>6

LEMMA FreeHandle ==
  ASSUME Types, CallsOwnFiles, FilesHaveHandles, NEW t \in Thread, Opening(t)
  PROVE  \E h \in Slot : FcbOf(h) = INVAL
<1> SUFFICES ASSUME \A h \in Slot : FcbOf(h) # INVAL PROVE FALSE
  OBVIOUS
<1> DEFINE own == at[t].fd
<1>1. own \in Slot /\ openFiles[own].handle = INVAL
  <2>1. own \in Slot
    BY CallTypes
  <2>2. openFiles[own] = [owner |-> t, handle |-> INVAL]
    BY DEF CallsOwnFiles, CallOwnsFile
  <2> QED
    BY <2>1, <2>2
<1>2. \A h \in Slot : \E fd \in Slot \ {own} : openFiles[fd].handle = h
  BY <1>1, Slots DEF FilesHaveHandles, SlotSound
<1> DEFINE f == [h \in Slot |-> CHOOSE fd \in Slot \ {own} : openFiles[fd].handle = h]
<1>3. \A h \in Slot : f[h] \in Slot \ {own} /\ openFiles[f[h]].handle = h
  BY <1>2
<1>4. f \in [Slot -> Slot \ {own}]
  BY <1>3
<1>5. IsFiniteSet(Slot \ {own}) /\ Cardinality(Slot \ {own}) < Cardinality(Slot)
  <2>1. Cardinality(Slot \ {own}) = Cardinality(Slot) - 1 /\ IsFiniteSet(Slot \ {own})
    BY <1>1, Slots, FS_RemoveElement
  <2> QED
    BY <2>1, Slots, Constants
<1> HIDE DEF f
<1>6. \E x, y \in Slot : x # y /\ f[x] = f[y]
  <2> DEFINE others == Slot \ {own}
  <2>1. f \in [Slot -> others] /\ IsFiniteSet(others) /\ Cardinality(others) < Cardinality(Slot)
    BY <1>4, <1>5
  <2> HIDE DEF others
  <2> QED
    BY <2>1, Slots, FS_PigeonHole
<1> QED
  BY <1>3, <1>6
------------------------------------------------------------------------------
(* The steps, first those that change no handle, no control block and no   *)
(* open file.                                                              *)
LocksMove(t) ==
  /\ root' = root \/ {root, root'} \subseteq {t, Nobody}
  /\ tableLock' = tableLock \/ {tableLock, tableLock'} \subseteq {t, Nobody}
  /\ fcbLock' \in [Slot -> Thread \cup {Nobody}]
  /\ \A i \in Slot : fcbLock'[i] = fcbLock[i] \/ {fcbLock[i], fcbLock'[i]} \subseteq {t, Nobody}

LEMMA LocksMoveIs ==
  ASSUME Types, NEW t \in Thread, LocksMove(t)
  PROVE  /\ root' \in Thread \cup {Nobody} /\ tableLock' \in Thread \cup {Nobody}
         /\ fcbLock' \in [Slot -> Thread \cup {Nobody}]
         /\ \A u \in Thread : u # t => /\ root' = u <=> root = u
                                       /\ tableLock' = u <=> tableLock = u
                                       /\ \A i \in Slot : fcbLock'[i] = u <=> fcbLock[i] = u
<1>1. \A u \in Thread : u # Nobody
  BY OtherConstants
<1>2. root \in Thread \cup {Nobody} /\ tableLock \in Thread \cup {Nobody}
  BY DEF Types
<1> QED
  BY <1>1, <1>2 DEF LocksMove

LEMMA Aside ==
  ASSUME TablesInv, NEW t \in Thread, NEW loc \in Locals, at' = [at EXCEPT ![t] = loc],
         table' \in [Block -> {FREE, USED, AVAIL}],
         next' \in [Block -> Block \cup {INVAL, NoBlock}],
         data' \in [Block -> [Cell -> (Entry \X (0..MaxSize)) \cup {Blank, Junk}]],
         UNCHANGED <<dir, ram, history>>, LocksMove(t),
         ~Counts(Pc(t)), ~Counts(loc.pc), Pc(t) # "close fcb",
         Opening(t) => Opening(t)' /\ loc.fd = at[t].fd,
         SearchOf(t)', CallOwnsFile(t)', LocksOf(t)'
  PROVE  TablesInv'
<1>1. Types
  BY DEF TablesInv
<1>2. UNCHANGED <<dir, fcb, handle, openFiles, unsynced, length>>
  BY DEF ram, history
<1>3. at' \in [Thread -> Locals] /\ at'[t] = loc /\ \A u \in Thread : u # t => at'[u] = at[u]
  BY <1>1, Moves
<1>4. /\ root' \in Thread \cup {Nobody} /\ tableLock' \in Thread \cup {Nobody}
      /\ fcbLock' \in [Slot -> Thread \cup {Nobody}]
  BY <1>1, LocksMoveIs
<1>5. \A u \in Thread : u # t => /\ root' = u <=> root = u
                                 /\ tableLock' = u <=> tableLock = u
                                 /\ \A i \in Slot : fcbLock'[i] = u <=> fcbLock[i] = u
  BY <1>1, LocksMoveIs
<1>6. Types'
  BY <1>1, <1>2, <1>3, <1>4 DEF Types
<1>7. /\ \A h \in Slot : handle'[h].fcb = handle[h].fcb /\ handle'[h].mode = handle[h].mode
      /\ \A fd \in Slot : openFiles[fd].owner \notin {t, Nobody} /\ openFiles[fd].handle # INVAL =>
           handle'[openFiles[fd].handle] = handle[openFiles[fd].handle]
      /\ \A i \in Slot : /\ fcb'[i].id = fcb[i].id /\ fcb'[i].refcount = fcb[i].refcount
                         /\ fcb'[i].writer = fcb[i].writer
                         /\ fcb[i].id = INVAL => fcb'[i] = fcb[i]
      /\ \A e \in Entry : dir'[e].name = NoName <=> dir[e].name = NoName
  BY <1>2
<1>8. ~Counts(at'[t].pc) /\ (Opening(t) => Opening(t)' /\ at'[t].fd = at[t].fd)
  BY <1>3
<1> QED
  BY <1>2, <1>3, <1>5, <1>6, <1>7, <1>8, Quiet

LEMMA FindFcbOnInv ==
  ASSUME TablesInv, NEW t \in Thread, FindFcbOn(t)
  PROVE  TablesInv'
<1> DEFINE l == at[t]
<1> DEFINE e == l.id
<1> DEFINE on == l.i + 1 \in Slot
<1> DEFINE loc == IF on THEN [l EXCEPT !.i = l.i + 1]
                  ELSE IF l.op = "open" THEN [l EXCEPT !.pc = "alloc fcb", !.i = 0]
                  ELSE [pc |-> "free", id |-> e, b |-> dir[e].first, left |-> dir[e].size]
<1>1. /\ Types /\ CallsOwnFiles /\ LocksHeld /\ OneFcbEach /\ Counted
      /\ CallOwnsFile(t) /\ LocksOf(t) /\ SearchOf(t)
  BY DEF TablesInv, CallsOwnFiles, LocksHeld, OneFcbEach
<1>2. /\ l.pc = "find fcb" /\ fcb[l.i].id # e /\ at' = [at EXCEPT ![t] = loc]
      /\ UNCHANGED <<table, dir, next, data, ram, root, tableLock, fcbLock, history>>
  BY DEF FindFcbOn, Goto, Pc, eeprom, flash, locks
<1>3. l \in Locals
  BY <1>1 DEF Types
<1>4. l.op \in {"open", "remove"} /\ e \in Entry /\ l.i \in Slot
  BY <1>2, <1>3, LocalsAre
<1>5. ASSUME on
      PROVE  /\ loc \in Locals /\ loc.pc = "find fcb" /\ loc.i = l.i + 1 /\ loc.id = e
             /\ loc.op = l.op /\ (l.op = "open" => loc.fd = l.fd /\ loc.new = l.new)
  <2>1. loc = [l EXCEPT !.i = l.i + 1]
    BY <1>5
  <2>2. Resumed(l, [l EXCEPT !.i = l.i + 1], l.pc, l.i + 1)
    BY <1>2, <1>3, <1>5, SearchGoesOn
  <2> HIDE DEF loc
  <2> QED
    BY <2>1, <2>2, <1>2 DEF Resumed
<1>6. ASSUME ~on, l.op = "open"
      PROVE  /\ loc \in Locals /\ loc.pc = "alloc fcb" /\ loc.i = 0 /\ loc.id = e
             /\ loc.fd = l.fd /\ loc.new = l.new
  <2>1. loc = [l EXCEPT !.pc = "alloc fcb", !.i = 0]
    BY <1>6
  <2>2. Resumed(l, [l EXCEPT !.pc = "alloc fcb", !.i = 0], "alloc fcb", 0)
    BY <1>2, <1>3, <1>6, Slots, SearchAllocates
  <2> HIDE DEF loc
  <2> QED
    BY <2>1, <2>2, <1>6 DEF Resumed
<1>7. ASSUME ~on, l.op # "open"
      PROVE  loc \in Locals /\ loc.pc = "free" /\ loc.id = e
  <2>1. dir[e].first \in Block \cup {INVAL, NoBlock} /\ dir[e].size \in 0..MaxSize
    BY <1>1, <1>4 DEF Types
  <2>2. loc = [pc |-> "free", id |-> e, b |-> dir[e].first, left |-> dir[e].size]
    BY <1>7
  <2> HIDE DEF loc
  <2>3. loc \in FreeLocals
    BY <1>4, <2>1, <2>2 DEF FreeLocals
  <2>4. loc.pc = "free" /\ loc.id = e
    BY <2>2
  <2> QED
    BY <2>3, <2>4 DEF Locals
<1> HIDE DEF loc
<1>8. loc \in Locals /\ ~Counts(loc.pc)
  BY <1>5, <1>6, <1>7 DEF Counts
<1>9. at'[t] = loc
  BY <1>1, <1>2, <1>8, Moves
<1>10. Opening(t) => Opening(t)' /\ loc.fd = at[t].fd
  BY <1>2, <1>5, <1>6, <1>9 DEF Opening, Pc
<1>11. SearchOf(t)'
  <2>1. dir'[e].name # NoName /\ \A j \in Slot : fcb'[j].id = fcb[j].id
    BY <1>1, <1>2 DEF SearchOf, Pc, ram
  <2>2. \A j \in Slot : j < l.i \/ j = l.i => fcb[j].id # e
    BY <1>1, <1>2 DEF SearchOf, Pc
  <2>4. CASE on
    <3>1. \A j \in Slot : j < l.i + 1 => fcb[j].id # e
      BY <2>2, <1>4, Constants DEF Slot
    <3>2. l.op = "open" => l.new = NoName
      BY <1>1, <1>2 DEF SearchOf, Pc
    <3> QED
      BY <3>1, <3>2, <2>1, <2>4, <1>5, <1>9 DEF SearchOf, Pc
  <2>5. ASSUME ~on PROVE \A j \in Slot : fcb[j].id # e
    <3>1. \A j \in Slot : j <= l.i
      BY <2>5, <1>4, Constants DEF Slot
    <3> QED
      BY <3>1, <2>2, <1>4, Constants DEF Slot
  <2>6. CASE ~on /\ l.op = "open"
    <3>1. \E j \in Slot : fcb[j].id = INVAL
      BY <1>1, <1>2, <2>6, FreeFcb DEF Opening, Pc, Counts
    <3>2. \A j \in Slot : j >= 0
      BY Slots
    <3>3. l.new = NoName
      BY <1>1, <1>2, <2>6 DEF SearchOf, Pc
    <3> QED
      BY <3>1, <3>2, <3>3, <2>1, <2>5, <2>6, <1>6, <1>9 DEF SearchOf, Pc
  <2>7. CASE ~on /\ l.op # "open"
    BY <2>1, <2>5, <2>7, <1>7, <1>9 DEF SearchOf, Pc
  <2> QED
    BY <2>4, <2>6, <2>7
<1>12. CallOwnsFile(t)'
  <2>1. Opening(t)' => Opening(t)
    BY <1>2, <1>4, <1>5, <1>6, <1>7, <1>9 DEF Opening, Pc
  <2>2. Opening(t)' => openFiles'[at'[t].fd] = [owner |-> t, handle |-> INVAL]
    BY <2>1, <1>1, <1>2, <1>9, <1>10 DEF CallOwnsFile, ram
  <2>3. at'[t].pc \in {"find fcb", "alloc fcb", "free"}
    BY <1>5, <1>6, <1>7, <1>9
  <2> QED
    BY <2>2, <2>3 DEF CallOwnsFile, Closing, Writing, Pc
<1>13. LocksOf(t)'
  <2>1. at'[t].pc \in {"find fcb", "alloc fcb", "free"}
    BY <1>5, <1>6, <1>7, <1>9
  <2>2. root' = t /\ tableLock' # t /\ \A i \in Slot : fcbLock'[i] # t
    BY <1>1, <1>2 DEF LocksOf, Pc, Writing
  <2> QED
    BY <2>1, <2>2 DEF LocksOf, Pc, Writing
<1>14. LocksMove(t)
  BY <1>1, <1>2 DEF LocksMove, Types
<1>15. /\ table' \in [Block -> {FREE, USED, AVAIL}]
       /\ next' \in [Block -> Block \cup {INVAL, NoBlock}]
       /\ data' \in [Block -> [Cell -> (Entry \X (0..MaxSize)) \cup {Blank, Junk}]]
  BY <1>1, <1>2 DEF Types
<1>16. ~Counts(Pc(t)) /\ Pc(t) # "close fcb"
  BY <1>2 DEF Counts, Pc
<1>17. UNCHANGED <<dir, ram, history>>
  BY <1>2
<1> QED
  BY <1>2, <1>8, <1>10, <1>11, <1>12, <1>13, <1>14, <1>15, <1>16, <1>17, Aside

LEMMA AllocFcbOnInv ==
  ASSUME TablesInv, NEW t \in Thread, AllocFcbOn(t)
  PROVE  TablesInv'
<1> DEFINE l == at[t]
<1> DEFINE loc == [l EXCEPT !.i = l.i + 1]
<1>1. /\ Types /\ CallsOwnFiles /\ LocksHeld /\ OneFcbEach
      /\ CallOwnsFile(t) /\ LocksOf(t) /\ SearchOf(t)
  BY DEF TablesInv, CallsOwnFiles, LocksHeld, OneFcbEach
<1>2. l.pc = "alloc fcb" /\ fcb[l.i].id # INVAL
  BY DEF AllocFcbOn, Pc
<1>3. l \in Locals /\ l \in SearchLocals /\ l.i \in Slot
  <2>1. l \in Locals
    BY <1>1 DEF Types
  <2>2. l \in SearchLocals
    BY <1>2, <2>1, LocalsAre
  <2> QED
    BY <2>1, <2>2 DEF SearchLocals
<1>4. PICK j \in Slot : j >= l.i /\ fcb[j].id = INVAL
  BY <1>1, <1>2 DEF SearchOf, Pc
<1>5. l.i + 1 \in Slot /\ j >= l.i + 1
  <2>1. j # l.i
    BY <1>2, <1>4
  <2> QED
    BY <2>1, <1>3, <1>4, Constants DEF Slot
<1>6. /\ at' = [at EXCEPT ![t] = loc]
      /\ UNCHANGED <<table, dir, next, data, ram, root, tableLock, fcbLock, history>>
  BY <1>5 DEF AllocFcbOn, Goto, eeprom, flash, ram
<1>7. Resumed(l, loc, "alloc fcb", l.i + 1)
  BY <1>2, <1>3, <1>5, SearchGoesOn
<1> HIDE DEF loc
<1>8. /\ loc \in Locals /\ loc.pc = "alloc fcb" /\ loc.i = l.i + 1 /\ loc.id = l.id
      /\ loc.fd = l.fd /\ loc.new = l.new
  BY <1>2, <1>7 DEF Resumed
<1>9. at'[t] = loc
  BY <1>1, <1>6, <1>8, Moves
<1>10. Opening(t)' /\ loc.fd = at[t].fd
  BY <1>8, <1>9 DEF Opening, Pc
<1>11. SearchOf(t)'
  BY <1>1, <1>2, <1>4, <1>5, <1>6, <1>8, <1>9 DEF SearchOf, Pc, ram
<1>12. CallOwnsFile(t)'
  BY <1>1, <1>2, <1>6, <1>8, <1>9 DEF CallOwnsFile, Opening, Closing, Writing, Pc, ram
<1>13. LocksOf(t)'
  BY <1>1, <1>2, <1>6, <1>8, <1>9 DEF LocksOf, Pc, Writing
<1>14. LocksMove(t)
  BY <1>1, <1>6 DEF LocksMove, Types
<1>15. /\ table' \in [Block -> {FREE, USED, AVAIL}]
       /\ next' \in [Block -> Block \cup {INVAL, NoBlock}]
       /\ data' \in [Block -> [Cell -> (Entry \X (0..MaxSize)) \cup {Blank, Junk}]]
  BY <1>1, <1>6 DEF Types
<1>16. ~Counts(Pc(t)) /\ Pc(t) # "close fcb" /\ ~Counts(loc.pc)
  BY <1>2, <1>8 DEF Counts, Pc
<1>17. UNCHANGED <<dir, ram, history>>
  BY <1>6
<1> QED
  BY <1>6, <1>8, <1>10, <1>11, <1>12, <1>13, <1>14, <1>15, <1>16, <1>17, Aside

(* A step of a writing call, also its last one.                            *)
WritingPcs == {"allocate", "erase", "link", "flush", "program"}

FlashTypes ==
  /\ table \in [Block -> {FREE, USED, AVAIL}]
  /\ next \in [Block -> Block \cup {INVAL, NoBlock}]
  /\ data \in [Block -> [Cell -> (Entry \X (0..MaxSize)) \cup {Blank, Junk}]]

TableTypes ==
  /\ dir \in [Entry -> [name : Name \cup {NoName}, first : Block \cup {INVAL}, size : 0..MaxSize]]
  /\ fcb \in [Slot -> [id : Entry \cup {INVAL}, refcount : Nat, writer : BOOLEAN,
                       first : Block \cup {INVAL}, size : 0..MaxSize]]
  /\ handle \in [Slot -> [fcb : Slot \cup {INVAL}, mode : Mode \cup {"read"}, pos : 0..MaxSize,
                          curr : Block \cup {INVAL, NoBlock}]]
  /\ unsynced \in SUBSET Entry /\ length \in [Entry -> 0..MaxSize]

LEMMA WritingStep ==
  ASSUME TablesInv, NEW t \in Thread, Writing(t),
         NEW loc \in Locals, at' = [at EXCEPT ![t] = loc],
         loc = Idle \/ (loc.pc \in WritingPcs /\ loc.h = at[t].h),
         loc.pc \in {"flush", "program"} /\ loc.op = "close" => Closing(t) /\ loc.fd = at[t].fd,
         loc.pc \in {"allocate", "erase", "link"} => handle'[at[t].h].pos < MaxSize,
         FlashTypes', TableTypes', openFiles' = openFiles, root' = root, LocksMove(t),
         tableLock' = t <=> loc.pc \in {"erase", "link"},
         \A i \in Slot : fcbLock'[i] = t <=> loc.pc \in WritingPcs /\ fcbLock[i] = t,
         \A h \in Slot : h # at[t].h => handle'[h] = handle[h],
         \A h \in Slot : handle'[h].fcb = handle[h].fcb /\ handle'[h].mode = handle[h].mode,
         \A i \in Slot : /\ fcb'[i].id = fcb[i].id /\ fcb'[i].refcount = fcb[i].refcount
                         /\ fcb'[i].writer = fcb[i].writer
                         /\ fcb[i].id = INVAL => fcb'[i] = fcb[i],
         \A e \in Entry : dir'[e].name = dir[e].name
  PROVE  TablesInv'
<1>1. /\ Types /\ CallsOwnFiles /\ FilesHaveHandles /\ LocksHeld
      /\ CallOwnsFile(t) /\ LocksOf(t)
  BY DEF TablesInv, CallsOwnFiles, LocksHeld
<1>2. at' \in [Thread -> Locals] /\ at'[t] = loc /\ \A u \in Thread : u # t => at'[u] = at[u]
  BY <1>1, Moves
<1>3. /\ root' \in Thread \cup {Nobody} /\ tableLock' \in Thread \cup {Nobody}
      /\ fcbLock' \in [Slot -> Thread \cup {Nobody}]
  BY <1>1, LocksMoveIs
<1>4. \A u \in Thread : u # t => /\ root' = u <=> root = u
                                 /\ tableLock' = u <=> tableLock = u
                                 /\ \A i \in Slot : fcbLock'[i] = u <=> fcbLock[i] = u
  BY <1>1, LocksMoveIs
<1>5. Types'
  BY <1>1, <1>2, <1>3 DEF Types, FlashTypes, TableTypes
<1>6. /\ at[t].h \in Slot /\ FcbOf(at[t].h) \in Slot
      /\ \E fd \in Slot : openFiles[fd] = [owner |-> t, handle |-> at[t].h]
  BY <1>1, WritingFile
<1>7. ASSUME NEW fd \in Slot, openFiles[fd].owner \notin {t, Nobody}, openFiles[fd].handle # INVAL
      PROVE  handle'[openFiles[fd].handle] = handle[openFiles[fd].handle]
  <2>1. PICK d \in Slot : openFiles[d] = [owner |-> t, handle |-> at[t].h]
    BY <1>6
  <2>2. openFiles[d].owner = t /\ openFiles[d].handle = at[t].h
    BY <2>1
  <2>3. openFiles[fd].handle # at[t].h
    BY <2>2, <1>1, <1>7 DEF FilesHaveHandles, SlotSound
  <2>4. openFiles[fd].handle \in Slot
    BY <1>1, <1>7 DEF Types
  <2> QED
    BY <2>3, <2>4
<1>8. ~Opening(t) /\ ~Counts(Pc(t)) /\ Pc(t) # "close fcb"
  BY DEF Opening, Writing, Counts
<1>9. loc = Idle => loc.pc = "idle"
  BY DEF Idle
<1>10. ~Counts(at'[t].pc) /\ SearchOf(t)'
  BY <1>2, <1>9 DEF Counts, WritingPcs, SearchOf, Pc
<1>11. CallOwnsFile(t)'
  <2>1. CASE loc = Idle
    BY <2>1, <1>2, <1>9 DEF CallOwnsFile, Opening, Closing, Writing, Pc
  <2>2. CASE loc.pc \in WritingPcs /\ loc.h = at[t].h
    <3>1. ~Opening(t)' /\ Pc(t)' # "close fcb" /\ at'[t].h = at[t].h
      BY <2>2, <1>2 DEF WritingPcs, Opening, Pc
    <3>2. Closing(t)' => openFiles'[at'[t].fd] = [owner |-> t, handle |-> at'[t].h]
      BY <2>2, <1>1, <1>2 DEF WritingPcs, Closing, CallOwnsFile, Pc
    <3>3. /\ \E fd \in Slot : openFiles'[fd] = [owner |-> t, handle |-> at'[t].h]
          /\ Appends(handle'[at'[t].h].mode)
      <4>1. Appends(handle[at[t].h].mode)
        BY <1>1 DEF CallOwnsFile
      <4>2. handle'[at'[t].h].mode = handle[at[t].h].mode
        BY <3>1, <1>6
      <4>3. Appends(handle'[at'[t].h].mode)
        BY <4>1, <4>2
      <4>4. \E fd \in Slot : openFiles'[fd] = [owner |-> t, handle |-> at'[t].h]
        BY <3>1, <1>6
      <4> QED
        BY <4>3, <4>4
    <3>4. Pc(t)' \in {"allocate", "erase", "link"} => handle'[at'[t].h].pos < MaxSize
      BY <3>1, <1>2 DEF Pc
    <3> QED
      BY <3>1, <3>2, <3>3, <3>4 DEF CallOwnsFile
  <2> QED
    BY <2>1, <2>2
<1>12. LocksOf(t)'
  <2>1. root' # t /\ Pc(t)' \notin {"find fcb", "alloc fcb", "free"}
    BY <1>1, <1>2, <1>9 DEF LocksOf, Writing, Pc, WritingPcs
  <2>2. ASSUME NEW i \in Slot PROVE fcbLock'[i] = t <=> (Writing(t) /\ FcbOf(at[t].h) = i)'
    <3>1. fcbLock[i] = t <=> FcbOf(at[t].h) = i
      BY <1>1 DEF LocksOf
    <3>2. FcbOf(at[t].h)' = handle'[at'[t].h].fcb
      BY DEF FcbOf
    <3>3. loc.pc \in WritingPcs => loc.h = at[t].h
      BY <1>9 DEF WritingPcs
    <3>4. loc.pc \in WritingPcs => FcbOf(at[t].h)' = FcbOf(at[t].h)
      BY <3>2, <3>3, <1>2, <1>6 DEF FcbOf
    <3> QED
      BY <3>1, <3>4, <1>2 DEF Writing, WritingPcs, Pc
  <2> QED
    BY <2>1, <2>2, <1>2 DEF LocksOf, Pc
<1>13. \A e \in Entry : dir'[e].name = NoName <=> dir[e].name = NoName
  OBVIOUS
<1> QED
  BY <1>2, <1>4, <1>5, <1>7, <1>8, <1>10, <1>11, <1>12, <1>13, Quiet

LEMMA WritingCall ==
  ASSUME TablesInv, NEW t \in Thread, Writing(t)
  PROVE  /\ Types /\ at[t] \in Locals /\ at[t].h \in Slot /\ FcbOf(at[t].h) \in Slot
         /\ fcb[FcbOf(at[t].h)].id \in Entry /\ fcb[FcbOf(at[t].h)] \in [id : Entry \cup {INVAL},
              refcount : Nat, writer : BOOLEAN, first : Block \cup {INVAL}, size : 0..MaxSize]
         /\ handle[at[t].h] \in [fcb : Slot \cup {INVAL}, mode : Mode \cup {"read"},
              pos : 0..MaxSize, curr : Block \cup {INVAL, NoBlock}]
         /\ (tableLock = t <=> Pc(t) \in {"erase", "link"})
         /\ \A i \in Slot : fcbLock[i] = t <=> i = FcbOf(at[t].h)
<1>1. /\ Types /\ CallsOwnFiles /\ FilesHaveHandles /\ Counted /\ CallOwnsFile(t) /\ LocksOf(t)
  BY DEF TablesInv, CallsOwnFiles, LocksHeld
<1>2. /\ at[t].h \in Slot /\ FcbOf(at[t].h) \in Slot
  BY <1>1, WritingFile
<1>3. PICK fd \in Slot : openFiles[fd] = [owner |-> t, handle |-> at[t].h]
  BY <1>1, WritingFile
<1>4. openFiles[fd].owner = t /\ openFiles[fd].handle = at[t].h
  BY <1>3
<1>5. t # Nobody /\ at[t].h # INVAL /\ Pc(t) # "close handle"
  BY <1>2, OtherConstants, Slots DEF Writing
<1>6. fcb[FcbOf(at[t].h)].id \in Entry
  BY <1>1, <1>4, <1>5, OpenFileUses
<1> QED
  BY <1>1, <1>2, <1>6 DEF LocksOf, Types

LEMMA TypesAgain ==
  ASSUME Types
  PROVE  FlashTypes /\ TableTypes /\ fcbLock \in [Slot -> Thread \cup {Nobody}]
         /\ root \in Thread \cup {Nobody} /\ tableLock \in Thread \cup {Nobody}
BY DEF Types, FlashTypes, TableTypes

(* A step of an allocation: only table and flash change, and fsBlkTable-   *)
(* Mutex is taken or kept.                                                 *)
LEMMA AllocationStep ==
  ASSUME TablesInv, NEW t \in Thread, Pc(t) \in {"allocate", "erase"},
         NEW loc \in Locals, at' = [at EXCEPT ![t] = loc],
         loc.pc \in {"erase", "link"}, loc.h = at[t].h, FlashTypes',
         UNCHANGED <<dir, ram, root, fcbLock, history>>,
         tableLock' = t, tableLock \in {t, Nobody}
  PROVE  TablesInv'
<1>1. Writing(t)
  BY DEF Writing
<1>2. Types /\ at[t].h \in Slot /\ FcbOf(at[t].h) \in Slot
      /\ \A i \in Slot : fcbLock[i] = t <=> i = FcbOf(at[t].h)
  BY <1>1, WritingCall
<1>3. UNCHANGED <<dir, fcb, handle, openFiles, root, fcbLock, unsynced, length>>
  BY DEF ram, history
<1>4. handle'[at[t].h].pos < MaxSize
  BY <1>3 DEF TablesInv, CallsOwnFiles, CallOwnsFile
<1>5. TableTypes'
  BY <1>2, <1>3, TypesAgain DEF TableTypes
<1>6. LocksMove(t)
  BY <1>2, <1>3, TypesAgain DEF LocksMove
<1>7. loc.pc \in WritingPcs /\ loc.pc \notin {"flush", "program"}
  BY DEF WritingPcs
<1>8. tableLock' = t <=> loc.pc \in {"erase", "link"}
  OBVIOUS
<1>9. \A i \in Slot : fcbLock'[i] = t <=> loc.pc \in WritingPcs /\ fcbLock[i] = t
  BY <1>3, <1>7
<1>10. /\ \A h \in Slot : h # at[t].h => handle'[h] = handle[h]
       /\ \A h \in Slot : handle'[h].fcb = handle[h].fcb /\ handle'[h].mode = handle[h].mode
       /\ \A i \in Slot : /\ fcb'[i].id = fcb[i].id /\ fcb'[i].refcount = fcb[i].refcount
                          /\ fcb'[i].writer = fcb[i].writer
                          /\ fcb[i].id = INVAL => fcb'[i] = fcb[i]
       /\ \A e \in Entry : dir'[e].name = dir[e].name
  BY <1>3
<1> QED
  BY <1>1, <1>3, <1>4, <1>5, <1>6, <1>7, <1>8, <1>9, <1>10, WritingStep

LEMMA CandidatesAre ==
  ASSUME NEW old
  PROVE  Candidates(old) \in SUBSET Block
BY DEF Candidates, FreeIn, InSegment

LEMMA AllocateMarkInv ==
  ASSUME TablesInv, NEW t \in Thread, AllocateMark(t)
  PROVE  TablesInv'
<1>1. /\ Pc(t) = "allocate" /\ tableLock = Nobody /\ tableLock' = t
      /\ UNCHANGED <<dir, next, data, ram, root, fcbLock, history>>
  BY DEF AllocateMark, flash
<1>2. PICK b \in Block : /\ table' = [table EXCEPT ![b] = USED]
                         /\ at' = [at EXCEPT ![t] = [pc |-> "link", h |-> at[t].h, b |-> b]]
  BY CandidatesAre DEF AllocateMark, Goto
<1> DEFINE loc == [pc |-> "link", h |-> at[t].h, b |-> b]
<1>3. Types /\ at[t].h \in Slot
  BY <1>1, WritingCall DEF Writing
<1>4. loc \in Locals
  <2>1. loc \in LinkLocals
    BY <1>3 DEF LinkLocals
  <2> HIDE DEF loc
  <2> QED
    BY <2>1 DEF Locals
<1>5. loc.pc = "link" /\ loc.h = at[t].h
  OBVIOUS
<1>6. FlashTypes'
  BY <1>1, <1>2, <1>3, TypesAgain DEF FlashTypes
<1>7. at' = [at EXCEPT ![t] = loc]
  BY <1>2
<1> HIDE DEF loc
<1> QED
  BY <1>1, <1>4, <1>5, <1>6, <1>7, AllocationStep

LEMMA AllocateRecordInv ==
  ASSUME TablesInv, NEW t \in Thread, AllocateRecord(t)
  PROVE  TablesInv'
<1>1. /\ Pc(t) = "allocate" /\ tableLock = Nobody /\ tableLock' = t
      /\ UNCHANGED <<dir, next, data, ram, root, fcbLock, history>>
  BY DEF AllocateRecord, flash
<1>2. PICK s \in Seg : /\ table' = [b \in Block |-> IF segNum(b) = s THEN FREE ELSE table[b]]
                       /\ at' = [at EXCEPT ![t] = [pc |-> "erase", h |-> at[t].h, s |-> s]]
  BY DEF AllocateRecord, Goto, ErasableSegments
<1> DEFINE loc == [pc |-> "erase", h |-> at[t].h, s |-> s]
<1>3. Types /\ at[t].h \in Slot
  BY <1>1, WritingCall DEF Writing
<1>4. loc \in Locals
  <2>1. loc \in EraseLocals
    BY <1>3 DEF EraseLocals
  <2> HIDE DEF loc
  <2> QED
    BY <2>1 DEF Locals
<1>5. loc.pc = "erase" /\ loc.h = at[t].h
  OBVIOUS
<1>6. FlashTypes'
  BY <1>1, <1>2, <1>3, TypesAgain DEF FlashTypes
<1>7. at' = [at EXCEPT ![t] = loc]
  BY <1>2
<1> HIDE DEF loc
<1> QED
  BY <1>1, <1>4, <1>5, <1>6, <1>7, AllocationStep

LEMMA AllocateEraseInv ==
  ASSUME TablesInv, NEW t \in Thread, AllocateErase(t)
  PROVE  TablesInv'
<1>1. /\ Pc(t) = "erase" /\ UNCHANGED <<dir, ram, root, tableLock, fcbLock, history>>
      /\ next' = [b \in Block |-> IF segNum(b) = at[t].s THEN INVAL ELSE next[b]]
      /\ data' = [b \in Block |-> IF segNum(b) = at[t].s THEN [c \in Cell |-> Blank] ELSE data[b]]
  BY DEF AllocateErase, locks
<1>2. PICK b \in Block : /\ table' = [table EXCEPT ![b] = USED]
                         /\ at' = [at EXCEPT ![t] = [pc |-> "link", h |-> at[t].h, b |-> b]]
  BY DEF AllocateErase, Goto, InSegment
<1> DEFINE loc == [pc |-> "link", h |-> at[t].h, b |-> b]
<1>3. Types /\ at[t].h \in Slot /\ tableLock = t
  BY <1>1, WritingCall DEF Writing
<1>4. loc \in Locals
  <2>1. loc \in LinkLocals
    BY <1>3 DEF LinkLocals
  <2> HIDE DEF loc
  <2> QED
    BY <2>1 DEF Locals
<1>5. loc.pc = "link" /\ loc.h = at[t].h
  OBVIOUS
<1>6. FlashTypes'
  BY <1>1, <1>2, <1>3, TypesAgain DEF FlashTypes
<1>7. at' = [at EXCEPT ![t] = loc] /\ tableLock' = t
  BY <1>1, <1>2, <1>3
<1> HIDE DEF loc
<1> QED
  BY <1>1, <1>3, <1>4, <1>5, <1>6, <1>7, AllocationStep

LEMMA IdleIsLocal == Idle \in Locals /\ Idle.pc = "idle" /\ Idle.pc \notin WritingPcs
<1>1. Idle \in IdleLocals /\ Idle.pc = "idle"
  BY DEF Idle, IdleLocals
<1> QED
  BY <1>1 DEF Locals, WritingPcs

LEMMA AllocateFailInv ==
  ASSUME TablesInv, NEW t \in Thread, AllocateFail(t)
  PROVE  TablesInv'
<1>1. /\ Pc(t) = "allocate" /\ tableLock = Nobody /\ at' = [at EXCEPT ![t] = Idle]
      /\ fcbLock' = [i \in Slot |-> IF fcbLock[i] = t THEN Nobody ELSE fcbLock[i]]
      /\ UNCHANGED <<table, dir, next, data, fcb, handle, openFiles, root, tableLock,
                     unsynced, length>>
  BY DEF AllocateFail, UnlockFcb, Return, Goto, eeprom, flash, ram, history
<1>2. Writing(t)
  BY <1>1 DEF Writing
<1>3. Types
  BY DEF TablesInv
<1>4. FlashTypes' /\ TableTypes'
  BY <1>1, <1>3, TypesAgain DEF FlashTypes, TableTypes
<1>5. t # Nobody
  BY OtherConstants
<1>6. LocksMove(t)
  BY <1>1, <1>3, TypesAgain DEF LocksMove
<1>7. \A i \in Slot : fcbLock'[i] = t <=> Idle.pc \in WritingPcs /\ fcbLock[i] = t
  BY <1>1, <1>5, IdleIsLocal
<1>8. tableLock' = t <=> Idle.pc \in {"erase", "link"}
  BY <1>1, <1>5, IdleIsLocal
<1>9. /\ \A h \in Slot : h # at[t].h => handle'[h] = handle[h]
      /\ \A h \in Slot : handle'[h].fcb = handle[h].fcb /\ handle'[h].mode = handle[h].mode
      /\ \A i \in Slot : /\ fcb'[i].id = fcb[i].id /\ fcb'[i].refcount = fcb[i].refcount
                         /\ fcb'[i].writer = fcb[i].writer
                         /\ fcb[i].id = INVAL => fcb'[i] = fcb[i]
      /\ \A e \in Entry : dir'[e].name = dir[e].name
  BY <1>1
<1>10. Idle.pc \notin {"flush", "program", "allocate", "erase", "link"}
  BY IdleIsLocal
<1> QED
  BY <1>1, <1>2, <1>4, <1>6, <1>7, <1>8, <1>9, <1>10, IdleIsLocal, WritingStep

LEMMA AppendUnitIs ==
  ASSUME Types, NEW t \in Thread, NEW h \in Slot, NEW lock, AppendUnit(t, h, lock),
         fcb[FcbOf(h)].id \in Entry, handle[h].pos < MaxSize
  PROVE  /\ length' \in [Entry -> 0..MaxSize]
         /\ \E loc \in Locals :
              /\ at' = [at EXCEPT ![t] = loc]
              /\ \/ loc = Idle /\ fcbLock' = [lock EXCEPT ![FcbOf(h)] = Nobody]
                 \/ /\ loc.pc = "flush" /\ loc.op = "write" /\ loc.h = h /\ fcbLock' = lock
                    /\ loc # Idle
<1> DEFINE p == handle[h].pos + 1
<1> DEFINE loc == [pc |-> "flush", op |-> "write", h |-> h]
<1>1. /\ length' = [length EXCEPT ![fcb[FcbOf(h)].id] = p]
      /\ IF p % BlockData = 0 \/ handle[h].mode = "append nocache"
         THEN at' = [at EXCEPT ![t] = loc] /\ fcbLock' = lock
         ELSE at' = [at EXCEPT ![t] = Idle] /\ fcbLock' = [lock EXCEPT ![FcbOf(h)] = Nobody]
  BY DEF AppendUnit, Goto, Return
<1>2. p \in 0..MaxSize
  <2>1. handle[h].pos \in 0..MaxSize
    BY DEF Types
  <2> QED
    BY <2>1, Constants
<1>3. length' \in [Entry -> 0..MaxSize]
  <2> HIDE DEF p
  <2> QED
    BY <1>1, <1>2 DEF Types
<1>4. loc \in Locals /\ loc.pc = "flush" /\ loc.op = "write" /\ loc.h = h /\ loc # Idle
  <2>1. loc \in WriteLocals /\ loc.pc = "flush" /\ loc.op = "write" /\ loc.h = h
    BY DEF WriteLocals
  <2> HIDE DEF loc
  <2> QED
    BY <2>1, IdleIsLocal DEF Locals, WritingPcs
<1> HIDE DEF loc, p
<1>5. CASE at' = [at EXCEPT ![t] = loc] /\ fcbLock' = lock
  BY <1>3, <1>4, <1>5
<1>6. CASE at' = [at EXCEPT ![t] = Idle] /\ fcbLock' = [lock EXCEPT ![FcbOf(h)] = Nobody]
  BY <1>3, <1>6, IdleIsLocal
<1> QED
  BY <1>1, <1>5, <1>6

LEMMA AllocateLinkInv ==
  ASSUME TablesInv, NEW t \in Thread, AllocateLink(t)
  PROVE  TablesInv'
<1> DEFINE h == at[t].h
<1> DEFINE b == at[t].b
<1> DEFINE i == FcbOf(h)
<1>1. /\ Pc(t) = "link" /\ tableLock' = Nobody
      /\ next' = IF handle[h].curr \in Block
                 THEN [next EXCEPT ![handle[h].curr] = IF @ = INVAL THEN b ELSE NoBlock] ELSE next
      /\ handle' = [handle EXCEPT ![h].curr = b, ![h].pos = @ + 1]
      /\ fcb' = IF fcb[i].first = INVAL THEN [fcb EXCEPT ![i].first = b] ELSE fcb
      /\ AppendUnit(t, h, fcbLock)
      /\ UNCHANGED <<table, dir, data, openFiles, root, unsynced>>
  BY DEF AllocateLink, eeprom
<1>2. Writing(t)
  BY <1>1 DEF Writing
<1>3. Types /\ h \in Slot /\ i \in Slot /\ fcb[i].id \in Entry /\ tableLock = t
      /\ \A j \in Slot : fcbLock[j] = t <=> j = i
  BY <1>1, <1>2, WritingCall
<1>4. b \in Block
  BY <1>1, <1>3, LocalsAre DEF Types, Pc, LinkLocals
<1>5. handle[h].pos < MaxSize /\ handle[h].pos \in 0..MaxSize
  BY <1>1, <1>3 DEF TablesInv, CallsOwnFiles, CallOwnsFile, Types
<1>6. length' \in [Entry -> 0..MaxSize]
  BY <1>1, <1>3, <1>5, AppendUnitIs
<1>7. PICK loc \in Locals :
         /\ at' = [at EXCEPT ![t] = loc]
         /\ \/ loc = Idle /\ fcbLock' = [fcbLock EXCEPT ![i] = Nobody]
            \/ /\ loc.pc = "flush" /\ loc.op = "write" /\ loc.h = h /\ fcbLock' = fcbLock
               /\ loc # Idle
  BY <1>1, <1>3, <1>5, AppendUnitIs
<1>8. FlashTypes'
  <2>1. next' \in [Block -> Block \cup {INVAL, NoBlock}]
    BY <1>1, <1>3, <1>4 DEF Types
  <2> QED
    BY <2>1, <1>1, <1>3, TypesAgain DEF FlashTypes
<1>9. /\ handle' \in [Slot -> [fcb : Slot \cup {INVAL}, mode : Mode \cup {"read"},
                               pos : 0..MaxSize, curr : Block \cup {INVAL, NoBlock}]]
      /\ \A g \in Slot : g # h => handle'[g] = handle[g]
      /\ \A g \in Slot : handle'[g].fcb = handle[g].fcb /\ handle'[g].mode = handle[g].mode
  <2>1. handle[h].pos + 1 \in 0..MaxSize
    BY <1>5, Constants
  <2> DEFINE H == [fcb : Slot \cup {INVAL}, mode : Mode \cup {"read"}, pos : 0..MaxSize,
                   curr : Block \cup {INVAL, NoBlock}]
  <2> DEFINE new == [handle[h] EXCEPT !.curr = b, !.pos = handle[h].pos + 1]
  <2>2. handle \in [Slot -> H] /\ handle[h] \in H
    BY <1>3 DEF Types
  <2> HIDE DEF h, b
  <2>3. new \in H /\ new.fcb = handle[h].fcb /\ new.mode = handle[h].mode
    BY <2>1, <2>2, <1>4
  <2>4. handle' = [handle EXCEPT ![h] = new]
    BY <1>1, <1>3, <2>2
  <2> HIDE DEF H, new
  <2>5. handle' \in [Slot -> H] /\ handle'[h] = new /\ \A g \in Slot : g # h => handle'[g] = handle[g]
    BY <2>2, <2>3, <2>4, <1>3
  <2> QED
    BY <2>3, <2>5 DEF H
<1>10. /\ fcb' \in [Slot -> [id : Entry \cup {INVAL}, refcount : Nat, writer : BOOLEAN,
                             first : Block \cup {INVAL}, size : 0..MaxSize]]
       /\ \A j \in Slot : /\ fcb'[j].id = fcb[j].id /\ fcb'[j].refcount = fcb[j].refcount
                          /\ fcb'[j].writer = fcb[j].writer
                          /\ fcb[j].id = INVAL => fcb'[j] = fcb[j]
  <2> DEFINE F == [id : Entry \cup {INVAL}, refcount : Nat, writer : BOOLEAN,
                   first : Block \cup {INVAL}, size : 0..MaxSize]
  <2> DEFINE new == [fcb[i] EXCEPT !.first = b]
  <2>1. fcb[i].id # INVAL /\ fcb \in [Slot -> F] /\ fcb[i] \in F
    BY <1>3, NotInval DEF Types
  <2> HIDE DEF h, b, i
  <2>2. /\ new \in F /\ new.id = fcb[i].id /\ new.refcount = fcb[i].refcount
        /\ new.writer = fcb[i].writer
    BY <2>1, <1>4
  <2>3. fcb' = fcb \/ fcb' = [fcb EXCEPT ![i] = new]
    BY <1>1, <1>3, <2>1
  <2> HIDE DEF F, new
  <2>4. CASE fcb' = fcb
    BY <2>1, <2>4 DEF F
  <2>5. CASE fcb' = [fcb EXCEPT ![i] = new]
    <3>1. fcb' \in [Slot -> F] /\ fcb'[i] = new /\ \A j \in Slot : j # i => fcb'[j] = fcb[j]
      BY <2>1, <2>2, <2>5, <1>3
    <3> QED
      BY <3>1, <2>1, <2>2 DEF F
  <2> QED
    BY <2>3, <2>4, <2>5
<1>11. TableTypes'
  BY <1>1, <1>3, <1>6, <1>9, <1>10, TypesAgain DEF TableTypes
<1>12. t # Nobody
  BY OtherConstants
<1>13. LocksMove(t)
  <2>1. fcbLock \in [Slot -> Thread \cup {Nobody}] /\ fcbLock[i] = t
    BY <1>3 DEF Types
  <2> HIDE DEF h, b, i
  <2> QED
    BY <2>1, <1>1, <1>3, <1>7 DEF LocksMove
<1>14. tableLock' = t <=> loc.pc \in {"erase", "link"}
  BY <1>1, <1>7, <1>12, IdleIsLocal DEF WritingPcs
<1>15. \A j \in Slot : fcbLock'[j] = t <=> loc.pc \in WritingPcs /\ fcbLock[j] = t
  <2>1. fcbLock \in [Slot -> Thread \cup {Nobody}]
    BY <1>3 DEF Types
  <2>2. CASE loc = Idle
    <3>1. fcbLock' = [fcbLock EXCEPT ![i] = Nobody]
      BY <1>7, <2>2
    <3> HIDE DEF h, b, i
    <3> QED
      BY <3>1, <2>1, <2>2, <1>3, <1>12, IdleIsLocal
  <2>3. CASE loc # Idle
    BY <2>3, <1>7 DEF WritingPcs
  <2> QED
    BY <2>2, <2>3
<1>16. loc = Idle \/ (loc.pc \in WritingPcs /\ loc.h = at[t].h)
  BY <1>7 DEF WritingPcs
<1>17. loc.pc \notin {"allocate", "erase", "link"} /\ ~(loc.pc \in {"flush", "program"} /\ loc.op = "close")
  BY <1>7, IdleIsLocal DEF WritingPcs
<1>18. \A e \in Entry : dir'[e].name = dir[e].name
  BY <1>1
<1> HIDE DEF h, b, i
<1> QED
  BY <1>1, <1>2, <1>7, <1>8, <1>9, <1>10, <1>11, <1>13, <1>14, <1>15, <1>16, <1>17, <1>18,
     WritingStep DEF h

LEMMA SyncEntryIs ==
  ASSUME Types, NEW f, f.id \in Entry, f.first \in Block \cup {INVAL}, f.size \in 0..MaxSize,
         fsBlockSyncEntry(f)
  PROVE  /\ dir' \in [Entry -> [name : Name \cup {NoName}, first : Block \cup {INVAL},
                                size : 0..MaxSize]]
         /\ unsynced' \in SUBSET Entry /\ unsynced' = unsynced \ {f.id}
         /\ \A e \in Entry : dir'[e].name = dir[e].name
         /\ \A e \in Entry : e # f.id => dir'[e] = dir[e]
         /\ dir'[f.id].first = f.first /\ dir'[f.id].size = f.size
<1> DEFINE D == [name : Name \cup {NoName}, first : Block \cup {INVAL}, size : 0..MaxSize]
<1> DEFINE new == [dir[f.id] EXCEPT !.first = f.first, !.size = f.size]
<1>1. dir \in [Entry -> D] /\ unsynced \in SUBSET Entry /\ dir[f.id] \in D
  BY DEF Types
<1>2. new \in D /\ new.name = dir[f.id].name /\ new.first = f.first /\ new.size = f.size
  BY <1>1
<1>3. dir' = [dir EXCEPT ![f.id] = new] /\ unsynced' = unsynced \ {f.id}
  BY <1>1 DEF fsBlockSyncEntry
<1> HIDE DEF D, new
<1>4. dir' \in [Entry -> D] /\ dir'[f.id] = new /\ \A e \in Entry : e # f.id => dir'[e] = dir[e]
  BY <1>1, <1>2, <1>3
<1> QED
  BY <1>1, <1>2, <1>3, <1>4 DEF D

LEMMA FlushInv ==
  ASSUME TablesInv, NEW t \in Thread, Flush(t)
  PROVE  TablesInv'
<1> DEFINE h == at[t].h
<1> DEFINE f == fcb[FcbOf(h)]
<1> DEFINE loc == [at[t] EXCEPT !.pc = "program"]
<1>1. /\ Pc(t) = "flush" /\ at' = [at EXCEPT ![t] = loc]
      /\ IF f.size % BlockData = 0 THEN fsBlockSyncEntry(f) ELSE UNCHANGED <<dir, unsynced>>
      /\ UNCHANGED <<table, next, data, fcb, handle, openFiles, root, tableLock, fcbLock, length>>
  BY DEF Flush, Goto, flash, ram, locks
<1>2. Writing(t)
  BY <1>1 DEF Writing
<1>3. /\ Types /\ h \in Slot /\ f.id \in Entry /\ f.first \in Block \cup {INVAL}
      /\ f.size \in 0..MaxSize /\ at[t] \in Locals /\ tableLock # t
  BY <1>1, <1>2, WritingCall
<1>4. /\ dir' \in [Entry -> [name : Name \cup {NoName}, first : Block \cup {INVAL},
                             size : 0..MaxSize]]
      /\ unsynced' \in SUBSET Entry /\ \A e \in Entry : dir'[e].name = dir[e].name
  <2>1. CASE fsBlockSyncEntry(f)
    BY <2>1, <1>3, SyncEntryIs
  <2>2. CASE UNCHANGED <<dir, unsynced>>
    BY <2>2, <1>3 DEF Types
  <2> QED
    BY <2>1, <2>2, <1>1
<1>5. FlushResumed(at[t], loc, "program")
  BY <1>1, <1>3, FlushGoesOn DEF Pc
<1> HIDE DEF loc, f
<1>6. loc \in Locals /\ loc.pc = "program" /\ loc.h = at[t].h
      /\ (loc.op = "close" => Closing(t) /\ loc.fd = at[t].fd)
  BY <1>1, <1>5 DEF FlushResumed, Closing, Pc
<1>7. FlashTypes' /\ TableTypes'
  BY <1>1, <1>3, <1>4, TypesAgain DEF FlashTypes, TableTypes
<1>8. LocksMove(t)
  BY <1>1, <1>3, TypesAgain DEF LocksMove
<1>9. tableLock' = t <=> loc.pc \in {"erase", "link"}
  BY <1>1, <1>3, <1>6
<1>10. loc.pc \in WritingPcs /\ \A i \in Slot : fcbLock'[i] = t <=> loc.pc \in WritingPcs /\ fcbLock[i] = t
  BY <1>1, <1>6 DEF WritingPcs
<1>11. /\ \A g \in Slot : g # at[t].h => handle'[g] = handle[g]
       /\ \A g \in Slot : handle'[g].fcb = handle[g].fcb /\ handle'[g].mode = handle[g].mode
       /\ \A i \in Slot : /\ fcb'[i].id = fcb[i].id /\ fcb'[i].refcount = fcb[i].refcount
                          /\ fcb'[i].writer = fcb[i].writer
                          /\ fcb[i].id = INVAL => fcb'[i] = fcb[i]
  BY <1>1
<1>12. loc.pc \notin {"allocate", "erase", "link"}
  BY <1>6
<1> QED
  BY <1>1, <1>2, <1>4, <1>6, <1>7, <1>8, <1>9, <1>10, <1>11, <1>12, WritingStep

LEMMA ProgramInv ==
  ASSUME TablesInv, NEW t \in Thread, Program(t)
  PROVE  TablesInv'
<1> DEFINE h == at[t].h
<1> DEFINE f == fcb[FcbOf(h)]
<1> DEFINE start == f.size - (f.size % BlockData)
<1> DEFINE loc == [at[t] EXCEPT !.pc = "flush"]
<1>1. /\ Pc(t) = "program" /\ at' = [at EXCEPT ![t] = loc]
      /\ data' = [data EXCEPT ![handle[h].curr] =
                    [c \in Cell |-> IF start + c \notin f.size..(handle[h].pos - 1) THEN @[c]
                                    ELSE IF @[c] = Blank THEN <<f.id, start + c>> ELSE Junk]]
      /\ fcb' = [fcb EXCEPT ![FcbOf(h)].size = handle[h].pos]
      /\ UNCHANGED <<table, dir, next, handle, openFiles, root, tableLock, fcbLock, unsynced, length>>
  BY DEF Program, Goto, eeprom, locks, history
<1>2. Writing(t)
  BY <1>1 DEF Writing
<1>3. /\ Types /\ h \in Slot /\ FcbOf(h) \in Slot /\ f.id \in Entry
      /\ f.size \in 0..MaxSize /\ handle[h].pos \in 0..MaxSize
      /\ at[t] \in Locals /\ tableLock # t
  BY <1>1, <1>2, WritingCall
<1>4. /\ fcb' \in [Slot -> [id : Entry \cup {INVAL}, refcount : Nat, writer : BOOLEAN,
                            first : Block \cup {INVAL}, size : 0..MaxSize]]
      /\ \A j \in Slot : /\ fcb'[j].id = fcb[j].id /\ fcb'[j].refcount = fcb[j].refcount
                         /\ fcb'[j].writer = fcb[j].writer
                         /\ fcb[j].id = INVAL => fcb'[j] = fcb[j]
  <2> DEFINE F == [id : Entry \cup {INVAL}, refcount : Nat, writer : BOOLEAN,
                   first : Block \cup {INVAL}, size : 0..MaxSize]
  <2> DEFINE i == FcbOf(h)
  <2> DEFINE new == [fcb[i] EXCEPT !.size = handle[h].pos]
  <2>1. fcb[i].id # INVAL /\ fcb \in [Slot -> F] /\ fcb[i] \in F /\ i \in Slot
    BY <1>3, NotInval DEF Types
  <2>2. /\ new \in F /\ new.id = fcb[i].id /\ new.refcount = fcb[i].refcount
        /\ new.writer = fcb[i].writer
    BY <2>1, <1>3
  <2>3. fcb' = [fcb EXCEPT ![i] = new]
    BY <1>1, <1>3, <2>1
  <2> HIDE DEF F, new, i
  <2>4. fcb' \in [Slot -> F] /\ fcb'[i] = new /\ \A j \in Slot : j # i => fcb'[j] = fcb[j]
    BY <2>1, <2>2, <2>3
  <2> QED
    BY <2>1, <2>2, <2>4 DEF F
<1>5. data' \in [Block -> [Cell -> (Entry \X (0..MaxSize)) \cup {Blank, Junk}]]
  <2> DEFINE K == (Entry \X (0..MaxSize)) \cup {Blank, Junk}
  <2> DEFINE b == handle[h].curr
  <2> DEFINE new == [c \in Cell |-> IF start + c \notin f.size..(handle[h].pos - 1) THEN data[b][c]
                                    ELSE IF data[b][c] = Blank THEN <<f.id, start + c>> ELSE Junk]
  <2>1. data \in [Block -> [Cell -> K]]
    BY <1>3 DEF Types
  <2>2. ASSUME b \in Block PROVE new \in [Cell -> K]
    <3>1. data[b] \in [Cell -> K]
      BY <2>1, <2>2
    <3>2. ASSUME NEW c \in Cell PROVE new[c] \in K
      <4>1. data[b][c] \in K
        BY <3>1
      <4>2. start \in Int /\ c \in Int /\ f.size \in Nat /\ handle[h].pos \in Nat
        BY <1>3, Constants DEF Cell
      <4> HIDE DEF f, start, b
      <4>3. start + c \in f.size..(handle[h].pos - 1) => start + c \in 0..MaxSize
        BY <4>2, <1>3, Constants
      <4> QED
        BY <4>1, <4>3, <1>3
    <3> HIDE DEF K
    <3> QED
      BY <3>2
  <2>3. data' = [data EXCEPT ![b] = new]
    BY <1>1
  <2> HIDE DEF K, new, b
  <2> QED
    BY <2>1, <2>2, <2>3 DEF K
<1>6. FlushResumed(at[t], loc, "flush")
  BY <1>1, <1>3, FlushGoesOn DEF Pc
<1> HIDE DEF loc, f, start
<1>7. loc \in Locals /\ loc.pc = "flush" /\ loc.h = at[t].h
      /\ (loc.op = "close" => Closing(t) /\ loc.fd = at[t].fd)
  BY <1>1, <1>6 DEF FlushResumed, Closing, Pc
<1>8. FlashTypes' /\ TableTypes'
  BY <1>1, <1>3, <1>4, <1>5, TypesAgain DEF FlashTypes, TableTypes
<1>9. LocksMove(t)
  BY <1>1, <1>3, TypesAgain DEF LocksMove
<1>10. tableLock' = t <=> loc.pc \in {"erase", "link"}
  BY <1>1, <1>3, <1>7
<1>11. loc.pc \in WritingPcs /\ \A i \in Slot : fcbLock'[i] = t <=> loc.pc \in WritingPcs /\ fcbLock[i] = t
  BY <1>1, <1>7 DEF WritingPcs
<1>12. /\ \A g \in Slot : g # at[t].h => handle'[g] = handle[g]
       /\ \A g \in Slot : handle'[g].fcb = handle[g].fcb /\ handle'[g].mode = handle[g].mode
       /\ \A e \in Entry : dir'[e].name = dir[e].name
  BY <1>1
<1>13. loc.pc \notin {"allocate", "erase", "link"}
  BY <1>7
<1> QED
  BY <1>1, <1>2, <1>4, <1>7, <1>8, <1>9, <1>10, <1>11, <1>12, <1>13, WritingStep

(* A thread that is not in a call has a handle for each of its open files. *)
LEMMA IdleOwner ==
  ASSUME TablesInv, NEW t \in Thread, Pc(t) = "idle", NEW fd \in Opened(t)
  PROVE  LET h == openFiles[fd].handle
         IN  /\ fd \in Slot /\ h \in Slot /\ FcbOf(h) \in Slot /\ fcb[FcbOf(h)].id \in Entry
             /\ openFiles[fd] = [owner |-> t, handle |-> h]
<1> DEFINE h == openFiles[fd].handle
<1>1. Types /\ FilesHaveHandles /\ Counted
  BY DEF TablesInv
<1>2. fd \in Slot /\ openFiles[fd].owner = t /\ t # Nobody
  BY OtherConstants DEF Opened
<1>3. h # INVAL
  <2>1. ~Opening(t)
    BY DEF Opening
  <2> QED
    BY <2>1, <1>1, <1>2 DEF FilesHaveHandles, SlotSound
<1>4. h \in Slot /\ FcbOf(h) \in Slot /\ fcb[FcbOf(h)].id \in Entry
  BY <1>1, <1>2, <1>3, OpenFileUses
<1>5. openFiles[fd] = [owner |-> t, handle |-> h]
  BY <1>1, <1>2 DEF Types
<1> QED
  BY <1>2, <1>4, <1>5

HandleOf(fd) == openFiles[fd].handle

WriteStart(t, fd, h, loc) ==
  /\ HandleOf(fd) = h /\ Appends(handle[h].mode)
  /\ at' = [at EXCEPT ![t] = loc]
  /\ loc = Idle \/ (loc.pc \in WritingPcs /\ loc.h = h)
  /\ loc.pc \in {"flush", "program"} /\ loc.op = "close" => loc.fd = fd
  /\ loc.pc \in {"allocate", "erase", "link"} => loc.pc = "allocate" /\ handle'[h].pos < MaxSize
  /\ UNCHANGED <<eeprom, flash, fcb, openFiles, root, tableLock, unsynced>>
  /\ TableTypes' /\ LocksMove(t)
  /\ \A i \in Slot : fcbLock'[i] = t <=> loc.pc \in WritingPcs /\ i = FcbOf(h)
  /\ \A g \in Slot : g # h => handle'[g] = handle[g]
  /\ \A g \in Slot : handle'[g].fcb = handle[g].fcb /\ handle'[g].mode = handle[g].mode

LEMMA WriteBegins ==
  ASSUME TablesInv, NEW t \in Thread, Pc(t) = "idle", NEW fd \in Opened(t), NEW h \in Slot,
         NEW loc \in Locals, WriteStart(t, fd, h, loc)
  PROVE  TablesInv'
<1> USE DEF WriteStart
<1>1. /\ Types /\ CallsOwnFiles /\ FilesHaveHandles /\ LocksHeld /\ LocksOf(t)
  BY DEF TablesInv, LocksHeld
<1>2. UNCHANGED <<table, dir, next, data, fcb, openFiles, root, tableLock>>
  BY DEF eeprom, flash
<1>3. /\ fd \in Slot /\ h \in Slot /\ FcbOf(h) \in Slot
      /\ openFiles[fd] = [owner |-> t, handle |-> h]
  BY IdleOwner DEF HandleOf
<1>4. at' \in [Thread -> Locals] /\ at'[t] = loc /\ \A u \in Thread : u # t => at'[u] = at[u]
  BY <1>1, Moves
<1>5. /\ root' \in Thread \cup {Nobody} /\ tableLock' \in Thread \cup {Nobody}
      /\ fcbLock' \in [Slot -> Thread \cup {Nobody}]
  BY <1>1, LocksMoveIs
<1>6. \A u \in Thread : u # t => /\ root' = u <=> root = u
                                 /\ tableLock' = u <=> tableLock = u
                                 /\ \A i \in Slot : fcbLock'[i] = u <=> fcbLock[i] = u
  BY <1>1, LocksMoveIs
<1>7. Types'
  BY <1>1, <1>2, <1>4, <1>5 DEF Types, TableTypes
<1>8. ASSUME NEW d \in Slot, openFiles[d].owner \notin {t, Nobody}, openFiles[d].handle # INVAL
      PROVE  handle'[openFiles[d].handle] = handle[openFiles[d].handle]
  <2>1. openFiles[fd].owner = t /\ openFiles[fd].handle = h
    BY <1>3
  <2>2. ASSUME openFiles[d].handle = h PROVE FALSE
    <3>1. openFiles[d].handle = openFiles[fd].handle
      BY <2>1, <2>2
    <3>2. d = fd
      BY <3>1, <1>1, <1>3, <1>8 DEF FilesHaveHandles, SlotSound
    <3> QED
      BY <3>2, <2>1, <1>8
  <2>3. openFiles[d].handle \in Slot
    BY <1>1, <1>8 DEF Types
  <2> QED
    BY <2>2, <2>3
<1>9. ~Opening(t) /\ ~Counts(Pc(t)) /\ Pc(t) # "close fcb"
  BY DEF Opening, Counts
<1>10. loc = Idle => loc.pc = "idle"
  BY DEF Idle
<1>11. ~Counts(at'[t].pc) /\ SearchOf(t)'
  BY <1>4, <1>10 DEF Counts, WritingPcs, SearchOf, Pc
<1>12. CallOwnsFile(t)'
  <2>1. CASE loc = Idle
    BY <2>1, <1>4, <1>10 DEF CallOwnsFile, Opening, Closing, Writing, Pc
  <2>2. CASE loc.pc \in WritingPcs /\ loc.h = h
    <3>1. ~Opening(t)' /\ Pc(t)' # "close fcb" /\ at'[t].h = h
      BY <2>2, <1>4 DEF WritingPcs, Opening, Pc
    <3>2. Closing(t)' => openFiles'[at'[t].fd] = [owner |-> t, handle |-> at'[t].h]
      BY <2>2, <1>2, <1>3, <1>4 DEF WritingPcs, Closing, Pc
    <3>3. Appends(handle'[at'[t].h].mode)
      <4>1. handle'[at'[t].h].mode = handle[h].mode
        BY <3>1, <1>3
      <4> QED
        BY <4>1
    <3>4. Pc(t)' \in {"allocate", "erase", "link"} => handle'[at'[t].h].pos < MaxSize
      BY <3>1, <1>4 DEF Pc
    <3>5. \E d \in Slot : openFiles'[d] = [owner |-> t, handle |-> at'[t].h]
      BY <3>1, <1>2, <1>3
    <3> QED
      BY <3>1, <3>2, <3>3, <3>4, <3>5 DEF CallOwnsFile
  <2> QED
    BY <2>1, <2>2
<1>13. LocksOf(t)'
  <2>1. root' # t /\ tableLock' # t /\ Pc(t)' \notin {"find fcb", "alloc fcb", "free", "erase", "link"}
    BY <1>1, <1>2, <1>4, <1>10 DEF LocksOf, Pc, WritingPcs
  <2>2. ASSUME NEW i \in Slot PROVE fcbLock'[i] = t <=> (Writing(t) /\ FcbOf(at[t].h) = i)'
    <3>1. FcbOf(at[t].h)' = handle'[at'[t].h].fcb
      BY DEF FcbOf
    <3>2. loc.pc \in WritingPcs => loc.h = h
      BY <1>10 DEF WritingPcs
    <3>3. loc.pc \in WritingPcs => FcbOf(at[t].h)' = FcbOf(h)
      BY <3>1, <3>2, <1>3, <1>4 DEF FcbOf
    <3> QED
      BY <3>3, <1>4 DEF Writing, WritingPcs, Pc
  <2> QED
    BY <2>1, <2>2 DEF LocksOf
<1>14. /\ \A i \in Slot : /\ fcb'[i].id = fcb[i].id /\ fcb'[i].refcount = fcb[i].refcount
                          /\ fcb'[i].writer = fcb[i].writer
                          /\ fcb[i].id = INVAL => fcb'[i] = fcb[i]
       /\ \A e \in Entry : dir'[e].name = NoName <=> dir[e].name = NoName
  BY <1>2
<1> QED
  BY <1>2, <1>4, <1>6, <1>7, <1>8, <1>9, <1>11, <1>12, <1>13, <1>14, Quiet

LEMMA FsWriteInv ==
  ASSUME TablesInv, NEW t \in Thread, fsWrite(t)
  PROVE  TablesInv'
<1>1. Pc(t) = "idle" /\ UNCHANGED <<eeprom, flash, fcb, openFiles, root, tableLock, unsynced>>
  BY DEF fsWrite
<1>2. PICK fd \in Opened(t), h \in Slot :
        LET i == FcbOf(h)
        IN  /\ HandleOf(fd) = h /\ Appends(handle[h].mode) /\ handle[h].pos < MaxSize
            /\ fcbLock[i] = Nobody
            /\ \/ /\ LockFcb(t, i)
                  /\ Goto(t, [pc |-> "allocate", h |-> h])
                  /\ UNCHANGED <<handle, length>>
               \/ /\ handle' = [handle EXCEPT ![h].pos = @ + 1]
                  /\ AppendUnit(t, h, [fcbLock EXCEPT ![i] = t])
  <2>1. \A fd \in Opened(t) : openFiles[fd].handle \in Slot
    BY <1>1, IdleOwner
  <2> QED
    BY <2>1 DEF fsWrite, HandleOf
<1> DEFINE i == FcbOf(h)
<1>3. /\ Types /\ LocksOf(t) /\ h \in Slot /\ i \in Slot /\ fcb[i].id \in Entry /\ t # Nobody
  BY <1>1, <1>2, IdleOwner, OtherConstants DEF TablesInv, LocksHeld, HandleOf
<1>4. /\ \A j \in Slot : fcbLock[j] # t
      /\ fcbLock \in [Slot -> Thread \cup {Nobody}] /\ TableTypes
      /\ handle[h].pos < MaxSize /\ handle[h].pos \in 0..MaxSize
  BY <1>1, <1>2, <1>3, TypesAgain DEF LocksOf, Writing, Types
<1>5. CASE /\ LockFcb(t, i)
           /\ Goto(t, [pc |-> "allocate", h |-> h])
           /\ UNCHANGED <<handle, length>>
  <2> DEFINE loc == [pc |-> "allocate", h |-> h]
  <2>1. loc \in Locals /\ loc.pc = "allocate" /\ loc.h = h
    <3>1. loc \in AllocateLocals /\ loc.pc = "allocate" /\ loc.h = h
      BY <1>3 DEF AllocateLocals
    <3> HIDE DEF loc
    <3> QED
      BY <3>1 DEF Locals
  <2>2. at' = [at EXCEPT ![t] = loc] /\ fcbLock' = [fcbLock EXCEPT ![i] = t] /\ fcbLock[i] = Nobody
    BY <1>5 DEF Goto, LockFcb
  <2> HIDE DEF loc, i
  <2>3. UNCHANGED <<handle, length, dir, fcb, unsynced, root, tableLock>>
    BY <1>1, <1>5 DEF eeprom
  <2>4. TableTypes'
    BY <2>3, <1>4 DEF TableTypes
  <2>5. LocksMove(t)
    BY <2>2, <2>3, <1>3, <1>4 DEF LocksMove
  <2>6. \A j \in Slot : fcbLock'[j] = t <=> loc.pc \in WritingPcs /\ j = FcbOf(h)
    BY <2>1, <2>2, <1>3, <1>4 DEF WritingPcs, i
  <2>7. loc.pc \in WritingPcs /\ loc.pc \notin {"flush", "program"}
    BY <2>1 DEF WritingPcs
  <2>8. /\ \A g \in Slot : g # h => handle'[g] = handle[g]
        /\ \A g \in Slot : handle'[g].fcb = handle[g].fcb /\ handle'[g].mode = handle[g].mode
        /\ handle'[h].pos < MaxSize
    BY <2>3, <1>4
  <2>9. Appends(handle[h].mode)
    BY <1>2
  <2>10. WriteStart(t, fd, h, loc)
    BY <2>1, <2>2, <2>4, <2>5, <2>6, <2>7, <2>8, <2>9, <1>1, <1>2 DEF WriteStart
  <2> QED
    BY <2>1, <2>10, <1>1, WriteBegins
<1>6. CASE /\ handle' = [handle EXCEPT ![h].pos = @ + 1]
           /\ AppendUnit(t, h, [fcbLock EXCEPT ![i] = t])
  <2> DEFINE lock == [fcbLock EXCEPT ![i] = t]
  <2>1. fcbLock[i] = Nobody /\ Appends(handle[h].mode)
    BY <1>2
  <2>2. AppendUnit(t, h, lock)
    BY <1>6
  <2>3. length' \in [Entry -> 0..MaxSize]
    BY <2>2, <1>3, <1>4, AppendUnitIs
  <2> HIDE DEF lock
  <2>4. PICK loc \in Locals :
          /\ at' = [at EXCEPT ![t] = loc]
          /\ \/ loc = Idle /\ fcbLock' = [lock EXCEPT ![FcbOf(h)] = Nobody]
             \/ /\ loc.pc = "flush" /\ loc.op = "write" /\ loc.h = h /\ fcbLock' = lock
                /\ loc # Idle
    BY <2>2, <1>3, <1>4, AppendUnitIs
  <2>5. /\ handle' \in [Slot -> [fcb : Slot \cup {INVAL}, mode : Mode \cup {"read"},
                                 pos : 0..MaxSize, curr : Block \cup {INVAL, NoBlock}]]
        /\ \A g \in Slot : g # h => handle'[g] = handle[g]
        /\ \A g \in Slot : handle'[g].fcb = handle[g].fcb /\ handle'[g].mode = handle[g].mode
    <3> DEFINE H == [fcb : Slot \cup {INVAL}, mode : Mode \cup {"read"}, pos : 0..MaxSize,
                     curr : Block \cup {INVAL, NoBlock}]
    <3> DEFINE new == [handle[h] EXCEPT !.pos = handle[h].pos + 1]
    <3>1. handle \in [Slot -> H] /\ handle[h] \in H /\ handle[h].pos + 1 \in 0..MaxSize
      BY <1>3, <1>4, Constants DEF Types
    <3>2. new \in H /\ new.fcb = handle[h].fcb /\ new.mode = handle[h].mode
      BY <3>1
    <3>3. handle' = [handle EXCEPT ![h] = new]
      BY <1>3, <1>6, <3>1
    <3> HIDE DEF H, new
    <3>4. handle' \in [Slot -> H] /\ handle'[h] = new /\ \A g \in Slot : g # h => handle'[g] = handle[g]
      BY <3>1, <3>2, <3>3, <1>3
    <3> QED
      BY <3>2, <3>4 DEF H
  <2>6. UNCHANGED <<dir, fcb, unsynced, root, tableLock>>
    BY <1>1 DEF eeprom
  <2>7. TableTypes'
    BY <2>3, <2>5, <2>6, <1>4 DEF TableTypes
  <2>8. /\ LocksMove(t)
        /\ \A j \in Slot : fcbLock'[j] = t <=> loc.pc \in WritingPcs /\ j = FcbOf(h)
    <3>1. FcbOf(h) = i
      OBVIOUS
    <3>2. lock \in [Slot -> Thread \cup {Nobody}] /\ lock[i] = t /\ \A j \in Slot : j # i => lock[j] = fcbLock[j]
      BY <1>3, <1>4 DEF lock
    <3> HIDE DEF i
    <3>3. CASE loc = Idle
      <4>1. fcbLock' = [lock EXCEPT ![i] = Nobody]
        BY <2>4, <3>1, <3>3
      <4>2. /\ fcbLock' \in [Slot -> Thread \cup {Nobody}] /\ fcbLock'[i] = Nobody
            /\ \A j \in Slot : j # i => fcbLock'[j] = fcbLock[j]
        BY <4>1, <3>2, <1>3
      <4>3. loc.pc \notin WritingPcs
        BY <3>3, IdleIsLocal
      <4> QED
        BY <4>2, <4>3, <2>1, <2>6, <1>3, <1>4 DEF LocksMove
    <3>4. CASE loc # Idle
      <4>1. fcbLock' = lock /\ loc.pc \in WritingPcs
        BY <2>4, <3>4 DEF WritingPcs
      <4> QED
        BY <4>1, <3>1, <3>2, <2>1, <2>6, <1>3, <1>4 DEF LocksMove
    <3> QED
      BY <3>3, <3>4
  <2>9. loc = Idle \/ (loc.pc \in WritingPcs /\ loc.h = h)
    BY <2>4 DEF WritingPcs
  <2>10. loc.pc \notin {"allocate", "erase", "link"} /\ ~(loc.pc \in {"flush", "program"} /\ loc.op = "close")
    BY <2>4, IdleIsLocal DEF WritingPcs
  <2>11. WriteStart(t, fd, h, loc)
    <3> HIDE DEF i
    <3> QED
      BY <2>1, <2>4, <2>5, <2>7, <2>8, <2>9, <2>10, <1>1, <1>2 DEF WriteStart
  <2> QED
    BY <2>11, <1>1, WriteBegins
<1> QED
  BY <1>2, <1>5, <1>6

LEMMA FsFlushInv ==
  ASSUME TablesInv, NEW t \in Thread, fsFlush(t)
  PROVE  TablesInv'
<1>1. Pc(t) = "idle" /\ UNCHANGED <<eeprom, flash, fcb, handle, openFiles, root, tableLock, history>>
  BY DEF fsFlush, ram
<1>2. PICK fd \in Opened(t), h \in Slot, op \in {"sync", "close"} :
        /\ HandleOf(fd) = h /\ Appends(handle[h].mode) /\ LockFcb(t, FcbOf(h))
        /\ Goto(t, [pc |-> "flush", op |-> op, h |-> h, fd |-> fd])
  <2>1. \A fd \in Opened(t) : openFiles[fd].handle \in Slot
    BY <1>1, IdleOwner
  <2> QED
    BY <2>1 DEF fsFlush, HandleOf
<1> DEFINE loc == [pc |-> "flush", op |-> op, h |-> h, fd |-> fd]
<1>3. /\ Types /\ LocksOf(t) /\ fd \in Slot /\ h \in Slot /\ FcbOf(h) \in Slot /\ t # Nobody
  BY <1>1, <1>2, IdleOwner, OtherConstants DEF TablesInv, LocksHeld, HandleOf
<1>4. /\ \A j \in Slot : fcbLock[j] # t
      /\ fcbLock \in [Slot -> Thread \cup {Nobody}] /\ TableTypes
  BY <1>1, <1>3, TypesAgain DEF LocksOf, Writing, Types
<1>5. loc \in Locals /\ loc.pc = "flush" /\ loc.h = h /\ loc.fd = fd
  <2>1. loc \in FlushLocals /\ loc.pc = "flush" /\ loc.h = h /\ loc.fd = fd
    BY <1>3 DEF FlushLocals
  <2> HIDE DEF loc
  <2> QED
    BY <2>1 DEF Locals
<1>6. /\ at' = [at EXCEPT ![t] = loc] /\ fcbLock' = [fcbLock EXCEPT ![FcbOf(h)] = t]
      /\ fcbLock[FcbOf(h)] = Nobody /\ Appends(handle[h].mode)
  BY <1>2 DEF Goto, LockFcb
<1> HIDE DEF loc
<1>7. TableTypes'
  BY <1>1, <1>4 DEF TableTypes, eeprom, history
<1>8. LocksMove(t)
  BY <1>1, <1>3, <1>4, <1>6 DEF LocksMove
<1>9. loc.pc \in WritingPcs /\ loc.pc \notin {"allocate", "erase", "link"}
  BY <1>5 DEF WritingPcs
<1>10. \A j \in Slot : fcbLock'[j] = t <=> loc.pc \in WritingPcs /\ j = FcbOf(h)
  BY <1>3, <1>4, <1>6, <1>9
<1>11. /\ \A g \in Slot : g # h => handle'[g] = handle[g]
       /\ \A g \in Slot : handle'[g].fcb = handle[g].fcb /\ handle'[g].mode = handle[g].mode
       /\ UNCHANGED unsynced
  BY <1>1 DEF history
<1>12. WriteStart(t, fd, h, loc)
  BY <1>1, <1>2, <1>5, <1>6, <1>7, <1>8, <1>9, <1>10, <1>11 DEF WriteStart
<1> QED
  BY <1>1, <1>5, <1>12, WriteBegins

LEMMA FsCloseReaderInv ==
  ASSUME TablesInv, NEW t \in Thread, fsCloseReader(t)
  PROVE  TablesInv'
<1>1. Pc(t) = "idle" /\ UNCHANGED <<eeprom, flash, ram, locks, history>>
  BY DEF fsCloseReader
<1>2. PICK fd \in Opened(t), h \in Slot :
        /\ HandleOf(fd) = h
        /\ Goto(t, [pc |-> "close fcb", fd |-> fd, i |-> FcbOf(h), h |-> h])
  <2>1. \A fd \in Opened(t) : openFiles[fd].handle \in Slot
    BY <1>1, IdleOwner
  <2> QED
    BY <2>1 DEF fsCloseReader, HandleOf
<1> DEFINE loc == [pc |-> "close fcb", fd |-> fd, i |-> FcbOf(h), h |-> h]
<1>3. /\ Types /\ LocksOf(t) /\ fd \in Slot /\ FcbOf(h) \in Slot
      /\ openFiles[fd] = [owner |-> t, handle |-> h]
  BY <1>1, <1>2, IdleOwner DEF TablesInv, LocksHeld, HandleOf
<1>4. loc \in Locals /\ loc.pc = "close fcb" /\ loc.h = h /\ loc.fd = fd /\ loc.i = FcbOf(h)
  <2>1. /\ loc \in CloseLocals /\ loc.pc = "close fcb" /\ loc.h = h /\ loc.fd = fd
        /\ loc.i = FcbOf(h)
    BY <1>3 DEF CloseLocals
  <2> HIDE DEF loc
  <2> QED
    BY <2>1 DEF Locals
<1>5. at' = [at EXCEPT ![t] = loc]
  BY <1>2 DEF Goto
<1> HIDE DEF loc
<1>6. at'[t] = loc
  BY <1>3, <1>4, <1>5, Moves
<1>7. UNCHANGED <<table, next, data, dir, fcb, handle, openFiles, root, tableLock, fcbLock>>
  BY <1>1 DEF eeprom, flash, ram, locks
<1>8. SearchOf(t)' /\ ~Counts(Pc(t)) /\ ~Counts(loc.pc) /\ Pc(t) # "close fcb" /\ ~Opening(t)
  BY <1>1, <1>4, <1>6 DEF SearchOf, Counts, Opening, Pc
<1>9. CallOwnsFile(t)'
  BY <1>3, <1>4, <1>6, <1>7 DEF CallOwnsFile, Opening, Closing, Writing, Pc, FcbOf
<1>10. LocksOf(t)' /\ LocksMove(t)
  BY <1>1, <1>3, <1>4, <1>6, <1>7, TypesAgain DEF LocksOf, LocksMove, Writing, Pc
<1>11. /\ table' \in [Block -> {FREE, USED, AVAIL}]
       /\ next' \in [Block -> Block \cup {INVAL, NoBlock}]
       /\ data' \in [Block -> [Cell -> (Entry \X (0..MaxSize)) \cup {Blank, Junk}]]
  BY <1>3, <1>7 DEF Types
<1>12. UNCHANGED <<dir, ram, history>>
  BY <1>1, <1>7
<1> QED
  BY <1>4, <1>5, <1>8, <1>9, <1>10, <1>11, <1>12, Aside

LEMMA RemoveRefusedInv ==
  ASSUME TablesInv, NEW t \in Thread, RemoveRefused(t)
  PROVE  TablesInv'
<1>1. /\ Pc(t) = "find fcb" /\ at[t].op = "remove" /\ root' = Nobody
      /\ at' = [at EXCEPT ![t] = Idle]
      /\ UNCHANGED <<table, next, data, dir, ram, fcb, handle, openFiles, tableLock, fcbLock, history>>
  BY DEF RemoveRefused, Return, Goto, eeprom, flash, ram
<1>2. Types /\ LocksOf(t) /\ t # Nobody
  BY OtherConstants DEF TablesInv, LocksHeld
<1>3. at'[t] = Idle
  BY <1>1, <1>2, IdleIsLocal, Moves
<1>4. /\ SearchOf(t)' /\ ~Counts(Pc(t)) /\ ~Counts(Idle.pc) /\ Pc(t) # "close fcb" /\ ~Opening(t)
      /\ CallOwnsFile(t)'
  BY <1>1, <1>3, IdleIsLocal DEF SearchOf, Counts, Opening, Closing, Writing, CallOwnsFile, Pc
<1>5. LocksOf(t)' /\ LocksMove(t)
  BY <1>1, <1>2, <1>3, IdleIsLocal, TypesAgain DEF LocksOf, LocksMove, Writing, Pc
<1>6. /\ table' \in [Block -> {FREE, USED, AVAIL}]
      /\ next' \in [Block -> Block \cup {INVAL, NoBlock}]
      /\ data' \in [Block -> [Cell -> (Entry \X (0..MaxSize)) \cup {Blank, Junk}]]
  BY <1>1, <1>2 DEF Types
<1> QED
  BY <1>1, <1>4, <1>5, <1>6, IdleIsLocal, Aside

LEMMA BlockFreeInv ==
  ASSUME TablesInv, NEW t \in Thread, BlockFree(t)
  PROVE  TablesInv'
<1> DEFINE l == at[t]
<1> DEFINE left == IF l.left > BlockData THEN l.left - BlockData ELSE 0
<1> DEFINE loc == [l EXCEPT !.b = fsBlockGetNext(l.b), !.left = left]
<1>1. /\ Types /\ LocksOf(t) /\ SearchOf(t)
  BY DEF TablesInv, LocksHeld, OneFcbEach
<1>2. l.pc = "free" /\ l \in FreeLocals
  <2>1. l.pc = "free"
    BY DEF BlockFree, Pc
  <2>2. l \in Locals
    BY <1>1 DEF Types
  <2> QED
    BY <2>1, <2>2, LocalsAre
<1>3. /\ at' = [at EXCEPT ![t] = loc]
      /\ table' = IF l.b \in Block THEN [table EXCEPT ![l.b] = AVAIL] ELSE table
      /\ UNCHANGED <<next, data, dir, ram, fcb, handle, openFiles, root, tableLock, fcbLock, history>>
  BY <1>2 DEF BlockFree, Goto, flash, ram, locks, FreeLocals
<1>4. loc \in Locals /\ loc.pc = "free" /\ loc.id = l.id
  <2>1. fsBlockGetNext(l.b) \in Block \cup {INVAL, NoBlock}
    BY <1>1 DEF fsBlockGetNext, Types
  <2>2. left \in 0..MaxSize
    <3>1. l.left \in 0..MaxSize
      BY <1>2 DEF FreeLocals
    <3> QED
      BY <3>1, Constants
  <2> HIDE DEF left
  <2>3. loc \in FreeLocals /\ loc.id = l.id /\ loc.pc = "free"
    BY <1>2, <2>1, <2>2 DEF FreeLocals
  <2> QED
    BY <2>3 DEF Locals
<1> HIDE DEF loc
<1>5. at'[t] = loc
  BY <1>1, <1>3, <1>4, Moves
<1>6. SearchOf(t)'
  BY <1>1, <1>2, <1>3, <1>4, <1>5 DEF SearchOf, Pc
<1>7. /\ ~Counts(Pc(t)) /\ ~Counts(loc.pc) /\ Pc(t) # "close fcb" /\ ~Opening(t)
      /\ CallOwnsFile(t)'
  BY <1>2, <1>4, <1>5 DEF Counts, Opening, Closing, Writing, CallOwnsFile, Pc
<1>8. LocksOf(t)' /\ LocksMove(t)
  BY <1>1, <1>2, <1>3, <1>4, <1>5, TypesAgain DEF LocksOf, LocksMove, Writing, Pc
<1>9. /\ table' \in [Block -> {FREE, USED, AVAIL}]
      /\ next' \in [Block -> Block \cup {INVAL, NoBlock}]
      /\ data' \in [Block -> [Cell -> (Entry \X (0..MaxSize)) \cup {Blank, Junk}]]
  BY <1>1, <1>3 DEF Types
<1> QED
  BY <1>3, <1>4, <1>6, <1>7, <1>8, <1>9, Aside

LEMMA FsRemoveInv ==
  ASSUME TablesInv, NEW t \in Thread, fsRemove(t)
  PROVE  TablesInv'
<1>1. /\ Pc(t) = "idle" /\ root = Nobody /\ root' = t
      /\ UNCHANGED <<table, next, data, dir, ram, fcb, handle, openFiles, tableLock, fcbLock, history>>
  BY DEF fsRemove, eeprom, flash, ram
<1>2. PICK e \in Entry : /\ dir[e].name # NoName
                         /\ at' = [at EXCEPT ![t] = [pc |-> "find fcb", op |-> "remove", id |-> e, i |-> 0]]
  BY DEF fsRemove, Named, Goto
<1> DEFINE loc == [pc |-> "find fcb", op |-> "remove", id |-> e, i |-> 0]
<1>3. Types /\ LocksOf(t)
  BY DEF TablesInv, LocksHeld
<1>4. loc \in Locals /\ loc.pc = "find fcb" /\ loc.op = "remove" /\ loc.id = e /\ loc.i = 0
  <2>1. /\ loc \in RemoveLocals /\ loc.pc = "find fcb" /\ loc.op = "remove" /\ loc.id = e
        /\ loc.i = 0
    BY Slots DEF RemoveLocals
  <2> HIDE DEF loc
  <2> QED
    BY <2>1 DEF Locals
<1>5. at' = [at EXCEPT ![t] = loc]
  BY <1>2
<1> HIDE DEF loc
<1>6. at'[t] = loc
  BY <1>3, <1>4, <1>5, Moves
<1>7. SearchOf(t)'
  <2>1. \A j \in Slot : ~(j < 0)
    BY Constants DEF Slot
  <2> QED
    BY <2>1, <1>1, <1>2, <1>4, <1>6 DEF SearchOf, Pc
<1>8. /\ ~Counts(Pc(t)) /\ ~Counts(loc.pc) /\ Pc(t) # "close fcb" /\ ~Opening(t)
      /\ CallOwnsFile(t)'
  BY <1>1, <1>4, <1>6 DEF Counts, Opening, Closing, Writing, CallOwnsFile, Pc
<1>9. LocksOf(t)' /\ LocksMove(t)
  BY <1>1, <1>3, <1>4, <1>6, TypesAgain DEF LocksOf, LocksMove, Writing, Pc
<1>10. /\ table' \in [Block -> {FREE, USED, AVAIL}]
       /\ next' \in [Block -> Block \cup {INVAL, NoBlock}]
       /\ data' \in [Block -> [Cell -> (Entry \X (0..MaxSize)) \cup {Blank, Junk}]]
  BY <1>1, <1>3 DEF Types
<1> QED
  BY <1>1, <1>4, <1>5, <1>7, <1>8, <1>9, <1>10, Aside

LEMMA FsRenameInv ==
  ASSUME TablesInv, NEW t \in Thread, fsRename(t)
  PROVE  TablesInv'
<1>1. /\ Pc(t) = "idle" /\ at' = at
      /\ UNCHANGED <<table, next, data, fcb, handle, openFiles, root, tableLock, fcbLock,
                     unsynced, length>>
  BY DEF fsRename, flash, ram, locks, history
<1>2. PICK e \in Entry, n \in Name : dir[e].name # NoName /\ dir' = [dir EXCEPT ![e].name = n]
  BY DEF fsRename, Named
<1>3. Types /\ LocksOf(t)
  BY DEF TablesInv, LocksHeld
<1>4. /\ dir' \in [Entry -> [name : Name \cup {NoName}, first : Block \cup {INVAL},
                             size : 0..MaxSize]]
      /\ \A d \in Entry : dir'[d].name = NoName <=> dir[d].name = NoName
  <2> DEFINE D == [name : Name \cup {NoName}, first : Block \cup {INVAL}, size : 0..MaxSize]
  <2> DEFINE new == [dir[e] EXCEPT !.name = n]
  <2>1. dir \in [Entry -> D] /\ dir[e] \in D
    BY <1>3 DEF Types
  <2>2. new \in D /\ new.name # NoName
    BY <2>1, OtherConstants
  <2>3. dir' = [dir EXCEPT ![e] = new]
    BY <1>2, <2>1
  <2> HIDE DEF D, new
  <2>4. dir' \in [Entry -> D] /\ dir'[e] = new /\ \A d \in Entry : d # e => dir'[d] = dir[d]
    BY <2>1, <2>2, <2>3
  <2> QED
    BY <2>2, <2>4, <1>2 DEF D
<1>5. Types'
  BY <1>1, <1>3, <1>4 DEF Types
<1>6. /\ \A h \in Slot : handle'[h].fcb = handle[h].fcb /\ handle'[h].mode = handle[h].mode
      /\ \A fd \in Slot : openFiles[fd].owner \notin {t, Nobody} /\ openFiles[fd].handle # INVAL =>
           handle'[openFiles[fd].handle] = handle[openFiles[fd].handle]
      /\ \A i \in Slot : /\ fcb'[i].id = fcb[i].id /\ fcb'[i].refcount = fcb[i].refcount
                         /\ fcb'[i].writer = fcb[i].writer
                         /\ fcb[i].id = INVAL => fcb'[i] = fcb[i]
      /\ \A u \in Thread : u # t => /\ root' = u <=> root = u
                                    /\ tableLock' = u <=> tableLock = u
                                    /\ \A i \in Slot : fcbLock'[i] = u <=> fcbLock[i] = u
  BY <1>1
<1>7. ~Counts(Pc(t)) /\ ~Counts(at'[t].pc) /\ Pc(t) # "close fcb" /\ ~Opening(t)
  BY <1>1 DEF Counts, Opening, Pc
<1>8. SearchOf(t)' /\ CallOwnsFile(t)'
  BY <1>1 DEF SearchOf, CallOwnsFile, Opening, Closing, Writing, Pc
<1>9. LocksOf(t)'
  BY <1>1, <1>3 DEF LocksOf, Writing, FcbOf, Pc
<1> QED
  BY <1>1, <1>4, <1>5, <1>6, <1>7, <1>8, <1>9, Quiet

LEMMA DelEntryInv ==
  ASSUME TablesInv, NEW t \in Thread, DelEntry(t)
  PROVE  TablesInv'
<1>1. /\ Pc(t) = "free" /\ at' = [at EXCEPT ![t] = Idle] /\ root' = Nobody
      /\ dir' = [dir EXCEPT ![at[t].id].name = NoName]
      /\ UNCHANGED <<table, next, data, fcb, handle, openFiles, tableLock, fcbLock,
                     unsynced, length>>
  BY DEF DelEntry, Return, Goto, flash, ram, history
<1>2. Types /\ LocksHeld /\ LocksOf(t) /\ OneFcbEach /\ SearchOf(t) /\ t # Nobody
  BY OtherConstants DEF TablesInv, LocksHeld, OneFcbEach
<1>3. at' \in [Thread -> Locals] /\ at'[t] = Idle /\ \A u \in Thread : u # t => at'[u] = at[u]
  BY <1>1, <1>2, IdleIsLocal, Moves
<1>4. root = t
  BY <1>1, <1>2 DEF LocksOf
<1>5. at[t].id \in Entry
  BY <1>1, <1>2, LocalsAre DEF Types, Pc, FreeLocals
<1>6. /\ dir' \in [Entry -> [name : Name \cup {NoName}, first : Block \cup {INVAL},
                             size : 0..MaxSize]]
      /\ \A e \in Entry : e # at[t].id => dir'[e] = dir[e]
  <2> DEFINE D == [name : Name \cup {NoName}, first : Block \cup {INVAL}, size : 0..MaxSize]
  <2> DEFINE new == [dir[at[t].id] EXCEPT !.name = NoName]
  <2>1. dir \in [Entry -> D] /\ dir[at[t].id] \in D
    BY <1>2, <1>5 DEF Types
  <2>2. new \in D
    BY <2>1
  <2>3. dir' = [dir EXCEPT ![at[t].id] = new]
    BY <1>1, <1>5, <2>1
  <2> HIDE DEF D, new
  <2>4. dir' \in [Entry -> D] /\ \A e \in Entry : e # at[t].id => dir'[e] = dir[e]
    BY <2>1, <2>2, <2>3
  <2> QED
    BY <2>4 DEF D
<1>7. LocksMove(t) /\ LocksOf(t)'
  BY <1>1, <1>2, <1>3, <1>4, IdleIsLocal, TypesAgain DEF LocksMove, LocksOf, Writing, Pc
<1>8. \A u \in Thread : u # t => /\ root' = u <=> root = u
                                 /\ tableLock' = u <=> tableLock = u
                                 /\ \A i \in Slot : fcbLock'[i] = u <=> fcbLock[i] = u
  BY <1>2, <1>7, LocksMoveIs
<1>9. Types'
  BY <1>1, <1>2, <1>3, <1>6 DEF Types
<1>10. OneFcbEach'
  <2>1. FcbsDiffer'
    BY <1>1, <1>2 DEF OneFcbEach, FcbsDiffer
  <2>2. FcbsNamed'
    <3>1. \A i \in Slot : fcb[i].id # at[t].id /\ fcb[i].id \in Entry \cup {INVAL}
      BY <1>1, <1>2 DEF SearchOf, Types
    <3> QED
      BY <3>1, <1>1, <1>2, <1>6 DEF OneFcbEach, FcbsNamed
  <2>3. ASSUME NEW u \in Thread PROVE SearchOf(u)'
    <3>1. Pc(u)' \notin {"find fcb", "alloc fcb", "free"}
      <4>1. CASE u = t
        BY <4>1, <1>3, IdleIsLocal DEF Pc
      <4>2. CASE u # t
        <5>1. Pc(u) \notin {"find fcb", "alloc fcb", "free"}
          BY <4>2, <1>2, <1>4 DEF LocksHeld, LocksOf
        <5> QED
          BY <5>1, <4>2, <1>3 DEF Pc
      <4> QED
        BY <4>1, <4>2
    <3> QED
      BY <3>1 DEF SearchOf
  <2> QED
    BY <2>1, <2>2, <2>3 DEF OneFcbEach
<1>11. /\ ~Counts(Pc(t)) /\ ~Counts(at'[t].pc) /\ Pc(t) # "close fcb" /\ ~Opening(t)
       /\ CallOwnsFile(t)'
  BY <1>1, <1>3, IdleIsLocal DEF Counts, Opening, Closing, Writing, CallOwnsFile, Pc
<1>12. /\ \A h \in Slot : handle'[h].fcb = handle[h].fcb /\ handle'[h].mode = handle[h].mode
       /\ \A fd \in Slot : openFiles[fd].owner \notin {t, Nobody} /\ openFiles[fd].handle # INVAL =>
            handle'[openFiles[fd].handle] = handle[openFiles[fd].handle]
       /\ \A i \in Slot : /\ fcb'[i].id = fcb[i].id /\ fcb'[i].refcount = fcb[i].refcount
                          /\ fcb'[i].writer = fcb[i].writer
                          /\ fcb[i].id = INVAL => fcb'[i] = fcb[i]
  BY <1>1
<1> QED
  BY <1>1, <1>3, <1>7, <1>8, <1>9, <1>10, <1>11, <1>12, QuietTables
------------------------------------------------------------------------------
(* The end of a flush.  A close gives the file up to other writers.        *)
LEMMA FlushDoneReturns ==
  ASSUME TablesInv, NEW t \in Thread, FlushDone(t), at[t].op # "close"
  PROVE  TablesInv'
<1> DEFINE f == fcb[FcbOf(at[t].h)]
<1>1. /\ Pc(t) = "flush" /\ at' = [at EXCEPT ![t] = Idle]
      /\ fcbLock' = [i \in Slot |-> IF fcbLock[i] = t THEN Nobody ELSE fcbLock[i]]
      /\ fsBlockSyncEntry(f) \/ UNCHANGED <<dir, unsynced>>
      /\ UNCHANGED <<table, next, data, fcb, handle, openFiles, root, tableLock, length>>
  BY DEF FlushDone, UnlockFcb, Return, Goto, flash
<1>2. Writing(t)
  BY <1>1 DEF Writing
<1>3. /\ Types /\ f.id \in Entry /\ f.first \in Block \cup {INVAL} /\ f.size \in 0..MaxSize
      /\ tableLock # t
  BY <1>1, <1>2, WritingCall
<1>4. /\ dir' \in [Entry -> [name : Name \cup {NoName}, first : Block \cup {INVAL},
                             size : 0..MaxSize]]
      /\ unsynced' \in SUBSET Entry /\ \A e \in Entry : dir'[e].name = dir[e].name
  <2>1. CASE fsBlockSyncEntry(f)
    BY <2>1, <1>3, SyncEntryIs
  <2>2. CASE UNCHANGED <<dir, unsynced>>
    BY <2>2, <1>3 DEF Types
  <2> QED
    BY <2>1, <2>2, <1>1
<1> HIDE DEF f
<1>5. FlashTypes' /\ TableTypes'
  BY <1>1, <1>3, <1>4, TypesAgain DEF FlashTypes, TableTypes
<1>6. t # Nobody
  BY OtherConstants
<1>7. LocksMove(t)
  BY <1>1, <1>3, TypesAgain DEF LocksMove
<1>8. \A i \in Slot : fcbLock'[i] = t <=> Idle.pc \in WritingPcs /\ fcbLock[i] = t
  BY <1>1, <1>6, IdleIsLocal
<1>9. tableLock' = t <=> Idle.pc \in {"erase", "link"}
  BY <1>1, <1>3, IdleIsLocal
<1>10. /\ \A h \in Slot : h # at[t].h => handle'[h] = handle[h]
       /\ \A h \in Slot : handle'[h].fcb = handle[h].fcb /\ handle'[h].mode = handle[h].mode
       /\ \A i \in Slot : /\ fcb'[i].id = fcb[i].id /\ fcb'[i].refcount = fcb[i].refcount
                          /\ fcb'[i].writer = fcb[i].writer
                          /\ fcb[i].id = INVAL => fcb'[i] = fcb[i]
  BY <1>1
<1>11. Idle.pc \notin {"flush", "program", "allocate", "erase", "link"}
  BY IdleIsLocal
<1> QED
  BY <1>1, <1>2, <1>4, <1>5, <1>7, <1>8, <1>9, <1>10, <1>11, IdleIsLocal, WritingStep

LEMMA FlushDoneCloses ==
  ASSUME TablesInv, NEW t \in Thread, FlushDone(t), at[t].op = "close"
  PROVE  TablesInv'
<1> DEFINE h == at[t].h
<1> DEFINE fd == at[t].fd
<1> DEFINE i == FcbOf(h)
<1> DEFINE loc == [pc |-> "close fcb", fd |-> fd, i |-> i, h |-> h]
<1>1. /\ Pc(t) = "flush" /\ at' = [at EXCEPT ![t] = loc]
      /\ fcb' = [fcb EXCEPT ![i].writer = FALSE]
      /\ fcbLock' = [j \in Slot |-> IF fcbLock[j] = t THEN Nobody ELSE fcbLock[j]]
      /\ UNCHANGED <<table, dir, next, data, handle, openFiles, root, tableLock, unsynced, length>>
  BY DEF FlushDone, UnlockFcb, Goto, flash
<1>2. Writing(t) /\ Closing(t)
  BY <1>1 DEF Writing, Closing
<1>3. /\ Types /\ CallsOwnFiles /\ FilesHaveHandles /\ LocksHeld
      /\ Counted /\ WritersAlone /\ OneFcbEach /\ CallOwnsFile(t) /\ LocksOf(t) /\ t # Nobody
  BY OtherConstants DEF TablesInv, CallsOwnFiles, LocksHeld
<1>4. /\ h \in Slot /\ i \in Slot /\ fcb[i].id \in Entry /\ fd \in Slot /\ tableLock # t
      /\ \A j \in Slot : fcbLock[j] = t <=> j = i
  BY <1>1, <1>2, <1>3, WritingCall, CallTypes
<1>5. loc \in Locals /\ loc.pc = "close fcb" /\ loc.fd = fd /\ loc.i = i /\ loc.h = h
  <2>1. loc \in CloseLocals /\ loc.pc = "close fcb" /\ loc.fd = fd /\ loc.i = i /\ loc.h = h
    BY <1>4 DEF CloseLocals
  <2> HIDE DEF loc
  <2> QED
    BY <2>1 DEF Locals
<1> HIDE DEF loc
<1>6. at' \in [Thread -> Locals] /\ at'[t] = loc /\ \A u \in Thread : u # t => at'[u] = at[u]
  BY <1>1, <1>3, <1>5, Moves
<1>7. /\ fcb' \in [Slot -> [id : Entry \cup {INVAL}, refcount : Nat, writer : BOOLEAN,
                            first : Block \cup {INVAL}, size : 0..MaxSize]]
      /\ \A j \in Slot : /\ fcb'[j].id = fcb[j].id /\ fcb'[j].refcount = fcb[j].refcount
                         /\ j # i => fcb'[j] = fcb[j]
                         /\ fcb[j].id = INVAL => fcb'[j] = fcb[j]
  <2> DEFINE F == [id : Entry \cup {INVAL}, refcount : Nat, writer : BOOLEAN,
                   first : Block \cup {INVAL}, size : 0..MaxSize]
  <2> DEFINE new == [fcb[i] EXCEPT !.writer = FALSE]
  <2>1. fcb[i].id # INVAL /\ fcb \in [Slot -> F] /\ fcb[i] \in F
    BY <1>3, <1>4, NotInval DEF Types
  <2>2. new \in F /\ new.id = fcb[i].id /\ new.refcount = fcb[i].refcount
    BY <2>1
  <2>3. fcb' = [fcb EXCEPT ![i] = new]
    BY <1>1, <1>4, <2>1
  <2> HIDE DEF F, new, i
  <2>4. fcb' \in [Slot -> F] /\ fcb'[i] = new /\ \A j \in Slot : j # i => fcb'[j] = fcb[j]
    BY <2>1, <2>2, <2>3, <1>4
  <2> QED
    BY <2>1, <2>2, <2>4 DEF F
<1>8. LocksMove(t)
  BY <1>1, <1>3, TypesAgain DEF LocksMove
<1>9. /\ fcbLock' \in [Slot -> Thread \cup {Nobody}]
      /\ \A u \in Thread : u # t => /\ root' = u <=> root = u
                                    /\ tableLock' = u <=> tableLock = u
                                    /\ \A j \in Slot : fcbLock'[j] = u <=> fcbLock[j] = u
  BY <1>3, <1>8, LocksMoveIs
<1>10. Types'
  BY <1>1, <1>3, <1>6, <1>7, <1>9 DEF Types
<1>11. CallsOwnFiles'
  <2>1. CallOwnsFile(t)'
    <3>1. /\ ~Opening(t)' /\ ~Writing(t)' /\ Pc(t)' = "close fcb"
          /\ at'[t].fd = fd /\ at'[t].h = h /\ at'[t].i = i
      BY <1>5, <1>6 DEF Opening, Writing, Pc
    <3>2. openFiles'[at'[t].fd] = [owner |-> t, handle |-> at'[t].h]
      BY <3>1, <1>1, <1>2, <1>3 DEF CallOwnsFile
    <3>3. FcbOf(at[t].h)' = at'[t].i
      BY <3>1, <1>1 DEF FcbOf
    <3> QED
      BY <3>1, <3>2, <3>3 DEF CallOwnsFile
  <2> QED
    BY <2>1, <1>1, <1>3, <1>6, OthersOwn
<1>12. FilesHaveHandles'
  <2>1. ~Opening(t)
    BY <1>1 DEF Opening
  <2> QED
    BY <2>1, <1>1, <1>3, <1>6, FilesSame
<1>13. LocksHeld'
  <2>1. LocksOf(t)'
    BY <1>1, <1>3, <1>4, <1>5, <1>6 DEF LocksOf, Writing, Pc
  <2>2. \A u \in Thread : u # t => (Writing(u) => FcbOf(at[u].h)' = FcbOf(at[u].h))
    BY <1>1, <1>6 DEF FcbOf
  <2> QED
    BY <2>1, <2>2, <1>3, <1>6, <1>9, LocksSame
<1>14. ~Counts(Pc(t)) /\ ~Counts(at'[t].pc) /\ Pc(t) # "close fcb"
  BY <1>1, <1>5, <1>6 DEF Counts
<1>15. (\A d \in Slot : Use(d)' = Use(d)) /\ \A j : Users(j)' = Users(j)
  BY <1>1, <1>3, <1>6, <1>14, UseSame
<1>16. Counted'
  BY <1>3, <1>7, <1>15, CountedSame
<1>17. WritersAlone'
  <2>1. PICK own \in Slot : own = fd
    BY <1>4
  <2>2. openFiles[own] = [owner |-> t, handle |-> h]
    BY <2>1, <1>2, <1>3 DEF CallOwnsFile
  <2>3. openFiles[own].owner = t /\ openFiles[own].handle = h /\ h # INVAL /\ i # INVAL
    BY <2>2, <1>4, Slots
  <2>4. Use(own) = i
    BY <2>3, <1>1, <1>3 DEF Use
  <2>5. MayWrite(own)
    BY <2>3, <2>4, <1>1, <1>2, <1>3 DEF MayWrite, CallOwnsFile
  <2>6. \A d \in Slot : MayWrite(d)' => MayWrite(d)
    BY <1>1, <1>3, <1>6, <1>14, <1>15, MayWriteSame
  <2>7. ~MayWrite(own)'
    BY <2>1, <2>3, <1>1, <1>5, <1>6 DEF MayWrite, Pc
  <2>8. ASSUME NEW d \in Slot, MayWrite(d)' PROVE fcb'[Use(d)].writer = fcb[Use(d)].writer
    <3>1. MayWrite(d)
      BY <2>6, <2>8
    <3>2. d # own
      BY <2>7, <2>8
    <3>3. Use(d) # i
      BY <3>1, <3>2, <2>4, <2>5, <1>3 DEF WritersAlone
    <3>4. Use(d) \in Slot
      BY <3>1, <1>3, UseTypes DEF MayWrite
    <3> QED
      BY <3>3, <3>4, <1>7
  <2> QED
    BY <2>6, <2>8, <1>3, <1>15, WritersSame
<1>18. OneFcbEach'
  <2>1. SearchOf(t)'
    BY <1>5, <1>6 DEF SearchOf, Pc
  <2>2. /\ \A j \in Slot : fcb'[j].id \in {fcb[j].id, INVAL}
        /\ \A e \in Entry : dir'[e].name = NoName <=> dir[e].name = NoName
    BY <1>1, <1>7
  <2> QED
    BY <2>1, <2>2, <1>3, <1>6, EntriesSame
<1> QED
  BY <1>10, <1>11, <1>12, <1>13, <1>16, <1>17, <1>18 DEF TablesInv
------------------------------------------------------------------------------
(* Taking and giving back a slot of openFiles[] that has no handle.        *)
LEMMA FileIs ==
  ASSUME NEW f, NEW u, NEW h, f = [owner |-> u, handle |-> h]
  PROVE  f.owner = u /\ f.handle = h
OBVIOUS

SlotMove(t, fd, file, loc) ==
  /\ at' = [at EXCEPT ![t] = loc] /\ openFiles' = [openFiles EXCEPT ![fd] = file]
  /\ openFiles[fd].handle = INVAL /\ openFiles[fd].owner \in {t, Nobody}
  /\ \/ loc = Idle /\ file = NoFile
     \/ loc.pc = "open" /\ loc.fd = fd /\ file = [owner |-> t, handle |-> INVAL]
  /\ Pc(t) \in {"idle", "open", "find fcb", "alloc fcb"} /\ (Opening(t) => at[t].fd = fd)
  /\ LocksMove(t) /\ root' # t
  /\ UNCHANGED <<table, dir, next, data, fcb, handle, tableLock, fcbLock, unsynced, length>>

LEMMA SlotStep ==
  ASSUME TablesInv, NEW t \in Thread, NEW fd \in Slot, NEW file, NEW loc \in Locals,
         SlotMove(t, fd, file, loc)
  PROVE  TablesInv'
<1> USE DEF SlotMove
<1>1. /\ Types /\ CallsOwnFiles /\ FilesHaveHandles /\ LocksHeld /\ Counted /\ WritersAlone
      /\ OneFcbEach /\ LocksOf(t) /\ t # Nobody
  BY OtherConstants DEF TablesInv, LocksHeld
<1>2. at' \in [Thread -> Locals] /\ at'[t] = loc /\ \A u \in Thread : u # t => at'[u] = at[u]
  BY <1>1, Moves
<1>3. /\ loc = Idle => loc.pc = "idle"
      /\ loc.pc \in {"idle", "open"} /\ file.handle = INVAL /\ file.owner \in {t, Nobody}
      /\ file \in [owner : Thread \cup {Nobody}, handle : Slot \cup {INVAL}]
  <2>1. NoFile.handle = INVAL /\ NoFile.owner = Nobody
        /\ NoFile \in [owner : Thread \cup {Nobody}, handle : Slot \cup {INVAL}]
    BY DEF NoFile
  <2>2. LET f == [owner |-> t, handle |-> INVAL]
        IN  /\ f.handle = INVAL /\ f.owner = t
            /\ f \in [owner : Thread \cup {Nobody}, handle : Slot \cup {INVAL}]
    OBVIOUS
  <2> QED
    BY <2>1, <2>2, IdleIsLocal
<1>4. /\ openFiles' \in [Slot -> [owner : Thread \cup {Nobody}, handle : Slot \cup {INVAL}]]
      /\ openFiles'[fd] = file /\ \A d \in Slot : d # fd => openFiles'[d] = openFiles[d]
  BY <1>1, <1>3 DEF Types
<1>5. /\ root' \in Thread \cup {Nobody}
      /\ \A u \in Thread : u # t => /\ root' = u <=> root = u
                                    /\ tableLock' = u <=> tableLock = u
                                    /\ \A i \in Slot : fcbLock'[i] = u <=> fcbLock[i] = u
  BY <1>1, LocksMoveIs
<1>6. Types'
  BY <1>1, <1>2, <1>4, <1>5 DEF Types
<1>7. CallsOwnFiles'
  <2>1. \A d \in Slot : openFiles[d].owner \notin {t, Nobody} => openFiles'[d] = openFiles[d]
    BY <1>4
  <2>2. CallOwnsFile(t)'
    <3>1. ~Closing(t)' /\ ~Writing(t)' /\ Pc(t)' \in {"idle", "open"}
      BY <1>2, <1>3 DEF Closing, Writing, Pc
    <3>2. Opening(t)' => openFiles'[at'[t].fd] = [owner |-> t, handle |-> INVAL]
      BY <3>1, <1>2, <1>3, <1>4 DEF Opening, Pc
    <3> QED
      BY <3>1, <3>2 DEF CallOwnsFile
  <2> QED
    BY <2>1, <2>2, <1>1, <1>2, OthersOwn
<1>8. FilesHaveHandles'
  <2>1. \A d \in Slot : openFiles'[d].handle = openFiles[d].handle
    BY <1>3, <1>4
  <2>2. \A h \in Slot : FcbOf(h)' = FcbOf(h)
    BY DEF FcbOf
  <2>3. ASSUME NEW d \in Slot PROVE SlotSound(d)'
    <3>1. CASE d = fd
      <4>1. openFiles'[d] = file
        BY <3>1, <1>4
      <4>2. CASE loc = Idle /\ file = NoFile
        <5>1. file.owner = Nobody /\ file.handle = INVAL
          BY <4>2, FileIs DEF NoFile
        <5>2. openFiles'[d].owner = Nobody /\ openFiles'[d].handle = INVAL
          BY <4>1, <5>1
        <5> QED
          BY <5>2 DEF SlotSound
      <4>3. CASE loc.pc = "open" /\ loc.fd = fd /\ file = [owner |-> t, handle |-> INVAL]
        <5>1. file.owner = t /\ file.handle = INVAL
          BY <4>3, FileIs
        <5>2. openFiles'[d].owner = t /\ openFiles'[d].handle = INVAL
          BY <4>1, <5>1
        <5> QED
          BY <5>2, <4>3, <3>1, <1>1, <1>2 DEF SlotSound, Opening, Pc
      <4> QED
        BY <4>2, <4>3
    <3>2. CASE d # fd
      <4>1. openFiles'[d] = openFiles[d] /\ SlotSound(d)
        BY <3>2, <1>1, <1>4 DEF FilesHaveHandles
      <4>2. openFiles[d].owner \in Thread \cup {Nobody} /\ openFiles[d].handle \in Slot \cup {INVAL}
        BY <1>1 DEF Types
      <4>3. CASE openFiles[d].owner = t
        <5>1. openFiles[d].handle # INVAL
          BY <3>2, <4>1, <4>3, <1>1 DEF SlotSound
        <5> QED
          BY <5>1, <4>1, <4>2, <4>3, <1>1 DEF SlotSound, FcbOf
      <4>4. CASE openFiles[d].owner # t
        BY <4>1, <4>2, <4>4, <1>2 DEF SlotSound, Opening, Pc, FcbOf
      <4> QED
        BY <4>3, <4>4
    <3> QED
      BY <3>1, <3>2
  <2>4. ASSUME NEW c \in Slot, NEW d \in Slot, openFiles'[c].handle = openFiles'[d].handle,
               openFiles'[c].handle # INVAL
        PROVE  c = d
    <3>1. openFiles[c].handle = openFiles[d].handle /\ openFiles[c].handle # INVAL
      BY <2>1, <2>4
    <3> QED
      BY <3>1, <1>1 DEF FilesHaveHandles
  <2>5. ASSUME NEW h \in Slot, FcbOf(h)' # INVAL PROVE \E d \in Slot : openFiles'[d].handle = h
    <3>1. FcbOf(h) # INVAL
      BY <2>2, <2>5
    <3>2. PICK d \in Slot : openFiles[d].handle = h
      BY <3>1, <1>1 DEF FilesHaveHandles
    <3> QED
      BY <3>2, <2>1
  <2> QED
    BY <2>3, <2>4, <2>5 DEF FilesHaveHandles, SlotSound
<1>9. LocksHeld'
  <2>1. LocksOf(t)'
    BY <1>1, <1>2, <1>3 DEF LocksOf, Writing, Pc
  <2>2. \A u \in Thread : u # t => (Writing(u) => FcbOf(at[u].h)' = FcbOf(at[u].h))
    BY <1>2 DEF FcbOf
  <2> QED
    BY <2>1, <2>2, <1>1, <1>2, <1>5, LocksSame
<1>10. ~Counts(Pc(t)) /\ ~Counts(at'[t].pc) /\ Pc(t) # "close fcb"
  BY <1>2, <1>3 DEF Counts
<1>11. (\A d \in Slot : Use(d)' = Use(d)) /\ \A j : Users(j)' = Users(j)
  <2>1. \A d \in Slot :
          \/ openFiles'[d] = openFiles[d]
          \/ /\ openFiles[d].handle = INVAL /\ openFiles[d].owner \in {t, Nobody}
             /\ openFiles'[d].handle = INVAL /\ openFiles'[d].owner \in {t, Nobody}
    BY <1>3, <1>4
  <2> QED
    BY <2>1, <1>1, <1>2, <1>10, UseSame
<1>12. Counted'
  BY <1>1, <1>11, CountedSame
<1>13. WritersAlone'
  <2>1. Use(fd) = INVAL
    BY <1>10 DEF Use, Counts
  <2>2. \A d \in Slot : Use(d) # INVAL => openFiles'[d] = openFiles[d]
    BY <2>1, <1>4
  <2>3. \A d \in Slot : MayWrite(d)' => MayWrite(d)
    BY <2>2, <1>1, <1>2, <1>10, <1>11, MayWriteSame
  <2> QED
    BY <2>3, <1>1, <1>11, WritersSame
<1>14. OneFcbEach'
  <2>1. SearchOf(t)'
    BY <1>2, <1>3 DEF SearchOf, Pc
  <2> QED
    BY <2>1, <1>1, <1>2, EntriesSame
<1> QED
  BY <1>6, <1>7, <1>8, <1>9, <1>12, <1>13, <1>14 DEF TablesInv

LEMMA FsOpenInv ==
  ASSUME TablesInv, NEW t \in Thread, fsOpen(t)
  PROVE  TablesInv'
<1> DEFINE free == {fd \in Slot : openFiles[fd].owner = Nobody}
<1>1. /\ Pc(t) = "idle" /\ free # {}
      /\ openFiles' = [openFiles EXCEPT ![Least(free)].owner = t]
      /\ at' = [at EXCEPT ![t] = [pc |-> "open", fd |-> Least(free)]]
      /\ UNCHANGED <<table, dir, next, data, fcb, handle, root, tableLock, fcbLock, unsynced, length>>
  BY DEF fsOpen, Goto, eeprom, flash, locks, history
<1>2. Least(free) \in free
  <2>1. free \in SUBSET Nat
    BY Slots
  <2> QED
    BY <2>1, <1>1, LeastIs
<1>3. PICK fd \in Slot : fd = Least(free) /\ openFiles[fd].owner = Nobody
  BY <1>2
<1> DEFINE loc == [pc |-> "open", fd |-> fd]
<1> DEFINE file == [owner |-> t, handle |-> INVAL]
<1>4. Types /\ FilesHaveHandles /\ LocksOf(t)
  BY DEF TablesInv, LocksHeld
<1>5. openFiles[fd].handle = INVAL
  BY <1>3, <1>4 DEF FilesHaveHandles, SlotSound
<1>6. openFiles' = [openFiles EXCEPT ![fd] = file]
  <2>1. openFiles[fd] \in [owner : Thread \cup {Nobody}, handle : Slot \cup {INVAL}]
    BY <1>4 DEF Types
  <2>2. [openFiles[fd] EXCEPT !.owner = t] = file
    BY <2>1, <1>5
  <2>3. openFiles' = [openFiles EXCEPT ![fd] = [openFiles[fd] EXCEPT !.owner = t]]
    BY <1>1, <1>3
  <2> HIDE DEF file
  <2> QED
    BY <2>2, <2>3
<1>7. loc \in Locals /\ loc.pc = "open" /\ loc.fd = fd
  <2>1. loc \in OpenLocals /\ loc.pc = "open" /\ loc.fd = fd
    BY DEF OpenLocals
  <2> HIDE DEF loc
  <2> QED
    BY <2>1 DEF Locals
<1>8. at' = [at EXCEPT ![t] = loc]
  BY <1>1, <1>3
<1> HIDE DEF loc, free
<1>9. LocksMove(t) /\ root' # t /\ ~Opening(t)
  BY <1>1, <1>4, TypesAgain DEF LocksMove, LocksOf, Opening
<1>10. SlotMove(t, fd, file, loc)
  BY <1>1, <1>3, <1>5, <1>6, <1>7, <1>8, <1>9 DEF SlotMove
<1> HIDE DEF file
<1> QED
  BY <1>7, <1>10, SlotStep

(* An open that fails before it has a control block.                       *)
LEMMA OpenFails ==
  ASSUME TablesInv, NEW t \in Thread, Opening(t), Pc(t) # "alloc handle", FreeFd(t),
         UNCHANGED <<eeprom, flash, fcb, handle, tableLock, fcbLock, history>>,
         root' = Nobody \/ (root' = root /\ root # t), root' # root => root = t
  PROVE  TablesInv'
<1>1. /\ Types /\ CallOwnsFile(t) /\ t # Nobody
  BY OtherConstants DEF TablesInv, CallsOwnFiles
<1>2. PICK fd \in Slot : fd = at[t].fd
  BY <1>1, CallTypes
<1>3. openFiles[fd] = [owner |-> t, handle |-> INVAL]
  BY <1>1, <1>2 DEF CallOwnsFile
<1>4. openFiles' = [openFiles EXCEPT ![fd] = NoFile] /\ at' = [at EXCEPT ![t] = Idle]
  BY <1>2 DEF FreeFd, Return, Goto
<1>5. Pc(t) \in {"open", "find fcb", "alloc fcb"}
  BY DEF Opening
<1>6. LocksMove(t) /\ root' # t
  BY <1>1, TypesAgain DEF LocksMove
<1>7. UNCHANGED <<table, dir, next, data, fcb, handle, tableLock, fcbLock, unsynced, length>>
  BY DEF eeprom, flash, history
<1>8. openFiles[fd].owner = t /\ openFiles[fd].handle = INVAL
  BY <1>3, FileIs
<1>9. SlotMove(t, fd, NoFile, Idle)
  BY <1>2, <1>4, <1>5, <1>6, <1>7, <1>8 DEF SlotMove
<1> QED
  BY <1>9, IdleIsLocal, SlotStep
------------------------------------------------------------------------------
LEMMA OpenFindInv ==
  ASSUME TablesInv, NEW t \in Thread, OpenFind(t)
  PROVE  TablesInv'
<1>1. /\ Pc(t) = "open" /\ root = Nobody /\ Opening(t)
      /\ UNCHANGED <<eeprom, flash, fcb, handle, tableLock, fcbLock, history>>
  BY DEF OpenFind, Opening
<1>2. PICK n \in Name, mode \in Mode :
        LET found == Named(n)
            free  == IF found = {} /\ Appends(mode) THEN Named(NoName) ELSE {}
        IN  \/ FreeFd(t) /\ UNCHANGED root
            \/ /\ found \cup free # {} /\ root' = t
               /\ Goto(t, [pc |-> IF found # {} THEN "find fcb" ELSE "alloc fcb",
                           op |-> "open", fd |-> at[t].fd, mode |-> mode,
                           new |-> IF found # {} THEN NoName ELSE n,
                           id |-> Least(found \cup free), i |-> 0])
               /\ UNCHANGED openFiles
  BY DEF OpenFind
<1>3. Types /\ CallsOwnFiles /\ Counted /\ OneFcbEach /\ CallOwnsFile(t) /\ LocksOf(t) /\ t # Nobody
  BY OtherConstants DEF TablesInv, CallsOwnFiles, LocksHeld
<1>4. CASE FreeFd(t) /\ UNCHANGED root
  BY <1>1, <1>3, <1>4, OpenFails
<1> DEFINE found == Named(n)
<1> DEFINE free == IF found = {} /\ Appends(mode) THEN Named(NoName) ELSE {}
<1> DEFINE loc == [pc |-> IF found # {} THEN "find fcb" ELSE "alloc fcb",
                   op |-> "open", fd |-> at[t].fd, mode |-> mode,
                   new |-> IF found # {} THEN NoName ELSE n,
                   id |-> Least(found \cup free), i |-> 0]
<1>5. CASE /\ found \cup free # {} /\ root' = t
           /\ Goto(t, loc)
           /\ UNCHANGED openFiles
  <2>1. Least(found \cup free) \in found \cup free
    <3>1. found \cup free \in SUBSET Nat
      BY NotInval DEF Named
    <3> HIDE DEF found, free
    <3> QED
      BY <3>1, <1>5, LeastIs
  <2>2. PICK id \in Entry : /\ id = Least(found \cup free)
                            /\ found # {} => dir[id].name = n
                            /\ found = {} => dir[id].name = NoName
    <3>1. \A e \in found : e \in Entry /\ dir[e].name = n
      BY DEF Named
    <3>2. found # {} => free = {}
      OBVIOUS
    <3>3. \A e \in free : e \in Entry /\ dir[e].name = NoName
      BY DEF Named
    <3> HIDE DEF found, free
    <3> QED
      BY <2>1, <3>1, <3>2, <3>3
  <2>3. at[t].fd \in Slot
    BY <1>1, <1>3, CallTypes
  <2>4. n # NoName /\ n \in Name
    BY OtherConstants
  <2> HIDE DEF found, free
  <2>5. /\ loc \in Locals /\ loc.fd = at[t].fd /\ loc.id = id /\ loc.i = 0 /\ loc.op = "open"
        /\ loc.pc = (IF found # {} THEN "find fcb" ELSE "alloc fcb")
        /\ loc.new = (IF found # {} THEN NoName ELSE n)
    <3>1. /\ loc \in SearchLocals /\ loc.fd = at[t].fd /\ loc.id = id /\ loc.i = 0 /\ loc.op = "open"
          /\ loc.pc = (IF found # {} THEN "find fcb" ELSE "alloc fcb")
          /\ loc.new = (IF found # {} THEN NoName ELSE n)
      BY <2>2, <2>3, Slots DEF SearchLocals
    <3> HIDE DEF loc
    <3> QED
      BY <3>1 DEF Locals
  <2>6. at' = [at EXCEPT ![t] = loc] /\ root' = t
    BY <1>5 DEF Goto
  <2> HIDE DEF loc
  <2>7. at'[t] = loc
    BY <2>5, <2>6, <1>3, Moves
  <2>8. UNCHANGED <<table, next, data, dir, fcb, handle, openFiles, tableLock, fcbLock>>
    BY <1>1, <1>5 DEF eeprom, flash
  <2>9. Opening(t)' /\ ~Counts(Pc(t)) /\ ~Counts(loc.pc) /\ Pc(t) # "close fcb"
    BY <1>1, <2>5, <2>7 DEF Opening, Counts, Pc
  <2>10. SearchOf(t)'
    <3>1. \A j \in Slot : ~(j < 0) /\ j >= 0
      BY Constants DEF Slot
    <3>2. CASE found # {}
      <4>1. loc.pc = "find fcb" /\ loc.new = NoName /\ dir'[loc.id].name # NoName
        BY <2>2, <2>4, <2>5, <2>8, <3>2
      <4> QED
        BY <4>1, <3>1, <2>5, <2>7 DEF SearchOf, Pc
    <3>3. CASE found = {}
      <4>1. loc.pc = "alloc fcb" /\ loc.new # NoName /\ dir'[loc.id].name = NoName
        BY <2>2, <2>4, <2>5, <2>8, <3>3
      <4>2. \E j \in Slot : fcb[j].id = INVAL
        BY <1>1, <1>3, <2>9, FreeFcb
      <4>3. \A j \in Slot : fcb[j].id # loc.id
        <5>1. \A j \in Slot : fcb[j].id # INVAL => dir[fcb[j].id].name # NoName
          BY <1>3 DEF OneFcbEach, FcbsNamed
        <5> QED
          BY <5>1, <2>2, <2>5, <3>3, NotInval
      <4> QED
        BY <4>1, <4>2, <4>3, <3>1, <2>5, <2>7, <2>8 DEF SearchOf, Pc
    <3> QED
      BY <3>2, <3>3
  <2>11. CallOwnsFile(t)'
    <3>1. loc.pc \in {"find fcb", "alloc fcb"}
      BY <2>5
    <3>2. openFiles'[at'[t].fd] = [owner |-> t, handle |-> INVAL]
      BY <1>1, <1>3, <2>5, <2>7, <2>8 DEF CallOwnsFile
    <3> QED
      BY <3>1, <3>2, <2>7 DEF CallOwnsFile, Closing, Writing, Pc
  <2>12. LocksOf(t)' /\ LocksMove(t)
    BY <1>1, <1>3, <2>5, <2>6, <2>7, <2>8, TypesAgain DEF LocksOf, LocksMove, Writing, Pc
  <2>13. /\ table' \in [Block -> {FREE, USED, AVAIL}]
         /\ next' \in [Block -> Block \cup {INVAL, NoBlock}]
         /\ data' \in [Block -> [Cell -> (Entry \X (0..MaxSize)) \cup {Blank, Junk}]]
    BY <1>3, <2>8 DEF Types
  <2>14. UNCHANGED <<dir, ram, history>>
    BY <1>1, <2>8 DEF ram
  <2> QED
    BY <2>5, <2>6, <2>9, <2>10, <2>11, <2>12, <2>13, <2>14, Aside
<1> QED
  BY <1>2, <1>4, <1>5
------------------------------------------------------------------------------
(* A call gets a reference to control block i.                             *)
Gains(t, own, i) ==
  /\ at[t].fd = own /\ Opening(t) /\ ~Counts(Pc(t))
  /\ \A u \in Thread : u # t => at'[u] = at[u]
  /\ at'[t].pc = "alloc handle" /\ at'[t].fd = own /\ at'[t].i = i
  /\ openFiles' = openFiles /\ handle' = handle

Gained(t, own, i) ==
  /\ Use(own) = INVAL /\ Use(own)' = i
  /\ \A d \in Slot : d # own => Use(d)' = Use(d) /\ (MayWrite(d)' <=> MayWrite(d))
  /\ MayWrite(own)' <=> Appends(at'[t].mode)
  /\ Users(i)' = Users(i) \cup {own} /\ own \notin Users(i)
  /\ \A j \in Slot : j # i => Users(j)' = Users(j)
  /\ Cardinality(Users(i)') = Cardinality(Users(i)) + 1

LEMMA UseGained ==
  ASSUME Types, CallsOwnFiles, FilesHaveHandles, NEW t \in Thread, NEW own \in Slot,
         NEW i \in Slot, Gains(t, own, i)
  PROVE  Gained(t, own, i)
<1>0. openFiles[own] = [owner |-> t, handle |-> INVAL]
  BY DEF CallsOwnFiles, CallOwnsFile, Gains
<1>1. t # Nobody /\ i # INVAL
  BY Slots, OtherConstants
<1>2. openFiles[own].owner = t /\ openFiles[own].handle = INVAL
  BY <1>0, FileIs
<1> USE DEF Gains
<1>3. Use(own) = INVAL
  BY <1>2 DEF Use, Counts
<1>4. Use(own)' = i
  BY <1>1, <1>2 DEF Use, Pc
<1>5. ASSUME NEW d \in Slot, d # own
      PROVE  Use(d)' = Use(d) /\ (MayWrite(d)' <=> MayWrite(d))
  <2>1. openFiles[d].owner \in Thread \cup {Nobody} /\ openFiles[d].handle \in Slot \cup {INVAL}
    BY DEF Types
  <2>2. CASE openFiles[d].owner = t
    <3>1. openFiles[d].handle # INVAL
      BY <1>1, <1>5, <2>2 DEF FilesHaveHandles, SlotSound
    <3>2. Pc(t) \notin {"close handle", "close fcb"}
      BY DEF Opening
    <3> QED
      BY <3>1, <3>2, <2>2, <1>1 DEF Use, MayWrite, Pc, FcbOf
  <2>3. CASE openFiles[d].owner # t
    BY <2>1, <2>3 DEF Use, MayWrite, Pc, FcbOf
  <2> QED
    BY <2>2, <2>3
<1>6. MayWrite(own)' <=> Appends(at'[t].mode)
  BY <1>1, <1>2, <1>4 DEF MayWrite, Pc
<1>7. \A j \in Slot : \A d \in Slot : d \in Users(j)' <=> d \in Users(j) \/ (j = i /\ d = own)
  BY <1>3, <1>4, <1>5, Slots DEF Users
<1>8. own \notin Users(i)
  BY <1>1, <1>3 DEF Users
<1>9. \A j : Users(j) \in SUBSET Slot /\ Users(j)' \in SUBSET Slot
  BY DEF Users
<1>10. Users(i)' = Users(i) \cup {own}
  BY <1>7, <1>9
<1>11. \A j \in Slot : j # i => Users(j)' = Users(j)
  BY <1>7, <1>9
<1>12. Cardinality(Users(i) \cup {own}) = Cardinality(Users(i)) + 1
  BY <1>8, UsersFinite, FS_AddElement
<1> QED
  BY <1>3, <1>4, <1>5, <1>6, <1>8, <1>10, <1>11, <1>12 DEF Gained

(* An open gets a control block, one of its own or one that is shared.     *)
FcbRecords == [id : Entry \cup {INVAL}, refcount : Nat, writer : BOOLEAN,
               first : Block \cup {INVAL}, size : 0..MaxSize]

GetsFcb(t, i, new, loc) ==
  /\ Pc(t) \in {"find fcb", "alloc fcb"} /\ Opening(t) /\ root' = Nobody
  /\ at' = [at EXCEPT ![t] = loc]
  /\ loc.pc = "alloc handle" /\ loc.fd = at[t].fd /\ loc.i = i
  /\ fcb' = [fcb EXCEPT ![i] = new] /\ new \in FcbRecords
  /\ new.id \in Entry /\ new.refcount = Cardinality(Users(i)) + 1
  /\ fcb[i].writer \/ Appends(loc.mode) => new.writer
  /\ ~(fcb[i].writer /\ Appends(loc.mode))
  /\ \A j \in Slot : j # i => fcb[j].id # new.id
  /\ dir' \in [Entry -> [name : Name \cup {NoName}, first : Block \cup {INVAL}, size : 0..MaxSize]]
  /\ dir'[new.id].name # NoName
  /\ \A e \in Entry : e # new.id => dir'[e].name = dir[e].name
  /\ unsynced' \in SUBSET Entry /\ length' \in [Entry -> 0..MaxSize]
  /\ UNCHANGED <<table, next, data, handle, openFiles, tableLock, fcbLock>>

LEMMA FcbGained ==
  ASSUME TablesInv, NEW t \in Thread, NEW i \in Slot, NEW new, NEW loc \in Locals,
         GetsFcb(t, i, new, loc)
  PROVE  TablesInv'
<1>1. /\ Types /\ CallsOwnFiles /\ FilesHaveHandles /\ LocksHeld /\ Counted /\ WritersAlone
      /\ OneFcbEach /\ CallOwnsFile(t) /\ LocksOf(t) /\ t # Nobody
  BY OtherConstants DEF TablesInv, CallsOwnFiles, LocksHeld
<1>2. PICK own \in Slot : own = at[t].fd
  BY <1>1, CallTypes DEF GetsFcb
<1>3. openFiles[own] = [owner |-> t, handle |-> INVAL]
  BY <1>1, <1>2 DEF CallOwnsFile, GetsFcb
<1> USE DEF GetsFcb
<1>4. at' \in [Thread -> Locals] /\ at'[t] = loc /\ \A u \in Thread : u # t => at'[u] = at[u]
  BY <1>1, Moves
<1>5. root = t
  BY <1>1 DEF LocksOf
<1>6. /\ fcb' \in [Slot -> FcbRecords] /\ fcb'[i] = new
      /\ \A j \in Slot : j # i => fcb'[j] = fcb[j]
  BY <1>1 DEF Types, FcbRecords
<1>7. LocksMove(t)
  BY <1>1, <1>5, TypesAgain DEF LocksMove
<1>8. /\ root' \in Thread \cup {Nobody}
      /\ \A u \in Thread : u # t => /\ root' = u <=> root = u
                                    /\ tableLock' = u <=> tableLock = u
                                    /\ \A j \in Slot : fcbLock'[j] = u <=> fcbLock[j] = u
  BY <1>1, <1>7, LocksMoveIs
<1>9. Types'
  BY <1>1, <1>4, <1>6, <1>8 DEF Types, FcbRecords
<1>10. Opening(t)' /\ at'[t].fd = at[t].fd /\ Pc(t)' = "alloc handle"
  BY <1>4 DEF Opening, Pc
<1>11. CallsOwnFiles'
  <2>1. CallOwnsFile(t)'
    <3>1. ~Closing(t)' /\ ~Writing(t)'
      BY <1>10 DEF Closing, Writing
    <3>2. openFiles'[at'[t].fd] = [owner |-> t, handle |-> INVAL]
      BY <1>2, <1>3, <1>10
    <3> QED
      BY <1>10, <3>1, <3>2 DEF CallOwnsFile
  <2> QED
    BY <2>1, <1>1, <1>4, OthersOwn
<1>12. FilesHaveHandles'
  BY <1>1, <1>4, <1>10, FilesSame
<1>13. LocksHeld'
  <2>1. LocksOf(t)'
    BY <1>1, <1>4 DEF LocksOf, Writing, Pc
  <2>2. \A u \in Thread : u # t => (Writing(u) => FcbOf(at[u].h)' = FcbOf(at[u].h))
    BY <1>4 DEF FcbOf
  <2> QED
    BY <2>1, <2>2, <1>1, <1>4, <1>8, LocksSame
<1>14. Gains(t, own, i)
  BY <1>2, <1>4 DEF Gains, Counts, Pc
<1>15. /\ Use(own) = INVAL /\ Use(own)' = i
       /\ \A d \in Slot : d # own => Use(d)' = Use(d) /\ (MayWrite(d)' <=> MayWrite(d))
       /\ MayWrite(own)' <=> Appends(at'[t].mode)
       /\ Users(i)' = Users(i) \cup {own} /\ own \notin Users(i)
       /\ \A j \in Slot : j # i => Users(j)' = Users(j)
       /\ Cardinality(Users(i)') = Cardinality(Users(i)) + 1
  <2>1. Gained(t, own, i)
    BY <1>1, <1>14, UseGained
  <2> QED
    BY <2>1 DEF Gained
<1>16. Counted'
  <2>1. ASSUME NEW j \in Slot, j # i
        PROVE  /\ fcb'[j].refcount = Cardinality(Users(j)')
               /\ fcb'[j].id = INVAL => fcb'[j] = NoFcb
               /\ fcb'[j].id # INVAL => Users(j)' # {}
    <3>1. Users(j)' = Users(j) /\ fcb'[j] = fcb[j]
      BY <2>1, <1>6, <1>15
    <3>2. /\ fcb[j].refcount = Cardinality(Users(j))
          /\ fcb[j].id = INVAL => fcb[j] = NoFcb
          /\ fcb[j].id # INVAL => Users(j) # {}
      BY <1>1 DEF Counted
    <3> HIDE DEF GetsFcb
    <3> QED
      BY <3>1, <3>2
  <2>2. /\ fcb'[i].refcount = Cardinality(Users(i)') /\ fcb'[i].id # INVAL /\ Users(i)' # {}
    BY <1>6, <1>15, NotInval
  <2> QED
    BY <2>1, <2>2 DEF Counted
<1>17. WritersAlone'
  <2>1. ASSUME NEW d \in Slot, MayWrite(d)' PROVE fcb'[Use(d)'].writer
    <3>1. CASE d = own
      BY <2>1, <3>1, <1>4, <1>6, <1>15
    <3>2. CASE d # own
      <4>1. MayWrite(d) /\ Use(d)' = Use(d)
        BY <2>1, <3>2, <1>15
      <4>2. fcb[Use(d)].writer /\ Use(d) \in Slot
        BY <4>1, <1>1, UseTypes DEF WritersAlone, MayWrite
      <4> QED
        BY <4>1, <4>2, <1>6
    <3> QED
      BY <3>1, <3>2
  <2>2. ASSUME NEW d \in Slot, d # own, MayWrite(d)', MayWrite(own)' PROVE Use(d)' # Use(own)'
    <3>1. MayWrite(d) /\ Use(d)' = Use(d)
      BY <2>2, <1>15
    <3>2. fcb[Use(d)].writer
      BY <3>1, <1>1 DEF WritersAlone
    <3>3. ~fcb[i].writer
      BY <2>2, <1>4, <1>15
    <3> QED
      BY <3>1, <3>2, <3>3, <1>15
  <2>3. ASSUME NEW c \in Slot, NEW d \in Slot, MayWrite(c)', MayWrite(d)', Use(c)' = Use(d)'
        PROVE  c = d
    <3>1. CASE c # own /\ d # own
      <4>1. MayWrite(c) /\ Use(c)' = Use(c)
        BY <2>3, <3>1, <1>15
      <4>2. MayWrite(d) /\ Use(d)' = Use(d)
        BY <2>3, <3>1, <1>15
      <4>3. Use(c) = Use(d)
        BY <2>3, <4>1, <4>2
      <4> QED
        BY <4>1, <4>2, <4>3, <1>1 DEF WritersAlone
    <3>2. CASE c = own \/ d = own
      BY <2>2, <2>3, <3>2
    <3> QED
      BY <3>1, <3>2
  <2> QED
    BY <2>1, <2>3 DEF WritersAlone
<1>18. OneFcbEach'
  <2>1. FcbsDiffer'
    BY <1>1, <1>6 DEF OneFcbEach, FcbsDiffer
  <2>2. FcbsNamed'
    <3>1. \A j \in Slot : fcb[j].id \in Entry \cup {INVAL}
      BY <1>1 DEF Types
    <3> QED
      BY <3>1, <1>1, <1>6 DEF OneFcbEach, FcbsNamed
  <2>3. ASSUME NEW u \in Thread PROVE SearchOf(u)'
    <3>1. Pc(u)' \notin {"find fcb", "alloc fcb", "free"}
      <4>1. CASE u = t
        BY <4>1, <1>10
      <4>2. CASE u # t
        <5>1. Pc(u) \notin {"find fcb", "alloc fcb", "free"}
          BY <4>2, <1>1, <1>5 DEF LocksHeld, LocksOf
        <5> QED
          BY <5>1, <4>2, <1>4 DEF Pc
      <4> QED
        BY <4>1, <4>2
    <3> QED
      BY <3>1 DEF SearchOf
  <2> QED
    BY <2>1, <2>2, <2>3 DEF OneFcbEach
<1> QED
  BY <1>9, <1>11, <1>12, <1>13, <1>16, <1>17, <1>18 DEF TablesInv

LEMMA HandleLocal ==
  ASSUME NEW loc, NEW fd \in Slot, NEW i \in Slot, NEW mode \in Mode,
         loc = [pc |-> "alloc handle", fd |-> fd, i |-> i, mode |-> mode]
  PROVE  /\ loc \in Locals /\ loc.pc = "alloc handle" /\ loc.fd = fd /\ loc.i = i
         /\ loc.mode = mode
<1>1. loc \in HandleLocals /\ loc.pc = "alloc handle" /\ loc.fd = fd /\ loc.i = i
      /\ loc.mode = mode
  BY DEF HandleLocals
<1> QED
  BY <1>1 DEF Locals

LEMMA ShareFcbInv ==
  ASSUME TablesInv, NEW t \in Thread, ShareFcb(t)
  PROVE  TablesInv'
<1>1. /\ Pc(t) = "find fcb" /\ at[t].op = "open" /\ Opening(t) /\ root' = Nobody
      /\ fcb[at[t].i].id = at[t].id
      /\ UNCHANGED <<eeprom, flash, handle, tableLock, fcbLock, history>>
  BY DEF ShareFcb, Opening
<1>2. /\ Types /\ Counted /\ FcbsDiffer /\ SearchOf(t) /\ LocksOf(t)
  BY DEF TablesInv, OneFcbEach, LocksHeld
<1>3. at[t] \in SearchLocals
  BY <1>1, <1>2, CallTypes, LocalsAre DEF Pc
<1>4. PICK i \in Slot, mode \in Mode, fd \in Slot :
        i = at[t].i /\ mode = at[t].mode /\ fd = at[t].fd /\ at[t].id \in Entry
  BY <1>3 DEF SearchLocals
<1> DEFINE w == Appends(mode)
<1> DEFINE loc == [pc |-> "alloc handle", fd |-> fd, i |-> i, mode |-> mode]
<1> DEFINE new == [fcb[i] EXCEPT !.refcount = @ + 1, !.writer = @ \/ w]
<1>5. CASE w /\ fcb[i].writer
  <2>1. FreeFd(t) /\ UNCHANGED fcb
    BY <1>4, <1>5 DEF ShareFcb
  <2>2. root = t
    BY <1>1, <1>2 DEF LocksOf
  <2> QED
    BY <2>1, <2>2, <1>1, OpenFails
<1>6. CASE ~(w /\ fcb[i].writer)
  <2>1. /\ fcb' = [fcb EXCEPT ![i].refcount = @ + 1, ![i].writer = @ \/ w]
        /\ at' = [at EXCEPT ![t] = loc] /\ UNCHANGED openFiles
    BY <1>4, <1>6 DEF ShareFcb, Goto
  <2>2. loc \in Locals /\ loc.pc = "alloc handle" /\ loc.fd = fd /\ loc.i = i /\ loc.mode = mode
    BY HandleLocal
  <2> HIDE DEF loc
  <2>3. fcb \in [Slot -> FcbRecords] /\ fcb[i] \in FcbRecords
    BY <1>2 DEF Types, FcbRecords
  <2>4. /\ new \in FcbRecords /\ new.id = fcb[i].id /\ new.refcount = fcb[i].refcount + 1
        /\ new.writer = (fcb[i].writer \/ w)
    <3> DEFINE wr == fcb[i].writer \/ w
    <3>1. wr \in BOOLEAN /\ new = [fcb[i] EXCEPT !.refcount = @ + 1, !.writer = wr]
      BY <2>3
    <3> HIDE DEF wr, new
    <3> DEFINE n == fcb[i].refcount + 1
    <3>2. n \in Nat /\ new = [fcb[i] EXCEPT !.refcount = n, !.writer = wr]
      BY <2>3, <3>1 DEF FcbRecords
    <3> HIDE DEF n
    <3>3. /\ new.id = fcb[i].id /\ new.refcount = n /\ new.writer = wr
      BY <2>3, <3>1, <3>2 DEF FcbRecords
    <3>4. new \in FcbRecords
      BY <2>3, <3>1, <3>2 DEF FcbRecords
    <3> QED
      BY <3>3, <3>4 DEF wr, n
  <2>5. fcb' = [fcb EXCEPT ![i] = new]
    <3> HIDE DEF w
    <3> QED
      BY <2>1, <2>3
  <2> HIDE DEF new
  <2>6. new.id \in Entry /\ new.refcount = Cardinality(Users(i)) + 1
    BY <2>4, <1>1, <1>2, <1>4 DEF Counted
  <2>7. \A j \in Slot : j # i => fcb[j].id # new.id
    BY <2>4, <2>6, <1>2, NotInval DEF FcbsDiffer
  <2>8. dir[new.id].name # NoName
    BY <2>4, <1>1, <1>2, <1>4 DEF SearchOf
  <2>9. /\ dir \in [Entry -> [name : Name \cup {NoName}, first : Block \cup {INVAL},
                              size : 0..MaxSize]]
        /\ unsynced \in SUBSET Entry /\ length \in [Entry -> 0..MaxSize]
    BY <1>2 DEF Types
  <2>10. UNCHANGED <<table, dir, next, data, handle, openFiles, tableLock, fcbLock, unsynced, length>>
    BY <1>1, <2>1 DEF eeprom, flash, history
  <2>11. /\ fcb[i].writer \/ Appends(loc.mode) => new.writer
         /\ ~(fcb[i].writer /\ Appends(loc.mode))
    BY <1>6, <2>2, <2>4
  <2>12. GetsFcb(t, i, new, loc)
    BY <2>1, <2>2, <2>4, <2>5, <2>6, <2>7, <2>8, <2>9, <2>10, <2>11, <1>1, <1>4 DEF GetsFcb
  <2> QED
    BY <2>2, <2>12, FcbGained
<1> QED
  BY <1>5, <1>6

LEMMA AllocFcbInv ==
  ASSUME TablesInv, NEW t \in Thread, AllocFcb(t)
  PROVE  TablesInv'
<1>1. /\ Pc(t) = "alloc fcb" /\ Opening(t) /\ root' = Nobody /\ fcb[at[t].i].id = INVAL
      /\ UNCHANGED <<table, flash, handle, openFiles, tableLock, fcbLock>>
  BY DEF AllocFcb, Opening
<1>2. /\ Types /\ Counted /\ SearchOf(t)
  BY DEF TablesInv, OneFcbEach
<1>3. at[t] \in SearchLocals
  BY <1>1, <1>2, CallTypes, LocalsAre DEF Pc
<1>4. PICK i \in Slot, mode \in Mode, fd \in Slot, id \in Entry, name \in Name \cup {NoName} :
        i = at[t].i /\ mode = at[t].mode /\ fd = at[t].fd /\ id = at[t].id /\ name = at[t].new
  BY <1>3 DEF SearchLocals
<1> DEFINE loc == [pc |-> "alloc handle", fd |-> fd, i |-> i, mode |-> mode]
<1> DEFINE new == [id |-> id, refcount |-> 1, writer |-> Appends(mode),
                   first |-> IF name # NoName THEN INVAL ELSE dir[id].first,
                   size  |-> IF name # NoName THEN 0 ELSE dir[id].size]
<1>5. /\ fcb' = [fcb EXCEPT ![i] = new] /\ at' = [at EXCEPT ![t] = loc]
      /\ IF name # NoName
         THEN /\ dir' = [dir EXCEPT ![id].name = name]
              /\ length' = [length EXCEPT ![id] = 0]
              /\ unsynced' = unsynced \cup {id}
         ELSE UNCHANGED <<dir, history>>
  BY <1>4 DEF AllocFcb, Goto
<1>6. /\ dir \in [Entry -> [name : Name \cup {NoName}, first : Block \cup {INVAL},
                            size : 0..MaxSize]]
      /\ unsynced \in SUBSET Entry /\ length \in [Entry -> 0..MaxSize]
  BY <1>2 DEF Types
<1>7. loc \in Locals /\ loc.pc = "alloc handle" /\ loc.fd = fd /\ loc.i = i /\ loc.mode = mode
  BY HandleLocal
<1>8. new \in FcbRecords /\ new.id = id /\ new.refcount = 1 /\ (new.writer <=> Appends(mode))
  <2>1. dir[id].first \in Block \cup {INVAL} /\ dir[id].size \in 0..MaxSize /\ 0 \in 0..MaxSize
    BY <1>6, Constants
  <2> DEFINE wr == Appends(mode)
  <2> DEFINE first == IF name # NoName THEN INVAL ELSE dir[id].first
  <2> DEFINE size == IF name # NoName THEN 0 ELSE dir[id].size
  <2>2. wr \in BOOLEAN /\ first \in Block \cup {INVAL} /\ size \in 0..MaxSize
    BY <2>1 DEF Appends
  <2> HIDE DEF wr, first, size
  <2>3. new = [id |-> id, refcount |-> 1, writer |-> wr, first |-> first, size |-> size]
    BY DEF wr, first, size
  <2> HIDE DEF new
  <2>4. new \in FcbRecords /\ new.id = id /\ new.refcount = 1 /\ new.writer = wr
    BY <2>2, <2>3 DEF FcbRecords
  <2> QED
    BY <2>4 DEF wr
<1> HIDE DEF loc, new
<1>9. Users(i) = {} /\ Cardinality(Users(i)) = 0 /\ ~fcb[i].writer
  <2>1. fcb[i] = NoFcb
    BY <1>1, <1>2, <1>4 DEF Counted
  <2>2. Users(i) = {}
    BY <1>1, <1>2, <1>4, InUseIfUsed
  <2>3. ~fcb[i].writer
    BY <2>1 DEF NoFcb
  <2> QED
    BY <2>2, <2>3, UsersFinite
<1>10. \A j \in Slot : j # i => fcb[j].id # new.id
  BY <1>1, <1>2, <1>4, <1>8 DEF SearchOf
<1>11. /\ dir' \in [Entry -> [name : Name \cup {NoName}, first : Block \cup {INVAL},
                              size : 0..MaxSize]]
       /\ dir'[id].name # NoName /\ \A e \in Entry : e # id => dir'[e].name = dir[e].name
       /\ unsynced' \in SUBSET Entry /\ length' \in [Entry -> 0..MaxSize]
  <2>1. CASE name # NoName
    <3> DEFINE D == [name : Name \cup {NoName}, first : Block \cup {INVAL}, size : 0..MaxSize]
    <3> DEFINE d == [dir[id] EXCEPT !.name = name]
    <3>1. dir \in [Entry -> D] /\ d \in D /\ d.name = name
      BY <1>6
    <3>2. dir' = [dir EXCEPT ![id] = d]
      BY <2>1, <1>5, <1>6
    <3> HIDE DEF D, d
    <3>3. dir' \in [Entry -> D] /\ dir'[id] = d /\ \A e \in Entry : e # id => dir'[e] = dir[e]
      BY <3>1, <3>2
    <3>4. unsynced' \in SUBSET Entry
      BY <2>1, <1>5, <1>6
    <3>5. length' \in [Entry -> 0..MaxSize]
      <4>1. 0 \in 0..MaxSize
        BY Constants
      <4>2. length' = [length EXCEPT ![id] = 0]
        BY <2>1, <1>5
      <4> DEFINE S == 0..MaxSize
      <4>3. 0 \in S /\ length \in [Entry -> S]
        BY <4>1, <1>6
      <4> HIDE DEF S
      <4>4. length' \in [Entry -> S]
        BY <4>2, <4>3
      <4> QED
        BY <4>4 DEF S
    <3> QED
      BY <3>1, <3>3, <3>4, <3>5, <2>1 DEF D
  <2>2. CASE name = NoName
    <3>1. UNCHANGED <<dir, unsynced, length>>
      BY <2>2, <1>5 DEF history
    <3>2. dir[id].name # NoName
      BY <2>2, <1>1, <1>2, <1>4 DEF SearchOf
    <3> QED
      BY <3>1, <3>2, <1>6
  <2> QED
    BY <2>1, <2>2
<1>12. UNCHANGED <<table, next, data, handle, openFiles, tableLock, fcbLock>>
  BY <1>1 DEF flash
<1>13. GetsFcb(t, i, new, loc)
  <2>1. /\ Pc(t) \in {"find fcb", "alloc fcb"} /\ Opening(t) /\ root' = Nobody
        /\ at' = [at EXCEPT ![t] = loc]
        /\ loc.pc = "alloc handle" /\ loc.fd = at[t].fd /\ loc.i = i
    BY <1>1, <1>4, <1>5, <1>7
  <2>2. /\ fcb' = [fcb EXCEPT ![i] = new] /\ new \in FcbRecords
        /\ new.id \in Entry /\ new.refcount = Cardinality(Users(i)) + 1
    BY <1>5, <1>8, <1>9
  <2>3. /\ fcb[i].writer \/ Appends(loc.mode) => new.writer
        /\ ~(fcb[i].writer /\ Appends(loc.mode))
    BY <1>7, <1>8, <1>9
  <2>4. /\ dir'[new.id].name # NoName
        /\ \A e \in Entry : e # new.id => dir'[e].name = dir[e].name
    BY <1>8, <1>11
  <2> QED
    BY <2>1, <2>2, <2>3, <2>4, <1>10, <1>11, <1>12 DEF GetsFcb
<1> QED
  BY <1>7, <1>13, FcbGained
------------------------------------------------------------------------------
(* The handle of an open.                                                  *)
GetsHandle(t, own, i, h, new) ==
  /\ Pc(t) = "alloc handle" /\ at[t].fd = own /\ at[t].i = i
  /\ openFiles[own].owner = t /\ openFiles[own].handle = INVAL
  /\ handle[h].fcb = INVAL /\ \A d \in Slot : openFiles[d].handle # h
  /\ new.fcb = i /\ (Appends(new.mode) <=> Appends(at[t].mode))
  /\ handle' = [handle EXCEPT ![h] = new] /\ openFiles' = [openFiles EXCEPT ![own].handle = h]
  /\ at' = [at EXCEPT ![t] = Idle]
  /\ UNCHANGED <<table, dir, next, data, fcb, root, tableLock, fcbLock, unsynced, length>>

HandleRecords == [fcb : Slot \cup {INVAL}, mode : Mode \cup {"read"}, pos : 0..MaxSize,
                  curr : Block \cup {INVAL, NoBlock}]

(* The tables and the references after it.                                 *)
HandleGot(t, own, i, h, new) ==
  /\ at' \in [Thread -> Locals] /\ at'[t] = Idle /\ \A u \in Thread : u # t => at'[u] = at[u]
  /\ handle' \in [Slot -> HandleRecords] /\ handle'[h] = new
  /\ \A g \in Slot : g # h => handle'[g] = handle[g]
  /\ openFiles' \in [Slot -> [owner : Thread \cup {Nobody}, handle : Slot \cup {INVAL}]]
  /\ openFiles'[own].owner = t /\ openFiles'[own].handle = h
  /\ \A d \in Slot : d # own => openFiles'[d] = openFiles[d]
  /\ \A d \in Slot : Use(d)' = Use(d) /\ (MayWrite(d)' <=> MayWrite(d))

LEMMA HandleTables ==
  ASSUME Types, FilesHaveHandles, NEW t \in Thread, NEW own \in Slot, NEW i \in Slot,
         NEW h \in Slot, NEW new \in HandleRecords, GetsHandle(t, own, i, h, new)
  PROVE  HandleGot(t, own, i, h, new)
<1> USE DEF GetsHandle
<1>1. at' \in [Thread -> Locals] /\ at'[t] = Idle /\ \A u \in Thread : u # t => at'[u] = at[u]
  BY IdleIsLocal, Moves
<1>2. /\ handle' \in [Slot -> HandleRecords] /\ handle'[h] = new
      /\ \A g \in Slot : g # h => handle'[g] = handle[g]
  BY DEF Types, HandleRecords
<1>3. /\ openFiles' \in [Slot -> [owner : Thread \cup {Nobody}, handle : Slot \cup {INVAL}]]
      /\ openFiles'[own].owner = t /\ openFiles'[own].handle = h
      /\ \A d \in Slot : d # own => openFiles'[d] = openFiles[d]
  <2> DEFINE F == [owner : Thread \cup {Nobody}, handle : Slot \cup {INVAL}]
  <2> DEFINE f == [openFiles[own] EXCEPT !.handle = h]
  <2>1. openFiles \in [Slot -> F] /\ openFiles[own] \in F
    BY DEF Types
  <2>2. f \in F /\ f.owner = t /\ f.handle = h
    BY <2>1
  <2>3. openFiles' = [openFiles EXCEPT ![own] = f]
    BY <2>1
  <2> HIDE DEF f, F
  <2>4. /\ openFiles' \in [Slot -> F] /\ openFiles'[own] = f
        /\ \A d \in Slot : d # own => openFiles'[d] = openFiles[d]
    <3> HIDE DEF GetsHandle
    <3> QED
      BY <2>1, <2>2, <2>3
  <2>5. openFiles'[own].owner = t /\ openFiles'[own].handle = h
    BY <2>2, <2>4
  <2> QED
    BY <2>4, <2>5 DEF F
<1>4. t # Nobody /\ h # INVAL /\ i # INVAL /\ Pc(t)' = "idle"
  BY <1>1, OtherConstants, Slots, IdleIsLocal DEF Pc
<1>5. ASSUME NEW d \in Slot PROVE Use(d)' = Use(d) /\ (MayWrite(d)' <=> MayWrite(d))
  <2>1. CASE d = own
    <3>1. Use(own) = i
      BY <1>4 DEF Use
    <3>2. FcbOf(h)' = i /\ handle'[h].mode = new.mode
      BY <1>2 DEF FcbOf
    <3>3. Use(own)' = i
      BY <1>3, <1>4, <3>2 DEF Use
    <3>4. MayWrite(own) <=> Appends(at[t].mode)
      BY <3>1, <1>4 DEF MayWrite
    <3>5. MayWrite(own)' <=> Appends(new.mode)
      BY <3>2, <3>3, <1>3, <1>4 DEF MayWrite
    <3> QED
      BY <2>1, <3>1, <3>3, <3>4, <3>5
  <2>2. CASE d # own
    <3>1. openFiles'[d] = openFiles[d] /\ openFiles[d].handle # h
      BY <2>2, <1>3
    <3>2. openFiles[d].owner \in Thread \cup {Nobody} /\ openFiles[d].handle \in Slot \cup {INVAL}
      BY DEF Types
    <3>3. CASE openFiles[d].handle # INVAL
      <4>1. handle'[openFiles[d].handle] = handle[openFiles[d].handle]
        BY <3>1, <3>2, <3>3, <1>2
      <4> DEFINE u == openFiles[d].owner
      <4> DEFINE g == openFiles[d].handle
      <4>4. PICK v \in Thread \cup {Nobody}, k \in Slot : v = u /\ k = g
        BY <3>2, <3>3
      <4>5. FcbOf(k)' = FcbOf(k) /\ handle'[k].mode = handle[k].mode
        BY <4>1, <4>4 DEF FcbOf
      <4>6. openFiles'[d].owner = v /\ openFiles'[d].handle = k /\ k # INVAL
        BY <4>4, <3>1, <3>3
      <4>2. CASE v = t
        <5>1. Pc(v) = "alloc handle" /\ Pc(v)' = "idle" /\ v # Nobody
          BY <4>2, <1>4
        <5>2. Use(d) = FcbOf(k) /\ Use(d)' = FcbOf(k)'
          BY <5>1, <4>4, <4>6 DEF Use
        <5>3. MayWrite(d) <=> FcbOf(k) # INVAL /\ Appends(handle[k].mode)
          BY <5>1, <5>2, <4>4, <4>6 DEF MayWrite
        <5>4. MayWrite(d)' <=> FcbOf(k)' # INVAL /\ Appends(handle'[k].mode)
          BY <5>1, <5>2, <4>4, <4>6 DEF MayWrite
        <5> QED
          BY <5>2, <5>3, <5>4, <4>5
      <4>3. CASE v # t
        <5>1. v # Nobody => Pc(v)' = Pc(v) /\ at'[v] = at[v]
          BY <4>3, <1>1 DEF Pc
        <5>2. Use(d)' = Use(d)
          BY <5>1, <4>4, <4>5, <4>6 DEF Use
        <5>3. MayWrite(d)' <=> MayWrite(d)
          <6>1. CASE v = Nobody
            BY <6>1, <5>2, <4>4, <4>6 DEF MayWrite, Use
          <6>2. CASE v # Nobody
            BY <6>2, <5>1, <5>2, <4>4, <4>5, <4>6 DEF MayWrite
          <6> QED
            BY <6>1, <6>2
        <5> QED
          BY <5>2, <5>3
      <4> QED
        BY <4>2, <4>3
    <3>4. CASE openFiles[d].handle = INVAL
      <4>1. openFiles[d].owner # t
        BY <2>2, <3>4, <1>4 DEF FilesHaveHandles, SlotSound
      <4>2. PICK v \in Thread \cup {Nobody} : v = openFiles[d].owner /\ v # t
        BY <3>2, <4>1
      <4>3. openFiles'[d].owner = v /\ openFiles'[d].handle = INVAL
        BY <4>2, <3>1, <3>4
      <4>4. v # Nobody => Pc(v)' = Pc(v) /\ at'[v] = at[v]
        BY <4>2, <1>1 DEF Pc
      <4>5. Use(d)' = Use(d)
        <5>1. CASE v = Nobody
          BY <5>1, <4>2, <4>3, <3>4 DEF Use
        <5>2. CASE v # Nobody
          <6> HIDE DEF GetsHandle
          <6>1. Use(d) = IF Pc(v) = "alloc handle" THEN at[v].i ELSE INVAL
            BY <5>2, <4>2, <3>4 DEF Use
          <6>2. Use(d)' = IF Pc(v)' = "alloc handle" THEN at'[v].i ELSE INVAL
            BY <5>2, <4>3 DEF Use
          <6> QED
            BY <6>1, <6>2, <5>2, <4>4
        <5> QED
          BY <5>1, <5>2
      <4>6. v = Nobody => Use(d) = INVAL
        BY <4>2 DEF Use
      <4>7. MayWrite(d)' <=> MayWrite(d)
        <5>1. CASE v = Nobody
          BY <5>1, <4>5, <4>6 DEF MayWrite
        <5>2. CASE v # Nobody
          BY <5>2, <4>2, <4>3, <4>4, <4>5, <3>4 DEF MayWrite
        <5> QED
          BY <5>1, <5>2
      <4> QED
        BY <4>5, <4>7
    <3> QED
      BY <3>3, <3>4
  <2> QED
    BY <2>1, <2>2
<1> QED
  BY <1>1, <1>2, <1>3, <1>5 DEF HandleGot

LEMMA HandleGained ==
  ASSUME TablesInv, NEW t \in Thread, NEW own \in Slot, NEW i \in Slot, NEW h \in Slot,
         NEW new \in HandleRecords, GetsHandle(t, own, i, h, new)
  PROVE  TablesInv'
<1>1. /\ Types /\ CallsOwnFiles /\ FilesHaveHandles /\ LocksHeld /\ Counted /\ WritersAlone
      /\ OneFcbEach /\ LocksOf(t) /\ t # Nobody
  BY OtherConstants DEF TablesInv, LocksHeld
<1>2. HandleGot(t, own, i, h, new)
  BY <1>1, HandleTables
<1>3. /\ at' \in [Thread -> Locals] /\ at'[t] = Idle /\ \A u \in Thread : u # t => at'[u] = at[u]
      /\ handle' \in [Slot -> HandleRecords] /\ handle'[h] = new
      /\ \A g \in Slot : g # h => handle'[g] = handle[g]
      /\ openFiles' \in [Slot -> [owner : Thread \cup {Nobody}, handle : Slot \cup {INVAL}]]
      /\ openFiles'[own].owner = t /\ openFiles'[own].handle = h
      /\ \A d \in Slot : d # own => openFiles'[d] = openFiles[d]
  BY <1>2 DEF HandleGot
<1>4. \A d \in Slot : Use(d)' = Use(d) /\ (MayWrite(d)' <=> MayWrite(d))
  BY <1>2 DEF HandleGot
<1>5. /\ Pc(t) = "alloc handle" /\ at[t].fd = own /\ at[t].i = i
      /\ openFiles[own].owner = t /\ openFiles[own].handle = INVAL
      /\ handle[h].fcb = INVAL /\ new.fcb = i
      /\ UNCHANGED <<table, dir, next, data, fcb, root, tableLock, fcbLock, unsynced, length>>
  BY DEF GetsHandle
<1>6. \A d \in Slot : openFiles[d].handle # h
  BY DEF GetsHandle
<1>7. Types'
  BY <1>1, <1>3, <1>5 DEF Types, HandleRecords
<1>8. Pc(t)' = "idle" /\ i # INVAL /\ h # INVAL
  BY <1>3, IdleIsLocal, Slots DEF Pc
<1>9. \A d \in Slot : openFiles[d].handle \in Slot \cup {INVAL}
  BY <1>1 DEF Types
<1>10. \A d \in Slot : openFiles[d].handle # INVAL =>
         handle'[openFiles[d].handle] = handle[openFiles[d].handle]
  BY <1>3, <1>6, <1>9
<1>11. CallsOwnFiles'
  <2>1. CallOwnsFile(t)'
    BY <1>8 DEF CallOwnsFile, Opening, Closing, Writing
  <2>2. \A d \in Slot : openFiles[d].owner \notin {t, Nobody} => openFiles'[d] = openFiles[d]
    BY <1>3, <1>5
  <2> QED
    BY <2>1, <2>2, <1>1, <1>3, <1>10, OthersOwn
<1>12. FilesHaveHandles'
  <2>1. FcbOf(h)' = i
    BY <1>3, <1>5 DEF FcbOf
  <2>2. ASSUME NEW d \in Slot PROVE SlotSound(d)'
    <3>1. CASE d = own
      BY <3>1, <2>1, <1>1, <1>3, <1>8 DEF SlotSound
    <3>2. CASE d # own
      <4>1. openFiles'[d] = openFiles[d] /\ SlotSound(d)
        BY <3>2, <1>1, <1>3 DEF FilesHaveHandles
      <4>2. openFiles[d].owner \in Thread \cup {Nobody}
        BY <1>1 DEF Types
      <4>3. openFiles[d].owner # Nobody /\ openFiles[d].handle = INVAL => openFiles[d].owner # t
        BY <3>2, <4>1, <1>5 DEF SlotSound
      <4>4. /\ openFiles'[d].owner = Nobody => openFiles'[d].handle = INVAL
            /\ openFiles'[d].handle # INVAL => handle'[openFiles'[d].handle].fcb # INVAL
        BY <4>1, <1>10 DEF SlotSound, FcbOf
      <4>5. ASSUME openFiles'[d].owner # Nobody, openFiles'[d].handle = INVAL
            PROVE  Opening(openFiles[d].owner)' /\ at'[openFiles[d].owner].fd = d
        <5>1. PICK u \in Thread : u = openFiles[d].owner /\ u # t /\ Opening(u) /\ at[u].fd = d
          BY <4>1, <4>2, <4>3, <4>5 DEF SlotSound
        <5>2. at'[u] = at[u] /\ Opening(u)'
          BY <5>1, <1>3 DEF Opening, Pc
        <5> QED
          BY <5>1, <5>2, <4>1 DEF Opening, Pc
      <4> QED
        BY <4>1, <4>4, <4>5 DEF SlotSound, Opening, Pc, FcbOf
    <3> QED
      BY <3>1, <3>2
  <2>3. ASSUME NEW c \in Slot, NEW d \in Slot, openFiles'[c].handle = openFiles'[d].handle,
               openFiles'[c].handle # INVAL
        PROVE  c = d
    <3>1. CASE c # own /\ d # own
      <4>1. openFiles[c].handle = openFiles[d].handle /\ openFiles[c].handle # INVAL
        BY <2>3, <3>1, <1>3
      <4> QED
        BY <4>1, <1>1 DEF FilesHaveHandles
    <3>2. CASE c = own \/ d = own
      BY <3>2, <2>3, <1>3, <1>6
    <3> QED
      BY <3>1, <3>2
  <2>4. ASSUME NEW g \in Slot, FcbOf(g)' # INVAL PROVE \E d \in Slot : openFiles'[d].handle = g
    <3>1. CASE g = h
      BY <3>1, <1>3
    <3>2. CASE g # h
      <4>1. FcbOf(g) # INVAL
        BY <2>4, <3>2, <1>3 DEF FcbOf
      <4>2. PICK d \in Slot : openFiles[d].handle = g
        BY <4>1, <1>1 DEF FilesHaveHandles
      <4>3. d # own
        BY <4>2, <1>5, Slots
      <4> QED
        BY <4>2, <4>3, <1>3
    <3> QED
      BY <3>1, <3>2
  <2> QED
    BY <2>2, <2>3, <2>4 DEF FilesHaveHandles, SlotSound
<1>13. LocksHeld'
  <2>1. LocksOf(t)'
    BY <1>1, <1>5, <1>8 DEF LocksOf, Writing
  <2>2. ASSUME NEW u \in Thread, u # t, Writing(u) PROVE FcbOf(at[u].h)' = FcbOf(at[u].h)
    <3>1. PICK d \in Slot : openFiles[d] = [owner |-> u, handle |-> at[u].h]
      BY <2>2, <1>1, WritingFile
    <3>2. openFiles[d].handle = at[u].h /\ at[u].h \in Slot
      BY <3>1, <2>2, <1>1, WritingFile, FileIs
    <3>3. handle'[at[u].h] = handle[at[u].h] /\ at'[u] = at[u]
      BY <3>2, <2>2, <1>3, <1>6
    <3> QED
      BY <3>3 DEF FcbOf
  <2> QED
    BY <2>1, <2>2, <1>1, <1>3, <1>5, LocksSame
<1>14. \A j : Users(j)' = Users(j)
  BY <1>4 DEF Users
<1>15. Counted'
  BY <1>1, <1>5, <1>14, CountedSame
<1>16. WritersAlone'
  BY <1>1, <1>4, <1>5, WritersSame
<1>17. OneFcbEach'
  <2>1. SearchOf(t)'
    BY <1>8 DEF SearchOf
  <2>2. \A j \in Slot : fcb'[j].id \in {fcb[j].id, INVAL}
    BY <1>5
  <2>3. \A e \in Entry : dir'[e].name = NoName <=> dir[e].name = NoName
    BY <1>5
  <2> QED
    BY <2>1, <2>2, <2>3, <1>1, <1>3, EntriesSame
<1> QED
  BY <1>7, <1>11, <1>12, <1>13, <1>15, <1>16, <1>17 DEF TablesInv

LEMMA OpenHandleInv ==
  ASSUME TablesInv, NEW t \in Thread, OpenHandle(t)
  PROVE  TablesInv'
<1>1. /\ Pc(t) = "alloc handle" /\ Opening(t)
      /\ UNCHANGED <<table, dir, next, data, fcb, root, tableLock, fcbLock, unsynced, length>>
  BY DEF OpenHandle, Opening, eeprom, flash, locks, history
<1>2. Types /\ CallsOwnFiles /\ FilesHaveHandles
  BY DEF TablesInv
<1>3. at[t] \in HandleLocals
  BY <1>1, <1>2, CallTypes, LocalsAre DEF Pc
<1>4. PICK own \in Slot, i \in Slot, mode \in Mode :
        own = at[t].fd /\ i = at[t].i /\ mode = at[t].mode
  BY <1>3 DEF HandleLocals
<1> DEFINE free == {h \in Slot : FcbOf(h) = INVAL}
<1>5. free # {}
  BY <1>1, <1>2, FreeHandle
<1>6. Least(free) \in free
  <2>1. free \in SUBSET Nat
    BY Slots
  <2> HIDE DEF free
  <2> QED
    BY <2>1, <1>5, LeastIs
<1>7. PICK h \in Slot : h = Least(free) /\ FcbOf(h) = INVAL
  BY <1>6
<1> DEFINE new == IF Appends(mode)
                  THEN [fcb |-> i, mode |-> mode, pos |-> fcb[i].size,
                        curr |-> seekBlock(fcb[i].first, fcb[i].size)]
                  ELSE [NoHandle EXCEPT !.fcb = i]
<1>8. /\ handle' = [handle EXCEPT ![h] = new]
      /\ openFiles' = [openFiles EXCEPT ![own].handle = h] /\ at' = [at EXCEPT ![t] = Idle]
  BY <1>4, <1>5, <1>7 DEF OpenHandle, Return, Goto
<1>9. new \in HandleRecords /\ new.fcb = i /\ (Appends(new.mode) <=> Appends(at[t].mode))
  <2>1. CASE Appends(mode)
    <3>1. fcb[i].first \in Link /\ fcb[i].size \in 0..MaxSize
      BY <1>2 DEF Types, Link
    <3>2. fcb[i].size \in Nat
      BY <3>1, Constants
    <3>3. PICK curr \in Link : curr = seekBlock(fcb[i].first, fcb[i].size)
      BY <3>1, <3>2, <1>2, SeekTypes
    <3>4. PICK pos \in 0..MaxSize : pos = fcb[i].size
      BY <3>1
    <3>5. new = [fcb |-> i, mode |-> mode, pos |-> pos, curr |-> curr]
      BY <2>1, <3>3, <3>4
    <3> HIDE DEF new
    <3>6. new \in HandleRecords /\ new.fcb = i /\ new.mode = mode
      BY <3>5 DEF HandleRecords, Link
    <3> QED
      BY <3>6, <1>4
  <2>2. CASE ~Appends(mode)
    <3>1. mode = "read"
      BY <2>2, OtherConstants DEF Appends
    <3>2. new = [fcb |-> i, mode |-> "read", pos |-> 0, curr |-> INVAL]
      BY <2>2 DEF NoHandle
    <3>3. 0 \in 0..MaxSize
      BY Constants
    <3> HIDE DEF new
    <3>4. new \in HandleRecords /\ new.fcb = i /\ new.mode = "read"
      BY <3>2, <3>3 DEF HandleRecords
    <3> QED
      BY <3>1, <3>4, <1>4
  <2> QED
    BY <2>1, <2>2
<1> HIDE DEF new, free
<1>10. \A d \in Slot : openFiles[d].handle # h
  <2>1. h # INVAL
    BY Slots
  <2> QED
    BY <2>1, <1>2, <1>7 DEF FilesHaveHandles, SlotSound
<1>11. openFiles[own] = [owner |-> t, handle |-> INVAL]
  BY <1>1, <1>2, <1>4 DEF CallsOwnFiles, CallOwnsFile
<1>12. openFiles[own].owner = t /\ openFiles[own].handle = INVAL
  BY <1>11, FileIs
<1>13. handle[h].fcb = INVAL
  BY <1>7 DEF FcbOf
<1>14. GetsHandle(t, own, i, h, new)
  BY <1>1, <1>4, <1>8, <1>9, <1>10, <1>12, <1>13 DEF GetsHandle
<1> QED
  BY <1>9, <1>14, HandleGained
------------------------------------------------------------------------------
(* A close gives its reference to control block i back.                    *)
Loses(t, own, i) ==
  /\ Pc(t) = "close fcb" /\ at[t].fd = own /\ at[t].h \in Slot
  /\ openFiles[own].owner = t /\ openFiles[own].handle = at[t].h /\ FcbOf(at[t].h) = i
  /\ at'[t].pc = "close handle" /\ at'[t].fd = own
  /\ \A u \in Thread : u # t => at'[u] = at[u]
  /\ openFiles' = openFiles /\ handle' = handle

Lost(own, i) ==
  /\ Use(own) = i /\ Use(own)' = INVAL
  /\ \A d \in Slot : d # own => Use(d)' = Use(d)
  /\ \A d \in Slot : MayWrite(d)' => MayWrite(d) /\ d # own
  /\ own \in Users(i) /\ Users(i)' = Users(i) \ {own}
  /\ \A j \in Slot : j # i => Users(j)' = Users(j)
  /\ Cardinality(Users(i)) \in Nat /\ Cardinality(Users(i)) > 0
  /\ Cardinality(Users(i)') = Cardinality(Users(i)) - 1
  /\ Cardinality(Users(i)) = 1 <=> Users(i)' = {}

LEMMA UseLost ==
  ASSUME Types, NEW t \in Thread, NEW own \in Slot, NEW i \in Slot, Loses(t, own, i)
  PROVE  Lost(own, i)
<1>1. t # Nobody /\ \A g \in Slot : g # INVAL
  BY OtherConstants, Slots
<1>2. /\ Pc(t) = "close fcb" /\ Pc(t)' = "close handle" /\ at[t].fd = own /\ at'[t].fd = own
      /\ openFiles[own].owner = t /\ openFiles'[own].owner = t
      /\ openFiles[own].handle = at[t].h /\ openFiles'[own].handle = at[t].h
      /\ at[t].h \in Slot /\ FcbOf(at[t].h) = i
  BY DEF Loses, Pc
<1>3. Use(own) = i
  BY <1>1, <1>2 DEF Use
<1>4. Use(own)' = INVAL
  BY <1>1, <1>2 DEF Use
<1>5. ASSUME NEW d \in Slot, d # own
      PROVE  Use(d)' = Use(d) /\ (MayWrite(d)' => MayWrite(d))
  <2>1. PICK v \in Thread \cup {Nobody}, g \in Slot \cup {INVAL} :
          v = openFiles[d].owner /\ g = openFiles[d].handle
    BY DEF Types
  <2>2. openFiles'[d].owner = v /\ openFiles'[d].handle = g
    BY <2>1 DEF Loses
  <2>3. FcbOf(g)' = FcbOf(g) /\ handle'[g].mode = handle[g].mode
    BY DEF Loses, FcbOf
  <2>4. CASE v = t
    <3>1. Use(d) = IF g # INVAL THEN FcbOf(g) ELSE INVAL
      BY <2>1, <2>4, <1>1, <1>2, <1>5 DEF Use
    <3>2. Use(d)' = IF g # INVAL THEN FcbOf(g)' ELSE INVAL
      BY <2>2, <2>4, <1>1, <1>2, <1>5 DEF Use
    <3>3. Use(d)' = Use(d)
      BY <3>1, <3>2, <2>3
    <3>4. ASSUME MayWrite(d)' PROVE MayWrite(d)
      <4>1. Use(d)' # INVAL
        BY <3>4 DEF MayWrite
      <4>2. g # INVAL
        BY <4>1, <3>2
      <4>3. Appends(handle'[g].mode)
        BY <3>4, <4>2, <2>2 DEF MayWrite
      <4> QED
        BY <4>1, <4>2, <4>3, <3>3, <2>1, <2>3, <2>4, <1>2, <1>5 DEF MayWrite
    <3> QED
      BY <3>3, <3>4
  <2>5. CASE v # t /\ v # Nobody
    <3>1. Pc(v)' = Pc(v) /\ at'[v] = at[v]
      BY <2>5 DEF Loses, Pc
    <3>2. Use(d) = IF g # INVAL
                   THEN IF Pc(v) = "close handle" /\ at[v].fd = d THEN INVAL ELSE FcbOf(g)
                   ELSE IF Pc(v) = "alloc handle" THEN at[v].i ELSE INVAL
      BY <2>1, <2>5 DEF Use
    <3>3. Use(d)' = IF g # INVAL
                    THEN IF Pc(v)' = "close handle" /\ at'[v].fd = d THEN INVAL ELSE FcbOf(g)'
                    ELSE IF Pc(v)' = "alloc handle" THEN at'[v].i ELSE INVAL
      BY <2>2, <2>5 DEF Use
    <3>4. Use(d)' = Use(d)
      <4>1. CASE g # INVAL
        <5>1. CASE Pc(v) = "close handle" /\ at[v].fd = d
          BY <5>1, <4>1, <3>1, <3>2, <3>3
        <5>2. CASE ~(Pc(v) = "close handle" /\ at[v].fd = d)
          <6>1. Use(d) = FcbOf(g)
            BY <5>2, <4>1, <3>2
          <6>2. Use(d)' = FcbOf(g)'
            BY <5>2, <4>1, <3>1, <3>3
          <6> QED
            BY <6>1, <6>2, <2>3
        <5> QED
          BY <5>1, <5>2
      <4>2. CASE g = INVAL
        BY <4>2, <3>1, <3>2, <3>3
      <4> QED
        BY <4>1, <4>2
    <3>5. MayWrite(d)' => MayWrite(d)
      BY <3>1, <3>4, <2>1, <2>2, <2>3 DEF MayWrite
    <3> QED
      BY <3>4, <3>5
  <2>6. CASE v = Nobody
    <3>1. Use(d) = INVAL /\ Use(d)' = INVAL
      BY <2>1, <2>2, <2>6 DEF Use
    <3> QED
      BY <3>1 DEF MayWrite
  <2> QED
    BY <2>1, <2>4, <2>5, <2>6
<1>6. ~MayWrite(own)'
  BY <1>4 DEF MayWrite
<1>7. i # INVAL /\ \A j \in Slot : \A d \in Slot : d \in Users(j)' <=> d \in Users(j) /\ d # own
  BY <1>1, <1>3, <1>4, <1>5 DEF Users
<1>8. \A j : Users(j) \in SUBSET Slot /\ Users(j)' \in SUBSET Slot
  BY DEF Users
<1>9. own \in Users(i) /\ \A j \in Slot : j # i => own \notin Users(j)
  BY <1>3 DEF Users
<1>10. Users(i)' = Users(i) \ {own}
  BY <1>7, <1>8
<1>11. \A j \in Slot : j # i => Users(j)' = Users(j)
  BY <1>7, <1>8, <1>9
<1>12. /\ IsFiniteSet(Users(i)) /\ Cardinality(Users(i)) \in Nat
       /\ Cardinality(Users(i) \ {own}) = Cardinality(Users(i)) - 1
  BY <1>9, UsersFinite, FS_RemoveElement, FS_CardinalityType
<1>13. IsFiniteSet(Users(i) \ {own})
  BY <1>12, FS_RemoveElement
<1>14. Cardinality(Users(i) \ {own}) = 0 <=> Users(i) \ {own} = {}
  BY <1>13, FS_EmptySet
<1>15. Cardinality(Users(i)) # 0
  BY <1>9, <1>12, FS_EmptySet
<1>16. \A d \in Slot : MayWrite(d)' => MayWrite(d) /\ d # own
  BY <1>5, <1>6
<1>17. Cardinality(Users(i)) = 1 <=> Users(i)' = {}
  BY <1>10, <1>12, <1>14
<1>18. Cardinality(Users(i)') = Cardinality(Users(i)) - 1 /\ Cardinality(Users(i)) > 0
  BY <1>10, <1>12, <1>15
<1> QED
  BY <1>3, <1>4, <1>5, <1>9, <1>10, <1>11, <1>12, <1>16, <1>17, <1>18 DEF Lost

LEMMA FsBlockCloseFileInv ==
  ASSUME TablesInv, NEW t \in Thread, fsBlockCloseFile(t)
  PROVE  TablesInv'
<1>1. /\ Pc(t) = "close fcb" /\ Closing(t)
      /\ UNCHANGED <<table, next, data, handle, openFiles, root, tableLock, fcbLock, length>>
  BY DEF fsBlockCloseFile, Closing, flash, locks
<1>2. /\ Types /\ CallsOwnFiles /\ FilesHaveHandles /\ LocksHeld /\ Counted /\ WritersAlone
      /\ OneFcbEach /\ CallOwnsFile(t) /\ LocksOf(t) /\ t # Nobody
  BY OtherConstants DEF TablesInv, CallsOwnFiles, LocksHeld
<1>3. at[t] \in CloseLocals
  BY <1>1, <1>2, CallTypes, LocalsAre DEF Pc
<1>4. PICK own \in Slot, i \in Slot, h \in Slot : own = at[t].fd /\ i = at[t].i /\ h = at[t].h
  BY <1>3 DEF CloseLocals
<1> DEFINE loc == [pc |-> "close handle", fd |-> own, h |-> h]
<1>5. loc \in Locals /\ loc.pc = "close handle" /\ loc.fd = own /\ loc.h = h
  <2>1. loc \in ClosedLocals /\ loc.pc = "close handle" /\ loc.fd = own /\ loc.h = h
    BY DEF ClosedLocals
  <2> HIDE DEF loc
  <2> QED
    BY <2>1 DEF Locals
<1>6. at' = [at EXCEPT ![t] = loc]
  BY <1>4 DEF fsBlockCloseFile, Goto
<1> HIDE DEF loc
<1>7. at' \in [Thread -> Locals] /\ at'[t] = loc /\ \A u \in Thread : u # t => at'[u] = at[u]
  BY <1>2, <1>5, <1>6, Moves
<1>8. openFiles[own] = [owner |-> t, handle |-> h]
  BY <1>1, <1>2, <1>4 DEF CallOwnsFile
<1>9. openFiles[own].owner = t /\ openFiles[own].handle = h /\ FcbOf(h) = i
  <2>1. FcbOf(h) = i
    BY <1>1, <1>2, <1>4 DEF CallOwnsFile
  <2> QED
    BY <1>8, <2>1, FileIs
<1>10. Loses(t, own, i)
  BY <1>1, <1>4, <1>5, <1>7, <1>9 DEF Loses
<1>11. Lost(own, i)
  BY <1>2, <1>10, UseLost
<1>12. /\ Use(own) = i /\ Use(own)' = INVAL
       /\ \A d \in Slot : d # own => Use(d)' = Use(d)
       /\ \A d \in Slot : MayWrite(d)' => MayWrite(d) /\ d # own
       /\ own \in Users(i) /\ Users(i)' = Users(i) \ {own}
       /\ \A j \in Slot : j # i => Users(j)' = Users(j)
  BY <1>11 DEF Lost
<1>13. /\ Cardinality(Users(i)) \in Nat /\ Cardinality(Users(i)) > 0
       /\ Cardinality(Users(i)') = Cardinality(Users(i)) - 1
       /\ (Cardinality(Users(i)) = 1 <=> Users(i)' = {})
  BY <1>11 DEF Lost
<1>14. fcb \in [Slot -> FcbRecords] /\ fcb[i] \in FcbRecords
  BY <1>2 DEF Types, FcbRecords
<1>15. fcb[i].refcount = Cardinality(Users(i)) /\ fcb[i].id \in Entry /\ fcb[i].id # INVAL
  <2>1. fcb[i].id # INVAL
    BY <1>2, <1>12, InUseIfUsed
  <2> QED
    BY <2>1, <1>2, <1>14 DEF Counted, FcbRecords
<1> DEFINE n == fcb[i].refcount - 1
<1> DEFINE less == [fcb[i] EXCEPT !.refcount = n]
<1> DEFINE new == IF fcb[i].refcount = 1 THEN NoFcb ELSE less
<1>16. fcb' = [fcb EXCEPT ![i] = new]
  <2>1. CASE fcb[i].refcount = 1
    BY <2>1, <1>4 DEF fsBlockCloseFile
  <2>2. CASE fcb[i].refcount # 1
    BY <2>2, <1>4, <1>14 DEF fsBlockCloseFile
  <2> QED
    BY <2>1, <2>2
<1>17. /\ less \in FcbRecords /\ less.id = fcb[i].id /\ less.refcount = n
       /\ less.writer = fcb[i].writer
  <2>1. n \in Nat
    BY <1>13, <1>15
  <2> HIDE DEF n
  <2> QED
    BY <2>1, <1>14 DEF FcbRecords
<1>18. NoFcb \in FcbRecords /\ NoFcb.id = INVAL /\ NoFcb.refcount = 0
  BY Constants DEF NoFcb, FcbRecords
<1>19. /\ new \in FcbRecords /\ new.id \in {fcb[i].id, INVAL}
       /\ new.refcount = Cardinality(Users(i)')
       /\ new.id = INVAL => new = NoFcb
       /\ new.id # INVAL => Users(i)' # {}
       /\ Users(i)' # {} => new.writer = fcb[i].writer
  <2>1. CASE fcb[i].refcount = 1
    <3>1. new = NoFcb /\ Users(i)' = {} /\ Cardinality(Users(i)') = 0
      BY <2>1, <1>13, <1>15
    <3> HIDE DEF new
    <3> QED
      BY <3>1, <1>18
  <2>2. CASE fcb[i].refcount # 1
    <3>1. new = less /\ Users(i)' # {} /\ Cardinality(Users(i)') = n
      BY <2>2, <1>13, <1>15
    <3> HIDE DEF new, less, n
    <3> QED
      BY <3>1, <1>15, <1>17
  <2> QED
    BY <2>1, <2>2
<1> HIDE DEF new, less, n
<1>20. /\ fcb' \in [Slot -> FcbRecords] /\ fcb'[i] = new
       /\ \A j \in Slot : j # i => fcb'[j] = fcb[j]
  BY <1>14, <1>16, <1>19
<1>21. /\ dir' \in [Entry -> [name : Name \cup {NoName}, first : Block \cup {INVAL},
                              size : 0..MaxSize]]
       /\ unsynced' \in SUBSET Entry
       /\ \A e \in Entry : dir'[e].name = dir[e].name
  <2>1. fsBlockSyncEntry(fcb[i]) \/ UNCHANGED <<dir, unsynced>>
    BY <1>4 DEF fsBlockCloseFile
  <2>2. CASE fsBlockSyncEntry(fcb[i])
    <3>1. fcb[i].first \in Block \cup {INVAL} /\ fcb[i].size \in 0..MaxSize
      BY <1>14 DEF FcbRecords
    <3> QED
      BY <2>2, <3>1, <1>2, <1>15, SyncEntryIs
  <2>3. CASE UNCHANGED <<dir, unsynced>>
    BY <2>3, <1>2 DEF Types
  <2> QED
    BY <2>1, <2>2, <2>3
<1>22. Types'
  BY <1>1, <1>2, <1>7, <1>20, <1>21 DEF Types, FcbRecords
<1>23. Pc(t)' = "close handle" /\ at'[t].fd = own /\ at'[t].h = h
  BY <1>5, <1>7 DEF Pc
<1>24. CallsOwnFiles'
  <2>1. CallOwnsFile(t)'
    <3>1. ~Opening(t)' /\ ~Writing(t)'
      BY <1>23 DEF Opening, Writing
    <3>2. openFiles'[at'[t].fd] = [owner |-> t, handle |-> at'[t].h]
      BY <1>1, <1>8, <1>23
    <3> QED
      BY <3>1, <3>2, <1>23 DEF CallOwnsFile
  <2> QED
    BY <2>1, <1>1, <1>2, <1>7, OthersOwn
<1>25. FilesHaveHandles'
  <2>1. ~Opening(t)
    BY <1>1 DEF Opening
  <2> QED
    BY <2>1, <1>1, <1>2, <1>7, FilesSame
<1>26. LocksHeld'
  <2>1. LocksOf(t)'
    BY <1>1, <1>2, <1>23 DEF LocksOf, Writing
  <2>2. \A u \in Thread : u # t => (Writing(u) => FcbOf(at[u].h)' = FcbOf(at[u].h))
    BY <1>1, <1>7 DEF FcbOf
  <2> QED
    BY <2>1, <2>2, <1>1, <1>2, <1>7, LocksSame
<1>27. Counted'
  <2>1. ASSUME NEW j \in Slot, j # i
        PROVE  /\ fcb'[j].refcount = Cardinality(Users(j)')
               /\ fcb'[j].id = INVAL => fcb'[j] = NoFcb
               /\ fcb'[j].id # INVAL => Users(j)' # {}
    <3>1. Users(j)' = Users(j) /\ fcb'[j] = fcb[j]
      BY <2>1, <1>12, <1>20
    <3>2. /\ fcb[j].refcount = Cardinality(Users(j))
          /\ fcb[j].id = INVAL => fcb[j] = NoFcb
          /\ fcb[j].id # INVAL => Users(j) # {}
      BY <1>2 DEF Counted
    <3> QED
      BY <3>1, <3>2
  <2> QED
    BY <2>1, <1>19, <1>20 DEF Counted
<1>28. WritersAlone'
  <2>1. ASSUME NEW d \in Slot, MayWrite(d)' PROVE fcb'[Use(d)'].writer
    <3>1. MayWrite(d) /\ d # own /\ Use(d)' = Use(d)
      BY <2>1, <1>12
    <3>2. fcb[Use(d)].writer /\ Use(d) \in Slot
      BY <3>1, <1>2, UseTypes DEF WritersAlone, MayWrite
    <3>3. CASE Use(d) = i
      <4>1. d \in Users(i)'
        BY <3>1, <3>3 DEF Users
      <4>2. new.writer = fcb[i].writer
        BY <4>1, <1>19
      <4> QED
        BY <4>2, <3>1, <3>2, <3>3, <1>20
    <3>4. CASE Use(d) # i
      BY <3>1, <3>2, <3>4, <1>20
    <3> QED
      BY <3>3, <3>4
  <2>2. ASSUME NEW c \in Slot, NEW d \in Slot, MayWrite(c)', MayWrite(d)', Use(c)' = Use(d)'
        PROVE  c = d
    <3>1. MayWrite(c) /\ MayWrite(d) /\ Use(c) = Use(d)
      BY <2>2, <1>12
    <3> QED
      BY <3>1, <1>2 DEF WritersAlone
  <2> QED
    BY <2>1, <2>2 DEF WritersAlone
<1>29. OneFcbEach'
  <2>1. SearchOf(t)'
    BY <1>23 DEF SearchOf
  <2>2. \A j \in Slot : fcb'[j].id \in {fcb[j].id, INVAL}
    BY <1>19, <1>20
  <2>3. \A e \in Entry : dir'[e].name = NoName <=> dir[e].name = NoName
    BY <1>21
  <2> QED
    BY <2>1, <2>2, <2>3, <1>2, <1>7, EntriesSame
<1> QED
  BY <1>22, <1>24, <1>25, <1>26, <1>27, <1>28, <1>29 DEF TablesInv

(* The end of a close: the handle and the slot of openFiles[] are free.    *)
HandleGone(t, own, h) ==
  /\ at' \in [Thread -> Locals] /\ at'[t] = Idle /\ \A u \in Thread : u # t => at'[u] = at[u]
  /\ handle' \in [Slot -> HandleRecords] /\ handle'[h].fcb = INVAL
  /\ \A g \in Slot : g # h => handle'[g] = handle[g]
  /\ openFiles' \in [Slot -> [owner : Thread \cup {Nobody}, handle : Slot \cup {INVAL}]]
  /\ openFiles[own].owner = t /\ openFiles[own].handle = h
  /\ openFiles'[own].owner = Nobody /\ openFiles'[own].handle = INVAL
  /\ \A d \in Slot : d # own => openFiles'[d] = openFiles[d] /\ openFiles[d].handle # h

LEMMA HandleGiven ==
  ASSUME TablesInv, NEW t \in Thread, fsFreeHandle(t), NEW own \in Slot, NEW h \in Slot,
         own = at[t].fd, h = at[t].h
  PROVE  HandleGone(t, own, h)
<1>1. Pc(t) = "close handle" /\ Closing(t)
  BY DEF fsFreeHandle, Closing
<1>2. Types /\ FilesHaveHandles /\ CallOwnsFile(t) /\ t # Nobody /\ h # INVAL
  BY OtherConstants, Slots DEF TablesInv, CallsOwnFiles
<1>3. /\ handle' = [handle EXCEPT ![h] = NoHandle] /\ openFiles' = [openFiles EXCEPT ![own] = NoFile]
      /\ at' = [at EXCEPT ![t] = Idle]
  BY DEF fsFreeHandle, FreeFd, Return, Goto
<1>4. at' \in [Thread -> Locals] /\ at'[t] = Idle /\ \A u \in Thread : u # t => at'[u] = at[u]
  BY <1>2, <1>3, IdleIsLocal, Moves
<1>5. NoHandle \in HandleRecords /\ NoHandle.fcb = INVAL
  <2>1. 0 \in 0..MaxSize
    BY Constants
  <2> QED
    BY <2>1 DEF NoHandle, HandleRecords
<1>6. /\ handle' \in [Slot -> HandleRecords] /\ handle'[h].fcb = INVAL
      /\ \A g \in Slot : g # h => handle'[g] = handle[g]
  <2>1. handle \in [Slot -> HandleRecords]
    BY <1>2 DEF Types, HandleRecords
  <2> QED
    BY <2>1, <1>3, <1>5
<1>7. NoFile.owner = Nobody /\ NoFile.handle = INVAL
  BY FileIs DEF NoFile
<1>8. /\ openFiles' \in [Slot -> [owner : Thread \cup {Nobody}, handle : Slot \cup {INVAL}]]
      /\ openFiles'[own] = NoFile /\ \A d \in Slot : d # own => openFiles'[d] = openFiles[d]
  <2> DEFINE F == [owner : Thread \cup {Nobody}, handle : Slot \cup {INVAL}]
  <2>1. NoFile \in F /\ openFiles \in [Slot -> F]
    BY <1>2 DEF NoFile, Types
  <2> HIDE DEF F
  <2> QED
    BY <2>1, <1>3 DEF F
<1>9. openFiles[own] = [owner |-> t, handle |-> h]
  BY <1>1, <1>2 DEF CallOwnsFile
<1>10. openFiles[own].owner = t /\ openFiles[own].handle = h
  BY <1>9, FileIs
<1>11. \A d \in Slot : d # own => openFiles[d].handle # h
  BY <1>2, <1>10 DEF FilesHaveHandles
<1> QED
  BY <1>4, <1>6, <1>7, <1>8, <1>10, <1>11 DEF HandleGone

LEMMA UseGone ==
  ASSUME Types, NEW t \in Thread, NEW own \in Slot, NEW h \in Slot, HandleGone(t, own, h),
         Pc(t) = "close handle", at[t].fd = own, NEW d \in Slot
  PROVE  Use(d)' = Use(d) /\ (MayWrite(d)' <=> MayWrite(d))
<1>1. t # Nobody /\ h # INVAL /\ Pc(t)' = "idle"
  BY OtherConstants, Slots, IdleIsLocal DEF Pc, HandleGone
<1>2. CASE d = own
  <2>1. Use(own) = INVAL
    BY <1>1 DEF Use, HandleGone
  <2>2. Use(own)' = INVAL
    BY DEF Use, HandleGone
  <2> QED
    BY <1>2, <2>1, <2>2 DEF MayWrite
<1>3. CASE d # own
  <2>1. PICK v \in Thread \cup {Nobody}, g \in Slot \cup {INVAL} :
          v = openFiles[d].owner /\ g = openFiles[d].handle
    BY DEF Types
  <2>2. openFiles'[d].owner = v /\ openFiles'[d].handle = g /\ g # h
    BY <2>1, <1>3 DEF HandleGone
  <2>3. g # INVAL => FcbOf(g)' = FcbOf(g) /\ handle'[g].mode = handle[g].mode
    BY <2>2 DEF HandleGone, FcbOf
  <2>4. CASE v = t
    <3>1. Use(d) = IF g # INVAL THEN FcbOf(g) ELSE INVAL
      BY <2>1, <2>4, <1>1, <1>3 DEF Use
    <3>2. Use(d)' = IF g # INVAL THEN FcbOf(g)' ELSE INVAL
      BY <2>2, <2>4, <1>1 DEF Use
    <3>3. Use(d)' = Use(d)
      BY <3>1, <3>2, <2>3
    <3>4. CASE g = INVAL
      BY <3>1, <3>3, <3>4 DEF MayWrite
    <3>5. CASE g # INVAL
      BY <3>3, <3>5, <2>1, <2>2, <2>3, <2>4, <1>1 DEF MayWrite
    <3> QED
      BY <3>3, <3>4, <3>5
  <2>5. CASE v # t /\ v # Nobody
    <3>1. Pc(v)' = Pc(v) /\ at'[v] = at[v]
      BY <2>5 DEF HandleGone, Pc
    <3>2. Use(d) = IF g # INVAL
                   THEN IF Pc(v) = "close handle" /\ at[v].fd = d THEN INVAL ELSE FcbOf(g)
                   ELSE IF Pc(v) = "alloc handle" THEN at[v].i ELSE INVAL
      BY <2>1, <2>5 DEF Use
    <3>3. Use(d)' = IF g # INVAL
                    THEN IF Pc(v)' = "close handle" /\ at'[v].fd = d THEN INVAL ELSE FcbOf(g)'
                    ELSE IF Pc(v)' = "alloc handle" THEN at'[v].i ELSE INVAL
      BY <2>2, <2>5 DEF Use
    <3>4. Use(d)' = Use(d)
      <4>1. CASE g = INVAL
        BY <4>1, <3>1, <3>2, <3>3
      <4>2. CASE g # INVAL /\ Pc(v) = "close handle" /\ at[v].fd = d
        BY <4>2, <3>1, <3>2, <3>3
      <4>3. CASE g # INVAL /\ ~(Pc(v) = "close handle" /\ at[v].fd = d)
        <5>1. Use(d) = FcbOf(g)
          BY <4>3, <3>2
        <5>2. Use(d)' = FcbOf(g)'
          BY <4>3, <3>1, <3>3
        <5> QED
          BY <5>1, <5>2, <4>3, <2>3
      <4> QED
        BY <4>1, <4>2, <4>3
    <3>5. MayWrite(d)' <=> MayWrite(d)
      BY <3>1, <3>4, <2>1, <2>2, <2>3 DEF MayWrite
    <3> QED
      BY <3>4, <3>5
  <2>6. CASE v = Nobody
    <3>1. Use(d) = INVAL /\ Use(d)' = INVAL
      BY <2>1, <2>2, <2>6 DEF Use
    <3> QED
      BY <3>1 DEF MayWrite
  <2> QED
    BY <2>1, <2>4, <2>5, <2>6
<1> QED
  BY <1>2, <1>3

LEMMA FsFreeHandleInv ==
  ASSUME TablesInv, NEW t \in Thread, fsFreeHandle(t)
  PROVE  TablesInv'
<1>1. /\ Pc(t) = "close handle"
      /\ UNCHANGED <<table, dir, next, data, fcb, root, tableLock, fcbLock, unsynced, length>>
  BY DEF fsFreeHandle, eeprom, flash, locks, history
<1>2. /\ Types /\ CallsOwnFiles /\ FilesHaveHandles /\ LocksHeld /\ Counted /\ WritersAlone
      /\ OneFcbEach /\ LocksOf(t) /\ t # Nobody
  BY OtherConstants DEF TablesInv, LocksHeld
<1>3. at[t] \in ClosedLocals
  BY <1>1, <1>2, CallTypes, LocalsAre DEF Pc
<1>4. PICK own \in Slot, h \in Slot : own = at[t].fd /\ h = at[t].h
  BY <1>3 DEF ClosedLocals
<1>5. HandleGone(t, own, h)
  BY <1>4, HandleGiven
<1>6. \A d \in Slot : Use(d)' = Use(d) /\ (MayWrite(d)' <=> MayWrite(d))
  BY <1>1, <1>2, <1>4, <1>5, UseGone
<1>7. /\ at' \in [Thread -> Locals] /\ at'[t] = Idle /\ \A u \in Thread : u # t => at'[u] = at[u]
      /\ handle' \in [Slot -> HandleRecords] /\ handle'[h].fcb = INVAL
      /\ \A g \in Slot : g # h => handle'[g] = handle[g]
      /\ openFiles' \in [Slot -> [owner : Thread \cup {Nobody}, handle : Slot \cup {INVAL}]]
      /\ openFiles[own].owner = t /\ openFiles[own].handle = h
      /\ openFiles'[own].owner = Nobody /\ openFiles'[own].handle = INVAL
      /\ \A d \in Slot : d # own => openFiles'[d] = openFiles[d] /\ openFiles[d].handle # h
  BY <1>5 DEF HandleGone
<1>8. Types'
  BY <1>1, <1>2, <1>7 DEF Types, HandleRecords
<1>9. Pc(t)' = "idle" /\ h # INVAL
  BY <1>7, IdleIsLocal, Slots DEF Pc
<1>10. ASSUME NEW d \in Slot, d # own, openFiles[d].handle # INVAL
       PROVE  handle'[openFiles[d].handle] = handle[openFiles[d].handle]
  <2>1. openFiles[d].handle \in Slot /\ openFiles[d].handle # h
    BY <1>2, <1>7, <1>10 DEF Types
  <2> QED
    BY <2>1, <1>7
<1>11. CallsOwnFiles'
  <2>1. CallOwnsFile(t)'
    BY <1>9 DEF CallOwnsFile, Opening, Closing, Writing
  <2>2. \A d \in Slot : openFiles[d].owner \notin {t, Nobody} => openFiles'[d] = openFiles[d]
    BY <1>7
  <2>3. \A d \in Slot : openFiles[d].owner \notin {t, Nobody} /\ openFiles[d].handle # INVAL =>
          handle'[openFiles[d].handle] = handle[openFiles[d].handle]
    BY <1>7, <1>10
  <2> QED
    BY <2>1, <2>2, <2>3, <1>2, <1>7, OthersOwn
<1>12. FilesHaveHandles'
  <2>1. ASSUME NEW d \in Slot PROVE SlotSound(d)'
    <3>1. CASE d = own
      BY <3>1, <1>7 DEF SlotSound
    <3>2. CASE d # own
      <4>1. openFiles'[d] = openFiles[d] /\ SlotSound(d)
        BY <3>2, <1>2, <1>7 DEF FilesHaveHandles
      <4>2. openFiles[d].owner \in Thread \cup {Nobody}
        BY <1>2 DEF Types
      <4>3. openFiles[d].owner # Nobody /\ openFiles[d].handle = INVAL => openFiles[d].owner # t
        BY <4>1, <1>1 DEF SlotSound, Opening
      <4>4. /\ openFiles'[d].owner = Nobody => openFiles'[d].handle = INVAL
            /\ openFiles'[d].handle # INVAL => handle'[openFiles'[d].handle].fcb # INVAL
        BY <3>2, <4>1, <1>10 DEF SlotSound, FcbOf
      <4>5. ASSUME openFiles'[d].owner # Nobody, openFiles'[d].handle = INVAL
            PROVE  Opening(openFiles[d].owner)' /\ at'[openFiles[d].owner].fd = d
        <5>1. PICK u \in Thread : u = openFiles[d].owner /\ u # t /\ Opening(u) /\ at[u].fd = d
          BY <4>1, <4>2, <4>3, <4>5 DEF SlotSound
        <5>2. at'[u] = at[u] /\ Opening(u)'
          BY <5>1, <1>7 DEF Opening, Pc
        <5> QED
          BY <5>1, <5>2, <4>1 DEF Opening, Pc
      <4> QED
        BY <4>1, <4>4, <4>5 DEF SlotSound, Opening, Pc, FcbOf
    <3> QED
      BY <3>1, <3>2
  <2>2. ASSUME NEW c \in Slot, NEW d \in Slot, openFiles'[c].handle = openFiles'[d].handle,
               openFiles'[c].handle # INVAL
        PROVE  c = d
    <3>1. c # own /\ d # own
      BY <2>2, <1>7
    <3>2. openFiles[c].handle = openFiles[d].handle /\ openFiles[c].handle # INVAL
      BY <2>2, <3>1, <1>7
    <3> QED
      BY <3>2, <1>2 DEF FilesHaveHandles
  <2>3. ASSUME NEW g \in Slot, FcbOf(g)' # INVAL PROVE \E d \in Slot : openFiles'[d].handle = g
    <3>1. g # h
      BY <2>3, <1>7 DEF FcbOf
    <3>2. FcbOf(g) # INVAL
      BY <2>3, <3>1, <1>7 DEF FcbOf
    <3>3. PICK d \in Slot : openFiles[d].handle = g
      BY <3>2, <1>2 DEF FilesHaveHandles
    <3> QED
      BY <3>1, <3>3, <1>7
  <2> QED
    BY <2>1, <2>2, <2>3 DEF FilesHaveHandles, SlotSound
<1>13. LocksHeld'
  <2>1. LocksOf(t)'
    BY <1>1, <1>2, <1>9 DEF LocksOf, Writing
  <2>2. ASSUME NEW u \in Thread, u # t, Writing(u) PROVE FcbOf(at[u].h)' = FcbOf(at[u].h)
    <3>1. PICK d \in Slot : openFiles[d] = [owner |-> u, handle |-> at[u].h]
      BY <2>2, <1>2, WritingFile
    <3>2. openFiles[d].owner = u /\ openFiles[d].handle = at[u].h
      BY <3>1, FileIs
    <3>3. at[u].h \in Slot /\ d # own
      BY <3>2, <2>2, <1>2, <1>7, WritingFile
    <3>4. handle'[at[u].h] = handle[at[u].h] /\ at'[u] = at[u]
      BY <3>2, <3>3, <2>2, <1>7
    <3> QED
      BY <3>4 DEF FcbOf
  <2> QED
    BY <2>1, <2>2, <1>1, <1>2, <1>7, LocksSame
<1>14. \A j : Users(j)' = Users(j)
  BY <1>6 DEF Users
<1>15. Counted'
  BY <1>1, <1>2, <1>14, CountedSame
<1>16. WritersAlone'
  BY <1>1, <1>2, <1>6, WritersSame
<1>17. OneFcbEach'
  <2>1. SearchOf(t)'
    BY <1>9 DEF SearchOf
  <2>2. \A j \in Slot : fcb'[j].id \in {fcb[j].id, INVAL}
    BY <1>1
  <2>3. \A e \in Entry : dir'[e].name = NoName <=> dir[e].name = NoName
    BY <1>1
  <2> QED
    BY <2>1, <2>2, <2>3, <1>2, <1>7, EntriesSame
<1> QED
  BY <1>8, <1>11, <1>12, <1>13, <1>15, <1>16, <1>17 DEF TablesInv
------------------------------------------------------------------------------
(* RAM after power-on or a reset.                                          *)
Kept ==
  /\ table \in [Block -> {FREE, USED, AVAIL}]
  /\ dir \in [Entry -> [name : Name \cup {NoName}, first : Block \cup {INVAL}, size : 0..MaxSize]]
  /\ next \in [Block -> Block \cup {INVAL, NoBlock}]
  /\ data \in [Block -> [Cell -> (Entry \X (0..MaxSize)) \cup {Blank, Junk}]]
  /\ unsynced \in SUBSET Entry /\ length \in [Entry -> 0..MaxSize]

LEMMA FreshRam == RamInit /\ Kept => TablesInv
<1> SUFFICES ASSUME RamInit, Kept PROVE TablesInv
  OBVIOUS
<1>1. /\ NoFcb.id = INVAL /\ NoFcb.refcount = 0 /\ NoFcb \in FcbRecords
      /\ NoHandle.fcb = INVAL /\ NoHandle \in HandleRecords
  <2>1. 0 \in 0..MaxSize
    BY Constants
  <2> QED
    BY <2>1 DEF NoFcb, FcbRecords, NoHandle, HandleRecords
<1>2. NoFile.owner = Nobody /\ NoFile.handle = INVAL
      /\ NoFile \in [owner : Thread \cup {Nobody}, handle : Slot \cup {INVAL}]
  BY DEF NoFile
<1>3. /\ \A i \in Slot : fcb[i] = NoFcb /\ handle[i] = NoHandle /\ openFiles[i] = NoFile
      /\ fcb \in [Slot -> FcbRecords] /\ handle \in [Slot -> HandleRecords]
      /\ openFiles \in [Slot -> [owner : Thread \cup {Nobody}, handle : Slot \cup {INVAL}]]
  <2>1. fcb = [i \in Slot |-> NoFcb] /\ handle = [i \in Slot |-> NoHandle]
        /\ openFiles = [i \in Slot |-> NoFile]
    BY DEF RamInit
  <2> QED
    BY <2>1, <1>1, <1>2
<1>4. /\ root = Nobody /\ tableLock = Nobody /\ \A i \in Slot : fcbLock[i] = Nobody
      /\ fcbLock \in [Slot -> Thread \cup {Nobody}]
  BY DEF RamInit
<1>5. at \in [Thread -> Locals] /\ \A t \in Thread : Pc(t) = "idle" /\ t # Nobody
  BY IdleIsLocal, OtherConstants DEF RamInit, Pc
<1>6. Types
  BY <1>3, <1>4, <1>5 DEF Kept, Types, FcbRecords, HandleRecords
<1>7. CallsOwnFiles
  BY <1>5 DEF CallsOwnFiles, CallOwnsFile, Opening, Closing, Writing
<1>8. \A i \in Slot : openFiles[i].owner = Nobody /\ openFiles[i].handle = INVAL /\ FcbOf(i) = INVAL
  BY <1>1, <1>2, <1>3 DEF FcbOf
<1>9. FilesHaveHandles
  BY <1>8 DEF FilesHaveHandles, SlotSound
<1>10. LocksHeld
  BY <1>4, <1>5 DEF LocksHeld, LocksOf, Writing
<1>11. \A d \in Slot : Use(d) = INVAL /\ ~MayWrite(d)
  BY <1>8 DEF Use, MayWrite
<1>12. Counted
  <2>1. ASSUME NEW i \in Slot PROVE Users(i) = {} /\ Cardinality(Users(i)) = 0
    <3>1. i # INVAL
      BY Slots
    <3>2. Users(i) = {}
      BY <3>1, <1>11 DEF Users
    <3> QED
      BY <3>2, FS_EmptySet
  <2>2. ASSUME NEW i \in Slot PROVE fcb[i].id = INVAL /\ fcb[i].refcount = 0 /\ fcb[i] = NoFcb
    BY <1>1, <1>3
  <2> QED
    BY <2>1, <2>2 DEF Counted
<1>13. WritersAlone
  BY <1>11 DEF WritersAlone
<1>14. OneFcbEach
  <2>1. \A i \in Slot : fcb[i].id = INVAL
    BY <1>1, <1>3
  <2> QED
    BY <2>1, <1>5 DEF OneFcbEach, FcbsDiffer, FcbsNamed, SearchOf
<1> QED
  BY <1>6, <1>7, <1>9, <1>10, <1>12, <1>13, <1>14 DEF TablesInv

LEMMA InitInv == Init => TablesInv
<1> SUFFICES ASSUME Init PROVE TablesInv
  OBVIOUS
<1>1. RamInit
  BY DEF Init
<1>2. Kept
  <2>1. 0 \in 0..MaxSize /\ 1 \in 0..MaxSize
    BY Constants
  <2>2. 0 \in Block
    <3>1. Segments * PerSegment \in Nat /\ Segments * PerSegment > 0
      BY Constants
    <3> DEFINE N == Segments * PerSegment
    <3> HIDE DEF N
    <3>2. N \in Nat /\ N > 0 /\ Block = 0..(N - 1)
      BY <3>1 DEF N, Block
    <3> QED
      BY <3>2
  <2>3. dir \in [Entry -> [name : Name \cup {NoName}, first : Block \cup {INVAL}, size : 0..MaxSize]]
    BY <2>1, <2>2 DEF Init
  <2>4. length \in [Entry -> 0..MaxSize]
    BY <2>1 DEF Init
  <2> QED
    BY <2>3, <2>4 DEF Init, Kept
<1> QED
  BY <1>1, <1>2, FreshRam

LEMMA ResetInv ==
  ASSUME TablesInv, Reset
  PROVE  TablesInv'
<1>1. RamInit'
  BY DEF Reset, RamInit
<1>2. Kept'
  BY DEF TablesInv, Types, Kept, Reset, eeprom, flash, history
<1>3. (RamInit /\ Kept => TablesInv)'
  BY FreshRam, PTL
<1> QED
  BY <1>1, <1>2, <1>3
------------------------------------------------------------------------------
LEMMA StepInv ==
  ASSUME TablesInv, NEW t \in Thread, Step(t)
  PROVE  TablesInv'
<1>1. CASE Open(t)
  BY <1>1, FsOpenInv, OpenFindInv, FindFcbOnInv, ShareFcbInv, AllocFcbOnInv, AllocFcbInv,
     OpenHandleInv DEF Open
<1>2. CASE Allocate(t)
  BY <1>2, AllocateMarkInv, AllocateRecordInv, AllocateEraseInv, AllocateFailInv, AllocateLinkInv
     DEF Allocate
<1>3. CASE Write(t)
  BY <1>3, FsWriteInv, FsFlushInv, FlushInv, ProgramInv, FlushDoneReturns, FlushDoneCloses
     DEF Write
<1>4. CASE Close(t)
  BY <1>4, FsCloseReaderInv, FsBlockCloseFileInv, FsFreeHandleInv DEF Close
<1>5. CASE Remove(t)
  BY <1>5, FsRemoveInv, RemoveRefusedInv, BlockFreeInv, DelEntryInv DEF Remove
<1>6. CASE fsRename(t)
  BY <1>6, FsRenameInv
<1> QED
  BY <1>1, <1>2, <1>3, <1>4, <1>5, <1>6 DEF Step

LEMMA SameInv ==
  ASSUME TablesInv, UNCHANGED vars
  PROVE  TablesInv'
<1>1. UNCHANGED <<table, dir, next, data, fcb, handle, openFiles, root, tableLock, fcbLock, at,
                  unsynced, length>>
  BY DEF vars, eeprom, flash, ram, locks, history
<1>2. /\ Types /\ CallsOwnFiles /\ FilesHaveHandles /\ LocksHeld /\ Counted /\ WritersAlone
      /\ OneFcbEach
  BY DEF TablesInv
<1>3. \A d : Use(d)' = Use(d) /\ (MayWrite(d)' <=> MayWrite(d))
  BY <1>1 DEF Use, MayWrite, Pc, FcbOf
<1>4. Types' /\ CallsOwnFiles'
  BY <1>1, <1>2 DEF Types, CallsOwnFiles, CallOwnsFile, Opening, Closing, Writing, Pc, FcbOf
<1>5. FilesHaveHandles'
  BY <1>1, <1>2 DEF FilesHaveHandles, SlotSound, Opening, Pc, FcbOf
<1>9. LocksHeld'
  <2>1. ASSUME NEW t \in Thread PROVE LocksOf(t)'
    <3>1. LocksOf(t)
      BY <1>2 DEF LocksHeld
    <3>2. Pc(t)' = Pc(t) /\ (Writing(t)' <=> Writing(t)) /\ FcbOf(at[t].h)' = FcbOf(at[t].h)
      BY <1>1 DEF Writing, Pc, FcbOf
    <3> QED
      BY <3>1, <3>2, <1>1 DEF LocksOf
  <2> QED
    BY <2>1 DEF LocksHeld
<1>6. \A i : Users(i)' = Users(i)
  BY <1>3 DEF Users
<1>7. Counted' /\ WritersAlone'
  BY <1>1, <1>2, <1>3, <1>6, CountedSame, WritersSame
<1>8. OneFcbEach'
  BY <1>1, <1>2 DEF OneFcbEach, FcbsDiffer, FcbsNamed, SearchOf, Pc
<1> QED
  BY <1>4, <1>5, <1>7, <1>8, <1>9 DEF TablesInv

(* The inductive invariant: the handles, control blocks and locks agree    *)
(* with each other and with where every call is, whatever the calls do and *)
(* wherever a reset falls.                                                 *)
THEOREM TablesInvariant == Spec => []TablesInv
<1>1. TablesInv /\ [Next]_vars => TablesInv'
  BY ResetInv, StepInv, SameInv DEF Next
<1> QED
  BY InitInv, <1>1, PTL DEF Spec
------------------------------------------------------------------------------
(* What the invariant says of handles and of reference counts.             *)
LEMMA SameSize ==
  ASSUME NEW S, IsFiniteSet(S), NEW T, NEW f \in [S -> T],
         \A x, y \in S : f[x] = f[y] => x = y, \A z \in T : \E x \in S : f[x] = z
  PROVE  IsFiniteSet(T) /\ Cardinality(T) = Cardinality(S)
<1>1. f \in Bijection(S, T)
  BY DEF Bijection, Injection, Surjection, IsInjective
<1>2. ExistsBijection(S, T)
  BY <1>1 DEF ExistsBijection
<1> QED
  BY <1>2, FS_Bijection

LEMMA AtMostOne ==
  ASSUME NEW S, \A x, y \in S : x = y
  PROVE  Cardinality(S) <= 1
<1>1. CASE S = {}
  BY <1>1, FS_EmptySet
<1>2. CASE S # {}
  <2>1. PICK x : S = {x}
    BY <1>2
  <2> QED
    BY <2>1, FS_Singleton
<1> QED
  BY <1>1, <1>2

(* A handle that refers to a control block is that of one open file, and   *)
(* the file uses the control block unless it gives the handle back.        *)
LEMMA HandleUsed ==
  ASSUME TablesInv, NEW h \in Slot, FcbOf(h) # INVAL
  PROVE  \E fd \in Slot :
           /\ openFiles[fd].handle = h /\ openFiles[fd].owner \in Thread
           /\ Use(fd) \in {FcbOf(h), INVAL}
           /\ ~Busy(h, {"close handle"}) <=> Use(fd) = FcbOf(h)
           /\ Use(fd) = FcbOf(h) /\ ~Busy(h, {"close fcb"}) /\ Appends(handle[h].mode) =>
                MayWrite(fd)
<1>1. Types /\ CallsOwnFiles /\ FilesHaveHandles
  BY DEF TablesInv
<1>2. PICK fd \in Slot : openFiles[fd].handle = h
  BY <1>1 DEF FilesHaveHandles
<1>3. PICK t \in Thread \cup {Nobody} : t = openFiles[fd].owner
  BY <1>1 DEF Types
<1>4. h # INVAL /\ t # Nobody
  BY <1>1, <1>2, <1>3, Slots DEF FilesHaveHandles, SlotSound
<1>5. ASSUME NEW u \in Thread, Pc(u) \in {"close fcb", "close handle"}
      PROVE  at[u].fd \in Slot /\ (at[u].h = h <=> u = t /\ at[u].fd = fd)
  <2>1. Closing(u)
    BY <1>5 DEF Closing
  <2>2. PICK c \in Slot, g \in Slot : c = at[u].fd /\ g = at[u].h
    BY <2>1, <1>1, CallTypes
  <2>3. openFiles[c] = [owner |-> u, handle |-> g]
    BY <2>1, <2>2, <1>1 DEF CallsOwnFiles, CallOwnsFile
  <2>4. openFiles[c].owner = u /\ openFiles[c].handle = g /\ g # INVAL
    BY <2>2, <2>3, FileIs, Slots
  <2>5. c = fd <=> g = h
    BY <2>4, <1>1, <1>2 DEF FilesHaveHandles
  <2>6. c = fd => u = t
    BY <2>4, <1>3
  <2> QED
    BY <2>2, <2>5, <2>6
<1>6. Use(fd) = IF Pc(t) = "close handle" /\ at[t].fd = fd THEN INVAL ELSE FcbOf(h)
  BY <1>2, <1>3, <1>4 DEF Use
<1>7. Busy(h, {"close handle"}) <=> Pc(t) = "close handle" /\ at[t].fd = fd
  BY <1>4, <1>5 DEF Busy
<1>8. Pc(t) = "close fcb" /\ at[t].fd = fd => Busy(h, {"close fcb"})
  BY <1>4, <1>5 DEF Busy
<1>9. ~Busy(h, {"close handle"}) <=> Use(fd) = FcbOf(h)
  BY <1>6, <1>7
<1>10. Use(fd) = FcbOf(h) /\ ~Busy(h, {"close fcb"}) /\ Appends(handle[h].mode) => MayWrite(fd)
  BY <1>2, <1>3, <1>4, <1>8 DEF MayWrite
<1> QED
  BY <1>2, <1>3, <1>4, <1>6, <1>9, <1>10

LEMMA OneWriterHolds == TablesInv => OneWriter
<1> SUFFICES ASSUME TablesInv, NEW i \in Slot
             PROVE  Cardinality({h \in Writers(i) : ~Busy(h, {"close fcb"})}) <= 1
  BY DEF OneWriter
<1> DEFINE W == {h \in Writers(i) : ~Busy(h, {"close fcb"})}
<1>1. ASSUME NEW h \in W
      PROVE  \E fd \in Slot : openFiles[fd].handle = h /\ MayWrite(fd) /\ Use(fd) = i
  <2>1. /\ h \in Slot /\ FcbOf(h) = i /\ i # INVAL /\ Appends(handle[h].mode)
        /\ ~Busy(h, {"close handle"}) /\ ~Busy(h, {"close fcb"})
    BY Slots DEF Writers, HandlesOf
  <2> QED
    BY <2>1, HandleUsed
<1>2. \A g, h \in W : g = h
  <2> TAKE g, h \in W
  <2> HIDE DEF W
  <2>1. PICK c \in Slot : openFiles[c].handle = g /\ MayWrite(c) /\ Use(c) = i
    BY <1>1
  <2>2. PICK d \in Slot : openFiles[d].handle = h /\ MayWrite(d) /\ Use(d) = i
    BY <1>1
  <2>3. c = d
    BY <2>1, <2>2 DEF TablesInv, WritersAlone
  <2> QED
    BY <2>1, <2>2, <2>3
<1> HIDE DEF W
<1>3. Cardinality(W) <= 1
  BY <1>2, AtMostOne
<1> QED
  BY <1>3 DEF W

LEMMA CountsAgreeHolds == TablesInv => CountsAgree
<1> SUFFICES ASSUME TablesInv, NEW i \in Slot
             PROVE  fcb[i].refcount =
                      Cardinality(HandlesOf(i))
                        + Cardinality({t \in Thread : Pc(t) = "alloc handle" /\ at[t].i = i})
  BY DEF CountsAgree
<1> DEFINE A == {fd \in Users(i) : openFiles[fd].handle # INVAL}
<1> DEFINE B == {fd \in Users(i) : openFiles[fd].handle = INVAL}
<1> DEFINE C == {t \in Thread : Pc(t) = "alloc handle" /\ at[t].i = i}
<1> DEFINE f == [fd \in A |-> openFiles[fd].handle]
<1> DEFINE g == [fd \in B |-> openFiles[fd].owner]
<1>1. Types /\ CallsOwnFiles /\ FilesHaveHandles /\ Counted /\ i # INVAL
  BY Slots DEF TablesInv
<1>2. IsFiniteSet(A) /\ IsFiniteSet(B)
  BY UsersFinite, FS_Subset
<1>3. Users(i) = A \cup B /\ A \cap B = {}
  OBVIOUS
<1>4. Cardinality(Users(i)) = Cardinality(A) + Cardinality(B)
  <2> HIDE DEF A, B
  <2>1. Cardinality(A \cup B) = Cardinality(A) + Cardinality(B) - Cardinality(A \cap B)
    BY <1>2, FS_Union
  <2>2. Cardinality(A) \in Nat /\ Cardinality(B) \in Nat /\ Cardinality({}) = 0
    BY <1>2, FS_CardinalityType, FS_EmptySet
  <2>3. Cardinality(Users(i)) = Cardinality(A \cup B)
    BY <1>3
  <2>4. Cardinality(A \cap B) = 0
    BY <1>3, <2>2
  <2> QED
    BY <2>1, <2>2, <2>3, <2>4
<1>5. ASSUME NEW fd \in A
      PROVE  openFiles[fd].handle \in HandlesOf(i)
  <2>1. fd \in Slot /\ Use(fd) = i /\ openFiles[fd].handle \in Slot
    BY <1>1 DEF Users, Types
  <2>2. PICK h \in Slot : h = openFiles[fd].handle
    BY <2>1
  <2>3. h # INVAL /\ FcbOf(h) # INVAL
    BY <2>1, <2>2, <1>1 DEF FilesHaveHandles, SlotSound
  <2>4. PICK d \in Slot : /\ openFiles[d].handle = h /\ Use(d) \in {FcbOf(h), INVAL}
                          /\ ~Busy(h, {"close handle"}) <=> Use(d) = FcbOf(h)
    BY <2>3, HandleUsed
  <2>5. d = fd
    BY <2>1, <2>2, <2>3, <2>4, <1>1 DEF FilesHaveHandles
  <2> QED
    BY <2>1, <2>2, <2>4, <2>5, <1>1 DEF HandlesOf
<1>6. f \in [A -> HandlesOf(i)] /\ \A c, d \in A : f[c] = f[d] => c = d
  <2>1. f \in [A -> HandlesOf(i)]
    <3> HIDE DEF A
    <3> QED
      BY <1>5
  <2>2. A \subseteq Slot /\ \A c \in A : f[c] = openFiles[c].handle /\ openFiles[c].handle # INVAL
    BY DEF Users
  <2> HIDE DEF A, f
  <2>3. \A c, d \in A : f[c] = f[d] => c = d
    BY <2>2, <1>1 DEF FilesHaveHandles
  <2> QED
    BY <2>1, <2>3
<1>7. ASSUME NEW h \in HandlesOf(i) PROVE \E fd \in A : f[fd] = h
  <2>1. h \in Slot /\ FcbOf(h) = i /\ ~Busy(h, {"close handle"})
    BY DEF HandlesOf
  <2>2. PICK fd \in Slot : openFiles[fd].handle = h /\ Use(fd) = i
    BY <2>1, <1>1, HandleUsed
  <2>3. fd \in A
    BY <2>1, <2>2, Slots DEF Users
  <2> QED
    BY <2>2, <2>3
<1>8. Cardinality(HandlesOf(i)) = Cardinality(A)
  <2> DEFINE H == HandlesOf(i)
  <2>1. /\ f \in [A -> H] /\ \A c, d \in A : f[c] = f[d] => c = d
        /\ \A h \in H : \E fd \in A : f[fd] = h
    BY <1>6, <1>7
  <2> HIDE DEF A, f, H
  <2>2. Cardinality(H) = Cardinality(A)
    BY <2>1, <1>2, SameSize
  <2> QED
    BY <2>2 DEF H
<1>9. ASSUME NEW fd \in B
      PROVE  openFiles[fd].owner \in C /\ at[openFiles[fd].owner].fd = fd
  <2>1. fd \in Slot /\ Use(fd) = i /\ openFiles[fd].handle = INVAL
    BY DEF Users
  <2>2. PICK t \in Thread \cup {Nobody} : t = openFiles[fd].owner
    BY <2>1, <1>1 DEF Types
  <2>3. t # Nobody /\ Pc(t) = "alloc handle" /\ at[t].i = i
    BY <2>1, <2>2, <1>1 DEF Use
  <2>4. at[t].fd = fd
    BY <2>1, <2>2, <2>3, <1>1 DEF FilesHaveHandles, SlotSound
  <2> QED
    BY <2>2, <2>3, <2>4
<1>10. g \in [B -> C] /\ \A c, d \in B : g[c] = g[d] => c = d
  <2>1. \A fd \in B : g[fd] = openFiles[fd].owner
    OBVIOUS
  <2>2. \A fd \in B : g[fd] \in C /\ at[g[fd]].fd = fd
    BY <2>1, <1>9
  <2>3. g = [fd \in B |-> g[fd]]
    OBVIOUS
  <2> HIDE DEF B, C, g
  <2> QED
    BY <2>2, <2>3
<1>11. ASSUME NEW t \in C PROVE \E fd \in B : g[fd] = t
  <2>1. t \in Thread /\ Opening(t) /\ Pc(t) = "alloc handle" /\ at[t].i = i /\ t # Nobody
    BY OtherConstants DEF Opening
  <2>2. PICK fd \in Slot : fd = at[t].fd
    BY <2>1, <1>1, CallTypes
  <2>3. openFiles[fd] = [owner |-> t, handle |-> INVAL]
    BY <2>1, <2>2, <1>1 DEF CallsOwnFiles, CallOwnsFile
  <2>4. openFiles[fd].owner = t /\ openFiles[fd].handle = INVAL
    BY <2>3, FileIs
  <2>5. Use(fd) = i
    BY <2>1, <2>4 DEF Use
  <2>6. fd \in B
    BY <2>4, <2>5 DEF Users
  <2> QED
    BY <2>4, <2>6
<1>12. Cardinality(C) = Cardinality(B)
  <2> HIDE DEF B, C, g
  <2> QED
    BY <1>2, <1>10, <1>11, SameSize
<1>13. fcb[i].refcount = Cardinality(Users(i))
  BY <1>1 DEF Counted
<1> HIDE DEF A, B
<1> QED
  BY <1>4, <1>8, <1>12, <1>13

LEMMA TablesSufficeHolds == TablesInv => TablesSuffice
<1> SUFFICES ASSUME TablesInv, NEW t \in Thread
             PROVE  /\ Pc(t) = "alloc fcb" => \E i \in Slot : i >= at[t].i /\ fcb[i].id = INVAL
                    /\ Pc(t) = "alloc handle" => \E h \in Slot : FcbOf(h) = INVAL
  BY DEF TablesSuffice
<1>1. Pc(t) = "alloc fcb" => \E i \in Slot : i >= at[t].i /\ fcb[i].id = INVAL
  BY DEF TablesInv, OneFcbEach, SearchOf
<1>2. Pc(t) = "alloc handle" => \E h \in Slot : FcbOf(h) = INVAL
  BY FreeHandle DEF TablesInv, Opening
<1> QED
  BY <1>1, <1>2

(* HandlesSound: two threads never append to one file, a control block     *)
(* counts its users, and an open that has a slot of openFiles[] finds a    *)
(* control block and a handle, whatever other threads do in between        *)
(* (meta.c, block.c).                                                      *)
THEOREM HandlesStaySound == Spec => []HandlesSound
<1>1. TablesInv => HandlesSound
  BY OneWriterHolds, CountsAgreeHolds, TablesSufficeHolds DEF HandlesSound
<1> QED
  BY <1>1, TablesInvariant, PTL
------------------------------------------------------------------------------
(* The lock that t takes next is held by u: rootMutex, that of the control *)
(* block at hand, or fsBlkTableMutex.  (A thread that begins a call holds  *)
(* nothing yet, so nobody waits for it.)                                   *)
WaitsFor(t, u) ==
  \/ Pc(t) = "open" /\ root = u
  \/ Pc(t) \in {"find fcb", "alloc fcb", "alloc handle", "close fcb"} /\ fcbLock[at[t].i] = u
  \/ Pc(t) \in {"allocate", "free"} /\ tableLock = u

NoCircle == \A S \in SUBSET Thread : S # {} => \E t \in S : \A u \in S : ~WaitsFor(t, u)

LEMMA LockNumber ==
  ASSUME TablesInv, NEW t \in Thread,
         Pc(t) \in {"find fcb", "alloc fcb", "alloc handle", "close fcb"}
  PROVE  at[t].i \in Slot
<1>1. at[t] \in Locals
  BY DEF TablesInv, Types
<1>2. Pc(t) = "close fcb" => at[t] \in CloseLocals
  BY <1>1, LocalsAre DEF Pc
<1>3. Pc(t) = "alloc handle" => at[t] \in HandleLocals
  BY <1>1, LocalsAre DEF Pc
<1>4. Pc(t) = "alloc fcb" => at[t] \in SearchLocals
  BY <1>1, LocalsAre DEF Pc
<1>5. Pc(t) = "find fcb" => at[t].i \in Slot
  BY <1>1, LocalsAre DEF Pc
<1> QED
  BY <1>2, <1>3, <1>4, <1>5 DEF CloseLocals, HandleLocals, SearchLocals

LEMMA NoCircleHolds == TablesInv => NoCircle
<1> SUFFICES ASSUME TablesInv, NEW S \in SUBSET Thread, S # {}
             PROVE  \E t \in S : \A u \in S : ~WaitsFor(t, u)
  BY DEF NoCircle
<1>1. ASSUME NEW t \in Thread, NEW u \in Thread, WaitsFor(t, u)
      PROVE  /\ Pc(t) \notin {"erase", "link", "flush", "program"}
             /\ Writing(t) => Pc(u) \in {"erase", "link"}
             /\ Pc(t) \in {"find fcb", "alloc fcb", "free"} => Writing(u)
             /\ Pc(u) \in {"find fcb", "alloc fcb", "free"} \/ Writing(u)
  <2>1. LocksOf(u)
    BY DEF TablesInv, LocksHeld
  <2>2. Pc(t) \in {"find fcb", "alloc fcb", "alloc handle", "close fcb"} => at[t].i \in Slot
    BY LockNumber
  <2>3. CASE Pc(t) = "open" /\ root = u
    BY <2>1, <2>3 DEF LocksOf, Writing
  <2>4. CASE /\ Pc(t) \in {"find fcb", "alloc fcb", "alloc handle", "close fcb"}
             /\ fcbLock[at[t].i] = u
    <3>1. Writing(u)
      BY <2>1, <2>2, <2>4 DEF LocksOf
    <3> QED
      BY <2>4, <3>1 DEF Writing
  <2>5. CASE Pc(t) \in {"allocate", "free"} /\ tableLock = u
    <3>1. Pc(u) \in {"erase", "link"}
      BY <2>1, <2>5 DEF LocksOf
    <3> QED
      BY <2>5, <3>1 DEF Writing
  <2> QED
    BY <1>1, <2>3, <2>4, <2>5 DEF WaitsFor
<1>2. CASE \E t \in S : Pc(t) \in {"erase", "link"}
  BY <1>1, <1>2
<1>3. CASE (\A t \in S : Pc(t) \notin {"erase", "link"}) /\ \E t \in S : Writing(t)
  BY <1>1, <1>3
<1>4. CASE /\ \A t \in S : ~Writing(t)
           /\ \E t \in S : Pc(t) \in {"find fcb", "alloc fcb", "free"}
  BY <1>1, <1>4
<1>5. CASE \A t \in S : ~Writing(t) /\ Pc(t) \notin {"find fcb", "alloc fcb", "free"}
  BY <1>1, <1>5
<1> QED
  BY <1>2, <1>3, <1>4, <1>5

(* Calls never wait in a circle: opens and removals take rootMutex and     *)
(* then the lock of one file after the other (meta.c:166), writes a file's *)
(* and then fsBlkTableMutex (alloc.c), and none is left behind.            *)
THEOREM LocksMakeNoCircle == Spec => []NoCircle
BY NoCircleHolds, TablesInvariant, PTL

(* Whenever calls are under way, one of them finds the lock that it takes  *)
(* next free, or takes none: there is always a holder that is not itself   *)
(* waiting, and every lock that is taken has a call that holds it.         *)
NextLockFree(t) ==
  /\ Pc(t) = "open" => root = Nobody
  /\ Pc(t) \in {"find fcb", "alloc fcb", "alloc handle", "close fcb"} => fcbLock[at[t].i] = Nobody
  /\ Pc(t) \in {"allocate", "free"} => tableLock = Nobody

SomeCallIsFree ==
  LET inCall == {t \in Thread : Pc(t) # "idle"}
  IN  inCall # {} => \E t \in inCall : NextLockFree(t)

LEMMA SomeCallIsFreeHolds == TablesInv => SomeCallIsFree
<1> DEFINE S == {t \in Thread : Pc(t) # "idle"}
<1> SUFFICES ASSUME TablesInv, S # {} PROVE \E t \in S : NextLockFree(t)
  BY DEF SomeCallIsFree
<1>1. PICK t \in S : \A u \in S : ~WaitsFor(t, u)
  BY NoCircleHolds DEF NoCircle
<1>2. /\ root \in Thread \cup {Nobody} /\ tableLock \in Thread \cup {Nobody}
      /\ \A i \in Slot : fcbLock[i] \in Thread \cup {Nobody}
  BY DEF TablesInv, Types
<1>3. \A u \in Thread : LocksOf(u)
  BY DEF TablesInv, LocksHeld
<1>4. Pc(t) = "open" => root = Nobody
  <2>1. ASSUME Pc(t) = "open", root \in Thread PROVE FALSE
    <3>1. root \in S
      BY <2>1, <1>3 DEF LocksOf
    <3> QED
      BY <2>1, <3>1, <1>1 DEF WaitsFor
  <2> QED
    BY <2>1, <1>2
<1>5. Pc(t) \in {"allocate", "free"} => tableLock = Nobody
  <2>1. ASSUME Pc(t) \in {"allocate", "free"}, tableLock \in Thread PROVE FALSE
    <3>1. tableLock \in S
      BY <2>1, <1>3 DEF LocksOf
    <3> QED
      BY <2>1, <3>1, <1>1 DEF WaitsFor
  <2> QED
    BY <2>1, <1>2
<1>6. ASSUME Pc(t) \in {"find fcb", "alloc fcb", "alloc handle", "close fcb"}
      PROVE  fcbLock[at[t].i] = Nobody
  <2>1. PICK i \in Slot : i = at[t].i
    BY <1>6, LockNumber
  <2>2. ASSUME NEW u \in Thread, fcbLock[i] = u PROVE FALSE
    <3>1. Writing(u)
      BY <2>2, <1>3 DEF LocksOf
    <3>2. u \in S
      BY <3>1 DEF Writing
    <3> QED
      BY <1>6, <2>1, <2>2, <3>2, <1>1 DEF WaitsFor
  <2> QED
    BY <2>1, <2>2, <1>2
<1> QED
  BY <1>1, <1>4, <1>5, <1>6 DEF NextLockFree

(* Some call always finds its next lock free, whatever calls are under way *)
(* and whatever they failed at before: no error path of meta.c, alloc.c or *)
(* block.c leaves a lock behind.                                           *)
THEOREM LocksAreFreed == Spec => []SomeCallIsFree
BY SomeCallIsFreeHolds, TablesInvariant, PTL
------------------------------------------------------------------------------
(* The blocks of the files are found by following numbers from block to    *)
(* block.  The invariant speaks of them directly instead: there are        *)
(* functions that say which is the k-th block of a file (blk), how many    *)
(* blocks it has (num), and how much of it is on the flash (put), and the  *)
(* tables, the flash and the handles agree with them.                      *)
Removing(e) == \E t \in Thread : Pc(t) = "free" /\ at[t].id = e

Erased(b) == next[b] = INVAL /\ data[b] = [c \in Cell |-> Blank]

(* Of what an entry's first n units take, the first and the last block.    *)
FirstOf(blk, e, n) == IF n = 0 THEN INVAL ELSE blk[e][0]
LastOf(blk, e, n)  == IF n = 0 THEN INVAL ELSE blk[e][BlocksFor(n) - 1]

Owned(blk, num, b) == \E e \in Entry : \E k \in 0..(num[e] - 1) : blk[e][k] = b

(* A handle that may write, in no call that closes it.                     *)
ActiveWriter(h) == /\ FcbOf(h) # INVAL /\ Appends(handle[h].mode)
                   /\ \A t \in Thread : Pc(t) \in {"close fcb", "close handle"} => at[t].h # h

(* A file's blocks are in use, are linked in their order up to the last    *)
(* one, and belong to no other place in no other file.                     *)
ChainsSound(blk, num) ==
  /\ \A e \in Entry : \A k \in 0..(num[e] - 1) :
       /\ table[blk[e][k]] = USED
       /\ next[blk[e][k]] = IF k + 1 < num[e] THEN blk[e][k + 1] ELSE INVAL
  /\ \A d, e \in Entry : \A j \in 0..(num[d] - 1), k \in 0..(num[e] - 1) :
       blk[d][j] = blk[e][k] => d = e /\ j = k

(* The other blocks in use are on their way into a file, and erased; free  *)
(* blocks are erased, or about to be.                                      *)
AllocationSound(blk, num) ==
  /\ \A b \in Block : table[b] = USED =>
       Owned(blk, num, b) \/ \E t \in Thread : Pc(t) = "link" /\ at[t].b = b
  /\ \A t \in Thread : Pc(t) = "link" => /\ table[at[t].b] = USED /\ Erased(at[t].b)
                                         /\ ~Owned(blk, num, at[t].b)
  /\ \A t \in Thread : Pc(t) = "erase" => \A b \in InSegment(at[t].s) : table[b] = FREE
  /\ \A b \in Block : table[b] = FREE =>
       Erased(b) \/ \E t \in Thread : Pc(t) = "erase" /\ at[t].s = segNum(b)

(* A file has the blocks that its units take; one that is being removed,   *)
(* those that are left.                                                    *)
CountsSound(blk, num) ==
  /\ \A e \in Entry : /\ e \notin Files => num[e] = 0
                      /\ e \in Files /\ ~Removing(e) => num[e] = BlocksFor(length[e])
  /\ \A t \in Thread : Pc(t) = "free" =>
       /\ num[at[t].id] = BlocksFor(at[t].left)
       /\ at[t].left > 0 => at[t].b = blk[at[t].id][0]

(* The flash has all but the buffer of a writer, which is within one block.*)
SizesSound(blk, put) ==
  /\ \A e \in Entry : /\ put[e] <= length[e]
                      /\ BlockData * (BlocksFor(length[e]) - 1) <= put[e]
                      /\ ~InUse(e) => put[e] = length[e]
  /\ \A i \in Slot : fcb[i].id # INVAL =>
       /\ fcb[i].size = put[fcb[i].id]
       /\ fcb[i].first = FirstOf(blk, fcb[i].id, length[fcb[i].id])
       /\ put[fcb[i].id] # length[fcb[i].id] => \E h \in Slot : ActiveWriter(h) /\ FcbOf(h) = i

DataSound(blk, num, put) ==
  \A e \in Files : ~Removing(e) => \A k \in 0..(num[e] - 1), c \in Cell :
    data[blk[e][k]][c] = IF BlockData * k + c < put[e] THEN <<e, BlockData * k + c>> ELSE Blank

DirectorySound(blk, put) ==
  /\ \A e \in unsynced : InUse(e)
  /\ \A e \in Files : ~Removing(e) =>
       /\ e \notin unsynced => /\ dir[e].size <= put[e]
                               /\ dir[e].size > 0 => dir[e].first = blk[e][0]
       /\ ~InUse(e) => dir[e].size = length[e] /\ dir[e].first = FirstOf(blk, e, length[e])

(* A writer is at the end of its file, and nothing is in its buffer where  *)
(* a block begins, but in the call that filled the one before.             *)
WritersSound(blk) ==
  /\ \A t \in Thread : Pc(t) = "alloc handle" /\ Appends(at[t].mode) =>
       fcb[at[t].i].size = length[fcb[at[t].i].id]
  /\ \A h \in Slot : ActiveWriter(h) =>
       LET f == fcb[FcbOf(h)]
       IN  /\ handle[h].pos = length[f.id]
           /\ handle[h].curr = LastOf(blk, f.id, length[f.id])
           /\ handle[h].pos % BlockData = 0 =>
                \/ f.size = handle[h].pos
                \/ \E t \in Thread : /\ Pc(t) \in {"flush", "program"} /\ at[t].op = "write"
                                     /\ at[t].h = h
  /\ \A t \in Thread : Pc(t) \in {"allocate", "erase", "link"} =>
       handle[at[t].h].pos % BlockData = 0

(* Also a handle that is being closed has a block of its file.             *)
CurrentSound(blk, num) ==
  \A h \in Slot :
    /\ handle[h].curr # NoBlock
    /\ FcbOf(h) # INVAL /\ Appends(handle[h].mode) /\ ~Busy(h, {"close handle"}) =>
         \/ handle[h].curr = INVAL
         \/ \E k \in 0..(num[fcb[FcbOf(h)].id] - 1) : handle[h].curr = blk[fcb[FcbOf(h)].id][k]

FilesAre(blk, num, put) ==
  /\ ChainsSound(blk, num) /\ AllocationSound(blk, num) /\ CountsSound(blk, num)
  /\ SizesSound(blk, put) /\ DataSound(blk, num, put) /\ DirectorySound(blk, put)
  /\ WritersSound(blk) /\ CurrentSound(blk, num)

FilesInv == \E blk \in [Entry -> [Nat -> Block]], num, put \in [Entry -> Nat] :
              FilesAre(blk, num, put)
------------------------------------------------------------------------------
(* What TablesInv gives: who works on a file.                              *)
LEMMA HandleHasFcb ==
  ASSUME TablesInv, NEW h \in Slot, FcbOf(h) # INVAL, ~Busy(h, {"close handle"})
  PROVE  FcbOf(h) \in Slot /\ fcb[FcbOf(h)].id \in Entry
<1>1. Types /\ Counted
  BY DEF TablesInv
<1>2. PICK fd \in Slot : Use(fd) = FcbOf(h)
  BY HandleUsed
<1>3. FcbOf(h) \in Slot
  BY <1>1 DEF Types, FcbOf
<1>4. fcb[FcbOf(h)].id # INVAL
  BY <1>1, <1>2, <1>3, InUseIfUsed DEF Users
<1>5. fcb[FcbOf(h)].id \in Entry \cup {INVAL}
  BY <1>1, <1>3 DEF Types
<1> QED
  BY <1>3, <1>4, <1>5

LEMMA ActiveWriterIs ==
  ASSUME TablesInv, NEW h \in Slot, ActiveWriter(h)
  PROVE  /\ ~Busy(h, {"close handle"})
         /\ FcbOf(h) \in Slot /\ fcb[FcbOf(h)].id \in Entry /\ fcb[FcbOf(h)].writer
         /\ \E fd \in Slot : openFiles[fd].handle = h /\ MayWrite(fd) /\ Use(fd) = FcbOf(h)
<1>1. ~Busy(h, {"close handle"}) /\ ~Busy(h, {"close fcb"}) /\ FcbOf(h) # INVAL
      /\ Appends(handle[h].mode)
  BY DEF ActiveWriter, Busy
<1>2. PICK fd \in Slot : openFiles[fd].handle = h /\ MayWrite(fd) /\ Use(fd) = FcbOf(h)
  BY <1>1, HandleUsed
<1>3. fcb[FcbOf(h)].writer
  BY <1>2 DEF TablesInv, WritersAlone
<1> QED
  BY <1>1, <1>2, <1>3, HandleHasFcb

LEMMA WritersDiffer ==
  ASSUME TablesInv, NEW g \in Slot, NEW h \in Slot, ActiveWriter(g), ActiveWriter(h),
         FcbOf(g) = FcbOf(h)
  PROVE  g = h
<1>1. PICK c \in Slot : openFiles[c].handle = g /\ MayWrite(c) /\ Use(c) = FcbOf(g)
  BY ActiveWriterIs
<1>2. PICK d \in Slot : openFiles[d].handle = h /\ MayWrite(d) /\ Use(d) = FcbOf(h)
  BY ActiveWriterIs
<1>3. c = d
  BY <1>1, <1>2 DEF TablesInv, WritersAlone
<1> QED
  BY <1>1, <1>2, <1>3

(* An open that has a control block and looks for a handle.                *)
LEMMA OpeningHas ==
  ASSUME TablesInv, NEW t \in Thread, Pc(t) = "alloc handle"
  PROVE  /\ at[t].i \in Slot /\ fcb[at[t].i].id \in Entry
         /\ at[t].fd \in Slot /\ openFiles[at[t].fd].handle = INVAL /\ Use(at[t].fd) = at[t].i
         /\ Appends(at[t].mode) => MayWrite(at[t].fd)
<1>1. Types /\ CallsOwnFiles /\ Counted
  BY DEF TablesInv
<1>2. Opening(t)
  BY DEF Opening
<1>3. at[t] \in HandleLocals
  BY <1>1, CallTypes, LocalsAre DEF Pc
<1>4. PICK fd \in Slot, i \in Slot : fd = at[t].fd /\ i = at[t].i
  BY <1>3 DEF HandleLocals
<1>5. openFiles[fd] = [owner |-> t, handle |-> INVAL]
  BY <1>1, <1>2, <1>4 DEF CallsOwnFiles, CallOwnsFile
<1>6. openFiles[fd].owner = t /\ openFiles[fd].handle = INVAL /\ t # Nobody /\ i # INVAL
  BY <1>5, FileIs, OtherConstants, Slots
<1>7. Use(fd) = i
  BY <1>4, <1>6 DEF Use
<1>8. fcb[i].id # INVAL
  BY <1>1, <1>7, InUseIfUsed DEF Users
<1>9. fcb[i].id \in Entry
  BY <1>1, <1>8 DEF Types
<1>10. Appends(at[t].mode) => MayWrite(fd)
  BY <1>6, <1>7 DEF MayWrite
<1> QED
  BY <1>4, <1>6, <1>7, <1>9, <1>10

LEMMA OpeningWriterAlone ==
  ASSUME TablesInv, NEW t \in Thread, Pc(t) = "alloc handle", Appends(at[t].mode)
  PROVE  /\ fcb[at[t].i].writer
         /\ \A h \in Slot : ActiveWriter(h) => FcbOf(h) # at[t].i
         /\ \A u \in Thread : /\ u # t /\ Pc(u) = "alloc handle" /\ Appends(at[u].mode)
                              => at[u].i # at[t].i
<1>1. WritersAlone /\ CallsOwnFiles
  BY DEF TablesInv
<1>2. PICK c \in Slot : c = at[t].fd /\ openFiles[c].handle = INVAL /\ Use(c) = at[t].i /\ MayWrite(c)
  BY OpeningHas
<1>3. fcb[at[t].i].writer
  BY <1>1, <1>2 DEF WritersAlone
<1>4. ASSUME NEW h \in Slot, ActiveWriter(h), FcbOf(h) = at[t].i PROVE FALSE
  <2>1. PICK d \in Slot : openFiles[d].handle = h /\ MayWrite(d) /\ Use(d) = FcbOf(h)
    BY <1>4, ActiveWriterIs
  <2>2. c = d
    BY <1>1, <1>2, <1>4, <2>1 DEF WritersAlone
  <2> QED
    BY <1>2, <2>1, <2>2, Slots
<1>5. ASSUME NEW u \in Thread, u # t, Pc(u) = "alloc handle", Appends(at[u].mode),
             at[u].i = at[t].i
      PROVE  FALSE
  <2>1. PICK d \in Slot : d = at[u].fd /\ Use(d) = at[t].i /\ MayWrite(d)
    BY <1>5, OpeningHas
  <2>2. c = d
    BY <1>1, <1>2, <2>1 DEF WritersAlone
  <2>3. Opening(t) /\ Opening(u)
    BY <1>5 DEF Opening
  <2>4. openFiles[c] = [owner |-> t, handle |-> INVAL] /\ openFiles[c] = [owner |-> u, handle |-> INVAL]
    BY <1>1, <1>2, <2>1, <2>2, <2>3 DEF CallsOwnFiles, CallOwnsFile
  <2>5. openFiles[c].owner = t /\ openFiles[c].owner = u
    BY <2>4, FileIs
  <2> QED
    BY <1>5, <2>5
<1> QED
  BY <1>3, <1>4, <1>5

(* A call that appends or flushes does so with an active writer.           *)
LEMMA WritingActs ==
  ASSUME TablesInv, NEW t \in Thread, Writing(t)
  PROVE  /\ at[t].h \in Slot /\ ActiveWriter(at[t].h)
         /\ FcbOf(at[t].h) \in Slot /\ fcb[FcbOf(at[t].h)].id \in Entry
         /\ fcbLock[FcbOf(at[t].h)] = t
<1>1. Types /\ CallsOwnFiles /\ FilesHaveHandles
  BY DEF TablesInv
<1>2. PICK h \in Slot : h = at[t].h /\ FcbOf(h) \in Slot /\ Appends(handle[h].mode)
  BY <1>1, WritingFile
<1>3. PICK fd \in Slot : openFiles[fd] = [owner |-> t, handle |-> h]
  BY <1>1, <1>2, WritingFile
<1>4. openFiles[fd].owner = t /\ openFiles[fd].handle = h
  BY <1>3, FileIs
<1>5. ASSUME NEW u \in Thread, Pc(u) \in {"close fcb", "close handle"}, at[u].h = h PROVE FALSE
  <2>1. Closing(u)
    BY <1>5 DEF Closing
  <2>2. PICK d \in Slot : d = at[u].fd
    BY <2>1, <1>1, CallTypes
  <2>3. openFiles[d] = [owner |-> u, handle |-> h]
    BY <2>1, <2>2, <1>1, <1>5 DEF CallsOwnFiles, CallOwnsFile
  <2>4. openFiles[d].owner = u /\ openFiles[d].handle = h
    BY <2>3, FileIs
  <2>5. d = fd
    BY <2>4, <1>4, <1>1, Slots DEF FilesHaveHandles
  <2>6. u = t
    BY <2>4, <2>5, <1>4
  <2> QED
    BY <2>6, <1>5 DEF Writing
<1>6. ActiveWriter(h)
  BY <1>2, <1>5, Slots DEF ActiveWriter
<1>7. fcb[FcbOf(h)].id \in Entry
  BY <1>6, ActiveWriterIs
<1>8. fcbLock[FcbOf(h)] = t
  BY <1>2 DEF TablesInv, LocksHeld, LocksOf
<1> QED
  BY <1>2, <1>6, <1>7, <1>8

(* The entries of control blocks are files, and not being removed.         *)
LEMMA FcbIsFile ==
  ASSUME TablesInv, NEW i \in Slot, fcb[i].id # INVAL
  PROVE  /\ fcb[i].id \in Entry /\ fcb[i].id \in Files /\ ~Removing(fcb[i].id)
         /\ InUse(fcb[i].id) /\ FcbFor(fcb[i].id) = i
<1>1. Types /\ FcbsDiffer /\ FcbsNamed /\ \A t \in Thread : SearchOf(t)
  BY DEF TablesInv, OneFcbEach
<1>2. fcb[i].id \in Entry
  BY <1>1 DEF Types
<1>3. fcb[i].id \in Files
  BY <1>1, <1>2 DEF FcbsNamed, Files, Named
<1>4. ~Removing(fcb[i].id)
  BY <1>1 DEF Removing, SearchOf
<1>5. InUse(fcb[i].id)
  BY DEF InUse
<1>6. \A j \in Slot : fcb[j].id = fcb[i].id => j = i
  BY <1>1 DEF FcbsDiffer
<1>7. FcbFor(fcb[i].id) = i
  BY <1>6 DEF FcbFor
<1> QED
  BY <1>2, <1>3, <1>4, <1>5, <1>7

(* Who has rootMutex, or fsBlkTableMutex, is alone.                        *)
LEMMA OneAtATime ==
  ASSUME TablesInv, NEW t \in Thread, NEW u \in Thread
  PROVE  /\ Pc(t) \in {"find fcb", "alloc fcb", "free"} /\ Pc(u) \in {"find fcb", "alloc fcb", "free"}
              => t = u
         /\ Pc(t) \in {"erase", "link"} /\ Pc(u) \in {"erase", "link"} => t = u
         /\ Pc(t) \in {"erase", "link"} => tableLock = t
         /\ Pc(t) \in {"find fcb", "alloc fcb", "free"} => root = t
<1>1. LocksOf(t) /\ LocksOf(u)
  BY DEF TablesInv, LocksHeld
<1> QED
  BY <1>1 DEF LocksOf
------------------------------------------------------------------------------
(* Frames.  FlashKept: a step of t leaves table, flash and lengths alone,  *)
(* and what says which entries are files and which of them are removed.    *)
FlashPcs == {"free", "link", "erase"}

OthersStay(t) == \A u \in Thread : u # t => at'[u] = at[u]

NamesKept == \A e \in Entry : dir'[e].name = NoName <=> dir[e].name = NoName

FlashKept(t) ==
  /\ UNCHANGED <<table, next, data, length>> /\ NamesKept /\ OthersStay(t)
  /\ Pc(t) \notin FlashPcs /\ at'[t].pc \notin FlashPcs

LEMMA FilesKept ==
  ASSUME NamesKept
  PROVE  Files' = Files
BY DEF NamesKept, Files, Named

LEMMA RemovingKept ==
  ASSUME NEW t \in Thread, OthersStay(t), Pc(t) # "free", at'[t].pc # "free", NEW e
  PROVE  Removing(e)' <=> Removing(e)
<1>1. ASSUME NEW u \in Thread
      PROVE  Pc(u)' = "free" /\ at'[u].id = e <=> Pc(u) = "free" /\ at[u].id = e
  BY DEF OthersStay, Pc
<1> QED
  BY <1>1 DEF Removing

LEMMA AllocationSame ==
  ASSUME NEW t \in Thread, OthersStay(t), table' = table, next' = next, data' = data,
         Pc(t) \notin {"link", "erase"}, at'[t].pc \notin {"link", "erase"},
         NEW blk, NEW num, AllocationSound(blk, num)
  PROVE  AllocationSound(blk, num)'
<1>1. \A b : Erased(b)' <=> Erased(b)
  BY DEF Erased
<1>2. \A b : Owned(blk, num, b)' <=> Owned(blk, num, b)
  BY DEF Owned
<1>3. \A u \in Thread : /\ Pc(u)' = "link" <=> Pc(u) = "link"
                        /\ Pc(u)' = "erase" <=> Pc(u) = "erase"
                        /\ Pc(u) \in {"link", "erase"} => at'[u] = at[u]
  BY DEF OthersStay, Pc
<1>4. \A b \in Block : table'[b] = USED =>
        Owned(blk, num, b)' \/ \E u \in Thread : Pc(u)' = "link" /\ at'[u].b = b
  BY <1>2, <1>3 DEF AllocationSound
<1>5. \A u \in Thread : Pc(u)' = "link" =>
        at'[u] = at[u] /\ table'[at[u].b] = USED /\ Erased(at[u].b)' /\ ~Owned(blk, num, at[u].b)
  BY <1>1, <1>3 DEF AllocationSound
<1>6. \A u \in Thread : Pc(u)' = "erase" => \A b \in InSegment(at'[u].s) : table'[b] = FREE
  BY <1>3 DEF AllocationSound
<1>7. \A b \in Block : table'[b] = FREE =>
        Erased(b)' \/ \E u \in Thread : Pc(u)' = "erase" /\ at'[u].s = segNum(b)
  BY <1>1, <1>3 DEF AllocationSound
<1>8. \A u \in Thread : Pc(u)' = "link" =>
        /\ table'[at'[u].b] = USED /\ ~Owned(blk, num, at'[u].b)
        /\ next'[at'[u].b] = INVAL /\ data'[at'[u].b] = [c \in Cell |-> Blank]
  BY <1>5 DEF Erased
<1> QED
  BY <1>2, <1>4, <1>6, <1>7, <1>8 DEF AllocationSound, InSegment, segNum, Erased

LEMMA FlashSame ==
  ASSUME NEW t \in Thread, FlashKept(t), NEW blk, NEW num, NEW put
  PROVE  /\ Files' = Files /\ \A e : Removing(e)' <=> Removing(e)
         /\ ChainsSound(blk, num) => ChainsSound(blk, num)'
         /\ AllocationSound(blk, num) => AllocationSound(blk, num)'
         /\ CountsSound(blk, num) => CountsSound(blk, num)'
         /\ DataSound(blk, num, put) => DataSound(blk, num, put)'
<1>1. /\ table' = table /\ next' = next /\ data' = data /\ length' = length
      /\ Pc(t) \notin FlashPcs /\ at'[t].pc \notin FlashPcs /\ NamesKept /\ OthersStay(t)
  BY DEF FlashKept
<1>2. Files' = Files
  BY <1>1, FilesKept
<1>3. \A e : Removing(e)' <=> Removing(e)
  BY <1>1, RemovingKept DEF FlashPcs
<1>4. \A u \in Thread : (Pc(u)' \in FlashPcs <=> Pc(u) \in FlashPcs)
                        /\ (Pc(u) \in FlashPcs => at'[u] = at[u] /\ Pc(u)' = Pc(u))
  BY <1>1 DEF OthersStay, Pc
<1>5. ChainsSound(blk, num) => ChainsSound(blk, num)'
  BY <1>1 DEF ChainsSound
<1>6. AllocationSound(blk, num) => AllocationSound(blk, num)'
  BY <1>1, AllocationSame DEF FlashPcs
<1>7. CountsSound(blk, num) => CountsSound(blk, num)'
  <2>1. \A u \in Thread : Pc(u)' = "free" <=> Pc(u) = "free"
    BY <1>4 DEF FlashPcs
  <2>2. \A u \in Thread : Pc(u) = "free" => at'[u] = at[u]
    BY <1>4 DEF FlashPcs
  <2> QED
    BY <1>1, <1>2, <1>3, <2>1, <2>2 DEF CountsSound
<1>8. DataSound(blk, num, put) => DataSound(blk, num, put)'
  BY <1>1, <1>2, <1>3 DEF DataSound
<1> QED
  BY <1>2, <1>3, <1>5, <1>6, <1>7, <1>8

(* RamKept: control blocks keep their file, handles do not change but for  *)
(* one that is given back, no writer is added and the data of one that     *)
(* leaves is on the flash.                                                 *)
RamKept(t) ==
  /\ \A i \in Slot : /\ fcb'[i].id = fcb[i].id /\ fcb'[i].first = fcb[i].first
                     /\ fcb'[i].size = fcb[i].size
  /\ length' = length /\ OthersStay(t)
  /\ \A h \in Slot : handle'[h] = handle[h] \/ (handle'[h] = NoHandle /\ ~ActiveWriter(h))
  /\ \A h \in Slot : ActiveWriter(h)' => ActiveWriter(h)
  /\ \A h \in Slot : ActiveWriter(h) => \/ ActiveWriter(h)'
                                        \/ fcb[FcbOf(h)].size = length[fcb[FcbOf(h)].id]
  /\ Pc(t) = "close handle" => at[t].h \in Slot /\ handle'[at[t].h] = NoHandle
  /\ at'[t].pc = "alloc handle" /\ Appends(at'[t].mode) =>
       at'[t].i \in Slot /\ fcb[at'[t].i].size = length[fcb[at'[t].i].id]
  /\ Pc(t) \in {"flush", "program"} /\ at[t].op = "write" =>
       \/ at'[t].pc \in {"flush", "program"} /\ at'[t].op = "write" /\ at'[t].h = at[t].h
       \/ fcb[FcbOf(at[t].h)].size = handle[at[t].h].pos
  /\ at'[t].pc \in {"allocate", "erase", "link"} => handle'[at'[t].h].pos % BlockData = 0

LEMMA RamSame ==
  ASSUME TablesInv, NEW t \in Thread, RamKept(t), NEW blk, NEW num, NEW put,
         SizesSound(blk, put), WritersSound(blk), CurrentSound(blk, num)
  PROVE  /\ \A e : InUse(e)' <=> InUse(e)
         /\ SizesSound(blk, put)' /\ WritersSound(blk)' /\ CurrentSound(blk, num)'
<1>1. /\ \A i \in Slot : /\ fcb'[i].id = fcb[i].id /\ fcb'[i].first = fcb[i].first
                         /\ fcb'[i].size = fcb[i].size
      /\ length' = length /\ OthersStay(t)
      /\ \A h \in Slot : handle'[h] = handle[h] \/ (handle'[h] = NoHandle /\ ~ActiveWriter(h))
      /\ \A h \in Slot : ActiveWriter(h)' => ActiveWriter(h)
      /\ \A h \in Slot : ActiveWriter(h) => \/ ActiveWriter(h)'
                                            \/ fcb[FcbOf(h)].size = length[fcb[FcbOf(h)].id]
  BY DEF RamKept
<1>2. \A e : InUse(e)' <=> InUse(e)
  BY <1>1 DEF InUse
<1>3. \A h \in Slot : ActiveWriter(h) => FcbOf(h)' = FcbOf(h) /\ handle'[h] = handle[h]
  BY <1>1 DEF FcbOf
<1>4. SizesSound(blk, put)'
  <2>1. \A e \in Entry : /\ put[e] <= length'[e]
                         /\ BlockData * (BlocksFor(length'[e]) - 1) <= put[e]
                         /\ ~InUse(e)' => put[e] = length'[e]
    BY <1>1, <1>2 DEF SizesSound
  <2>2. ASSUME NEW i \in Slot, fcb'[i].id # INVAL
        PROVE  /\ fcb'[i].size = put[fcb'[i].id]
               /\ fcb'[i].first = FirstOf(blk, fcb'[i].id, length'[fcb'[i].id])
               /\ put[fcb'[i].id] # length'[fcb'[i].id] =>
                    \E h \in Slot : ActiveWriter(h)' /\ FcbOf(h)' = i
    <3>1. /\ fcb[i].id # INVAL /\ fcb'[i].id = fcb[i].id /\ fcb'[i].size = fcb[i].size
          /\ fcb'[i].first = fcb[i].first
      BY <1>1, <2>2
    <3>2. /\ fcb[i].size = put[fcb[i].id]
          /\ fcb[i].first = FirstOf(blk, fcb[i].id, length[fcb[i].id])
          /\ put[fcb[i].id] # length[fcb[i].id] => \E h \in Slot : ActiveWriter(h) /\ FcbOf(h) = i
      BY <3>1 DEF SizesSound
    <3>3. ASSUME put[fcb[i].id] # length[fcb[i].id]
          PROVE  \E h \in Slot : ActiveWriter(h)' /\ FcbOf(h)' = i
      <4>1. PICK h \in Slot : ActiveWriter(h) /\ FcbOf(h) = i
        BY <3>2, <3>3
      <4>2. ActiveWriter(h)'
        BY <1>1, <3>2, <3>3, <4>1
      <4> QED
        BY <4>1, <4>2, <1>3
    <3> QED
      BY <1>1, <3>1, <3>2, <3>3 DEF FirstOf
  <2> QED
    BY <2>1, <2>2, <1>1 DEF SizesSound, FirstOf
<1>5. /\ \A u \in Thread : Pc(u) = "alloc handle" /\ Appends(at[u].mode) =>
           fcb[at[u].i].size = length[fcb[at[u].i].id]
      /\ \A u \in Thread : Pc(u) \in {"allocate", "erase", "link"} =>
           handle[at[u].h].pos % BlockData = 0
  BY DEF WritersSound
<1>6. WritersSound(blk)'
  <2>1. ASSUME NEW u \in Thread, Pc(u)' = "alloc handle", Appends(at'[u].mode)
        PROVE  fcb'[at'[u].i].size = length'[fcb'[at'[u].i].id]
    <3>1. CASE u = t
      BY <3>1, <2>1, <1>1 DEF RamKept, Pc
    <3>2. CASE u # t
      <4>1. at'[u] = at[u] /\ Pc(u) = "alloc handle"
        BY <3>2, <2>1, <1>1 DEF OthersStay, Pc
      <4>2. at[u].i \in Slot
        BY <4>1, OpeningHas
      <4>3. Appends(at[u].mode)
        BY <4>1, <2>1
      <4>4. fcb[at[u].i].size = length[fcb[at[u].i].id]
        BY <1>5, <4>1, <4>3
      <4> QED
        BY <4>1, <4>2, <4>4, <1>1
    <3> QED
      BY <3>1, <3>2
  <2>2. ASSUME NEW h \in Slot, ActiveWriter(h)'
        PROVE  /\ handle'[h].pos = length'[fcb'[FcbOf(h)].id]
               /\ handle'[h].curr = LastOf(blk, fcb'[FcbOf(h)].id, length'[fcb'[FcbOf(h)].id])
               /\ handle'[h].pos % BlockData = 0 =>
                    \/ fcb'[FcbOf(h)].size = handle'[h].pos
                    \/ \E u \in Thread : /\ Pc(u)' \in {"flush", "program"} /\ at'[u].op = "write"
                                         /\ at'[u].h = h
    <3>1. ActiveWriter(h) /\ FcbOf(h) \in Slot
      BY <1>1, <2>2, ActiveWriterIs
    <3>2. fcb'[FcbOf(h)].id = fcb[FcbOf(h)].id /\ fcb'[FcbOf(h)].size = fcb[FcbOf(h)].size
      BY <1>1, <3>1
    <3>3. /\ handle[h].pos = length[fcb[FcbOf(h)].id]
          /\ handle[h].curr = LastOf(blk, fcb[FcbOf(h)].id, length[fcb[FcbOf(h)].id])
          /\ handle[h].pos % BlockData = 0 =>
                \/ fcb[FcbOf(h)].size = handle[h].pos
                \/ \E u \in Thread : /\ Pc(u) \in {"flush", "program"} /\ at[u].op = "write"
                                     /\ at[u].h = h
      BY <3>1 DEF WritersSound
    <3>4. ASSUME NEW u \in Thread, Pc(u) \in {"flush", "program"}, at[u].op = "write", at[u].h = h
          PROVE  \/ fcb[FcbOf(h)].size = handle[h].pos
                 \/ Pc(u)' \in {"flush", "program"} /\ at'[u].op = "write" /\ at'[u].h = h
      <4>1. CASE u = t
        BY <3>4, <4>1 DEF RamKept, Pc
      <4>2. CASE u # t
        BY <3>4, <4>2, <1>1 DEF OthersStay, Pc
      <4> QED
        BY <4>1, <4>2
    <3> QED
      BY <1>1, <1>3, <3>1, <3>2, <3>3, <3>4
  <2>3. ASSUME NEW u \in Thread, Pc(u)' \in {"allocate", "erase", "link"}
        PROVE  handle'[at'[u].h].pos % BlockData = 0
    <3>1. CASE u = t
      BY <3>1, <2>3, <1>1 DEF RamKept, Pc
    <3>2. CASE u # t
      <4>1. at'[u] = at[u] /\ Pc(u) \in {"allocate", "erase", "link"}
        BY <3>2, <2>3, <1>1 DEF OthersStay, Pc
      <4>2. at[u].h \in Slot /\ ActiveWriter(at[u].h)
        BY <4>1, WritingActs DEF Writing
      <4> QED
        BY <1>3, <1>5, <4>1, <4>2
    <3> QED
      BY <3>1, <3>2
  <2>4. ASSUME NEW h \in Slot, ActiveWriter(h)'
        PROVE  /\ handle'[h].pos = length'[fcb'[FcbOf(h)'].id]
               /\ handle'[h].curr = LastOf(blk, fcb'[FcbOf(h)'].id, length'[fcb'[FcbOf(h)'].id])
               /\ handle'[h].pos % BlockData = 0 =>
                    \/ fcb'[FcbOf(h)'].size = handle'[h].pos
                    \/ \E u \in Thread : /\ Pc(u)' \in {"flush", "program"} /\ at'[u].op = "write"
                                         /\ at'[u].h = h
    <3>1. PICK i : i = FcbOf(h)
      OBVIOUS
    <3>2. FcbOf(h)' = i
      BY <3>1, <1>1, <1>3, <2>4
    <3> QED
      BY <2>2, <2>4, <3>1, <3>2
  <2> QED
    BY <2>1, <2>3, <2>4 DEF WritersSound
<1>7. CurrentSound(blk, num)'
  <2> SUFFICES ASSUME NEW h \in Slot
               PROVE  /\ handle'[h].curr # NoBlock
                      /\ /\ FcbOf(h)' # INVAL /\ Appends(handle'[h].mode)
                         /\ ~Busy(h, {"close handle"})'
                         => \/ handle'[h].curr = INVAL
                            \/ \E k \in 0..(num[fcb'[FcbOf(h)'].id] - 1) :
                                 handle'[h].curr = blk[fcb'[FcbOf(h)'].id][k]
    BY DEF CurrentSound
  <2>1. CASE handle'[h] = NoHandle
    BY <2>1 DEF NoHandle, FcbOf, INVAL, NoBlock
  <2>2. CASE handle'[h] = handle[h] /\ handle'[h] # NoHandle
    <3>1. Busy(h, {"close handle"}) => Busy(h, {"close handle"})'
      BY <1>1, <2>2 DEF Busy, RamKept, OthersStay, Pc
    <3>2. PICK i : i = FcbOf(h) /\ i = FcbOf(h)'
      BY <2>2 DEF FcbOf
    <3>3. i # INVAL /\ ~Busy(h, {"close handle"}) => fcb'[i].id = fcb[i].id
      BY <1>1, <3>2, HandleHasFcb
    <3>4. /\ handle[h].curr # NoBlock
          /\ i # INVAL /\ Appends(handle[h].mode) /\ ~Busy(h, {"close handle"}) =>
               \/ handle[h].curr = INVAL
               \/ \E k \in 0..(num[fcb[i].id] - 1) : handle[h].curr = blk[fcb[i].id][k]
      BY <3>2 DEF CurrentSound
    <3> QED
      BY <2>2, <3>1, <3>2, <3>3, <3>4
  <2> QED
    BY <1>1, <2>1, <2>2
<1> QED
  BY <1>2, <1>4, <1>6, <1>7

LEMMA ActiveSame ==
  ASSUME NEW t \in Thread, OthersStay(t), handle' = handle,
         Pc(t) \notin {"close fcb", "close handle"}, at'[t].pc \notin {"close fcb", "close handle"}
  PROVE  \A h : ActiveWriter(h)' <=> ActiveWriter(h)
<1>1. \A u \in Thread : /\ Pc(u)' \in {"close fcb", "close handle"}
                             <=> Pc(u) \in {"close fcb", "close handle"}
                        /\ Pc(u) \in {"close fcb", "close handle"} => at'[u] = at[u]
  BY DEF OthersStay, Pc
<1> QED
  BY <1>1 DEF ActiveWriter, FcbOf

LEMMA DirectorySame ==
  ASSUME NEW blk, NEW put, DirectorySound(blk, put), Files' = Files,
         \A e : Removing(e)' <=> Removing(e), \A e : InUse(e)' <=> InUse(e),
         unsynced' = unsynced, length' = length,
         \A e \in Entry : dir'[e].first = dir[e].first /\ dir'[e].size = dir[e].size
  PROVE  DirectorySound(blk, put)'
<1>1. Files \in SUBSET Entry
  BY DEF Files
<1> QED
  BY <1>1 DEF DirectorySound, FirstOf

(* A step that changes neither flash, nor files, nor handles.              *)
QuietPcs == {"idle", "open", "find fcb", "alloc fcb"}

QuietStep(t) ==
  /\ UNCHANGED <<table, next, data, fcb, handle, unsynced, length>> /\ NamesKept /\ OthersStay(t)
  /\ \A e \in Entry : dir'[e].first = dir[e].first /\ dir'[e].size = dir[e].size
  /\ Pc(t) \in QuietPcs \cup {"allocate"}
  /\ at'[t].pc \in QuietPcs \cup {"allocate", "flush"}
  /\ at'[t].pc = "allocate" => handle[at'[t].h].pos % BlockData = 0

LEMMA QuietFiles ==
  ASSUME TablesInv, NEW t \in Thread, QuietStep(t),
         NEW blk, NEW num, NEW put, FilesAre(blk, num, put)
  PROVE  FilesAre(blk, num, put)'
<1>1. /\ ChainsSound(blk, num) /\ AllocationSound(blk, num) /\ CountsSound(blk, num)
      /\ SizesSound(blk, put) /\ DataSound(blk, num, put) /\ DirectorySound(blk, put)
      /\ WritersSound(blk) /\ CurrentSound(blk, num)
  BY DEF FilesAre
<1>2. /\ table' = table /\ next' = next /\ data' = data /\ fcb' = fcb /\ handle' = handle
      /\ unsynced' = unsynced /\ length' = length /\ NamesKept /\ OthersStay(t)
      /\ \A e \in Entry : dir'[e].first = dir[e].first /\ dir'[e].size = dir[e].size
      /\ Pc(t) \in QuietPcs \cup {"allocate"} /\ at'[t].pc \in QuietPcs \cup {"allocate", "flush"}
      /\ at'[t].pc = "allocate" => handle[at'[t].h].pos % BlockData = 0
  BY DEF QuietStep
<1>3. FlashKept(t)
  BY <1>2 DEF FlashKept, FlashPcs, QuietPcs
<1>4. \A h : ActiveWriter(h)' <=> ActiveWriter(h)
  BY <1>2, ActiveSame DEF QuietPcs
<1>5. RamKept(t)
  BY <1>2, <1>4 DEF RamKept, QuietPcs
<1>6. /\ \A e : InUse(e)' <=> InUse(e)
      /\ SizesSound(blk, put)' /\ WritersSound(blk)' /\ CurrentSound(blk, num)'
  BY <1>1, <1>5, RamSame
<1>7. /\ Files' = Files /\ \A e : Removing(e)' <=> Removing(e)
      /\ ChainsSound(blk, num)' /\ AllocationSound(blk, num)'
      /\ CountsSound(blk, num)' /\ DataSound(blk, num, put)'
  BY <1>1, <1>3, FlashSame
<1>8. DirectorySound(blk, put)'
  BY <1>1, <1>2, <1>6, <1>7, DirectorySame
<1> QED
  BY <1>6, <1>7, <1>8 DEF FilesAre
------------------------------------------------------------------------------
(* The steps of the calls, one by one.                                     *)
LEMMA FsOpenFiles ==
  ASSUME TablesInv, NEW t \in Thread, fsOpen(t),
         NEW blk, NEW num, NEW put, FilesAre(blk, num, put)
  PROVE  FilesAre(blk, num, put)'
<1>1. PICK loc : at' = [at EXCEPT ![t] = loc] /\ loc.pc = "open" /\ Pc(t) = "idle"
  BY DEF fsOpen, Goto
<1>2. UNCHANGED <<table, dir, next, data, fcb, handle, unsynced, length>>
  BY DEF fsOpen, eeprom, flash, history
<1>3. QuietStep(t)
  BY <1>1, <1>2 DEF QuietStep, QuietPcs, TablesInv, Types, NamesKept, OthersStay
<1> QED
  BY <1>3, QuietFiles

LEMMA OpenFindFiles ==
  ASSUME TablesInv, NEW t \in Thread, OpenFind(t),
         NEW blk, NEW num, NEW put, FilesAre(blk, num, put)
  PROVE  FilesAre(blk, num, put)'
<1>1. PICK loc : at' = [at EXCEPT ![t] = loc] /\ loc.pc \in {"idle", "find fcb", "alloc fcb"}
  <2>1. PICK n \in Name, mode \in Mode :
          LET found == Named(n)
              free  == IF found = {} /\ Appends(mode) THEN Named(NoName) ELSE {}
          IN  IF found \cup free = {} THEN Return(t)
              ELSE Goto(t, [pc |-> IF found # {} THEN "find fcb" ELSE "alloc fcb",
                            op |-> "open", fd |-> at[t].fd, mode |-> mode,
                            new |-> IF found # {} THEN NoName ELSE n,
                            id |-> Least(found \cup free), i |-> 0])
    BY DEF OpenFind, FreeFd
  <2> DEFINE found == Named(n)
  <2> DEFINE free == IF found = {} /\ Appends(mode) THEN Named(NoName) ELSE {}
  <2> DEFINE l == [pc |-> IF found # {} THEN "find fcb" ELSE "alloc fcb",
                   op |-> "open", fd |-> at[t].fd, mode |-> mode,
                   new |-> IF found # {} THEN NoName ELSE n,
                   id |-> Least(found \cup free), i |-> 0]
  <2>2. l.pc \in {"find fcb", "alloc fcb"} /\ Idle.pc = "idle"
    BY DEF Idle
  <2>3. at' = [at EXCEPT ![t] = Idle] \/ at' = [at EXCEPT ![t] = l]
    BY <2>1 DEF Goto, Return
  <2> HIDE DEF l
  <2> QED
    BY <2>2, <2>3
<1>2. Pc(t) = "open" /\ UNCHANGED <<table, dir, next, data, fcb, handle, unsynced, length>>
  BY DEF OpenFind, eeprom, flash, history
<1>3. QuietStep(t)
  BY <1>1, <1>2 DEF QuietStep, QuietPcs, TablesInv, Types, NamesKept, OthersStay
<1> QED
  BY <1>3, QuietFiles

LEMMA AllocFcbOnFiles ==
  ASSUME TablesInv, NEW t \in Thread, AllocFcbOn(t),
         NEW blk, NEW num, NEW put, FilesAre(blk, num, put)
  PROVE  FilesAre(blk, num, put)'
<1>1. Pc(t) = "alloc fcb" /\ UNCHANGED <<table, dir, next, data, fcb, handle, unsynced, length>>
  BY DEF AllocFcbOn, eeprom, flash, history
<1>2. PICK loc : at' = [at EXCEPT ![t] = loc] /\ loc.pc \in {"idle", "alloc fcb"}
  <2>1. CASE at[t].i + 1 \in Slot
    <3>0. at[t] \in Locals
      BY DEF TablesInv, Types
    <3>1. Resumed(at[t], [at[t] EXCEPT !.i = at[t].i + 1], "alloc fcb", at[t].i + 1)
      BY <1>1, <2>1, <3>0, SearchGoesOn DEF Pc
    <3>2. at' = [at EXCEPT ![t] = [at[t] EXCEPT !.i = at[t].i + 1]]
      BY <2>1 DEF AllocFcbOn, Goto
    <3> QED
      BY <3>1, <3>2 DEF Resumed
  <2>2. CASE at[t].i + 1 \notin Slot
    <3>1. at' = [at EXCEPT ![t] = Idle] /\ Idle.pc = "idle"
      BY <2>2 DEF AllocFcbOn, FreeFd, Return, Goto, Idle
    <3> QED
      BY <3>1
  <2> QED
    BY <2>1, <2>2
<1>3. QuietStep(t)
  BY <1>1, <1>2 DEF QuietStep, QuietPcs, TablesInv, Types, NamesKept, OthersStay
<1> QED
  BY <1>3, QuietFiles

LEMMA RemoveRefusedFiles ==
  ASSUME TablesInv, NEW t \in Thread, RemoveRefused(t),
         NEW blk, NEW num, NEW put, FilesAre(blk, num, put)
  PROVE  FilesAre(blk, num, put)'
<1>1. /\ at' = [at EXCEPT ![t] = Idle] /\ Idle.pc = "idle" /\ Pc(t) = "find fcb"
      /\ UNCHANGED <<table, dir, next, data, fcb, handle, unsynced, length>>
  BY DEF RemoveRefused, Return, Goto, Idle, eeprom, flash, ram, history
<1>2. QuietStep(t)
  BY <1>1 DEF QuietStep, QuietPcs, TablesInv, Types, NamesKept, OthersStay
<1> QED
  BY <1>2, QuietFiles

LEMMA FsRemoveFiles ==
  ASSUME TablesInv, NEW t \in Thread, fsRemove(t),
         NEW blk, NEW num, NEW put, FilesAre(blk, num, put)
  PROVE  FilesAre(blk, num, put)'
<1>0. PICK e : at' = [at EXCEPT ![t] = [pc |-> "find fcb", op |-> "remove", id |-> e, i |-> 0]]
  BY DEF fsRemove, Goto
<1>1. PICK loc : at' = [at EXCEPT ![t] = loc] /\ loc.pc = "find fcb"
  <2> DEFINE l == [pc |-> "find fcb", op |-> "remove", id |-> e, i |-> 0]
  <2>1. at' = [at EXCEPT ![t] = l] /\ l.pc = "find fcb"
    BY <1>0
  <2> HIDE DEF l
  <2> QED
    BY <2>1
<1>2. Pc(t) = "idle" /\ UNCHANGED <<table, dir, next, data, fcb, handle, unsynced, length>>
  BY DEF fsRemove, eeprom, flash, ram, history
<1>3. QuietStep(t)
  BY <1>1, <1>2 DEF QuietStep, QuietPcs, TablesInv, Types, NamesKept, OthersStay
<1> QED
  BY <1>3, QuietFiles

LEMMA FsRenameFiles ==
  ASSUME TablesInv, NEW t \in Thread, fsRename(t),
         NEW blk, NEW num, NEW put, FilesAre(blk, num, put)
  PROVE  FilesAre(blk, num, put)'
<1>1. PICK e \in Entry, n \in Name : /\ dir[e].name # NoName
                                     /\ dir' = [dir EXCEPT ![e].name = n]
  BY DEF fsRename, Named
<1>2. Pc(t) = "idle" /\ UNCHANGED <<table, next, data, fcb, handle, at, unsynced, length>>
  BY DEF fsRename, flash, ram, history
<1>3. Types /\ n # NoName
  BY OtherConstants DEF TablesInv
<1>4. \A d \in Entry : /\ dir'[d].first = dir[d].first /\ dir'[d].size = dir[d].size
                       /\ dir'[d].name = IF d = e THEN n ELSE dir[d].name
  BY <1>1, <1>3 DEF Types
<1>5. NamesKept
  BY <1>1, <1>3, <1>4 DEF NamesKept
<1>6. QuietStep(t)
  BY <1>2, <1>4, <1>5 DEF QuietStep, QuietPcs, OthersStay, Pc
<1> QED
  BY <1>6, QuietFiles

LEMMA FsFlushFiles ==
  ASSUME TablesInv, NEW t \in Thread, fsFlush(t),
         NEW blk, NEW num, NEW put, FilesAre(blk, num, put)
  PROVE  FilesAre(blk, num, put)'
<1>0. PICK fd \in Opened(t), op \in {"sync", "close"} :
        at' = [at EXCEPT ![t] = [pc |-> "flush", op |-> op, h |-> openFiles[fd].handle, fd |-> fd]]
  BY DEF fsFlush, Goto
<1>1. PICK loc : at' = [at EXCEPT ![t] = loc] /\ loc.pc = "flush"
  <2> DEFINE l == [pc |-> "flush", op |-> op, h |-> openFiles[fd].handle, fd |-> fd]
  <2>1. at' = [at EXCEPT ![t] = l] /\ l.pc = "flush"
    BY <1>0
  <2> HIDE DEF l
  <2> QED
    BY <2>1
<1>2. Pc(t) = "idle" /\ UNCHANGED <<table, dir, next, data, fcb, handle, unsynced, length>>
  BY DEF fsFlush, eeprom, flash, ram, history
<1>3. QuietStep(t)
  BY <1>1, <1>2 DEF QuietStep, QuietPcs, TablesInv, Types, NamesKept, OthersStay
<1> QED
  BY <1>3, QuietFiles

LEMMA AllocateFailFiles ==
  ASSUME TablesInv, NEW t \in Thread, AllocateFail(t),
         NEW blk, NEW num, NEW put, FilesAre(blk, num, put)
  PROVE  FilesAre(blk, num, put)'
<1>1. /\ at' = [at EXCEPT ![t] = Idle] /\ Idle.pc = "idle" /\ Pc(t) = "allocate"
      /\ UNCHANGED <<table, dir, next, data, fcb, handle, unsynced, length>>
  BY DEF AllocateFail, Return, Goto, Idle, eeprom, flash, ram, history
<1>2. QuietStep(t)
  BY <1>1 DEF QuietStep, QuietPcs, TablesInv, Types, NamesKept, OthersStay
<1> QED
  BY <1>2, QuietFiles

(* The search passes a control block, or begins a removal: the entry is in *)
(* no control block, so its fields in the directory are those of the file. *)
LEMMA RemovalBegins ==
  ASSUME TablesInv, NEW t \in Thread, FindFcbOn(t), at[t].i + 1 \notin Slot, at[t].op # "open",
         NEW blk, NEW num, NEW put, FilesAre(blk, num, put)
  PROVE  FilesAre(blk, num, put)'
<1> DEFINE e == at[t].id
<1> DEFINE loc == [pc |-> "free", id |-> e, b |-> dir[e].first, left |-> dir[e].size]
<1>1. /\ ChainsSound(blk, num) /\ AllocationSound(blk, num) /\ CountsSound(blk, num)
      /\ SizesSound(blk, put) /\ DataSound(blk, num, put) /\ DirectorySound(blk, put)
      /\ WritersSound(blk) /\ CurrentSound(blk, num)
  BY DEF FilesAre
<1>2. /\ table' = table /\ dir' = dir /\ next' = next /\ data' = data /\ fcb' = fcb
      /\ handle' = handle /\ unsynced' = unsynced /\ length' = length
      /\ Pc(t) = "find fcb" /\ fcb[at[t].i].id # e /\ at' = [at EXCEPT ![t] = loc]
  BY DEF FindFcbOn, Goto, eeprom, flash, ram, history
<1>3. Types /\ SearchOf(t) /\ at[t] \in Locals
  BY DEF TablesInv, OneFcbEach, Types
<1>4. e \in Entry /\ at[t].i \in Slot
  BY <1>2, <1>3, LocalsAre DEF Pc
<1>5. OthersStay(t) /\ at'[t] = loc /\ loc.pc = "free"
  BY <1>2, <1>3 DEF OthersStay, Types
<1>6. \A j \in Slot : fcb[j].id # e
  <2>1. ASSUME NEW j \in Slot PROVE j <= at[t].i
    BY <1>4, Constants DEF Slot
  <2>2. \A j \in Slot : j < at[t].i => fcb[j].id # e
    BY <1>2, <1>3 DEF SearchOf
  <2>3. \A j \in Slot : j < at[t].i \/ j = at[t].i
    <3>1. at[t].i \in Nat /\ \A j \in Slot : j \in Nat
      BY <1>4, Slots
    <3> QED
      BY <2>1, <3>1
  <2> QED
    BY <1>2, <2>2, <2>3
<1>7. e \in Files /\ ~InUse(e)
  BY <1>2, <1>3, <1>4, <1>6 DEF SearchOf, Files, Named, InUse
<1>8. \A u \in Thread : Pc(u) # "free"
  BY <1>2, OneAtATime
<1>9. ~Removing(e)
  BY <1>8 DEF Removing
<1>10. Files' = Files /\ \A d : InUse(d)' <=> InUse(d)
  BY <1>2 DEF Files, Named, InUse
<1>11. \A u \in Thread : Pc(u)' = "free" <=> u = t
  BY <1>5, <1>8 DEF OthersStay, Pc
<1>12. \A d : Removing(d)' <=> d = e
  BY <1>5, <1>11 DEF Removing
<1>13. ChainsSound(blk, num)'
  BY <1>1, <1>2 DEF ChainsSound
<1>14. AllocationSound(blk, num)'
  BY <1>1, <1>2, <1>5, AllocationSame
<1>15. dir[e].size = length[e] /\ dir[e].first = FirstOf(blk, e, length[e])
  BY <1>1, <1>7, <1>9 DEF DirectorySound
<1>16. CountsSound(blk, num)'
  <2>1. num[e] = BlocksFor(dir[e].size) /\ (dir[e].size > 0 => dir[e].first = blk[e][0])
    BY <1>1, <1>4, <1>7, <1>9, <1>15 DEF CountsSound, FirstOf
  <2>2. \A u \in Thread : Pc(u)' = "free" =>
          /\ num[at'[u].id] = BlocksFor(at'[u].left)
          /\ at'[u].left > 0 => at'[u].b = blk[at'[u].id][0]
    BY <1>5, <1>11, <2>1
  <2>3. \A d \in Entry : /\ d \notin Files => num[d] = 0
                         /\ d \in Files /\ d # e => num[d] = BlocksFor(length[d])
    BY <1>1, <1>8 DEF CountsSound, Removing
  <2> QED
    BY <1>2, <1>10, <1>12, <2>2, <2>3 DEF CountsSound
<1>17. RamKept(t)
  <2>1. \A h : ActiveWriter(h)' <=> ActiveWriter(h)
    BY <1>2, <1>5, ActiveSame
  <2> QED
    BY <1>2, <1>5, <2>1 DEF RamKept
<1>18. SizesSound(blk, put)' /\ WritersSound(blk)' /\ CurrentSound(blk, num)'
  BY <1>1, <1>17, RamSame
<1>19. DataSound(blk, num, put)'
  BY <1>1, <1>2, <1>8, <1>10 DEF DataSound, Removing
<1>20. DirectorySound(blk, put)'
  BY <1>1, <1>2, <1>8, <1>10 DEF DirectorySound, Removing, FirstOf
<1> QED
  BY <1>13, <1>14, <1>16, <1>18, <1>19, <1>20 DEF FilesAre

LEMMA FindFcbOnFiles ==
  ASSUME TablesInv, NEW t \in Thread, FindFcbOn(t),
         NEW blk, NEW num, NEW put, FilesAre(blk, num, put)
  PROVE  FilesAre(blk, num, put)'
<1>1. /\ Pc(t) = "find fcb" /\ at[t] \in Locals
      /\ UNCHANGED <<table, dir, next, data, fcb, handle, unsynced, length>>
  BY DEF FindFcbOn, eeprom, flash, ram, history, TablesInv, Types
<1>2. CASE at[t].i + 1 \in Slot \/ at[t].op = "open"
  <2>1. PICK loc : at' = [at EXCEPT ![t] = loc] /\ loc.pc \in {"find fcb", "alloc fcb"}
    <3>1. CASE at[t].i + 1 \in Slot
      <4>1. Resumed(at[t], [at[t] EXCEPT !.i = at[t].i + 1], "find fcb", at[t].i + 1)
        BY <1>1, <3>1, SearchGoesOn DEF Pc
      <4>2. at' = [at EXCEPT ![t] = [at[t] EXCEPT !.i = at[t].i + 1]]
        BY <3>1 DEF FindFcbOn, Goto
      <4> QED
        BY <4>1, <4>2 DEF Resumed
    <3>2. CASE at[t].i + 1 \notin Slot
      <4>1. Resumed(at[t], [at[t] EXCEPT !.pc = "alloc fcb", !.i = 0], "alloc fcb", 0)
        BY <1>1, <1>2, <3>2, Slots, SearchAllocates DEF Pc
      <4>2. at' = [at EXCEPT ![t] = [at[t] EXCEPT !.pc = "alloc fcb", !.i = 0]]
        BY <1>2, <3>2 DEF FindFcbOn, Goto
      <4> QED
        BY <4>1, <4>2 DEF Resumed
    <3> QED
      BY <3>1, <3>2
  <2>2. QuietStep(t)
    BY <1>1, <2>1 DEF QuietStep, QuietPcs, TablesInv, Types, NamesKept, OthersStay
  <2> QED
    BY <2>2, QuietFiles
<1>3. CASE at[t].i + 1 \notin Slot /\ at[t].op # "open"
  BY <1>3, RemovalBegins
<1> QED
  BY <1>2, <1>3

(* Calls on the tables that leave the directory alone.                     *)
TablesStep(t) ==
  /\ UNCHANGED <<table, dir, next, data, unsynced, length>> /\ OthersStay(t)
  /\ Pc(t) \notin FlashPcs /\ at'[t].pc \notin FlashPcs
  /\ RamKept(t)

LEMMA TablesFiles ==
  ASSUME TablesInv, NEW t \in Thread, TablesStep(t),
         NEW blk, NEW num, NEW put, FilesAre(blk, num, put)
  PROVE  FilesAre(blk, num, put)'
<1>1. /\ ChainsSound(blk, num) /\ AllocationSound(blk, num) /\ CountsSound(blk, num)
      /\ SizesSound(blk, put) /\ DataSound(blk, num, put) /\ DirectorySound(blk, put)
      /\ WritersSound(blk) /\ CurrentSound(blk, num)
  BY DEF FilesAre
<1>2. /\ table' = table /\ dir' = dir /\ next' = next /\ data' = data
      /\ unsynced' = unsynced /\ length' = length /\ RamKept(t)
  BY DEF TablesStep
<1>3. FlashKept(t)
  BY <1>2 DEF FlashKept, TablesStep, NamesKept
<1>4. /\ \A e : InUse(e)' <=> InUse(e)
      /\ SizesSound(blk, put)' /\ WritersSound(blk)' /\ CurrentSound(blk, num)'
  BY <1>1, <1>2, RamSame
<1>5. /\ Files' = Files /\ \A e : Removing(e)' <=> Removing(e)
      /\ ChainsSound(blk, num)' /\ AllocationSound(blk, num)'
      /\ CountsSound(blk, num)' /\ DataSound(blk, num, put)'
  BY <1>1, <1>3, FlashSame
<1>6. DirectorySound(blk, put)'
  BY <1>1, <1>2, <1>4, <1>5, DirectorySame
<1> QED
  BY <1>4, <1>5, <1>6 DEF FilesAre

(* A writer is let in when no other is there: the buffer of the last one   *)
(* is on the flash.                                                        *)
LEMMA NobodyBuffers ==
  ASSUME TablesInv, NEW i \in Slot, fcb[i].id # INVAL, ~fcb[i].writer,
         NEW blk, NEW put, SizesSound(blk, put)
  PROVE  fcb[i].size = length[fcb[i].id]
<1>1. \A h \in Slot : ActiveWriter(h) => FcbOf(h) # i
  BY ActiveWriterIs
<1> QED
  BY <1>1 DEF SizesSound

LEMMA ShareFcbFiles ==
  ASSUME TablesInv, NEW t \in Thread, ShareFcb(t),
         NEW blk, NEW num, NEW put, FilesAre(blk, num, put)
  PROVE  FilesAre(blk, num, put)'
<1> DEFINE i == at[t].i
<1> DEFINE w == Appends(at[t].mode)
<1> DEFINE loc == [pc |-> "alloc handle", fd |-> at[t].fd, i |-> i, mode |-> at[t].mode]
<1>1. /\ table' = table /\ dir' = dir /\ next' = next /\ data' = data
      /\ handle' = handle /\ unsynced' = unsynced /\ length' = length
      /\ Pc(t) = "find fcb" /\ fcb[i].id = at[t].id
  BY DEF ShareFcb, eeprom, flash, history
<1>2. Types /\ at[t] \in Locals /\ SizesSound(blk, put)
  BY DEF TablesInv, Types, FilesAre
<1>3. i \in Slot /\ at[t].id \in Entry
  BY <1>1, <1>2, LocalsAre DEF Pc
<1>4. CASE w /\ fcb[i].writer
  <2>1. at' = [at EXCEPT ![t] = Idle] /\ Idle.pc = "idle" /\ fcb' = fcb
    BY <1>4 DEF ShareFcb, FreeFd, Return, Goto, Idle
  <2>2. OthersStay(t) /\ at'[t].pc = "idle"
    BY <2>1, <1>2 DEF OthersStay, Types
  <2>3. QuietStep(t)
    BY <1>1, <2>1, <2>2 DEF QuietStep, QuietPcs, NamesKept
  <2> QED
    BY <2>3, QuietFiles
<1>5. CASE ~(w /\ fcb[i].writer)
  <2>1. /\ at' = [at EXCEPT ![t] = loc]
        /\ fcb' = [fcb EXCEPT ![i].refcount = @ + 1, ![i].writer = @ \/ w]
    BY <1>5 DEF ShareFcb, Goto
  <2>2. /\ OthersStay(t) /\ at'[t] = loc /\ loc.pc = "alloc handle" /\ loc.i = i
        /\ loc.mode = at[t].mode
    BY <2>1, <1>2 DEF OthersStay, Types
  <2>3. \A j \in Slot : /\ fcb'[j].id = fcb[j].id /\ fcb'[j].first = fcb[j].first
                        /\ fcb'[j].size = fcb[j].size
    <3> DEFINE wr == fcb[i].writer \/ w
    <3> DEFINE n == fcb[i].refcount + 1
    <3> DEFINE new == [fcb[i] EXCEPT !.refcount = n, !.writer = wr]
    <3>1. fcb' = [fcb EXCEPT ![i] = new]
      <4> HIDE DEF w
      <4> QED
        BY <2>1, <1>2, <1>3 DEF Types
    <3> HIDE DEF wr, n
    <3>2. fcb \in [Slot -> FcbRecords] /\ fcb[i] \in FcbRecords
      BY <1>2, <1>3 DEF Types, FcbRecords
    <3>3. new.id = fcb[i].id /\ new.first = fcb[i].first /\ new.size = fcb[i].size
      BY <3>2 DEF FcbRecords
    <3> HIDE DEF new
    <3> QED
      BY <3>1, <3>2, <3>3, <1>3
  <2>4. w => fcb[i].size = length[fcb[i].id]
    <3>1. fcb[i].id # INVAL
      BY <1>1, <1>3, NotInval
    <3> QED
      BY <1>2, <1>3, <1>5, <3>1, NobodyBuffers
  <2>5. \A h : ActiveWriter(h)' <=> ActiveWriter(h)
    BY <1>1, <2>2, ActiveSame
  <2>6. RamKept(t)
    BY <1>1, <1>3, <2>2, <2>3, <2>4, <2>5 DEF RamKept
  <2>7. TablesStep(t)
    BY <1>1, <2>2, <2>6 DEF TablesStep, FlashPcs
  <2> QED
    BY <2>7, TablesFiles
<1> QED
  BY <1>4, <1>5

LEMMA FsCloseReaderFiles ==
  ASSUME TablesInv, NEW t \in Thread, fsCloseReader(t),
         NEW blk, NEW num, NEW put, FilesAre(blk, num, put)
  PROVE  FilesAre(blk, num, put)'
<1>1. /\ table' = table /\ dir' = dir /\ next' = next /\ data' = data /\ fcb' = fcb
      /\ handle' = handle /\ unsynced' = unsynced /\ length' = length /\ Pc(t) = "idle"
  BY DEF fsCloseReader, eeprom, flash, ram, history
<1>2. PICK fd \in Opened(t) : /\ handle[openFiles[fd].handle].mode = "read"
                              /\ at' = [at EXCEPT ![t] =
                                   [pc |-> "close fcb", fd |-> fd,
                                    i |-> FcbOf(openFiles[fd].handle), h |-> openFiles[fd].handle]]
  BY DEF fsCloseReader, Goto
<1> DEFINE loc == [pc |-> "close fcb", fd |-> fd, i |-> FcbOf(openFiles[fd].handle),
                   h |-> openFiles[fd].handle]
<1>3. loc.pc = "close fcb" /\ loc.h = openFiles[fd].handle
  OBVIOUS
<1>4. OthersStay(t) /\ at'[t] = loc
  BY <1>2 DEF OthersStay, TablesInv, Types
<1> HIDE DEF loc
<1>5. \A h \in Slot : ActiveWriter(h)' <=> ActiveWriter(h)
  <2> SUFFICES ASSUME NEW h \in Slot PROVE ActiveWriter(h)' <=> ActiveWriter(h)
    OBVIOUS
  <2>1. FcbOf(h)' = FcbOf(h) /\ handle'[h].mode = handle[h].mode
    BY <1>1 DEF FcbOf
  <2>2. Appends(handle[h].mode) => h # openFiles[fd].handle
    BY <1>2 DEF Appends
  <2>3. \A u \in Thread : u # t => at'[u] = at[u] /\ Pc(u)' = Pc(u)
    BY <1>4 DEF OthersStay, Pc
  <2>4. Pc(t)' = "close fcb" /\ at'[t].h = openFiles[fd].handle
    BY <1>3, <1>4 DEF Pc
  <2> QED
    BY <1>1, <2>1, <2>2, <2>3, <2>4 DEF ActiveWriter
<1>6. RamKept(t)
  BY <1>1, <1>3, <1>4, <1>5 DEF RamKept
<1>7. TablesStep(t)
  BY <1>1, <1>3, <1>4, <1>6 DEF TablesStep, FlashPcs
<1> QED
  BY <1>7, TablesFiles

(* An entry is written: it says what is on the flash.                      *)
LEMMA EntryWritten ==
  ASSUME TablesInv, NEW i \in Slot, fcb[i].id # INVAL, fsBlockSyncEntry(fcb[i])
  PROVE  /\ NamesKept /\ unsynced' = unsynced \ {fcb[i].id}
         /\ \A e \in Entry : e # fcb[i].id => dir'[e] = dir[e]
         /\ dir'[fcb[i].id].first = fcb[i].first /\ dir'[fcb[i].id].size = fcb[i].size
<1> DEFINE f == fcb[i]
<1>1. Types
  BY DEF TablesInv
<1>2. f.id \in Entry /\ f.first \in Block \cup {INVAL} /\ f.size \in 0..MaxSize
  BY <1>1 DEF Types
<1>3. fsBlockSyncEntry(f)
  OBVIOUS
<1> HIDE DEF f
<1>4. /\ unsynced' = unsynced \ {f.id}
      /\ \A e \in Entry : dir'[e].name = dir[e].name
      /\ \A e \in Entry : e # f.id => dir'[e] = dir[e]
      /\ dir'[f.id].first = f.first /\ dir'[f.id].size = f.size
  BY <1>1, <1>2, <1>3, SyncEntryIs
<1> QED
  BY <1>4 DEF f, NamesKept

LEMMA SyncDirectory ==
  ASSUME TablesInv, NEW i \in Slot, fcb[i].id # INVAL, fsBlockSyncEntry(fcb[i]),
         NEW blk, NEW put, DirectorySound(blk, put), SizesSound(blk, put),
         put \in [Entry -> Nat],
         Files' = Files, \A d : Removing(d)' <=> Removing(d), length' = length,
         NEW e, e = fcb[i].id, \A d \in Entry : d # e => (InUse(d)' <=> InUse(d)),
         InUse(e)' \/ put[e] = length[e]
  PROVE  DirectorySound(blk, put)'
<1>1. e = fcb[i].id
  OBVIOUS
<1>2. e \in Entry /\ e \in Files /\ Files \in SUBSET Entry
  BY <1>1, FcbIsFile DEF Files
<1>3. /\ unsynced' = unsynced \ {e} /\ \A d \in Entry : d # e => dir'[d] = dir[d]
      /\ dir'[e].first = fcb[i].first /\ dir'[e].size = fcb[i].size
  BY <1>1, EntryWritten
<1>4. /\ fcb[i].size = put[e] /\ fcb[i].first = FirstOf(blk, e, length[e]) /\ put[e] <= length[e]
  BY <1>1, <1>2 DEF SizesSound
<1>5. put[e] \in Nat /\ length[e] \in Nat /\ unsynced \in SUBSET Entry
  BY <1>2 DEF TablesInv, Types
<1>6. \A d \in unsynced' : InUse(d)'
  BY <1>1, <1>3, <1>5 DEF DirectorySound
<1>7. dir'[e].size <= put[e] /\ (dir'[e].size > 0 => dir'[e].first = blk[e][0])
  BY <1>3, <1>4, <1>5 DEF FirstOf
<1>8. ~InUse(e)' => dir'[e].size = length'[e] /\ dir'[e].first = FirstOf(blk, e, length[e])
  BY <1>1, <1>3, <1>4
<1>9. ASSUME NEW d \in Files', ~Removing(d)', d # e
      PROVE  /\ d \notin unsynced' => /\ dir'[d].size <= put[d]
                                      /\ dir'[d].size > 0 => dir'[d].first = blk[d][0]
             /\ ~InUse(d)' => dir'[d].size = length'[d] /\ dir'[d].first = FirstOf(blk, d, length[d])
  <2>1. d \in Entry /\ d \in Files /\ ~Removing(d) /\ dir'[d] = dir[d]
        /\ (d \notin unsynced' => d \notin unsynced)
    BY <1>2, <1>3, <1>9
  <2>2. InUse(d)' <=> InUse(d)
    BY <1>1, <1>9, <2>1
  <2> QED
    BY <2>1, <2>2 DEF DirectorySound
<1>10. \A d \in Files' : FirstOf(blk, d, length[d]) = FirstOf(blk, d, length[d])'
  BY DEF FirstOf
<1> QED
  BY <1>6, <1>7, <1>8, <1>9, <1>10 DEF DirectorySound

(* A step of a flush or a close that may write the entry.                  *)
SyncStep(t, i) ==
  /\ UNCHANGED <<table, next, data>> /\ OthersStay(t) /\ RamKept(t)
  /\ Pc(t) \notin FlashPcs /\ at'[t].pc \notin FlashPcs
  /\ fsBlockSyncEntry(fcb[i]) \/ UNCHANGED <<dir, unsynced>>

LEMMA SyncFiles ==
  ASSUME TablesInv, NEW t \in Thread, NEW i \in Slot, fcb[i].id # INVAL, SyncStep(t, i),
         NEW blk, NEW num, NEW put \in [Entry -> Nat], FilesAre(blk, num, put)
  PROVE  FilesAre(blk, num, put)'
<1>1. /\ ChainsSound(blk, num) /\ AllocationSound(blk, num) /\ CountsSound(blk, num)
      /\ SizesSound(blk, put) /\ DataSound(blk, num, put) /\ DirectorySound(blk, put)
      /\ WritersSound(blk) /\ CurrentSound(blk, num)
  BY DEF FilesAre
<1>2. /\ table' = table /\ next' = next /\ data' = data /\ length' = length /\ RamKept(t)
      /\ OthersStay(t) /\ Pc(t) \notin FlashPcs /\ at'[t].pc \notin FlashPcs
  BY DEF SyncStep, RamKept
<1>3. CASE UNCHANGED <<dir, unsynced>>
  BY <1>2, <1>3, TablesFiles DEF TablesStep
<1>4. CASE fsBlockSyncEntry(fcb[i])
  <2>1. FlashKept(t)
    BY <1>2, <1>4, EntryWritten DEF FlashKept
  <2>2. /\ \A e : InUse(e)' <=> InUse(e)
        /\ SizesSound(blk, put)' /\ WritersSound(blk)' /\ CurrentSound(blk, num)'
    BY <1>1, <1>2, RamSame
  <2>3. /\ Files' = Files /\ \A e : Removing(e)' <=> Removing(e)
        /\ ChainsSound(blk, num)' /\ AllocationSound(blk, num)'
        /\ CountsSound(blk, num)' /\ DataSound(blk, num, put)'
    BY <1>1, <2>1, FlashSame
  <2>4. PICK e : e = fcb[i].id
    OBVIOUS
  <2>6. InUse(e)'
    BY <2>2, <2>4, FcbIsFile
  <2>5. DirectorySound(blk, put)'
    BY <1>1, <1>2, <1>4, <2>2, <2>3, <2>4, <2>6, SyncDirectory
  <2> QED
    BY <2>2, <2>3, <2>5 DEF FilesAre
<1> QED
  BY <1>3, <1>4 DEF SyncStep

LEMMA FlushFiles ==
  ASSUME TablesInv, NEW t \in Thread, Flush(t),
         NEW blk, NEW num, NEW put \in [Entry -> Nat], FilesAre(blk, num, put)
  PROVE  FilesAre(blk, num, put)'
<1> DEFINE loc == [at[t] EXCEPT !.pc = "program"]
<1>1. /\ Pc(t) = "flush" /\ at' = [at EXCEPT ![t] = loc]
      /\ table' = table /\ next' = next /\ data' = data /\ fcb' = fcb /\ handle' = handle
      /\ length' = length
      /\ fsBlockSyncEntry(fcb[FcbOf(at[t].h)]) \/ UNCHANGED <<dir, unsynced>>
  BY DEF Flush, Goto, flash, ram
<1>2. Writing(t) /\ at[t] \in Locals
  BY <1>1 DEF Writing, TablesInv, Types
<1>3. FcbOf(at[t].h) \in Slot /\ fcb[FcbOf(at[t].h)].id # INVAL
  BY <1>2, WritingActs, NotInval
<1>4. FlushResumed(at[t], loc, "program")
  BY <1>1, <1>2, FlushGoesOn DEF Pc
<1>5. at'[t] = loc /\ OthersStay(t)
  BY <1>1 DEF OthersStay, TablesInv, Types
<1> HIDE DEF loc
<1>6. loc.pc = "program" /\ loc.h = at[t].h /\ loc.op = at[t].op
  BY <1>4 DEF FlushResumed
<1>7. \A h : ActiveWriter(h)' <=> ActiveWriter(h)
  BY <1>1, <1>5, <1>6, ActiveSame
<1>8. RamKept(t)
  BY <1>1, <1>5, <1>6, <1>7 DEF RamKept
<1>9. SyncStep(t, FcbOf(at[t].h))
  BY <1>1, <1>5, <1>6, <1>8 DEF SyncStep, FlashPcs
<1> QED
  BY <1>3, <1>9, SyncFiles

LEMMA FlushDoneFiles ==
  ASSUME TablesInv, NEW t \in Thread, FlushDone(t),
         NEW blk, NEW num, NEW put \in [Entry -> Nat], FilesAre(blk, num, put)
  PROVE  FilesAre(blk, num, put)'
<1>1. /\ Pc(t) = "flush" /\ table' = table /\ next' = next /\ data' = data
      /\ handle' = handle /\ length' = length
      /\ fsBlockSyncEntry(fcb[FcbOf(at[t].h)]) \/ UNCHANGED <<dir, unsynced>>
      /\ handle[at[t].h].pos = fcb[FcbOf(at[t].h)].size
  BY DEF FlushDone, flash
<1>2. Writing(t)
  BY <1>1 DEF Writing
<1>3. PICK h \in Slot, i \in Slot :
        /\ h = at[t].h /\ i = FcbOf(h) /\ ActiveWriter(h) /\ fcb[i].id \in Entry
  BY <1>2, WritingActs
<1>4. fcb[i].size = length[fcb[i].id]
  BY <1>1, <1>3 DEF FilesAre, WritersSound
<1>5. fcb[i].id # INVAL /\ Types
  BY <1>3, NotInval DEF TablesInv
<1>6. CASE at[t].op # "close"
  <2>1. at' = [at EXCEPT ![t] = Idle] /\ fcb' = fcb /\ Idle.pc = "idle"
    BY <1>6 DEF FlushDone, Return, Goto, Idle
  <2>2. at'[t].pc = "idle" /\ OthersStay(t)
    BY <2>1, <1>5 DEF OthersStay, Types
  <2>3. \A g : ActiveWriter(g)' <=> ActiveWriter(g)
    BY <1>1, <2>2, ActiveSame
  <2>4. RamKept(t)
    BY <1>1, <2>1, <2>2, <2>3 DEF RamKept
  <2>5. SyncStep(t, i)
    BY <1>1, <1>3, <2>2, <2>4 DEF SyncStep, FlashPcs
  <2> QED
    BY <1>5, <2>5, SyncFiles
<1>7. CASE at[t].op = "close"
  <2> DEFINE loc == [pc |-> "close fcb", fd |-> at[t].fd, i |-> i, h |-> h]
  <2>1. at' = [at EXCEPT ![t] = loc] /\ fcb' = [fcb EXCEPT ![i].writer = FALSE]
    BY <1>3, <1>7 DEF FlushDone, Goto
  <2>2. loc.pc = "close fcb" /\ loc.h = h
    OBVIOUS
  <2>3. at'[t] = loc /\ OthersStay(t)
    BY <2>1, <1>5 DEF OthersStay, Types
  <2> HIDE DEF loc
  <2>4. \A j \in Slot : /\ fcb'[j].id = fcb[j].id /\ fcb'[j].first = fcb[j].first
                        /\ fcb'[j].size = fcb[j].size
    BY <2>1, <1>5 DEF Types
  <2>5. \A g \in Slot : ActiveWriter(g)' <=> ActiveWriter(g) /\ g # h
    <3> SUFFICES ASSUME NEW g \in Slot PROVE ActiveWriter(g)' <=> ActiveWriter(g) /\ g # h
      OBVIOUS
    <3>1. FcbOf(g)' = FcbOf(g) /\ handle'[g].mode = handle[g].mode
      BY <1>1 DEF FcbOf
    <3>2. \A u \in Thread : u # t => at'[u] = at[u] /\ Pc(u)' = Pc(u)
      BY <2>3 DEF OthersStay, Pc
    <3>3. Pc(t)' = "close fcb" /\ at'[t].h = h
      BY <2>2, <2>3 DEF Pc
    <3> QED
      BY <1>1, <3>1, <3>2, <3>3 DEF ActiveWriter
  <2>6. RamKept(t)
    BY <1>1, <1>3, <1>4, <1>7, <2>2, <2>3, <2>4, <2>5 DEF RamKept
  <2>7. SyncStep(t, i)
    BY <1>1, <1>3, <2>2, <2>3, <2>6 DEF SyncStep, FlashPcs
  <2> QED
    BY <1>5, <2>7, SyncFiles
<1> QED
  BY <1>6, <1>7

(* Who has the last reference to a control block has the last handle.      *)
LEMMA LastUser ==
  ASSUME TablesInv, NEW t \in Thread, Pc(t) = "close fcb"
  PROVE  /\ at[t].i \in Slot /\ at[t].h \in Slot /\ FcbOf(at[t].h) = at[t].i
         /\ fcb[at[t].i].id \in Entry
         /\ fcb[at[t].i].refcount = 1 =>
              /\ \A h \in Slot : FcbOf(h) = at[t].i /\ ~Busy(h, {"close handle"}) => h = at[t].h
              /\ \A u \in Thread : Pc(u) = "alloc handle" => at[u].i # at[t].i
<1>1. Types /\ CallsOwnFiles /\ FilesHaveHandles /\ Counted /\ Closing(t)
  BY DEF TablesInv, Closing
<1>2. at[t] \in CloseLocals
  BY <1>1, CallTypes, LocalsAre DEF Pc
<1>3. PICK own \in Slot, i \in Slot, h \in Slot : own = at[t].fd /\ i = at[t].i /\ h = at[t].h
  BY <1>2 DEF CloseLocals
<1>4. openFiles[own] = [owner |-> t, handle |-> h] /\ FcbOf(h) = i
  BY <1>1, <1>3 DEF CallsOwnFiles, CallOwnsFile
<1>5. openFiles[own].owner = t /\ openFiles[own].handle = h /\ h # INVAL /\ t # Nobody /\ i # INVAL
  BY <1>4, FileIs, Slots, OtherConstants
<1>6. Use(own) = i
  BY <1>3, <1>4, <1>5 DEF Use
<1>7. own \in Users(i) /\ Users(i) \in SUBSET Slot
  BY <1>6 DEF Users
<1>8. fcb[i].id \in Entry
  BY <1>1, <1>7, InUseIfUsed DEF Types
<1>9. ASSUME fcb[i].refcount = 1 PROVE \A d \in Slot : Use(d) = i => d = own
  <2>1. IsFiniteSet(Users(i)) /\ Cardinality(Users(i)) = 1
    BY <1>1, <1>9, UsersFinite DEF Counted
  <2>2. PICK x : Users(i) = {x}
    BY <2>1, FS_Singleton
  <2> QED
    BY <1>7, <2>2 DEF Users
<1>10. ASSUME fcb[i].refcount = 1, NEW g \in Slot, FcbOf(g) = i, ~Busy(g, {"close handle"})
       PROVE  g = h
  <2>1. PICK d \in Slot : openFiles[d].handle = g /\ Use(d) = i
    BY <1>5, <1>10, HandleUsed
  <2> QED
    BY <1>5, <1>9, <1>10, <2>1
<1>11. ASSUME fcb[i].refcount = 1, NEW u \in Thread, Pc(u) = "alloc handle", at[u].i = i PROVE FALSE
  <2>1. PICK d \in Slot : openFiles[d].handle = INVAL /\ Use(d) = i
    BY <1>11, OpeningHas
  <2> QED
    BY <1>5, <1>9, <1>11, <2>1
<1> QED
  BY <1>3, <1>4, <1>8, <1>10, <1>11

LEMMA WriterAt ==
  ASSUME NEW blk, WritersSound(blk), NEW h \in Slot, ActiveWriter(h), NEW i, i = FcbOf(h)
  PROVE  /\ handle[h].pos = length[fcb[i].id]
         /\ handle[h].curr = LastOf(blk, fcb[i].id, length[fcb[i].id])
         /\ handle[h].pos % BlockData = 0 =>
              \/ fcb[i].size = handle[h].pos
              \/ \E u \in Thread : /\ Pc(u) \in {"flush", "program"} /\ at[u].op = "write"
                                   /\ at[u].h = h
<1>1. /\ handle[h].pos = length[fcb[FcbOf(h)].id]
      /\ handle[h].curr = LastOf(blk, fcb[FcbOf(h)].id, length[fcb[FcbOf(h)].id])
      /\ handle[h].pos % BlockData = 0 =>
           \/ fcb[FcbOf(h)].size = handle[h].pos
           \/ \E u \in Thread : /\ Pc(u) \in {"flush", "program"} /\ at[u].op = "write"
                                /\ at[u].h = h
  BY DEF WritersSound
<1> QED
  BY <1>1

LEMMA OpenersAt ==
  ASSUME NEW blk, WritersSound(blk)
  PROVE  \A u \in Thread : Pc(u) = "alloc handle" /\ Appends(at[u].mode) =>
           fcb[at[u].i].size = length[fcb[at[u].i].id]
BY DEF WritersSound

LEMMA CloseLastFiles ==
  ASSUME TablesInv, NEW t \in Thread, fsBlockCloseFile(t), fcb[at[t].i].refcount = 1,
         NEW blk, NEW num, NEW put \in [Entry -> Nat], FilesAre(blk, num, put)
  PROVE  FilesAre(blk, num, put)'
<1>1. /\ ChainsSound(blk, num) /\ AllocationSound(blk, num) /\ CountsSound(blk, num)
      /\ SizesSound(blk, put) /\ DataSound(blk, num, put) /\ DirectorySound(blk, put)
      /\ WritersSound(blk) /\ CurrentSound(blk, num)
  BY DEF FilesAre
<1>2. Types /\ Pc(t) = "close fcb" /\ FcbsDiffer
  BY DEF fsBlockCloseFile, TablesInv, OneFcbEach
<1>3. PICK i \in Slot, own \in Slot : /\ i = at[t].i /\ own = at[t].h /\ FcbOf(own) = i
                                      /\ fcb[i].id \in Entry
  BY <1>2, LastUser
<1>4. /\ \A h \in Slot : FcbOf(h) = i /\ ~Busy(h, {"close handle"}) => h = own
      /\ \A u \in Thread : Pc(u) = "alloc handle" => at[u].i # i
  BY <1>2, <1>3, LastUser
<1> DEFINE loc == [pc |-> "close handle", fd |-> at[t].fd, h |-> own]
<1>5. /\ fsBlockSyncEntry(fcb[i]) /\ fcb' = [fcb EXCEPT ![i] = NoFcb]
      /\ at' = [at EXCEPT ![t] = loc]
      /\ table' = table /\ next' = next /\ data' = data /\ handle' = handle /\ length' = length
  BY <1>3 DEF fsBlockCloseFile, Goto, flash
<1>6. OthersStay(t) /\ at'[t] = loc /\ loc.pc = "close handle" /\ loc.h = own
  BY <1>2, <1>5 DEF OthersStay, Types
<1> HIDE DEF loc
<1>7. PICK e \in Entry : e = fcb[i].id
  BY <1>3
<1>8. /\ e # INVAL /\ fcb'[i].id = INVAL /\ InUse(e)
      /\ \A j \in Slot : j # i => fcb'[j] = fcb[j] /\ fcb[j].id # e
  BY <1>2, <1>5, <1>7, NotInval DEF Types, NoFcb, FcbsDiffer, InUse
<1>9. \A d \in Entry : InUse(d)' <=> InUse(d) /\ d # e
  BY <1>7, <1>8, NotInval DEF InUse
<1>10. \A h \in Slot : ActiveWriter(h) => FcbOf(h) # i
  <2> SUFFICES ASSUME NEW h \in Slot, ActiveWriter(h), FcbOf(h) = i PROVE FALSE
    OBVIOUS
  <2>1. h = own
    BY <1>4, ActiveWriterIs
  <2> QED
    BY <1>2, <1>3, <2>1 DEF ActiveWriter
<1>11. put[e] = length[e]
  BY <1>1, <1>7, <1>8, <1>10 DEF SizesSound
<1>12. \A h \in Slot : FcbOf(h)' = FcbOf(h)
  BY <1>5 DEF FcbOf
<1>13. \A h \in Slot : ActiveWriter(h)' <=> ActiveWriter(h)
  <2>1. \A u \in Thread : /\ u # t => at'[u] = at[u] /\ Pc(u)' = Pc(u)
                          /\ Pc(t)' = "close handle" /\ at'[t].h = at[t].h
    BY <1>3, <1>6 DEF OthersStay, Pc
  <2> QED
    BY <1>2, <1>5, <1>12, <2>1 DEF ActiveWriter
<1>14. FlashKept(t)
  BY <1>2, <1>3, <1>5, <1>6, <1>7, <1>8, EntryWritten DEF FlashKept, FlashPcs
<1>15. /\ Files' = Files /\ \A d : Removing(d)' <=> Removing(d)
       /\ ChainsSound(blk, num)' /\ AllocationSound(blk, num)'
       /\ CountsSound(blk, num)' /\ DataSound(blk, num, put)'
  BY <1>1, <1>14, FlashSame
<1>16. DirectorySound(blk, put)'
  BY <1>1, <1>5, <1>7, <1>8, <1>9, <1>11, <1>15, SyncDirectory
<1>17. SizesSound(blk, put)'
  <2>1. ASSUME NEW j \in Slot, fcb'[j].id # INVAL
        PROVE  /\ fcb'[j].size = put[fcb'[j].id]
               /\ fcb'[j].first = FirstOf(blk, fcb'[j].id, length'[fcb'[j].id])
               /\ put[fcb'[j].id] # length'[fcb'[j].id] =>
                    \E h \in Slot : ActiveWriter(h)' /\ FcbOf(h)' = j
    <3>1. j # i /\ fcb'[j] = fcb[j]
      BY <1>8, <2>1
    <3>2. /\ fcb[j].size = put[fcb[j].id]
          /\ fcb[j].first = FirstOf(blk, fcb[j].id, length[fcb[j].id])
          /\ put[fcb[j].id] # length[fcb[j].id] =>
               \E h \in Slot : ActiveWriter(h) /\ FcbOf(h) = j
      BY <1>1, <2>1, <3>1 DEF SizesSound
    <3> QED
      BY <1>5, <1>12, <1>13, <3>1, <3>2
  <2>2. \A d \in Entry : /\ put[d] <= length'[d]
                         /\ BlockData * (BlocksFor(length'[d]) - 1) <= put[d]
                         /\ ~InUse(d)' => put[d] = length'[d]
    BY <1>1, <1>5, <1>9, <1>11 DEF SizesSound
  <2> QED
    BY <2>1, <2>2, <1>5 DEF SizesSound, FirstOf
<1>18. WritersSound(blk)'
  <2>1. ASSUME NEW u \in Thread, Pc(u)' = "alloc handle", Appends(at'[u].mode)
        PROVE  fcb'[at'[u].i].size = length'[fcb'[at'[u].i].id]
    <3>1. at'[u] = at[u] /\ Pc(u) = "alloc handle"
      BY <1>6, <2>1 DEF OthersStay, Pc
    <3>2. at[u].i \in Slot /\ at[u].i # i
      BY <1>4, <3>1, OpeningHas
    <3>3. fcb[at[u].i].size = length[fcb[at[u].i].id]
      BY <1>1, <2>1, <3>1 DEF WritersSound
    <3> QED
      BY <1>5, <1>8, <3>1, <3>2, <3>3
  <2>2. ASSUME NEW h \in Slot, ActiveWriter(h)'
        PROVE  /\ handle'[h].pos = length'[fcb'[FcbOf(h)'].id]
               /\ handle'[h].curr = LastOf(blk, fcb'[FcbOf(h)'].id, length'[fcb'[FcbOf(h)'].id])
               /\ handle'[h].pos % BlockData = 0 =>
                    \/ fcb'[FcbOf(h)'].size = handle'[h].pos
                    \/ \E u \in Thread : /\ Pc(u)' \in {"flush", "program"} /\ at'[u].op = "write"
                                         /\ at'[u].h = h
    <3>1. PICK j \in Slot : j = FcbOf(h) /\ j = FcbOf(h)'
      BY <1>12, <1>13, <2>2, ActiveWriterIs
    <3>2. ActiveWriter(h) /\ j # i
      BY <1>10, <1>13, <2>2, <3>1
    <3>3. fcb'[j] = fcb[j]
      BY <1>8, <3>2
    <3>4. /\ handle[h].pos = length[fcb[j].id]
          /\ handle[h].curr = LastOf(blk, fcb[j].id, length[fcb[j].id])
          /\ handle[h].pos % BlockData = 0 =>
                \/ fcb[j].size = handle[h].pos
                \/ \E u \in Thread : /\ Pc(u) \in {"flush", "program"} /\ at[u].op = "write"
                                     /\ at[u].h = h
      BY <1>1, <3>1, <3>2, WriterAt
    <3>5. \A u \in Thread : Pc(u) \in {"flush", "program"} => Pc(u)' = Pc(u) /\ at'[u] = at[u]
      BY <1>2, <1>6 DEF OthersStay, Pc
    <3> QED
      BY <1>5, <3>1, <3>3, <3>4, <3>5
  <2>3. \A u \in Thread : Pc(u)' \in {"allocate", "erase", "link"} =>
          handle'[at'[u].h].pos % BlockData = 0
    <3>1. \A u \in Thread : Pc(u) \in {"allocate", "erase", "link"} =>
            handle[at[u].h].pos % BlockData = 0
      BY <1>1 DEF WritersSound
    <3>2. \A u \in Thread : Pc(u)' \in {"allocate", "erase", "link"} =>
            Pc(u)' = Pc(u) /\ at'[u] = at[u]
      BY <1>6 DEF OthersStay, Pc
    <3> QED
      BY <1>5, <3>1, <3>2
  <2> QED
    BY <2>1, <2>2, <2>3 DEF WritersSound
<1>19. CurrentSound(blk, num)'
  <2> SUFFICES ASSUME NEW h \in Slot
               PROVE  /\ handle'[h].curr # NoBlock
                      /\ /\ FcbOf(h)' # INVAL /\ Appends(handle'[h].mode)
                         /\ ~Busy(h, {"close handle"})'
                         => \/ handle'[h].curr = INVAL
                            \/ \E k \in 0..(num[fcb'[FcbOf(h)'].id] - 1) :
                                 handle'[h].curr = blk[fcb'[FcbOf(h)'].id][k]
    BY DEF CurrentSound
  <2>1. ASSUME ~Busy(h, {"close handle"})', FcbOf(h)' # INVAL
        PROVE  /\ ~Busy(h, {"close handle"}) /\ FcbOf(h) # INVAL
               /\ FcbOf(h) = FcbOf(h)' /\ fcb'[FcbOf(h)'].id = fcb[FcbOf(h)].id
    <3>1. ~Busy(h, {"close handle"}) /\ h # own
      BY <1>2, <1>6, <2>1 DEF Busy, OthersStay, Pc
    <3>2. PICK j : j = FcbOf(h) /\ j = FcbOf(h)'
      BY <1>12
    <3>3. j # i /\ j \in Slot
      BY <1>4, <2>1, <3>1, <3>2, HandleHasFcb
    <3> QED
      BY <1>8, <2>1, <3>1, <3>2, <3>3
  <2> QED
    BY <1>1, <1>5, <2>1 DEF CurrentSound
<1> QED
  BY <1>15, <1>16, <1>17, <1>18, <1>19 DEF FilesAre

LEMMA FsBlockCloseFileFiles ==
  ASSUME TablesInv, NEW t \in Thread, fsBlockCloseFile(t),
         NEW blk, NEW num, NEW put \in [Entry -> Nat], FilesAre(blk, num, put)
  PROVE  FilesAre(blk, num, put)'
<1>1. CASE fcb[at[t].i].refcount = 1
  BY <1>1, CloseLastFiles
<1>2. CASE fcb[at[t].i].refcount # 1
  <2>1. Types /\ Pc(t) = "close fcb"
    BY DEF fsBlockCloseFile, TablesInv
  <2>2. PICK i \in Slot, h \in Slot : i = at[t].i /\ h = at[t].h /\ fcb[i].id \in Entry
    BY <2>1, LastUser
  <2> DEFINE loc == [pc |-> "close handle", fd |-> at[t].fd, h |-> h]
  <2>3. /\ fcb' = [fcb EXCEPT ![i].refcount = @ - 1] /\ at' = [at EXCEPT ![t] = loc]
        /\ UNCHANGED <<table, dir, next, data, handle, unsynced, length>>
    BY <1>2, <2>2 DEF fsBlockCloseFile, Goto, flash
  <2>4. OthersStay(t) /\ at'[t] = loc /\ loc.pc = "close handle" /\ loc.h = at[t].h
    BY <2>1, <2>2, <2>3 DEF OthersStay, Types
  <2> HIDE DEF loc
  <2>5. \A j \in Slot : /\ fcb'[j].id = fcb[j].id /\ fcb'[j].first = fcb[j].first
                        /\ fcb'[j].size = fcb[j].size
    <3> DEFINE n == fcb[i].refcount - 1
    <3> DEFINE new == [fcb[i] EXCEPT !.refcount = n]
    <3>1. fcb' = [fcb EXCEPT ![i] = new]
      BY <2>1, <2>3 DEF Types
    <3> HIDE DEF n
    <3>2. fcb \in [Slot -> FcbRecords] /\ fcb[i] \in FcbRecords
      BY <2>1 DEF Types, FcbRecords
    <3>3. new.id = fcb[i].id /\ new.first = fcb[i].first /\ new.size = fcb[i].size
      BY <3>2 DEF FcbRecords
    <3> HIDE DEF new
    <3> QED
      BY <3>1, <3>2, <3>3
  <2>6. \A g \in Slot : ActiveWriter(g)' <=> ActiveWriter(g)
    <3>1. \A u \in Thread : /\ u # t => at'[u] = at[u] /\ Pc(u)' = Pc(u)
                            /\ Pc(t)' = "close handle" /\ at'[t].h = at[t].h
      BY <2>4 DEF OthersStay, Pc
    <3>2. handle' = handle /\ \A g \in Slot : FcbOf(g)' = FcbOf(g)
      BY <2>3 DEF FcbOf
    <3> QED
      BY <2>1, <3>1, <3>2 DEF ActiveWriter
  <2>7. RamKept(t)
    BY <2>1, <2>3, <2>4, <2>5, <2>6 DEF RamKept
  <2>8. TablesStep(t)
    BY <2>1, <2>3, <2>4, <2>7 DEF TablesStep, FlashPcs
  <2> QED
    BY <2>8, TablesFiles
<1> QED
  BY <1>1, <1>2

LEMMA FsFreeHandleFiles ==
  ASSUME TablesInv, NEW t \in Thread, fsFreeHandle(t),
         NEW blk, NEW num, NEW put, FilesAre(blk, num, put)
  PROVE  FilesAre(blk, num, put)'
<1>1. Types /\ Pc(t) = "close handle"
  BY DEF fsFreeHandle, TablesInv
<1>2. at[t] \in ClosedLocals
  BY <1>1, CallTypes, LocalsAre DEF Pc
<1>3. PICK h \in Slot : h = at[t].h
  BY <1>2 DEF ClosedLocals
<1>4. /\ handle' = [handle EXCEPT ![h] = NoHandle] /\ at' = [at EXCEPT ![t] = Idle]
      /\ UNCHANGED <<table, dir, next, data, fcb, unsynced, length>>
  BY <1>3 DEF fsFreeHandle, FreeFd, Return, Goto, eeprom, flash, history
<1>5. OthersStay(t) /\ at'[t].pc = "idle"
  BY <1>1, <1>4 DEF OthersStay, Types, Idle
<1>6. handle'[h] = NoHandle /\ \A g \in Slot : g # h => handle'[g] = handle[g]
  BY <1>1, <1>4 DEF Types
<1>7. ~ActiveWriter(h) /\ ~ActiveWriter(h)'
  <2>1. ~ActiveWriter(h)
    BY <1>1, <1>3 DEF ActiveWriter
  <2>2. FcbOf(h)' = INVAL
    BY <1>6 DEF FcbOf, NoHandle
  <2> QED
    BY <2>1, <2>2 DEF ActiveWriter
<1>8. \A g \in Slot : g # h => (ActiveWriter(g)' <=> ActiveWriter(g))
  <2>1. \A u \in Thread : /\ u # t => at'[u] = at[u] /\ Pc(u)' = Pc(u)
                          /\ Pc(t)' = "idle"
    BY <1>5 DEF OthersStay, Pc
  <2>2. \A g \in Slot : g # h => FcbOf(g)' = FcbOf(g)
    BY <1>6 DEF FcbOf
  <2> QED
    BY <1>1, <1>3, <1>6, <2>1, <2>2 DEF ActiveWriter
<1>9. \A g \in Slot : ActiveWriter(g)' <=> ActiveWriter(g)
  BY <1>7, <1>8
<1>10. RamKept(t)
  BY <1>1, <1>3, <1>4, <1>5, <1>6, <1>7, <1>9 DEF RamKept
<1>11. TablesStep(t)
  BY <1>1, <1>4, <1>5, <1>10 DEF TablesStep, FlashPcs
<1> QED
  BY <1>11, TablesFiles

(* From its first block the chain of a file leads to all of them.          *)
LEMMA AlongChain ==
  ASSUME NEW blk \in [Entry -> [Nat -> Block]], NEW num \in [Entry -> Nat],
         ChainsSound(blk, num), NEW e \in Entry
  PROVE  \A k \in 0..(num[e] - 1) : Along(blk[e][0], k) = blk[e][k]
<1> DEFINE T == {k \in Nat : k < num[e] => Along(blk[e][0], k) = blk[e][k]}
<1>1. 0 \in T
  BY AlongIs
<1>2. ASSUME NEW k \in Nat, k \in T PROVE k + 1 \in T
  <2> SUFFICES ASSUME k + 1 < num[e] PROVE Along(blk[e][0], k + 1) = blk[e][k + 1]
    OBVIOUS
  <2>1. k \in 0..(num[e] - 1) /\ num[e] \in Nat /\ k < num[e]
    OBVIOUS
  <2>2. next[blk[e][k]] = blk[e][k + 1]
    BY <2>1 DEF ChainsSound
  <2>3. Along(blk[e][0], k) = blk[e][k] /\ blk[e][k] \in Block
    BY <1>2, <2>1
  <2>4. Along(blk[e][0], k + 1) = fsBlockGetNext(Along(blk[e][0], k))
    BY AlongIs
  <2> QED
    BY <2>2, <2>3, <2>4 DEF fsBlockGetNext
<1> HIDE DEF T
<1>3. \A k \in Nat : k \in T
  BY <1>1, <1>2, SetInduction
<1> QED
  BY <1>3 DEF T

(* Where an append begins: at the last block.                              *)
LEMMA SeekFindsLast ==
  ASSUME NEW blk \in [Entry -> [Nat -> Block]], NEW num \in [Entry -> Nat],
         ChainsSound(blk, num), NEW e \in Entry, NEW n \in Nat, num[e] = BlocksFor(n)
  PROVE  seekBlock(FirstOf(blk, e, n), n) = LastOf(blk, e, n)
<1>1. CASE n = 0
  BY <1>1, AlongIs DEF seekBlock, FirstOf, LastOf
<1>2. CASE n # 0
  <2>1. BlocksFor(n) \in Nat /\ BlocksFor(n) # 0
    BY <1>2, BlocksForIs
  <2>2. BlocksFor(n) - 1 \in 0..(num[e] - 1)
    BY <2>1
  <2>3. Along(blk[e][0], BlocksFor(n) - 1) = blk[e][BlocksFor(n) - 1]
    BY <2>2, AlongChain
  <2> QED
    BY <1>2, <2>3 DEF seekBlock, FirstOf, LastOf
<1> QED
  BY <1>1, <1>2

(* An open gets a handle: a writer's begins at the end of the file, whose  *)
(* data is on the flash.                                                   *)
NewHandle(t, i, h, new) ==
  /\ Pc(t) = "alloc handle" /\ at[t].i = i /\ FcbOf(h) = INVAL /\ new.fcb = i
  /\ handle'[h] = new /\ \A g \in Slot : g # h => handle'[g] = handle[g]
  /\ Appends(new.mode) => /\ Appends(at[t].mode) /\ new.pos = fcb[i].size
                          /\ new.curr = seekBlock(fcb[i].first, fcb[i].size)
  /\ ~Appends(new.mode) => new.curr = INVAL
  /\ at'[t].pc = "idle" /\ OthersStay(t)
  /\ UNCHANGED <<table, dir, next, data, fcb, unsynced, length>>

LEMMA NewHandleFiles ==
  ASSUME TablesInv, NEW t \in Thread, NEW i \in Slot, NEW h \in Slot, NEW new,
         NewHandle(t, i, h, new),
         NEW blk \in [Entry -> [Nat -> Block]], NEW num \in [Entry -> Nat], NEW put,
         FilesAre(blk, num, put)
  PROVE  FilesAre(blk, num, put)'
<1>1. /\ ChainsSound(blk, num) /\ AllocationSound(blk, num) /\ CountsSound(blk, num)
      /\ SizesSound(blk, put) /\ DataSound(blk, num, put) /\ DirectorySound(blk, put)
      /\ WritersSound(blk) /\ CurrentSound(blk, num) /\ Types
  BY DEF FilesAre, TablesInv
<1>2. /\ Pc(t) = "alloc handle" /\ at[t].i = i /\ FcbOf(h) = INVAL /\ new.fcb = i
      /\ handle'[h] = new /\ \A g \in Slot : g # h => handle'[g] = handle[g]
      /\ at'[t].pc = "idle" /\ OthersStay(t)
      /\ table' = table /\ dir' = dir /\ next' = next /\ data' = data /\ fcb' = fcb
      /\ unsynced' = unsynced /\ length' = length
  BY DEF NewHandle
<1>3. FlashKept(t)
  BY <1>2 DEF FlashKept, FlashPcs, NamesKept
<1>4. /\ Files' = Files /\ \A e : Removing(e)' <=> Removing(e)
      /\ ChainsSound(blk, num)' /\ AllocationSound(blk, num)'
      /\ CountsSound(blk, num)' /\ DataSound(blk, num, put)'
  BY <1>1, <1>3, FlashSame
<1>5. \A e : InUse(e)' <=> InUse(e)
  BY <1>2 DEF InUse
<1>6. DirectorySound(blk, put)'
  BY <1>1, <1>2, <1>4, <1>5, DirectorySame
<1>7. PICK e \in Entry : e = fcb[i].id
  BY <1>2, OpeningHas
<1>8. /\ ~ActiveWriter(h) /\ FcbOf(h)' = i /\ \A g \in Slot : g # h => FcbOf(g)' = FcbOf(g)
      /\ ActiveWriter(h)' => Appends(new.mode)
  BY <1>2 DEF ActiveWriter, FcbOf
<1>9. \A u \in Thread : u # t => at'[u] = at[u] /\ Pc(u)' = Pc(u)
  BY <1>2 DEF OthersStay, Pc
<1>10. Pc(t)' = "idle"
  BY <1>2 DEF Pc
<1>11. \A g \in Slot : g # h => (ActiveWriter(g)' <=> ActiveWriter(g))
  BY <1>2, <1>8, <1>9, <1>10 DEF ActiveWriter
<1>12. ASSUME Appends(new.mode)
       PROVE  new.pos = length[e] /\ fcb[i].size = length[e] /\ new.curr = LastOf(blk, e, length[e])
  <2>1. /\ Appends(at[t].mode) /\ new.pos = fcb[i].size
        /\ new.curr = seekBlock(fcb[i].first, fcb[i].size)
    BY <1>12 DEF NewHandle
  <2>2. fcb[i].size = length[e]
    BY <1>1, <1>2, <1>7, <2>1, OpenersAt
  <2>3. e # INVAL /\ e \in Files /\ ~Removing(e)
    BY <1>7, NotInval, FcbIsFile
  <2>4. fcb[i].first = FirstOf(blk, e, length[e])
    BY <1>1, <1>7, <2>3 DEF SizesSound
  <2>5. num[e] = BlocksFor(length[e]) /\ length[e] \in Nat
    BY <1>1, <1>7, <2>3, Constants DEF CountsSound, Types
  <2>6. seekBlock(FirstOf(blk, e, length[e]), length[e]) = LastOf(blk, e, length[e])
    BY <1>1, <2>5, SeekFindsLast
  <2> QED
    BY <2>1, <2>2, <2>4, <2>6
<1>13. SizesSound(blk, put)'
  <2>1. ASSUME NEW j \in Slot, fcb[j].id # INVAL, put[fcb[j].id] # length[fcb[j].id]
        PROVE  \E g \in Slot : ActiveWriter(g)' /\ FcbOf(g)' = j
    <3>1. PICK g \in Slot : ActiveWriter(g) /\ FcbOf(g) = j
      BY <1>1, <2>1 DEF SizesSound
    <3> QED
      BY <3>1, <1>8, <1>11
  <2> QED
    BY <1>1, <1>2, <1>5, <2>1 DEF SizesSound, FirstOf
<1>14. WritersSound(blk)'
  <2>1. \A u \in Thread : Pc(u)' = "alloc handle" /\ Appends(at'[u].mode) =>
          fcb'[at'[u].i].size = length'[fcb'[at'[u].i].id]
    BY <1>1, <1>2, <1>9, <1>10, OpenersAt
  <2>2. ASSUME NEW g \in Slot, ActiveWriter(g)'
        PROVE  /\ handle'[g].pos = length'[fcb'[FcbOf(g)'].id]
               /\ handle'[g].curr = LastOf(blk, fcb'[FcbOf(g)'].id, length'[fcb'[FcbOf(g)'].id])
               /\ handle'[g].pos % BlockData = 0 =>
                    \/ fcb'[FcbOf(g)'].size = handle'[g].pos
                    \/ \E u \in Thread : /\ Pc(u)' \in {"flush", "program"} /\ at'[u].op = "write"
                                         /\ at'[u].h = g
    <3>1. CASE g = h
      BY <1>2, <1>7, <1>8, <1>12, <2>2, <3>1
    <3>2. CASE g # h
      <4>1. PICK j : j = FcbOf(g) /\ j = FcbOf(g)'
        BY <1>8, <3>2
      <4>2. /\ handle[g].pos = length[fcb[j].id]
            /\ handle[g].curr = LastOf(blk, fcb[j].id, length[fcb[j].id])
            /\ handle[g].pos % BlockData = 0 =>
                 \/ fcb[j].size = handle[g].pos
                 \/ \E u \in Thread : /\ Pc(u) \in {"flush", "program"} /\ at[u].op = "write"
                                      /\ at[u].h = g
        BY <1>1, <1>11, <2>2, <3>2, <4>1, WriterAt
      <4>3. \A u \in Thread : Pc(u) \in {"flush", "program"} => Pc(u)' = Pc(u) /\ at'[u] = at[u]
        BY <1>2, <1>9
      <4> QED
        BY <1>2, <3>2, <4>1, <4>2, <4>3
    <3> QED
      BY <3>1, <3>2
  <2>3. ASSUME NEW u \in Thread, Pc(u)' \in {"allocate", "erase", "link"}
        PROVE  handle'[at'[u].h].pos % BlockData = 0
    <3>1. Pc(u) = Pc(u)' /\ at'[u] = at[u]
      BY <1>9, <1>10, <2>3
    <3>2. at[u].h \in Slot /\ ActiveWriter(at[u].h)
      BY <2>3, <3>1, WritingActs DEF Writing
    <3>3. handle[at[u].h].pos % BlockData = 0
      BY <1>1, <2>3, <3>1 DEF WritersSound
    <3> QED
      BY <1>2, <1>8, <3>1, <3>2, <3>3
  <2> QED
    BY <2>1, <2>2, <2>3 DEF WritersSound
<1>15. CurrentSound(blk, num)'
  <2> SUFFICES ASSUME NEW g \in Slot
               PROVE  /\ handle'[g].curr # NoBlock
                      /\ /\ FcbOf(g)' # INVAL /\ Appends(handle'[g].mode)
                         /\ ~Busy(g, {"close handle"})'
                         => \/ handle'[g].curr = INVAL
                            \/ \E k \in 0..(num[fcb'[FcbOf(g)'].id] - 1) :
                                 handle'[g].curr = blk[fcb'[FcbOf(g)'].id][k]
    BY DEF CurrentSound
  <2>1. CASE g = h /\ ~Appends(new.mode)
    BY <1>2, <2>1, NotInval DEF NewHandle
  <2>2. CASE g = h /\ Appends(new.mode)
    <3>1. e \in Files /\ ~Removing(e) /\ length[e] \in Nat
      BY <1>1, <1>7, NotInval, FcbIsFile, Constants DEF Types
    <3>2. num[e] = BlocksFor(length[e])
      BY <1>1, <3>1 DEF CountsSound
    <3>3. new.curr = INVAL \/ \E k \in 0..(num[e] - 1) : new.curr = blk[e][k]
      <4>1. CASE length[e] = 0
        BY <1>12, <2>2, <4>1 DEF LastOf
      <4>2. CASE length[e] # 0
        <5>1. num[e] - 1 \in 0..(num[e] - 1)
          BY <3>1, <3>2, <4>2, BlocksForIs
        <5>2. new.curr = blk[e][num[e] - 1]
          BY <1>12, <2>2, <3>2, <4>2 DEF LastOf
        <5> QED
          BY <5>1, <5>2
      <4> QED
        BY <4>1, <4>2
    <3>4. \A k \in Nat : blk[e][k] # NoBlock
      BY NotInval
    <3>5. new.curr # NoBlock
      BY <3>3, <3>4, NotInval
    <3> QED
      BY <1>2, <1>7, <1>8, <2>2, <3>3, <3>5
  <2>3. CASE g # h
    <3>1. PICK j : j = FcbOf(g) /\ j = FcbOf(g)'
      BY <1>8, <2>3
    <3>2. Busy(g, {"close handle"}) => Busy(g, {"close handle"})'
      BY <1>2, <1>9 DEF Busy
    <3>3. /\ handle[g].curr # NoBlock
          /\ j # INVAL /\ Appends(handle[g].mode) /\ ~Busy(g, {"close handle"}) =>
               \/ handle[g].curr = INVAL
               \/ \E k \in 0..(num[fcb[j].id] - 1) : handle[g].curr = blk[fcb[j].id][k]
      BY <1>1, <3>1 DEF CurrentSound
    <3> QED
      BY <1>2, <2>3, <3>1, <3>2, <3>3
  <2> QED
    BY <2>1, <2>2, <2>3
<1> QED
  BY <1>4, <1>6, <1>13, <1>14, <1>15 DEF FilesAre

LEMMA OpenHandleIs ==
  ASSUME TablesInv, NEW t \in Thread, OpenHandle(t)
  PROVE  \E i \in Slot, h \in Slot : \E new : NewHandle(t, i, h, new)
<1>1. /\ Pc(t) = "alloc handle" /\ Opening(t)
      /\ UNCHANGED <<table, dir, next, data, fcb, unsynced, length>>
  BY DEF OpenHandle, Opening, eeprom, flash, history
<1>2. Types /\ CallsOwnFiles /\ FilesHaveHandles
  BY DEF TablesInv
<1>3. at[t] \in HandleLocals
  BY <1>1, <1>2, CallTypes, LocalsAre DEF Pc
<1>4. PICK i \in Slot, mode \in Mode : i = at[t].i /\ mode = at[t].mode
  BY <1>3 DEF HandleLocals
<1> DEFINE free == {h \in Slot : FcbOf(h) = INVAL}
<1>5. free # {}
  BY <1>1, <1>2, FreeHandle
<1>6. Least(free) \in free
  <2>1. free \in SUBSET Nat
    BY Slots
  <2> HIDE DEF free
  <2> QED
    BY <2>1, <1>5, LeastIs
<1>7. PICK h \in Slot : h = Least(free) /\ FcbOf(h) = INVAL
  BY <1>6
<1> DEFINE new == IF Appends(mode)
                  THEN [fcb |-> i, mode |-> mode, pos |-> fcb[i].size,
                        curr |-> seekBlock(fcb[i].first, fcb[i].size)]
                  ELSE [NoHandle EXCEPT !.fcb = i]
<1>8. handle' = [handle EXCEPT ![h] = new] /\ at' = [at EXCEPT ![t] = Idle]
  BY <1>4, <1>5, <1>7 DEF OpenHandle, Return, Goto
<1>9. /\ new.fcb = i
      /\ Appends(new.mode) => /\ Appends(at[t].mode) /\ new.pos = fcb[i].size
                              /\ new.curr = seekBlock(fcb[i].first, fcb[i].size)
      /\ ~Appends(new.mode) => new.curr = INVAL
  BY <1>4 DEF NoHandle, Appends
<1> HIDE DEF new, free
<1>10. handle'[h] = new /\ \A g \in Slot : g # h => handle'[g] = handle[g]
  BY <1>2, <1>8 DEF Types
<1>11. at'[t].pc = "idle" /\ OthersStay(t)
  BY <1>2, <1>8 DEF Types, OthersStay, Idle
<1>12. NewHandle(t, i, h, new)
  BY <1>1, <1>4, <1>7, <1>9, <1>10, <1>11 DEF NewHandle
<1> QED
  BY <1>12

LEMMA OpenHandleFiles ==
  ASSUME TablesInv, NEW t \in Thread, OpenHandle(t),
         NEW blk \in [Entry -> [Nat -> Block]], NEW num \in [Entry -> Nat], NEW put,
         FilesAre(blk, num, put)
  PROVE  FilesAre(blk, num, put)'
BY OpenHandleIs, NewHandleFiles
------------------------------------------------------------------------------
(* How many blocks units take.                                             *)
LEMMA QuotientIs ==
  ASSUME NEW n \in Nat
  PROVE  \E q \in Nat, r \in 0..(BlockData - 1) :
           q = n \div BlockData /\ r = n % BlockData /\ n = BlockData * q + r
<1>1. BlockData \in Nat /\ BlockData > 0
  BY Constants
<1>2. n % BlockData \in 0..(BlockData - 1) /\ n \div BlockData \in Int
  BY <1>1
<1>3. PICK q \in Int, r \in Int : q = n \div BlockData /\ r = n % BlockData
  BY <1>2
<1>4. n = BlockData * q + r
  BY <1>1, <1>3
<1>5. q <= -1 => BlockData * q <= -BlockData
  BY <1>1
<1>6. r < BlockData /\ r >= 0
  BY <1>1, <1>2, <1>3
<1>7. q \in Nat
  BY <1>1, <1>4, <1>5, <1>6
<1> QED
  BY <1>2, <1>3, <1>4, <1>7

LEMMA BlocksForUnique ==
  ASSUME NEW n \in Nat, NEW q \in Nat, BlockData * (q - 1) < n, n <= BlockData * q
  PROVE  BlocksFor(n) = q
<1>1. PICK p \in Nat : p = BlocksFor(n)
  BY BlocksForIs
<1>2. n <= BlockData * p /\ BlockData * p < n + BlockData
  BY <1>1, BlocksForIs
<1>3. PICK d \in Nat : d = BlockData /\ d > 0
  BY Constants
<1>4. d * (q - 1) < d * p /\ d * (p - 1) < d * q
  BY <1>2, <1>3
<1>5. q - 1 < p /\ p - 1 < q
  BY <1>3, <1>4
<1> QED
  BY <1>1, <1>5

LEMMA BlocksBelow ==
  ASSUME NEW n \in Nat
  PROVE  BlockData * (BlocksFor(n) - 1) <= n /\ (n > 0 => BlockData * (BlocksFor(n) - 1) < n)
<1>1. PICK p \in Nat : p = BlocksFor(n)
  BY BlocksForIs
<1>2. n <= BlockData * p /\ BlockData * p < n + BlockData /\ BlockData \in Nat
  BY <1>1, BlocksForIs, Constants
<1>3. BlockData * (p - 1) = BlockData * p - BlockData
  BY <1>2
<1> QED
  BY <1>1, <1>2, <1>3

LEMMA UnitIsIn ==
  ASSUME NEW n \in Nat, NEW k \in Nat
  PROVE  k < BlocksFor(n) <=> BlockData * k < n
<1>1. PICK p \in Nat : p = BlocksFor(n)
  BY BlocksForIs
<1>2. PICK d \in Nat : d = BlockData /\ d > 0
  BY Constants
<1>3. n <= d * p /\ d * p < n + d
  BY <1>1, <1>2, BlocksForIs
<1>4. k < p => d * k + d <= d * p
  BY <1>2
<1>5. k >= p => d * k >= d * p
  BY <1>2
<1> QED
  BY <1>1, <1>2, <1>3, <1>4, <1>5

LEMMA NextUnit ==
  ASSUME NEW n \in Nat
  PROVE  /\ n % BlockData = 0 => BlocksFor(n + 1) = BlocksFor(n) + 1 /\ BlockData * BlocksFor(n) = n
         /\ n % BlockData # 0 => BlocksFor(n + 1) = BlocksFor(n) /\ n > 0
<1>1. PICK d \in Nat : d = BlockData /\ d > 0
  BY Constants
<1>2. PICK m \in Nat, r \in 0..(d - 1) : n = d * m + r /\ r = n % BlockData
  BY <1>1, QuotientIs
<1>3. CASE r = 0
  <2>1. BlocksFor(n) = m
    BY <1>1, <1>2, <1>3, BlocksForUnique
  <2>2. BlocksFor(n + 1) = m + 1
    BY <1>1, <1>2, <1>3, BlocksForUnique
  <2> QED
    BY <1>1, <1>2, <1>3, <2>1, <2>2
<1>4. CASE r # 0
  <2>1. /\ d * ((m + 1) - 1) < n /\ n <= d * (m + 1)
        /\ d * ((m + 1) - 1) < n + 1 /\ n + 1 <= d * (m + 1)
    BY <1>1, <1>2, <1>4
  <2>2. BlocksFor(n) = m + 1 /\ BlocksFor(n + 1) = m + 1
    BY <1>1, <2>1, BlocksForUnique
  <2>3. n > 0
    BY <1>1, <1>2, <1>4
  <2> QED
    BY <1>2, <1>4, <2>2, <2>3
<1> QED
  BY <1>3, <1>4

(* A control block is taken for a file that had none: one that is in the   *)
(* directory, or a new one, which has no blocks and no units.              *)
NewFcb(t, i, e, n) ==
  /\ Pc(t) = "alloc fcb" /\ at'[t].pc = "alloc handle" /\ at'[t].i = i /\ OthersStay(t)
  /\ fcb[i].id = INVAL /\ ~InUse(e) /\ ~Removing(e)
  /\ fcb'[i].id = e /\ fcb'[i].size = n
  /\ \A j \in Slot : j # i => fcb'[j] = fcb[j]
  /\ length'[e] = n /\ \A d \in Entry : d # e => length'[d] = length[d] /\ dir'[d] = dir[d]
  /\ Files' = Files \cup {e}
  /\ unsynced \in SUBSET unsynced' /\ unsynced' \in SUBSET (unsynced \cup {e})
  /\ UNCHANGED <<table, next, data, handle>>

NewFields(blk, num, put, put2, e, n) ==
  /\ num[e] = BlocksFor(n) /\ put2[e] = n /\ \A d \in Entry : d # e => put2[d] = put[d]
  /\ n = 0 \/ (e \in Files /\ put[e] = n)
  /\ e \in unsynced' \/ (dir'[e].size <= n /\ (dir'[e].size > 0 => dir'[e].first = blk[e][0]))

LEMMA NewFcbFiles ==
  ASSUME TablesInv, NEW t \in Thread, NEW i \in Slot, NEW e \in Entry, NEW n \in Nat,
         NewFcb(t, i, e, n),
         NEW blk \in [Entry -> [Nat -> Block]], NEW num \in [Entry -> Nat],
         NEW put \in [Entry -> Nat], FilesAre(blk, num, put), NEW put2 \in [Entry -> Nat],
         fcb'[i].first = FirstOf(blk, e, n), NewFields(blk, num, put, put2, e, n)
  PROVE  FilesAre(blk, num, put2)'
<1>1. /\ ChainsSound(blk, num) /\ AllocationSound(blk, num) /\ CountsSound(blk, num)
      /\ SizesSound(blk, put) /\ DataSound(blk, num, put) /\ DirectorySound(blk, put)
      /\ WritersSound(blk) /\ CurrentSound(blk, num) /\ Types
  BY DEF FilesAre, TablesInv
<1>2. /\ Pc(t) = "alloc fcb" /\ at'[t].pc = "alloc handle" /\ at'[t].i = i /\ OthersStay(t)
      /\ table' = table /\ next' = next /\ data' = data /\ handle' = handle
  BY DEF NewFcb
<1>16. /\ fcb[i].id = INVAL /\ fcb'[i].id = e /\ fcb'[i].size = n /\ ~InUse(e)
       /\ \A j \in Slot : j # i => fcb'[j] = fcb[j]
  BY DEF NewFcb
<1>17. length'[e] = n /\ \A d \in Entry : d # e => length'[d] = length[d] /\ dir'[d] = dir[d]
  BY DEF NewFcb
<1>18. /\ Files' = Files \cup {e} /\ ~Removing(e)
       /\ unsynced \in SUBSET unsynced' /\ unsynced' \in SUBSET (unsynced \cup {e})
  BY DEF NewFcb
<1>19. /\ num[e] = BlocksFor(n) /\ put2[e] = n /\ \A d \in Entry : d # e => put2[d] = put[d]
       /\ n = 0 \/ (e \in Files /\ put[e] = n)
       /\ \/ e \in unsynced'
          \/ dir'[e].size <= n /\ (dir'[e].size > 0 => dir'[e].first = blk[e][0])
  BY DEF NewFields
<1>3. \A d : Removing(d)' <=> Removing(d)
  BY <1>2, RemovingKept
<1>4. \A d \in Entry : InUse(d)' <=> InUse(d) \/ d = e
  <2>1. \A d \in Entry : d # INVAL
    BY NotInval
  <2> QED
    BY <2>1, <1>16 DEF InUse
<1>5. ChainsSound(blk, num)'
  BY <1>1, <1>2 DEF ChainsSound
<1>6. AllocationSound(blk, num)'
  BY <1>1, <1>2, AllocationSame
<1>7. CountsSound(blk, num)'
  <2>1. \A u \in Thread : Pc(u)' = "free" => Pc(u) = "free" /\ at'[u] = at[u]
    BY <1>2 DEF OthersStay, Pc
  <2>2. \A u \in Thread : Pc(u)' = "free" =>
          /\ num[at'[u].id] = BlocksFor(at'[u].left)
          /\ at'[u].left > 0 => at'[u].b = blk[at'[u].id][0]
    BY <1>1, <2>1 DEF CountsSound
  <2>3. \A d \in Entry : /\ d \notin Files' => num[d] = 0
                         /\ d \in Files' /\ ~Removing(d)' => num[d] = BlocksFor(length'[d])
    BY <1>1, <1>3, <1>17, <1>18, <1>19 DEF CountsSound
  <2> QED
    BY <2>2, <2>3 DEF CountsSound
<1>8. \A h : ActiveWriter(h)' <=> ActiveWriter(h)
  BY <1>2, ActiveSame
<1>9. \A h : FcbOf(h)' = FcbOf(h)
  BY <1>2 DEF FcbOf
<1>10. \A h \in Slot : ActiveWriter(h) => FcbOf(h) \in Slot /\ FcbOf(h) # i
  BY <1>16, ActiveWriterIs, NotInval
<1>11. SizesSound(blk, put2)'
  <2>1. ASSUME NEW d \in Entry
        PROVE  /\ put2[d] <= length'[d]
               /\ BlockData * (BlocksFor(length'[d]) - 1) <= put2[d]
               /\ ~InUse(d)' => put2[d] = length'[d]
    <3>1. CASE d = e
      BY <3>1, <1>17, <1>19, BlocksBelow
    <3>2. CASE d # e
      BY <3>2, <1>1, <1>4, <1>17, <1>19 DEF SizesSound
    <3> QED
      BY <3>1, <3>2
  <2>2. ASSUME NEW j \in Slot, fcb'[j].id # INVAL
        PROVE  /\ fcb'[j].size = put2[fcb'[j].id]
               /\ fcb'[j].first = FirstOf(blk, fcb'[j].id, length'[fcb'[j].id])
               /\ put2[fcb'[j].id] # length'[fcb'[j].id] =>
                    \E h \in Slot : ActiveWriter(h)' /\ FcbOf(h)' = j
    <3>1. CASE j = i
      BY <3>1, <1>16, <1>17, <1>19
    <3>2. CASE j # i
      <4>1. fcb'[j] = fcb[j]
        BY <1>16, <3>2
      <4>2. PICK d : d = fcb[j].id
        OBVIOUS
      <4>3. d \in Entry /\ d # e
        <5>1. d \in Entry
          BY <1>1, <2>2, <4>1, <4>2 DEF Types
        <5> QED
          BY <5>1, <1>16, <4>2 DEF InUse
      <4>4. /\ fcb[j].size = put[d] /\ fcb[j].first = FirstOf(blk, d, length[d])
            /\ put[d] # length[d] => \E h \in Slot : ActiveWriter(h) /\ FcbOf(h) = j
        BY <1>1, <2>2, <4>1, <4>2 DEF SizesSound
      <4> QED
        <5>1. length'[d] = length[d] /\ put2[d] = put[d] /\ fcb'[j].id = d
          BY <1>17, <1>19, <4>1, <4>2, <4>3
        <5> QED
          BY <1>8, <1>9, <4>1, <4>4, <5>1
    <3> QED
      BY <3>1, <3>2
  <2> QED
    BY <2>1, <2>2 DEF SizesSound, FirstOf
<1>12. DataSound(blk, num, put2)'
  <2> SUFFICES ASSUME NEW d \in Files', ~Removing(d)', NEW k \in 0..(num[d] - 1), NEW c \in Cell
               PROVE  data'[blk[d][k]][c] =
                        IF BlockData * k + c < put2[d] THEN <<d, BlockData * k + c>> ELSE Blank
    BY DEF DataSound
  <2>1. d \in Files /\ put2[d] = put[d]
    <3>1. num[d] # 0 /\ d \in Entry
      BY DEF Files
    <3>2. CASE d = e
      <4>1. n # 0
        BY <1>19, <3>1, <3>2, BlocksForIs
      <4> QED
        BY <1>19, <3>2, <4>1
    <3>3. CASE d # e
      BY <1>18, <1>19, <3>1, <3>3
    <3> QED
      BY <3>2, <3>3
  <2>2. data[blk[d][k]][c] = IF BlockData * k + c < put[d] THEN <<d, BlockData * k + c>> ELSE Blank
    BY <1>1, <1>3, <2>1 DEF DataSound
  <2> QED
    BY <1>2, <2>1, <2>2
<1>13. DirectorySound(blk, put2)'
  <2>1. \A d \in unsynced' : InUse(d)'
    BY <1>1, <1>4, <1>18 DEF DirectorySound, Types
  <2>2. ASSUME NEW d \in Files', ~Removing(d)'
        PROVE  /\ d \notin unsynced' => /\ dir'[d].size <= put2[d]
                                        /\ dir'[d].size > 0 => dir'[d].first = blk[d][0]
               /\ ~InUse(d)' => dir'[d].size = length'[d] /\ dir'[d].first = FirstOf(blk, d, length'[d])
    <3>1. CASE d = e
      BY <3>1, <1>4, <1>19
    <3>2. CASE d # e
      <4>1. d \in Entry /\ d \in Files /\ ~Removing(d)
        BY <1>3, <1>18, <2>2, <3>2 DEF Files
      <4>2. /\ d \notin unsynced => /\ dir[d].size <= put[d]
                                    /\ dir[d].size > 0 => dir[d].first = blk[d][0]
            /\ ~InUse(d) => dir[d].size = length[d] /\ dir[d].first = FirstOf(blk, d, length[d])
        BY <1>1, <4>1 DEF DirectorySound
      <4> QED
        BY <1>4, <1>17, <1>18, <1>19, <3>2, <4>1, <4>2
    <3> QED
      BY <3>1, <3>2
  <2> QED
    BY <2>1, <2>2 DEF DirectorySound, FirstOf
<1>14. WritersSound(blk)'
  <2>1. ASSUME NEW u \in Thread, Pc(u)' = "alloc handle", Appends(at'[u].mode)
        PROVE  fcb'[at'[u].i].size = length'[fcb'[at'[u].i].id]
    <3>1. CASE u = t
      BY <3>1, <1>2, <1>16, <1>17, <1>19
    <3>2. CASE u # t
      <4>1. at'[u] = at[u] /\ Pc(u) = "alloc handle"
        BY <3>2, <2>1, <1>2 DEF OthersStay, Pc
      <4>2. PICK j \in Slot : j = at[u].i /\ fcb[j].id \in Entry
        BY <4>1, OpeningHas
      <4>3. j # i /\ fcb[j].id # e
        BY <1>16, <4>2, NotInval DEF InUse
      <4>4. fcb[j].size = length[fcb[j].id]
        BY <1>1, <2>1, <4>1, <4>2, OpenersAt
      <4>5. fcb'[j] = fcb[j] /\ length'[fcb[j].id] = length[fcb[j].id]
        BY <1>16, <1>17, <1>19, <4>2, <4>3
      <4> QED
        BY <4>1, <4>2, <4>4, <4>5
    <3> QED
      BY <3>1, <3>2
  <2>2. ASSUME NEW h \in Slot, ActiveWriter(h)'
        PROVE  /\ handle'[h].pos = length'[fcb'[FcbOf(h)'].id]
               /\ handle'[h].curr = LastOf(blk, fcb'[FcbOf(h)'].id, length'[fcb'[FcbOf(h)'].id])
               /\ handle'[h].pos % BlockData = 0 =>
                    \/ fcb'[FcbOf(h)'].size = handle'[h].pos
                    \/ \E u \in Thread : /\ Pc(u)' \in {"flush", "program"} /\ at'[u].op = "write"
                                         /\ at'[u].h = h
    <3>1. ActiveWriter(h)
      BY <1>8, <2>2
    <3>2. PICK j \in Slot : j = FcbOf(h) /\ j = FcbOf(h)' /\ j # i
      BY <3>1, <1>9, <1>10
    <3>3. fcb'[j] = fcb[j] /\ fcb[j].id \in Entry /\ fcb[j].id # e
      <4>1. fcb'[j] = fcb[j] /\ fcb[j].id \in Entry
        BY <1>16, <3>1, <3>2, ActiveWriterIs
      <4> QED
        BY <4>1, <1>16 DEF InUse
    <3>4. /\ handle[h].pos = length[fcb[j].id]
          /\ handle[h].curr = LastOf(blk, fcb[j].id, length[fcb[j].id])
          /\ handle[h].pos % BlockData = 0 =>
                \/ fcb[j].size = handle[h].pos
                \/ \E u \in Thread : /\ Pc(u) \in {"flush", "program"} /\ at[u].op = "write"
                                     /\ at[u].h = h
      <4>1. j = FcbOf(h) /\ WritersSound(blk)
        BY <1>1, <3>2
      <4> QED
        BY <3>1, <4>1, WriterAt
    <3>5. \A u \in Thread : Pc(u) \in {"flush", "program"} => Pc(u)' = Pc(u) /\ at'[u] = at[u]
      BY <1>2 DEF OthersStay, Pc
    <3>6. length'[fcb[j].id] = length[fcb[j].id]
      BY <1>17, <3>3
    <3>7. handle' = handle
      BY <1>2
    <3> QED
      BY <3>2, <3>3, <3>4, <3>5, <3>6, <3>7
  <2>3. \A u \in Thread : Pc(u)' \in {"allocate", "erase", "link"} =>
          handle'[at'[u].h].pos % BlockData = 0
    <3>1. \A u \in Thread : Pc(u) \in {"allocate", "erase", "link"} =>
            handle[at[u].h].pos % BlockData = 0
      BY <1>1 DEF WritersSound
    <3>2. \A u \in Thread : Pc(u)' \in {"allocate", "erase", "link"} =>
            Pc(u)' = Pc(u) /\ at'[u] = at[u]
      BY <1>2 DEF OthersStay, Pc
    <3> QED
      BY <1>2, <3>1, <3>2
  <2> QED
    BY <2>1, <2>2, <2>3 DEF WritersSound
<1>15. CurrentSound(blk, num)'
  <2> SUFFICES ASSUME NEW h \in Slot
               PROVE  /\ handle'[h].curr # NoBlock
                      /\ /\ FcbOf(h)' # INVAL /\ Appends(handle'[h].mode)
                         /\ ~Busy(h, {"close handle"})'
                         => \/ handle'[h].curr = INVAL
                            \/ \E k \in 0..(num[fcb'[FcbOf(h)'].id] - 1) :
                                 handle'[h].curr = blk[fcb'[FcbOf(h)'].id][k]
    BY DEF CurrentSound
  <2>1. Busy(h, {"close handle"}) => Busy(h, {"close handle"})'
    <3>1. \A u \in Thread : Pc(u) = "close handle" => Pc(u)' = Pc(u) /\ at'[u] = at[u]
      BY <1>2 DEF OthersStay, Pc
    <3> QED
      BY <3>1 DEF Busy
  <2>2. PICK j : j = FcbOf(h) /\ j = FcbOf(h)'
    BY <1>9
  <2>3. j # INVAL /\ ~Busy(h, {"close handle"}) => fcb'[j] = fcb[j]
    <3>1. j # INVAL /\ ~Busy(h, {"close handle"}) => j \in Slot /\ fcb[j].id \in Entry
      BY <2>2, HandleHasFcb
    <3> QED
      BY <3>1, <1>16, NotInval
  <2>4. /\ handle[h].curr # NoBlock
        /\ j # INVAL /\ Appends(handle[h].mode) /\ ~Busy(h, {"close handle"}) =>
             \/ handle[h].curr = INVAL
             \/ \E k \in 0..(num[fcb[j].id] - 1) : handle[h].curr = blk[fcb[j].id][k]
    BY <1>1, <2>2 DEF CurrentSound
  <2>5. handle' = handle
    BY <1>2
  <2> QED
    BY <2>1, <2>2, <2>3, <2>4, <2>5
<1> QED
  BY <1>5, <1>6, <1>7, <1>11, <1>12, <1>13, <1>14, <1>15 DEF FilesAre

LEMMA AllocFcbFiles ==
  ASSUME TablesInv, NEW t \in Thread, AllocFcb(t),
         NEW blk \in [Entry -> [Nat -> Block]], NEW num \in [Entry -> Nat],
         NEW put \in [Entry -> Nat], FilesAre(blk, num, put)
  PROVE  \E put2 \in [Entry -> Nat] : FilesAre(blk, num, put2)'
<1>1. Types /\ SearchOf(t) /\ Pc(t) = "alloc fcb" /\ at[t] \in SearchLocals
  <2>1. Types /\ SearchOf(t) /\ Pc(t) = "alloc fcb"
    BY DEF TablesInv, OneFcbEach, AllocFcb
  <2> QED
    BY <2>1, CallTypes, LocalsAre DEF Pc
<1>2. PICK i \in Slot, e \in Entry, fd \in Slot, mode \in Mode, name \in Name \cup {NoName} :
        i = at[t].i /\ e = at[t].id /\ fd = at[t].fd /\ mode = at[t].mode /\ name = at[t].new
  BY <1>1 DEF SearchLocals
<1>3. /\ CountsSound(blk, num) /\ SizesSound(blk, put) /\ DirectorySound(blk, put)
  BY DEF FilesAre
<1>4. ~InUse(e)
  BY <1>1, <1>2 DEF SearchOf, InUse
<1>5. ~Removing(e)
  <2>1. \A u \in Thread : Pc(u) # "free"
    BY <1>1, OneAtATime
  <2> QED
    BY <2>1 DEF Removing
<1> DEFINE n == IF name = NoName THEN dir[e].size ELSE 0
<1> DEFINE new == [id |-> e, refcount |-> 1, writer |-> Appends(mode),
                   first |-> IF name # NoName THEN INVAL ELSE dir[e].first,
                   size  |-> IF name # NoName THEN 0 ELSE dir[e].size]
<1> DEFINE loc == [pc |-> "alloc handle", fd |-> fd, i |-> i, mode |-> mode]
<1>6. /\ fcb' = [fcb EXCEPT ![i] = new] /\ at' = [at EXCEPT ![t] = loc]
      /\ table' = table /\ next' = next /\ data' = data /\ handle' = handle /\ fcb[i].id = INVAL
  BY <1>2 DEF AllocFcb, Goto, flash
<1>7. IF name = NoName THEN dir' = dir /\ length' = length /\ unsynced' = unsynced
      ELSE /\ dir' = [dir EXCEPT ![e].name = name]
           /\ length' = [length EXCEPT ![e] = 0] /\ unsynced' = unsynced \cup {e}
  BY <1>2 DEF AllocFcb, history
<1>8. /\ at'[t].pc = "alloc handle" /\ at'[t].i = i /\ OthersStay(t)
  BY <1>1, <1>6 DEF OthersStay, Types
<1>9. /\ new.id = e /\ new.size = n
      /\ new.first = IF name # NoName THEN INVAL ELSE dir[e].first
  OBVIOUS
<1> HIDE DEF new, loc
<1>10. fcb'[i] = new /\ \A j \in Slot : j # i => fcb'[j] = fcb[j]
  BY <1>1, <1>6 DEF Types
<1>11. CASE name = NoName
  <2>1. e \in Files
    BY <1>1, <1>2, <1>11 DEF SearchOf, Files, Named
  <2>2. /\ length[e] \in Nat /\ num[e] = BlocksFor(length[e]) /\ put[e] = length[e]
        /\ dir[e].size = length[e] /\ dir[e].first = FirstOf(blk, e, length[e])
    <3>1. length \in [Entry -> 0..MaxSize]
      BY <1>1 DEF Types
    <3>2. length[e] \in Nat
      BY <3>1
    <3> QED
      BY <3>2, <1>3, <1>4, <1>5, <2>1 DEF CountsSound, SizesSound, DirectorySound
  <2>3. dir' = dir /\ length' = length /\ unsynced' = unsynced
    BY <1>7, <1>11
  <2>4. n = length[e] /\ new.first = FirstOf(blk, e, n) /\ n \in Nat
    BY <1>9, <1>11, <2>2
  <2>5. Files' = Files
    BY <2>3 DEF Files, Named
  <2> HIDE DEF n
  <2>6. NewFcb(t, i, e, n)
    <3>1. Files' = Files \cup {e}
      BY <2>1, <2>5
    <3> QED
      BY <1>1, <1>4, <1>5, <1>6, <1>8, <1>9, <1>10, <2>3, <2>4, <3>1 DEF NewFcb
  <2>7. dir'[e].size <= n /\ (dir'[e].size > 0 => dir'[e].first = blk[e][0])
    BY <2>2, <2>3, <2>4 DEF FirstOf
  <2>8. NewFields(blk, num, put, put, e, n)
    BY <2>1, <2>2, <2>4, <2>7 DEF NewFields
  <2>9. fcb'[i].first = FirstOf(blk, e, n)
    BY <1>10, <2>4
  <2>10. FilesAre(blk, num, put)'
    BY <2>4, <2>6, <2>8, <2>9, NewFcbFiles
  <2> QED
    BY <2>10
<1>12. CASE name # NoName
  <2>0. PICK put2 \in [Entry -> Nat] : put2 = [put EXCEPT ![e] = 0]
    OBVIOUS
  <2>1. e \notin Files
    BY <1>1, <1>2, <1>12 DEF SearchOf, Files, Named
  <2>2. num[e] = BlocksFor(0)
    BY <1>3, <2>1, BlocksForIs DEF CountsSound
  <2>3. /\ dir' = [dir EXCEPT ![e].name = name] /\ length' = [length EXCEPT ![e] = 0]
        /\ unsynced' = unsynced \cup {e}
    BY <1>7, <1>12
  <2>4. PICK m \in Nat : m = 0 /\ m = n /\ new.first = FirstOf(blk, e, m)
    BY <1>9, <1>12 DEF FirstOf
  <2>5. /\ dir'[e].name = name /\ \A d \in Entry : d # e => dir'[d] = dir[d]
        /\ length'[e] = 0 /\ \A d \in Entry : d # e => length'[d] = length[d]
    BY <1>1, <2>3 DEF Types
  <2>6. Files' = Files \cup {e}
    BY <1>12, <2>5 DEF Files, Named
  <2> HIDE DEF n
  <2>7. NewFcb(t, i, e, m)
    BY <1>1, <1>4, <1>5, <1>6, <1>8, <1>9, <1>10, <2>3, <2>4, <2>5, <2>6 DEF NewFcb
  <2>8. put2 \in [Entry -> Nat] /\ put2[e] = 0 /\ \A d \in Entry : d # e => put2[d] = put[d]
    BY <2>0
  <2>9. e \in unsynced'
    BY <2>3
  <2>10. FilesAre(blk, num, put2)'
    <3>1. fcb'[i].first = FirstOf(blk, e, m)
      BY <1>10, <2>4
    <3>2. NewFields(blk, num, put, put2, e, m)
      BY <2>2, <2>4, <2>8, <2>9 DEF NewFields
    <3> QED
      BY <3>1, <3>2, <2>7, NewFcbFiles
  <2> QED
    BY <2>8, <2>10
<1> QED
  BY <1>11, <1>12

------------------------------------------------------------------------------
(* A unit is appended: a file gets longer by one, with or without a block. *)
Appended(t, h, i, e) ==
  /\ ActiveWriter(h) /\ FcbOf(h) = i /\ fcb[i].id = e
  /\ \A u \in Thread : u # t /\ Writing(u) => at[u].h # h
  /\ Pc(t) \in {"idle", "link"} /\ OthersStay(t)
  /\ \/ at'[t].pc = "flush" /\ at'[t].op = "write" /\ at'[t].h = h
     \/ at'[t].pc = "idle" /\ (length[e] + 1) % BlockData # 0
  /\ length'[e] = length[e] + 1 /\ \A d \in Entry : d # e => length'[d] = length[d]
  /\ handle'[h].fcb = i /\ handle'[h].mode = handle[h].mode /\ handle'[h].pos = length[e] + 1
  /\ \A g \in Slot : g # h => handle'[g] = handle[g]
  /\ \A j \in Slot : fcb'[j].id = fcb[j].id /\ fcb'[j].size = fcb[j].size
  /\ \A j \in Slot : j # i => fcb'[j].first = fcb[j].first
  /\ dir' = dir /\ unsynced' = unsynced

Extended(e, h, i, blk, num, blk2, num2, put) ==
  /\ \A d \in Entry : d # e => blk2[d] = blk[d] /\ num2[d] = num[d]
  /\ \A k \in Nat : k < num[e] => blk2[e][k] = blk[e][k]
  /\ num2[e] = BlocksFor(length[e] + 1)
  /\ length[e] % BlockData = 0 => put[e] = length[e]
  /\ handle'[h].curr = LastOf(blk2, e, length[e] + 1)
  /\ fcb'[i].first = FirstOf(blk2, e, length[e] + 1)

LEMMA AppendedFacts ==
  ASSUME TablesInv, NEW t \in Thread, NEW h \in Slot, NEW i \in Slot, NEW e \in Entry,
         Appended(t, h, i, e)
  PROVE  /\ \A g \in Slot : ActiveWriter(g)' <=> ActiveWriter(g)
         /\ \A g \in Slot : FcbOf(g)' = FcbOf(g)
         /\ \A g \in Slot : handle'[g].mode = handle[g].mode
         /\ \A d : InUse(d)' <=> InUse(d)
         /\ Files' = Files /\ \A d : Removing(d)' <=> Removing(d)
         /\ \A j \in Slot : fcb[j].id = e => j = i
         /\ e \in Files /\ ~Removing(e) /\ InUse(e)
<1>1. /\ ActiveWriter(h) /\ FcbOf(h) = i /\ fcb[i].id = e
      /\ Pc(t) \in {"idle", "link"} /\ OthersStay(t) /\ at'[t].pc \in {"idle", "flush"}
      /\ handle'[h].fcb = i /\ handle'[h].mode = handle[h].mode
      /\ \A g \in Slot : g # h => handle'[g] = handle[g]
      /\ \A j \in Slot : fcb'[j].id = fcb[j].id
      /\ dir' = dir
  BY DEF Appended
<1>2. \A g \in Slot : FcbOf(g)' = FcbOf(g) /\ handle'[g].mode = handle[g].mode
  BY <1>1 DEF FcbOf
<1>3. \A u \in Thread : /\ Pc(u)' \in {"close fcb", "close handle"}
                             <=> Pc(u) \in {"close fcb", "close handle"}
                        /\ Pc(u) \in {"close fcb", "close handle"} => at'[u] = at[u]
  BY <1>1 DEF OthersStay, Pc
<1>4. \A g \in Slot : ActiveWriter(g)' <=> ActiveWriter(g)
  BY <1>2, <1>3 DEF ActiveWriter
<1>5. \A d : InUse(d)' <=> InUse(d)
  BY <1>1 DEF InUse
<1>6. Files' = Files
  BY <1>1 DEF Files, Named
<1>7. \A d : Removing(d)' <=> Removing(d)
  BY <1>1, RemovingKept
<1>8. \A j \in Slot : fcb[j].id = e => j = i
  BY <1>1, NotInval DEF TablesInv, OneFcbEach, FcbsDiffer
<1>9. e \in Files /\ ~Removing(e) /\ InUse(e)
  BY <1>1, NotInval, FcbIsFile
<1> QED
  BY <1>2, <1>4, <1>5, <1>6, <1>7, <1>8, <1>9

LEMMA AppendedSizes ==
  ASSUME TablesInv, NEW t \in Thread, NEW h \in Slot, NEW i \in Slot, NEW e \in Entry,
         Appended(t, h, i, e),
         NEW blk \in [Entry -> [Nat -> Block]], NEW num \in [Entry -> Nat],
         NEW put \in [Entry -> Nat], FilesAre(blk, num, put),
         NEW blk2 \in [Entry -> [Nat -> Block]], NEW num2 \in [Entry -> Nat],
         Extended(e, h, i, blk, num, blk2, num2, put)
  PROVE  SizesSound(blk2, put)'
<1>1. /\ \A g \in Slot : ActiveWriter(g)' <=> ActiveWriter(g)
      /\ \A g \in Slot : FcbOf(g)' = FcbOf(g)
      /\ \A d : InUse(d)' <=> InUse(d)
      /\ \A j \in Slot : fcb[j].id = e => j = i
      /\ InUse(e)
  BY AppendedFacts
<1>2. SizesSound(blk, put) /\ Types
  BY DEF FilesAre, TablesInv
<1>3. length'[e] = length[e] + 1 /\ \A d \in Entry : d # e => length'[d] = length[d]
  BY DEF Appended
<1>4. length[e] \in Nat
  <2>1. length \in [Entry -> 0..MaxSize]
    BY <1>2 DEF Types
  <2> QED
    BY <2>1
<1>5. length[e] % BlockData = 0 => put[e] = length[e]
  BY DEF Extended
<1>6. ASSUME NEW d \in Entry
      PROVE  /\ put[d] <= length'[d] /\ BlockData * (BlocksFor(length'[d]) - 1) <= put[d]
             /\ ~InUse(d)' => put[d] = length'[d]
  <2>1. CASE d = e
    <3>1. put[e] <= length[e] /\ BlockData * (BlocksFor(length[e]) - 1) <= put[e]
      BY <1>2 DEF SizesSound
    <3>2. PICK n \in Nat : n = length[e]
      BY <1>4
    <3>3. put[e] <= n + 1
      BY <3>1, <3>2
    <3>4. CASE n % BlockData = 0
      <4>1. BlocksFor(n + 1) = BlocksFor(n) + 1 /\ BlockData * BlocksFor(n) = n /\ put[e] = n
        BY <1>5, <3>2, <3>4, NextUnit
      <4>2. PICK q \in Nat : q = BlocksFor(n)
        BY BlocksForIs
      <4>3. BlockData * (BlocksFor(n + 1) - 1) <= put[e]
        BY <4>1, <4>2
      <4> QED
        BY <1>1, <1>3, <2>1, <3>2, <3>3, <4>3
    <3>5. CASE n % BlockData # 0
      <4>1. BlocksFor(n + 1) = BlocksFor(n)
        BY <3>5, NextUnit
      <4> QED
        BY <1>1, <1>3, <2>1, <3>1, <3>2, <3>3, <4>1
    <3> QED
      BY <3>4, <3>5
  <2>2. CASE d # e
    BY <1>1, <1>2, <1>3, <2>2 DEF SizesSound
  <2> QED
    BY <2>1, <2>2
<1>7. ASSUME NEW j \in Slot, fcb'[j].id # INVAL
      PROVE  /\ fcb'[j].size = put[fcb'[j].id]
             /\ fcb'[j].first = FirstOf(blk2, fcb'[j].id, length'[fcb'[j].id])
             /\ put[fcb'[j].id] # length'[fcb'[j].id] =>
                  \E g \in Slot : ActiveWriter(g)' /\ FcbOf(g)' = j
  <2>1. fcb'[j].id = fcb[j].id /\ fcb'[j].size = fcb[j].size
    BY DEF Appended
  <2>2. PICK d : d = fcb[j].id
    OBVIOUS
  <2>3. /\ fcb[j].size = put[d] /\ fcb[j].first = FirstOf(blk, d, length[d])
        /\ put[d] # length[d] => \E g \in Slot : ActiveWriter(g) /\ FcbOf(g) = j
    BY <1>2, <1>7, <2>1, <2>2 DEF SizesSound
  <2>4. d \in Entry
    BY <1>2, <1>7, <2>1, <2>2 DEF Types
  <2>5. CASE j = i
    <3>1. d = e /\ ActiveWriter(h) /\ FcbOf(h) = i
      BY <2>2, <2>5 DEF Appended
    <3>2. fcb'[j].first = FirstOf(blk2, e, length[e] + 1)
      BY <2>5 DEF Extended
    <3> QED
      BY <1>1, <1>3, <2>1, <2>2, <2>3, <2>5, <3>1, <3>2
  <2>6. CASE j # i
    <3>1. d # e
      BY <1>1, <2>2, <2>6
    <3>2. fcb'[j].first = fcb[j].first
      BY <2>6 DEF Appended
    <3>3. blk2[d] = blk[d] /\ length'[d] = length[d]
      BY <1>3, <2>4, <3>1 DEF Extended
    <3>4. FirstOf(blk2, d, length'[d]) = FirstOf(blk, d, length[d])
      BY <3>3 DEF FirstOf
    <3> QED
      BY <1>1, <2>1, <2>2, <2>3, <3>2, <3>3, <3>4
  <2> QED
    BY <2>5, <2>6
<1> QED
  BY <1>6, <1>7 DEF SizesSound, FirstOf

LEMMA AppendedWriters ==
  ASSUME TablesInv, NEW t \in Thread, NEW h \in Slot, NEW i \in Slot, NEW e \in Entry,
         Appended(t, h, i, e),
         NEW blk \in [Entry -> [Nat -> Block]], NEW num \in [Entry -> Nat],
         NEW put \in [Entry -> Nat], FilesAre(blk, num, put),
         NEW blk2 \in [Entry -> [Nat -> Block]], NEW num2 \in [Entry -> Nat],
         Extended(e, h, i, blk, num, blk2, num2, put)
  PROVE  WritersSound(blk2)'
<1>1. /\ \A g \in Slot : ActiveWriter(g)' <=> ActiveWriter(g)
      /\ \A g \in Slot : FcbOf(g)' = FcbOf(g)
      /\ \A j \in Slot : fcb[j].id = e => j = i
  BY AppendedFacts
<1>2. WritersSound(blk)
  BY DEF FilesAre
<1>3. length'[e] = length[e] + 1 /\ \A d \in Entry : d # e => length'[d] = length[d]
  BY DEF Appended
<1>4. /\ ActiveWriter(h) /\ FcbOf(h) = i /\ fcb[i].id = e
      /\ Pc(t) \in {"idle", "link"}
      /\ \/ at'[t].pc = "flush" /\ at'[t].op = "write" /\ at'[t].h = h
         \/ at'[t].pc = "idle" /\ (length[e] + 1) % BlockData # 0
      /\ \A j \in Slot : fcb'[j].id = fcb[j].id /\ fcb'[j].size = fcb[j].size
  BY DEF Appended
<1>5. \A u \in Thread : u # t => at'[u] = at[u] /\ Pc(u)' = Pc(u)
  BY DEF Appended, OthersStay, Pc
<1>6. Pc(t)' = at'[t].pc
  BY DEF Pc
<1>7. ASSUME NEW u \in Thread, Pc(u)' = "alloc handle", Appends(at'[u].mode)
      PROVE  fcb'[at'[u].i].size = length'[fcb'[at'[u].i].id]
  <2>1. u # t
    BY <1>4, <1>6, <1>7
  <2>2. at'[u] = at[u] /\ Pc(u) = "alloc handle" /\ Appends(at[u].mode)
    BY <1>5, <1>7, <2>1
  <2>3. PICK j \in Slot : j = at[u].i /\ fcb[j].id \in Entry
    BY <2>2, OpeningHas
  <2>4. j # i
    BY <1>4, <2>2, <2>3, OpeningWriterAlone
  <2>5. fcb[j].id # e
    BY <1>1, <2>4
  <2>6. fcb[j].size = length[fcb[j].id]
    BY <1>2, <2>2, <2>3, OpenersAt
  <2>7. PICK d \in Entry : d = fcb[j].id /\ d = fcb'[j].id
    BY <1>4, <2>3
  <2>8. length'[d] = length[d] /\ fcb'[j].size = fcb[j].size
    BY <1>3, <1>4, <2>5, <2>7
  <2> QED
    BY <2>2, <2>3, <2>6, <2>7, <2>8
<1>8. ASSUME NEW g \in Slot, ActiveWriter(g)'
      PROVE  /\ handle'[g].pos = length'[fcb'[FcbOf(g)'].id]
             /\ handle'[g].curr = LastOf(blk2, fcb'[FcbOf(g)'].id, length'[fcb'[FcbOf(g)'].id])
             /\ handle'[g].pos % BlockData = 0 =>
                  \/ fcb'[FcbOf(g)'].size = handle'[g].pos
                  \/ \E u \in Thread : /\ Pc(u)' \in {"flush", "program"} /\ at'[u].op = "write"
                                       /\ at'[u].h = g
  <2>1. ActiveWriter(g)
    BY <1>1, <1>8
  <2>2. CASE g = h
    <3>1. FcbOf(g)' = i /\ fcb'[i].id = e
      BY <1>1, <1>4, <2>2
    <3>2. handle'[h].pos = length[e] + 1
      BY DEF Appended
    <3>3. handle'[h].curr = LastOf(blk2, e, length[e] + 1)
      BY DEF Extended
    <3>4. handle'[h].pos % BlockData = 0 =>
            Pc(t)' = "flush" /\ at'[t].op = "write" /\ at'[t].h = h
      BY <1>4, <1>6, <3>2
    <3> QED
      BY <1>3, <2>2, <3>1, <3>2, <3>3, <3>4
  <2>3. CASE g # h
    <3>1. PICK j \in Slot : j = FcbOf(g) /\ j = FcbOf(g)' /\ fcb[j].id \in Entry
      BY <1>1, <2>1, ActiveWriterIs
    <3>2. j # i
      BY <1>4, <2>1, <2>3, <3>1, WritersDiffer
    <3>3. PICK d \in Entry : d = fcb[j].id /\ d = fcb'[j].id /\ d # e
      BY <1>1, <1>4, <3>1, <3>2
    <3>4. /\ handle[g].pos = length[d]
          /\ handle[g].curr = LastOf(blk, d, length[d])
          /\ handle[g].pos % BlockData = 0 =>
                \/ fcb[j].size = handle[g].pos
                \/ \E u \in Thread : /\ Pc(u) \in {"flush", "program"} /\ at[u].op = "write"
                                     /\ at[u].h = g
      <4>1. j = FcbOf(g)
        BY <3>1
      <4>2. /\ handle[g].pos = length[fcb[j].id]
            /\ handle[g].curr = LastOf(blk, fcb[j].id, length[fcb[j].id])
            /\ handle[g].pos % BlockData = 0 =>
                  \/ fcb[j].size = handle[g].pos
                  \/ \E u \in Thread : /\ Pc(u) \in {"flush", "program"} /\ at[u].op = "write"
                                       /\ at[u].h = g
        BY <1>2, <2>1, <4>1, WriterAt
      <4>3. d = fcb[j].id
        BY <3>3
      <4> QED
        BY <4>2, <4>3
    <3>5. blk2[d] = blk[d] /\ length'[d] = length[d]
      BY <1>3, <3>3 DEF Extended
    <3>6. LastOf(blk2, d, length'[d]) = LastOf(blk, d, length[d])
      BY <3>5 DEF LastOf
    <3>7. handle'[g] = handle[g]
      BY <2>3 DEF Appended
    <3>8. \A u \in Thread : Pc(u) \in {"flush", "program"} => Pc(u)' = Pc(u) /\ at'[u] = at[u]
      BY <1>4, <1>5
    <3>9. fcb'[j].size = fcb[j].size
      BY <1>4
    <3>10. handle'[g].pos % BlockData = 0 =>
             \/ fcb'[j].size = handle'[g].pos
             \/ \E u \in Thread : /\ Pc(u)' \in {"flush", "program"} /\ at'[u].op = "write"
                                  /\ at'[u].h = g
      BY <3>4, <3>7, <3>8, <3>9
    <3> QED
      BY <3>1, <3>3, <3>4, <3>5, <3>6, <3>7, <3>10
  <2> QED
    BY <2>2, <2>3
<1>9. ASSUME NEW u \in Thread, Pc(u)' \in {"allocate", "erase", "link"}
      PROVE  handle'[at'[u].h].pos % BlockData = 0
  <2>1. u # t
    BY <1>4, <1>6, <1>9
  <2>2. at'[u] = at[u] /\ Pc(u) \in {"allocate", "erase", "link"} /\ Writing(u)
    BY <1>5, <1>9, <2>1 DEF Writing
  <2>3. at[u].h \in Slot /\ at[u].h # h
    BY <2>1, <2>2, WritingActs DEF Appended
  <2>4. handle'[at[u].h] = handle[at[u].h]
    BY <2>3 DEF Appended
  <2>5. handle[at[u].h].pos % BlockData = 0
    BY <1>2, <2>2 DEF WritersSound
  <2> QED
    BY <2>2, <2>4, <2>5
<1> QED
  BY <1>7, <1>8, <1>9 DEF WritersSound, LastOf

LEMMA AppendedCurrent ==
  ASSUME TablesInv, NEW t \in Thread, NEW h \in Slot, NEW i \in Slot, NEW e \in Entry,
         Appended(t, h, i, e),
         NEW blk \in [Entry -> [Nat -> Block]], NEW num \in [Entry -> Nat],
         NEW put \in [Entry -> Nat], FilesAre(blk, num, put),
         NEW blk2 \in [Entry -> [Nat -> Block]], NEW num2 \in [Entry -> Nat],
         Extended(e, h, i, blk, num, blk2, num2, put)
  PROVE  CurrentSound(blk2, num2)' /\ DirectorySound(blk2, put)'
<1>1. /\ \A g \in Slot : FcbOf(g)' = FcbOf(g)
      /\ \A g \in Slot : handle'[g].mode = handle[g].mode
      /\ \A d : InUse(d)' <=> InUse(d)
      /\ Files' = Files /\ \A d : Removing(d)' <=> Removing(d)
      /\ \A j \in Slot : fcb[j].id = e => j = i
      /\ e \in Files /\ ~Removing(e) /\ InUse(e)
  BY AppendedFacts
<1>2. /\ CurrentSound(blk, num) /\ DirectorySound(blk, put) /\ CountsSound(blk, num)
      /\ SizesSound(blk, put) /\ Types
  BY DEF FilesAre, TablesInv
<1>3. length'[e] = length[e] + 1 /\ \A d \in Entry : d # e => length'[d] = length[d]
  BY DEF Appended
<1>4. PICK n \in Nat : n = length[e]
  <2>1. length \in [Entry -> 0..MaxSize]
    BY <1>2 DEF Types
  <2> QED
    BY <2>1
<1>5. /\ \A d \in Entry : d # e => blk2[d] = blk[d] /\ num2[d] = num[d]
      /\ \A k \in Nat : k < num[e] => blk2[e][k] = blk[e][k]
      /\ num2[e] = BlocksFor(n + 1)
      /\ handle'[h].curr = LastOf(blk2, e, n + 1)
  BY <1>4 DEF Extended
<1>6. num[e] = BlocksFor(n)
  BY <1>1, <1>2, <1>4 DEF CountsSound
<1>7. num[e] <= num2[e] /\ num2[e] > 0
  <2>1. BlocksFor(n + 1) \in {BlocksFor(n), BlocksFor(n) + 1}
    BY NextUnit
  <2>2. BlocksFor(n + 1) \in Nat /\ BlocksFor(n + 1) # 0 /\ BlocksFor(n) \in Nat
    BY BlocksForIs
  <2> QED
    BY <1>5, <1>6, <2>1, <2>2
<1>8. CurrentSound(blk2, num2)'
  <2> SUFFICES ASSUME NEW g \in Slot
               PROVE  /\ handle'[g].curr # NoBlock
                      /\ /\ FcbOf(g)' # INVAL /\ Appends(handle'[g].mode)
                         /\ ~Busy(g, {"close handle"})'
                         => \/ handle'[g].curr = INVAL
                            \/ \E k \in 0..(num2[fcb'[FcbOf(g)'].id] - 1) :
                                 handle'[g].curr = blk2[fcb'[FcbOf(g)'].id][k]
    BY DEF CurrentSound
  <2>1. CASE g = h
    <3>1. PICK k \in Nat : k = num2[e] - 1
      BY <1>7
    <3>2. handle'[h].curr = blk2[e][k] /\ k \in 0..(num2[e] - 1)
      BY <1>5, <1>7, <3>1 DEF LastOf
    <3>3. blk2[e][k] # NoBlock
      BY NotInval
    <3>4. FcbOf(h) = i /\ fcb'[i].id = e
      BY DEF Appended
    <3> QED
      BY <1>1, <2>1, <3>2, <3>3, <3>4
  <2>2. CASE g # h
    <3>1. PICK j : j = FcbOf(g) /\ j = FcbOf(g)'
      BY <1>1
    <3>2. handle'[g] = handle[g]
      BY <2>2 DEF Appended
    <3>3. Busy(g, {"close handle"}) => Busy(g, {"close handle"})'
      <4>1. \A u \in Thread : Pc(u) = "close handle" => Pc(u)' = Pc(u) /\ at'[u] = at[u]
        BY DEF Appended, OthersStay, Pc
      <4> QED
        BY <4>1 DEF Busy
    <3>4. ASSUME j # INVAL, Appends(handle[g].mode), ~Busy(g, {"close handle"})
          PROVE  \/ handle[g].curr = INVAL
                 \/ \E k \in 0..(num2[fcb'[j].id] - 1) : handle[g].curr = blk2[fcb'[j].id][k]
      <4>1. j \in Slot /\ fcb[j].id \in Entry
        BY <3>1, <3>4, HandleHasFcb
      <4>2. PICK d \in Entry : d = fcb[j].id /\ d = fcb'[j].id
        BY <4>1 DEF Appended
      <4>3. \/ handle[g].curr = INVAL
            \/ \E k \in 0..(num[d] - 1) : handle[g].curr = blk[d][k]
        <5>1. j = FcbOf(g)
          BY <3>1
        <5>2. \/ handle[g].curr = INVAL
              \/ \E k \in 0..(num[fcb[j].id] - 1) : handle[g].curr = blk[fcb[j].id][k]
          BY <1>2, <3>4, <5>1 DEF CurrentSound
        <5>3. d = fcb[j].id
          BY <4>2
        <5> QED
          BY <5>2, <5>3
      <4>4. ASSUME NEW k \in 0..(num[d] - 1) PROVE k \in 0..(num2[d] - 1) /\ blk2[d][k] = blk[d][k]
        BY <1>5, <1>7
      <4> QED
        BY <4>2, <4>3, <4>4
    <3>5. handle[g].curr # NoBlock
      BY <1>2 DEF CurrentSound
    <3> QED
      BY <1>1, <3>1, <3>2, <3>3, <3>4, <3>5
  <2> QED
    BY <2>1, <2>2
<1>9. DirectorySound(blk2, put)'
  <2>1. dir' = dir /\ unsynced' = unsynced /\ unsynced \in SUBSET Entry
    BY <1>2 DEF Appended, Types
  <2>2. \A d \in unsynced' : InUse(d)'
    BY <1>1, <1>2, <2>1 DEF DirectorySound
  <2>3. ASSUME NEW d \in Files', ~Removing(d)'
        PROVE  /\ d \notin unsynced' => /\ dir'[d].size <= put[d]
                                        /\ dir'[d].size > 0 => dir'[d].first = blk2[d][0]
               /\ ~InUse(d)' => dir'[d].size = length'[d] /\ dir'[d].first = FirstOf(blk2, d, length'[d])
    <3>1. d \in Files /\ d \in Entry /\ ~Removing(d)
      BY <1>1, <2>3 DEF Files
    <3>2. /\ d \notin unsynced => /\ dir[d].size <= put[d]
                                  /\ dir[d].size > 0 => dir[d].first = blk[d][0]
          /\ ~InUse(d) => dir[d].size = length[d] /\ dir[d].first = FirstOf(blk, d, length[d])
      BY <1>2, <3>1 DEF DirectorySound
    <3>3. CASE d = e
      <4>1. ASSUME d \notin unsynced, dir[e].size > 0 PROVE blk2[e][0] = blk[e][0]
        <5>1. put[e] <= n
          BY <1>2, <1>4 DEF SizesSound
        <5>2. dir[e].size \in Nat /\ dir[e].size <= put[e]
          BY <1>2, <3>2, <3>3, <4>1, Constants DEF Types
        <5>3. n # 0
          BY <4>1, <5>1, <5>2
        <5>4. num[e] > 0
          BY <1>6, <5>3, BlocksForIs
        <5> QED
          BY <1>5, <5>4
      <4> QED
        BY <1>1, <2>1, <3>2, <3>3, <4>1
    <3>4. CASE d # e
      <4>1. blk2[d] = blk[d] /\ length'[d] = length[d]
        BY <1>3, <1>5, <3>1, <3>4
      <4>2. FirstOf(blk2, d, length'[d]) = FirstOf(blk, d, length[d])
        BY <4>1 DEF FirstOf
      <4> QED
        BY <1>1, <2>1, <3>1, <3>2, <4>1, <4>2
    <3> QED
      BY <3>3, <3>4
  <2> QED
    BY <2>2, <2>3 DEF DirectorySound, FirstOf
<1> QED
  BY <1>8, <1>9

LEMMA IdleWriterActs ==
  ASSUME TablesInv, NEW t \in Thread, Pc(t) = "idle", NEW fd \in Opened(t),
         NEW h \in Slot, HandleOf(fd) = h, Appends(handle[h].mode)
  PROVE  ActiveWriter(h)
<1>1. Types /\ CallsOwnFiles /\ FilesHaveHandles
  BY DEF TablesInv
<1>2. fd \in Slot /\ openFiles[fd].owner = t /\ openFiles[fd].handle = h
  BY DEF Opened, HandleOf
<1>3. FcbOf(h) # INVAL
  BY <1>1, <1>2, Slots DEF FilesHaveHandles, SlotSound
<1>4. ASSUME NEW u \in Thread, Pc(u) \in {"close fcb", "close handle"}, at[u].h = h PROVE FALSE
  <2>1. Closing(u)
    BY <1>4 DEF Closing
  <2>2. PICK d \in Slot : d = at[u].fd
    BY <2>1, <1>1, CallTypes
  <2>3. openFiles[d] = [owner |-> u, handle |-> h]
    BY <2>1, <2>2, <1>1, <1>4 DEF CallsOwnFiles, CallOwnsFile
  <2>4. openFiles[d].owner = u /\ openFiles[d].handle = h
    BY <2>3, FileIs
  <2>5. d = fd
    BY <2>4, <1>1, <1>2, Slots DEF FilesHaveHandles
  <2> QED
    BY <1>2, <1>4, <2>4, <2>5
<1> QED
  BY <1>3, <1>4 DEF ActiveWriter

(* AppendUnit() with the handle of an active writer.                       *)
AppendStep(t, h, i, n, curr) ==
  /\ handle' = [handle EXCEPT ![h] = [handle[h] EXCEPT !.pos = n + 1, !.curr = curr]]
  /\ \E lock \in {fcbLock, [fcbLock EXCEPT ![i] = t]} : AppendUnit(t, h, lock)
  /\ \A j \in Slot : fcb'[j].id = fcb[j].id /\ fcb'[j].size = fcb[j].size
  /\ \A j \in Slot : j # i => fcb'[j].first = fcb[j].first
  /\ dir' = dir /\ unsynced' = unsynced

AppendedOne(t, h, i, e, curr) ==
  /\ Appended(t, h, i, e) /\ handle'[h].curr = curr
  /\ \A j \in Slot \ {i} : fcbLock'[j] = fcbLock[j]

LEMMA WriterAppends ==
  ASSUME TablesInv, NEW t \in Thread, Pc(t) \in {"idle", "link"},
         NEW h \in Slot, NEW i \in Slot, NEW e \in Entry,
         ActiveWriter(h), FcbOf(h) = i, fcb[i].id = e, fcbLock[i] \in {Nobody, t},
         NEW n \in Nat, n = length[e], n = handle[h].pos,
         NEW curr, AppendStep(t, h, i, n, curr)
  PROVE  AppendedOne(t, h, i, e, curr)
<1>1. /\ Types
      /\ handle' = [handle EXCEPT ![h] = [handle[h] EXCEPT !.pos = n + 1, !.curr = curr]]
      /\ \A j \in Slot : fcb'[j].id = fcb[j].id /\ fcb'[j].size = fcb[j].size
      /\ \A j \in Slot : j # i => fcb'[j].first = fcb[j].first
      /\ dir' = dir /\ unsynced' = unsynced
  BY DEF TablesInv, AppendStep
<1>0. PICK lock : lock \in {fcbLock, [fcbLock EXCEPT ![i] = t]} /\ AppendUnit(t, h, lock)
  BY DEF AppendStep
<1>2. /\ length' = [length EXCEPT ![e] = n + 1]
      /\ \/ /\ at' = [at EXCEPT ![t] = [pc |-> "flush", op |-> "write", h |-> h]]
            /\ fcbLock' = lock
         \/ /\ at' = [at EXCEPT ![t] = Idle] /\ (n + 1) % BlockData # 0
            /\ fcbLock' = [lock EXCEPT ![i] = Nobody]
  BY <1>0 DEF AppendUnit, Goto, Return
<1>3. length'[e] = n + 1 /\ \A d \in Entry : d # e => length'[d] = length[d]
  BY <1>1, <1>2 DEF Types
<1>4. /\ handle'[h].fcb = i /\ handle'[h].mode = handle[h].mode /\ handle'[h].pos = n + 1
      /\ handle'[h].curr = curr
      /\ \A g \in Slot : g # h => handle'[g] = handle[g]
  <2> DEFINE H == [fcb : Slot \cup {INVAL}, mode : Mode \cup {"read"}, pos : 0..MaxSize,
                   curr : Block \cup {INVAL, NoBlock}]
  <2> DEFINE p == n + 1
  <2> DEFINE new == [handle[h] EXCEPT !.pos = p, !.curr = curr]
  <2>1. handle \in [Slot -> H] /\ handle[h] \in H /\ handle[h].fcb = i
    BY <1>1 DEF Types, FcbOf
  <2>2. handle' = [handle EXCEPT ![h] = new]
    BY <1>1
  <2> HIDE DEF p
  <2>3. new.fcb = handle[h].fcb /\ new.mode = handle[h].mode /\ new.pos = p /\ new.curr = curr
    BY <2>1
  <2> HIDE DEF H, new
  <2>4. handle'[h] = new /\ \A g \in Slot : g # h => handle'[g] = handle[g]
    BY <2>1, <2>2
  <2> QED
    BY <2>1, <2>3, <2>4 DEF p
<1>5. OthersStay(t) /\ \/ at'[t].pc = "flush" /\ at'[t].op = "write" /\ at'[t].h = h
                       \/ at'[t].pc = "idle" /\ (n + 1) % BlockData # 0
  <2> DEFINE l == [pc |-> "flush", op |-> "write", h |-> h]
  <2>1. l.pc = "flush" /\ l.op = "write" /\ l.h = h /\ Idle.pc = "idle"
    BY DEF Idle
  <2>2. \/ at' = [at EXCEPT ![t] = l]
        \/ at' = [at EXCEPT ![t] = Idle] /\ (n + 1) % BlockData # 0
    BY <1>2
  <2> HIDE DEF l
  <2> QED
    BY <2>1, <2>2, <1>1 DEF Types, OthersStay
<1>6. \A u \in Thread : u # t /\ Writing(u) => at[u].h # h
  BY WritingActs, OtherConstants
<1>7. \A j \in Slot \ {i} : fcbLock'[j] = fcbLock[j]
  <2>1. DOMAIN fcbLock = Slot
    BY <1>1 DEF Types
  <2> QED
    BY <1>0, <1>2, <2>1
<1>8. /\ \/ at'[t].pc = "flush" /\ at'[t].op = "write" /\ at'[t].h = h
         \/ at'[t].pc = "idle" /\ (length[e] + 1) % BlockData # 0
      /\ length'[e] = length[e] + 1 /\ handle'[h].pos = length[e] + 1
  BY <1>3, <1>4, <1>5
<1>9. Appended(t, h, i, e)
  BY <1>1, <1>3, <1>4, <1>5, <1>6, <1>8 DEF Appended
<1> QED
  BY <1>4, <1>7, <1>9 DEF AppendedOne

(* A write takes the lock of its file; it appends its unit now, or waits   *)
(* for a block.                                                            *)
WritesTo(t, h, i, e) ==
  /\ FcbOf(h) = i /\ fcb[i].id = e /\ \A j \in Slot \ {i} : fcbLock'[j] = fcbLock[j]
  /\ \/ /\ Goto(t, [pc |-> "allocate", h |-> h]) /\ handle' = handle /\ length' = length
        /\ handle[h].pos % BlockData = 0
     \/ /\ Appended(t, h, i, e) /\ handle'[h].curr = handle[h].curr
        /\ length[e] % BlockData # 0

LEMMA FsWriteIs ==
  ASSUME TablesInv, NEW blk, WritersSound(blk), NEW t \in Thread, fsWrite(t)
  PROVE  \E h \in Slot, i \in Slot, e \in Entry : WritesTo(t, h, i, e)
<1>1. Pc(t) = "idle" /\ dir' = dir /\ fcb' = fcb /\ unsynced' = unsynced
  BY DEF fsWrite, eeprom
<1>2. PICK fd \in Opened(t), h \in Slot, i \in Slot :
        /\ HandleOf(fd) = h /\ FcbOf(h) = i /\ Appends(handle[h].mode) /\ fcbLock[i] = Nobody
        /\ \/ /\ LockFcb(t, i) /\ Goto(t, [pc |-> "allocate", h |-> h])
              /\ UNCHANGED <<handle, length>> /\ handle[h].pos % BlockData = 0
           \/ /\ handle[h].pos % BlockData # 0
              /\ handle' = [handle EXCEPT ![h].pos = @ + 1]
              /\ AppendUnit(t, h, [fcbLock EXCEPT ![i] = t])
  <2>1. \A fd \in Opened(t) : openFiles[fd].handle \in Slot /\ FcbOf(openFiles[fd].handle) \in Slot
    BY <1>1, IdleOwner
  <2> QED
    BY <2>1 DEF fsWrite, HandleOf
<1>3. ActiveWriter(h)
  BY <1>1, <1>2, IdleWriterActs
<1>4. PICK e \in Entry : e = fcb[i].id
  BY <1>2, <1>3, ActiveWriterIs
<1>5. CASE /\ LockFcb(t, i) /\ Goto(t, [pc |-> "allocate", h |-> h])
           /\ UNCHANGED <<handle, length>> /\ handle[h].pos % BlockData = 0
  <2>1. \A j \in Slot \ {i} : fcbLock'[j] = fcbLock[j]
    BY <1>5 DEF LockFcb
  <2> QED
    BY <1>2, <1>4, <1>5, <2>1 DEF WritesTo
<1>6. CASE /\ handle[h].pos % BlockData # 0
           /\ handle' = [handle EXCEPT ![h].pos = @ + 1]
           /\ AppendUnit(t, h, [fcbLock EXCEPT ![i] = t])
  <2>1. PICK n \in Nat : n = length[e] /\ n = handle[h].pos
    <3>1. length \in [Entry -> 0..MaxSize]
      BY DEF TablesInv, Types
    <3>2. handle[h].pos = length[e]
      BY <1>2, <1>3, <1>4, WriterAt
    <3> QED
      BY <3>1, <3>2
  <2>2. PICK curr : curr = handle[h].curr
    OBVIOUS
  <2>3. handle' = [handle EXCEPT ![h] = [handle[h] EXCEPT !.pos = n + 1, !.curr = curr]]
    <3>1. handle[h] \in [fcb : Slot \cup {INVAL}, mode : Mode \cup {"read"}, pos : 0..MaxSize,
                         curr : Block \cup {INVAL, NoBlock}]
      BY DEF TablesInv, Types
    <3>2. [handle[h] EXCEPT !.pos = n + 1, !.curr = curr] = [handle[h] EXCEPT !.pos = @ + 1]
      BY <2>1, <2>2, <3>1
    <3> QED
      BY <1>6, <3>2
  <2>4. AppendStep(t, h, i, n, curr)
    BY <1>1, <1>6, <2>3 DEF AppendStep
  <2>5. AppendedOne(t, h, i, e, curr)
    BY <1>1, <1>2, <1>3, <1>4, <2>1, <2>4, WriterAppends
  <2>6. length[e] % BlockData # 0
    BY <1>6, <2>1
  <2> QED
    BY <1>2, <1>4, <2>2, <2>5, <2>6 DEF WritesTo, AppendedOne
<1> QED
  BY <1>2, <1>5, <1>6

LEMMA FsWriteFiles ==
  ASSUME TablesInv, NEW t \in Thread, fsWrite(t),
         NEW blk \in [Entry -> [Nat -> Block]], NEW num \in [Entry -> Nat],
         NEW put \in [Entry -> Nat], FilesAre(blk, num, put)
  PROVE  FilesAre(blk, num, put)'
<1>1. /\ Pc(t) = "idle" /\ table' = table /\ dir' = dir /\ next' = next /\ data' = data
      /\ fcb' = fcb /\ unsynced' = unsynced
  BY DEF fsWrite, eeprom, flash
<1>2. PICK h \in Slot, i \in Slot, e \in Entry : WritesTo(t, h, i, e)
  BY FsWriteIs DEF FilesAre
<1>3. Types
  BY DEF TablesInv
<1>4. CASE /\ Goto(t, [pc |-> "allocate", h |-> h]) /\ handle' = handle /\ length' = length
           /\ handle[h].pos % BlockData = 0
  <2> DEFINE loc == [pc |-> "allocate", h |-> h]
  <2>1. at' = [at EXCEPT ![t] = loc] /\ loc.pc = "allocate" /\ loc.h = h
    BY <1>4 DEF Goto
  <2> HIDE DEF loc
  <2>2. at'[t] = loc /\ OthersStay(t)
    BY <1>3, <2>1 DEF Types, OthersStay
  <2>3. UNCHANGED <<table, next, data, fcb, handle, unsynced, length>> /\ dir' = dir
    BY <1>1, <1>4
  <2>4. NamesKept /\ \A d \in Entry : dir'[d].first = dir[d].first /\ dir'[d].size = dir[d].size
    BY <2>3 DEF NamesKept
  <2>5. Pc(t) \in QuietPcs /\ at'[t].pc = "allocate" /\ at'[t].h = h
    BY <1>1, <2>1, <2>2 DEF QuietPcs
  <2>6. handle[h].pos % BlockData = 0
    BY <1>4
  <2>7. QuietStep(t)
    BY <2>2, <2>3, <2>4, <2>5, <2>6 DEF QuietStep
  <2> QED
    BY <2>7, QuietFiles
<1>5. CASE /\ Appended(t, h, i, e) /\ handle'[h].curr = handle[h].curr
           /\ length[e] % BlockData # 0
  <2>1. /\ ActiveWriter(h) /\ OthersStay(t) /\ length'[e] = length[e] + 1
        /\ \A d \in Entry : d # e => length'[d] = length[d]
        /\ at'[t].pc \in {"flush", "idle"}
    BY <1>5 DEF Appended
  <2>2. ActiveWriter(h)
    BY <2>1
  <2>3. i = FcbOf(h) /\ e = fcb[i].id
    BY <1>2 DEF WritesTo
  <2>4. /\ ChainsSound(blk, num) /\ AllocationSound(blk, num) /\ CountsSound(blk, num)
        /\ SizesSound(blk, put) /\ DataSound(blk, num, put) /\ WritersSound(blk)
    BY DEF FilesAre
  <2>5. PICK n \in Nat : n = length[e] /\ n % BlockData # 0
    BY <1>3, <1>5 DEF Types
  <2>6. length'[e] = n + 1 /\ \A d \in Entry : d # e => length'[d] = length[d]
    BY <2>1, <2>5
  <2>7. handle'[h].curr = handle[h].curr
    BY <1>5
  <2>8. Appended(t, h, i, e)
    BY <1>5
  <2>9. BlocksFor(n + 1) = BlocksFor(n) /\ n > 0
    BY <2>5, NextUnit
  <2>10. e \in Files /\ ~Removing(e) /\ Files' = Files /\ \A d : Removing(d)' <=> Removing(d)
    BY <2>8, AppendedFacts
  <2>11. num[e] = BlocksFor(n)
    BY <2>4, <2>5, <2>10 DEF CountsSound
  <2>12. Extended(e, h, i, blk, num, blk, num, put)
    <3>1. handle'[h].curr = LastOf(blk, e, n + 1)
      <4>1. handle[h].curr = LastOf(blk, e, n)
        BY <2>2, <2>3, <2>4, <2>5, WriterAt
      <4>2. LastOf(blk, e, n + 1) = LastOf(blk, e, n)
        BY <2>9 DEF LastOf
      <4> QED
        BY <2>7, <4>1, <4>2
    <3>2. fcb'[i].first = FirstOf(blk, e, n + 1)
      <4>1. fcb[i].first = FirstOf(blk, e, n)
        BY <2>3, <2>4, <2>5, NotInval DEF SizesSound
      <4>2. FirstOf(blk, e, n + 1) = FirstOf(blk, e, n)
        BY <2>9 DEF FirstOf
      <4> QED
        BY <1>1, <4>1, <4>2
    <3>3. num[e] = BlocksFor(length[e] + 1)
      BY <2>5, <2>9, <2>11
    <3> QED
      BY <2>5, <3>1, <3>2, <3>3 DEF Extended
  <2>13. SizesSound(blk, put)' /\ WritersSound(blk)' /\ CurrentSound(blk, num)' /\ DirectorySound(blk, put)'
    BY <2>8, <2>12, AppendedSizes, AppendedWriters, AppendedCurrent
  <2>14. ChainsSound(blk, num)'
    BY <1>1, <2>4 DEF ChainsSound
  <2>15. AllocationSound(blk, num)'
    BY <1>1, <2>4, <2>1, AllocationSame
  <2>16. CountsSound(blk, num)'
    <3>1. \A u \in Thread : Pc(u)' = "free" => Pc(u) = "free" /\ at'[u] = at[u]
      BY <2>1 DEF OthersStay, Pc
    <3>2. \A u \in Thread : Pc(u)' = "free" =>
            /\ num[at'[u].id] = BlocksFor(at'[u].left)
            /\ at'[u].left > 0 => at'[u].b = blk[at'[u].id][0]
      BY <2>4, <3>1 DEF CountsSound
    <3>3. \A d \in Entry : /\ d \notin Files' => num[d] = 0
                           /\ d \in Files' /\ ~Removing(d)' => num[d] = BlocksFor(length'[d])
      BY <2>4, <2>6, <2>9, <2>10, <2>11 DEF CountsSound
    <3> QED
      BY <3>2, <3>3 DEF CountsSound
  <2>17. DataSound(blk, num, put)'
    BY <1>1, <2>4, <2>10 DEF DataSound
  <2> QED
    BY <2>13, <2>14, <2>15, <2>16, <2>17 DEF FilesAre
<1> QED
  BY <1>2, <1>4, <1>5 DEF WritesTo
==============================================================================
