------------------------- MODULE BlockFsBlocksProofs -------------------------
(***************************************************************************)
(* Proofs about module BlockFs, continued: the blocks of the files while   *)
(* one is allocated and a file is removed, what a reset finds, and the     *)
(* promise of module FileSpec.                                             *)
(***************************************************************************)
EXTENDS BlockFsProofs

(* The allocation of a block does not touch the blocks that files have.    *)
AllocatingStep(t, blk, num) ==
  /\ Pc(t) \in {"allocate", "erase"} /\ at'[t].pc \in {"erase", "link"} /\ at'[t].h = at[t].h
  /\ OthersStay(t)
  /\ dir' = dir /\ fcb' = fcb /\ handle' = handle /\ unsynced' = unsynced /\ length' = length
  /\ \A e \in Entry : \A k \in 0..(num[e] - 1) :
       LET b == blk[e][k]
       IN  table'[b] = table[b] /\ next'[b] = next[b] /\ data'[b] = data[b]

LEMMA AllocatingFiles ==
  ASSUME TablesInv, NEW t \in Thread,
         NEW blk \in [Entry -> [Nat -> Block]], NEW num \in [Entry -> Nat],
         NEW put \in [Entry -> Nat], FilesAre(blk, num, put),
         AllocatingStep(t, blk, num), AllocationSound(blk, num)'
  PROVE  FilesAre(blk, num, put)'
<1>1. /\ ChainsSound(blk, num) /\ CountsSound(blk, num)
      /\ SizesSound(blk, put) /\ DataSound(blk, num, put) /\ DirectorySound(blk, put)
      /\ WritersSound(blk) /\ CurrentSound(blk, num)
  BY DEF FilesAre
<1>2. /\ Pc(t) \in {"allocate", "erase"} /\ at'[t].pc \in {"erase", "link"} /\ at'[t].h = at[t].h
      /\ OthersStay(t)
      /\ dir' = dir /\ fcb' = fcb /\ handle' = handle /\ unsynced' = unsynced /\ length' = length
  BY DEF AllocatingStep
<1>3. \A e \in Entry : \A k \in 0..(num[e] - 1) :
        /\ table'[blk[e][k]] = table[blk[e][k]] /\ next'[blk[e][k]] = next[blk[e][k]]
        /\ data'[blk[e][k]] = data[blk[e][k]]
  BY DEF AllocatingStep
<1>4. Files' = Files /\ \A d : InUse(d)' <=> InUse(d)
  BY <1>2 DEF Files, Named, InUse
<1>5. \A d : Removing(d)' <=> Removing(d)
  BY <1>2, RemovingKept
<1>6. ChainsSound(blk, num)'
  <2>1. /\ \A e \in Entry : \A k \in 0..(num[e] - 1) :
             /\ table[blk[e][k]] = USED
             /\ next[blk[e][k]] = IF k + 1 < num[e] THEN blk[e][k + 1] ELSE INVAL
        /\ \A d, e \in Entry : \A j \in 0..(num[d] - 1), k \in 0..(num[e] - 1) :
             blk[d][j] = blk[e][k] => d = e /\ j = k
    BY <1>1 DEF ChainsSound
  <2>2. \A e \in Entry : \A k \in 0..(num[e] - 1) :
             /\ table'[blk[e][k]] = USED
             /\ next'[blk[e][k]] = IF k + 1 < num[e] THEN blk[e][k + 1] ELSE INVAL
    BY <1>3, <2>1
  <2> QED
    BY <2>1, <2>2 DEF ChainsSound
<1>7. CountsSound(blk, num)'
  <2>1. \A u \in Thread : Pc(u)' = "free" => Pc(u) = "free" /\ at'[u] = at[u]
    BY <1>2 DEF OthersStay, Pc
  <2>2. \A u \in Thread : Pc(u)' = "free" =>
          /\ num[at'[u].id] = BlocksFor(at'[u].left)
          /\ at'[u].left > 0 => at'[u].b = blk[at'[u].id][0]
    BY <1>1, <2>1 DEF CountsSound
  <2>3. \A d \in Entry : /\ d \notin Files' => num[d] = 0
                         /\ d \in Files' /\ ~Removing(d)' => num[d] = BlocksFor(length'[d])
    BY <1>1, <1>2, <1>4, <1>5 DEF CountsSound
  <2> QED
    BY <2>2, <2>3 DEF CountsSound
<1>8. RamKept(t)
  <2>1. \A h : ActiveWriter(h)' <=> ActiveWriter(h)
    BY <1>2, ActiveSame
  <2>2. handle[at[t].h].pos % BlockData = 0
    BY <1>1, <1>2 DEF WritersSound
  <2> QED
    BY <1>2, <2>1, <2>2 DEF RamKept
<1>9. SizesSound(blk, put)' /\ WritersSound(blk)' /\ CurrentSound(blk, num)'
  BY <1>1, <1>8, RamSame
<1>10. DataSound(blk, num, put)'
  <2> SUFFICES ASSUME NEW d \in Files', ~Removing(d)', NEW k \in 0..(num[d] - 1), NEW c \in Cell
               PROVE  data'[blk[d][k]][c] =
                        IF BlockData * k + c < put[d] THEN <<d, BlockData * k + c>> ELSE Blank
    BY DEF DataSound
  <2>1. d \in Files /\ d \in Entry /\ ~Removing(d)
    BY <1>4, <1>5 DEF Files
  <2>2. data[blk[d][k]][c] = IF BlockData * k + c < put[d] THEN <<d, BlockData * k + c>> ELSE Blank
    BY <1>1, <2>1 DEF DataSound
  <2>3. data'[blk[d][k]] = data[blk[d][k]]
    BY <1>3, <2>1
  <2> QED
    BY <2>2, <2>3
<1>11. DirectorySound(blk, put)'
  BY <1>1, <1>2, <1>4, <1>5, DirectorySame
<1> QED
  BY <1>6, <1>7, <1>9, <1>10, <1>11 DEF FilesAre

LEMMA OwnedUsed ==
  ASSUME NEW blk \in [Entry -> [Nat -> Block]], NEW num \in [Entry -> Nat], ChainsSound(blk, num)
  PROVE  /\ \A e \in Entry : \A k \in 0..(num[e] - 1) : blk[e][k] \in Block /\ table[blk[e][k]] = USED
         /\ \A b : Owned(blk, num, b) => b \in Block /\ table[b] = USED
<1>1. \A e \in Entry : \A k \in 0..(num[e] - 1) : blk[e][k] \in Block /\ table[blk[e][k]] = USED
  <2>1. \A e \in Entry : \A k \in 0..(num[e] - 1) : k \in Nat
    OBVIOUS
  <2> QED
    BY <2>1 DEF ChainsSound
<1> QED
  BY <1>1 DEF Owned

LEMMA CandidatesFree ==
  ASSUME NEW old, NEW b \in Candidates(old)
  PROVE  b \in Block /\ table[b] = FREE
BY DEF Candidates, FreeIn, FreshSegments, InSegment

LEMMA AllocateMarkFiles ==
  ASSUME TablesInv, NEW t \in Thread, AllocateMark(t),
         NEW blk \in [Entry -> [Nat -> Block]], NEW num \in [Entry -> Nat],
         NEW put \in [Entry -> Nat], FilesAre(blk, num, put)
  PROVE  FilesAre(blk, num, put)'
<1>1. ChainsSound(blk, num) /\ AllocationSound(blk, num) /\ Types
  BY DEF FilesAre, TablesInv
<1>2. PICK b \in Candidates(handle[at[t].h].curr) :
        /\ table' = [table EXCEPT ![b] = USED]
        /\ at' = [at EXCEPT ![t] = [pc |-> "link", h |-> at[t].h, b |-> b]]
  BY DEF AllocateMark, Goto
<1>3. /\ Pc(t) = "allocate" /\ tableLock = Nobody /\ next' = next /\ data' = data
      /\ dir' = dir /\ fcb' = fcb /\ handle' = handle /\ unsynced' = unsynced /\ length' = length
  BY DEF AllocateMark, flash, ram, history
<1>4. b \in Block /\ table[b] = FREE
  BY CandidatesFree
<1>5. at'[t].pc = "link" /\ at'[t].h = at[t].h /\ at'[t].b = b /\ OthersStay(t)
  <2> DEFINE l == [pc |-> "link", h |-> at[t].h, b |-> b]
  <2>1. l.pc = "link" /\ l.h = at[t].h /\ l.b = b /\ at' = [at EXCEPT ![t] = l]
    BY <1>2
  <2> HIDE DEF l
  <2> QED
    BY <2>1, <1>1 DEF Types, OthersStay
<1>6. table'[b] = USED /\ \A c \in Block : c # b => table'[c] = table[c]
  BY <1>1, <1>2, <1>4 DEF Types
<1>7. \A u \in Thread : Pc(u) \notin {"link", "erase"}
  BY <1>3, OneAtATime, OtherConstants
<1>8. \A u \in Thread : /\ Pc(u)' = "link" <=> u = t
                        /\ Pc(u)' # "erase"
  BY <1>5, <1>7 DEF OthersStay, Pc
<1>9. \A c : (Erased(c)' <=> Erased(c)) /\ (Owned(blk, num, c)' <=> Owned(blk, num, c))
  BY <1>3 DEF Erased, Owned
<1>10. ~Owned(blk, num, b)
  BY <1>1, <1>4, OwnedUsed DEF FREE, USED
<1>11. \A c \in Block : table[c] = FREE => Erased(c)
  BY <1>1, <1>7 DEF AllocationSound
<1>12. \A c \in Block : table[c] = USED => Owned(blk, num, c)
  BY <1>1, <1>7 DEF AllocationSound
<1>13. AllocationSound(blk, num)'
  <2>1. \A c \in Block : table'[c] = USED =>
          Owned(blk, num, c)' \/ \E u \in Thread : Pc(u)' = "link" /\ at'[u].b = c
    BY <1>5, <1>6, <1>8, <1>9, <1>12
  <2>2. \A u \in Thread : Pc(u)' = "link" =>
          /\ table'[at'[u].b] = USED /\ ~Owned(blk, num, at'[u].b)
          /\ next'[at'[u].b] = INVAL /\ data'[at'[u].b] = [c \in Cell |-> Blank]
    <3>1. next[b] = INVAL /\ data[b] = [c \in Cell |-> Blank]
      BY <1>4, <1>11 DEF Erased
    <3> QED
      BY <1>3, <1>5, <1>6, <1>8, <1>10, <3>1
  <2>3. \A c \in Block : table'[c] = FREE => Erased(c)'
    BY <1>6, <1>9, <1>11 DEF FREE, USED
  <2> QED
    BY <1>8, <1>9, <2>1, <2>2, <2>3 DEF AllocationSound, Erased
<1>14. AllocatingStep(t, blk, num)
  <2>1. \A e \in Entry : \A k \in 0..(num[e] - 1) : blk[e][k] \in Block /\ blk[e][k] # b
    BY <1>1, <1>4, OwnedUsed DEF FREE, USED
  <2>2. \A e \in Entry : \A k \in 0..(num[e] - 1) : table'[blk[e][k]] = table[blk[e][k]]
    BY <1>6, <2>1
  <2> QED
    BY <1>3, <1>5, <2>2 DEF AllocatingStep
<1> QED
  BY <1>13, <1>14, AllocatingFiles
------------------------------------------------------------------------------
LEMMA AllocateRecordFiles ==
  ASSUME TablesInv, NEW t \in Thread, AllocateRecord(t),
         NEW blk \in [Entry -> [Nat -> Block]], NEW num \in [Entry -> Nat],
         NEW put \in [Entry -> Nat], FilesAre(blk, num, put)
  PROVE  FilesAre(blk, num, put)'
<1>1. ChainsSound(blk, num) /\ AllocationSound(blk, num) /\ Types
  BY DEF FilesAre, TablesInv
<1>2. PICK s \in ErasableSegments :
        /\ table' = [b \in Block |-> IF segNum(b) = s THEN FREE ELSE table[b]]
        /\ at' = [at EXCEPT ![t] = [pc |-> "erase", h |-> at[t].h, s |-> s]]
  BY DEF AllocateRecord, Goto
<1>3. /\ Pc(t) = "allocate" /\ tableLock = Nobody /\ next' = next /\ data' = data
      /\ dir' = dir /\ fcb' = fcb /\ handle' = handle /\ unsynced' = unsynced /\ length' = length
  BY DEF AllocateRecord, flash, ram, history
<1>4. \A b \in Block : segNum(b) = s => table[b] # USED
  BY <1>2 DEF ErasableSegments, InSegment
<1>5. at'[t].pc = "erase" /\ at'[t].h = at[t].h /\ at'[t].s = s /\ OthersStay(t)
  <2> DEFINE l == [pc |-> "erase", h |-> at[t].h, s |-> s]
  <2>1. l.pc = "erase" /\ l.h = at[t].h /\ l.s = s /\ at' = [at EXCEPT ![t] = l]
    BY <1>2
  <2> HIDE DEF l
  <2> QED
    BY <2>1, <1>1 DEF Types, OthersStay
<1>6. \A b \in Block : table'[b] = IF segNum(b) = s THEN FREE ELSE table[b]
  BY <1>2
<1>7. \A u \in Thread : Pc(u) \notin {"link", "erase"}
  BY <1>3, OneAtATime, OtherConstants
<1>8. \A u \in Thread : /\ Pc(u)' = "erase" <=> u = t
                        /\ Pc(u)' # "link"
  BY <1>5, <1>7 DEF OthersStay, Pc
<1>9. \A c : (Erased(c)' <=> Erased(c)) /\ (Owned(blk, num, c)' <=> Owned(blk, num, c))
  BY <1>3 DEF Erased, Owned
<1>10. \A c \in Block : table[c] = FREE => Erased(c)
  BY <1>1, <1>7 DEF AllocationSound
<1>11. \A c \in Block : table[c] = USED => Owned(blk, num, c)
  BY <1>1, <1>7 DEF AllocationSound
<1>12. AllocationSound(blk, num)'
  <2>1. \A c \in Block : table'[c] = USED => Owned(blk, num, c)'
    BY <1>6, <1>9, <1>11 DEF FREE, USED
  <2>2. \A c \in InSegment(s) : table'[c] = FREE
    BY <1>6 DEF InSegment
  <2>3. \A u \in Thread : Pc(u)' = "erase" => \A c \in InSegment(at'[u].s) : table'[c] = FREE
    BY <1>5, <1>8, <2>2
  <2>4. \A c \in Block : table'[c] = FREE =>
          Erased(c)' \/ \E u \in Thread : Pc(u)' = "erase" /\ at'[u].s = segNum(c)
    BY <1>5, <1>6, <1>8, <1>9, <1>10
  <2> QED
    BY <1>8, <2>1, <2>3, <2>4 DEF AllocationSound, InSegment, segNum
<1>13. AllocatingStep(t, blk, num)
  <2>1. \A e \in Entry : \A k \in 0..(num[e] - 1) :
          blk[e][k] \in Block /\ table[blk[e][k]] = USED
    BY <1>1, OwnedUsed
  <2>2. \A e \in Entry : \A k \in 0..(num[e] - 1) : table'[blk[e][k]] = table[blk[e][k]]
    BY <1>4, <1>6, <2>1
  <2> QED
    BY <1>3, <1>5, <2>2 DEF AllocatingStep
<1> QED
  BY <1>12, <1>13, AllocatingFiles

LEMMA AllocateEraseFiles ==
  ASSUME TablesInv, NEW t \in Thread, AllocateErase(t),
         NEW blk \in [Entry -> [Nat -> Block]], NEW num \in [Entry -> Nat],
         NEW put \in [Entry -> Nat], FilesAre(blk, num, put)
  PROVE  FilesAre(blk, num, put)'
<1>1. ChainsSound(blk, num) /\ AllocationSound(blk, num) /\ Types
  BY DEF FilesAre, TablesInv
<1>0. PICK s : s = at[t].s
  OBVIOUS
<1>2. PICK b \in InSegment(s) :
        /\ s = at[t].s /\ table' = [table EXCEPT ![b] = USED]
        /\ at' = [at EXCEPT ![t] = [pc |-> "link", h |-> at[t].h, b |-> b]]
  BY <1>0 DEF AllocateErase, Goto
<1>3. /\ Pc(t) = "erase" /\ dir' = dir /\ fcb' = fcb /\ handle' = handle /\ unsynced' = unsynced
      /\ length' = length
  BY DEF AllocateErase, ram, history
<1>4. /\ \A c \in Block : next'[c] = IF segNum(c) = s THEN INVAL ELSE next[c]
      /\ \A c \in Block : data'[c] = IF segNum(c) = s THEN [x \in Cell |-> Blank] ELSE data[c]
  BY <1>2 DEF AllocateErase
<1>5. b \in Block /\ segNum(b) = s /\ \A c \in Block : segNum(c) = s => table[c] = FREE
  BY <1>1, <1>2, <1>3 DEF AllocationSound, InSegment
<1>6. at'[t].pc = "link" /\ at'[t].h = at[t].h /\ at'[t].b = b /\ OthersStay(t)
  <2> DEFINE l == [pc |-> "link", h |-> at[t].h, b |-> b]
  <2>1. l.pc = "link" /\ l.h = at[t].h /\ l.b = b /\ at' = [at EXCEPT ![t] = l]
    BY <1>2
  <2> HIDE DEF l
  <2> QED
    BY <2>1, <1>1 DEF Types, OthersStay
<1>7. table'[b] = USED /\ \A c \in Block : c # b => table'[c] = table[c]
  BY <1>1, <1>2, <1>5 DEF Types
<1>8. \A u \in Thread : /\ Pc(u) \in {"link", "erase"} <=> u = t
                        /\ Pc(u) # "link"
  <2>1. \A u \in Thread : Pc(u) \in {"link", "erase"} => u = t
    BY <1>3, OneAtATime
  <2> QED
    BY <1>3, <2>1
<1>9. \A u \in Thread : /\ Pc(u)' = "link" <=> u = t
                        /\ Pc(u)' # "erase"
  BY <1>6, <1>8 DEF OthersStay, Pc
<1>10. \A c \in Block : (next'[c] = INVAL /\ data'[c] = [x \in Cell |-> Blank])
                          <=> (segNum(c) = s \/ Erased(c))
  BY <1>4 DEF Erased
<1>11. \A c : Owned(blk, num, c)' <=> Owned(blk, num, c)
  BY DEF Owned
<1>12. \A c \in Block : segNum(c) = s => ~Owned(blk, num, c)
  BY <1>1, <1>5, OwnedUsed DEF FREE, USED
<1>13. \A c \in Block : table[c] = FREE => Erased(c) \/ segNum(c) = s
  BY <1>1, <1>2, <1>8 DEF AllocationSound
<1>14. \A c \in Block : table[c] = USED => Owned(blk, num, c)
  BY <1>1, <1>8 DEF AllocationSound
<1>15. AllocationSound(blk, num)'
  <2>1. \A c \in Block : table'[c] = USED =>
          Owned(blk, num, c) \/ \E u \in Thread : Pc(u)' = "link" /\ at'[u].b = c
    BY <1>6, <1>7, <1>9, <1>14
  <2>2. \A u \in Thread : Pc(u)' = "link" =>
          /\ table'[at'[u].b] = USED /\ ~Owned(blk, num, at'[u].b)
          /\ next'[at'[u].b] = INVAL /\ data'[at'[u].b] = [c \in Cell |-> Blank]
    BY <1>5, <1>6, <1>7, <1>9, <1>10, <1>12
  <2>3. \A c \in Block : table'[c] = FREE =>
          next'[c] = INVAL /\ data'[c] = [x \in Cell |-> Blank]
    BY <1>7, <1>10, <1>13 DEF FREE, USED
  <2> QED
    BY <1>9, <1>11, <2>1, <2>2, <2>3 DEF AllocationSound, Erased
<1>16. AllocatingStep(t, blk, num)
  <2>1. \A e \in Entry : \A k \in 0..(num[e] - 1) :
          blk[e][k] \in Block /\ blk[e][k] # b /\ segNum(blk[e][k]) # s
    BY <1>1, <1>5, OwnedUsed DEF FREE, USED
  <2>2. \A e \in Entry : \A k \in 0..(num[e] - 1) :
          /\ table'[blk[e][k]] = table[blk[e][k]] /\ next'[blk[e][k]] = next[blk[e][k]]
          /\ data'[blk[e][k]] = data[blk[e][k]]
    BY <1>4, <1>7, <2>1
  <2> QED
    BY <1>3, <1>6, <2>2 DEF AllocatingStep
<1> QED
  BY <1>15, <1>16, AllocatingFiles
------------------------------------------------------------------------------
(* The file of entry e gets block b, after the q it has.                   *)
Grown(blk, num, blk2, num2, e, q, b) ==
  /\ num[e] = q /\ num2[e] = q + 1 /\ blk2[e][q] = b
  /\ \A k \in Nat : k < q => blk2[e][k] = blk[e][k]
  /\ \A d \in Entry : d # e => blk2[d] = blk[d] /\ num2[d] = num[d]

(* The last of them, if there is one, leads to b.                          *)
LinkedTo(blk, e, q, b) ==
  \A c \in Block : next'[c] = IF q > 0 /\ c = blk[e][q - 1] THEN b ELSE next[c]

GrownBy(blk, num, blk2, num2, e, q, b) ==
  /\ \A d \in Entry : \A k \in 0..(num2[d] - 1) :
       \/ d = e /\ k = q /\ blk2[d][k] = b
       \/ k \in 0..(num[d] - 1) /\ blk2[d][k] = blk[d][k] /\ ~(d = e /\ k = q)
  /\ \A d \in Entry : \A k \in 0..(num[d] - 1) :
       k \in 0..(num2[d] - 1) /\ blk2[d][k] = blk[d][k]
  /\ \A c : Owned(blk2, num2, c) <=> (Owned(blk, num, c) \/ c = b)

LEMMA GrownBlocks ==
  ASSUME NEW blk \in [Entry -> [Nat -> Block]], NEW num \in [Entry -> Nat],
         NEW blk2 \in [Entry -> [Nat -> Block]], NEW num2 \in [Entry -> Nat],
         NEW e \in Entry, NEW q \in Nat, NEW b \in Block, Grown(blk, num, blk2, num2, e, q, b)
  PROVE  GrownBy(blk, num, blk2, num2, e, q, b)
<1>1. /\ num[e] = q /\ num2[e] = q + 1 /\ blk2[e][q] = b
      /\ \A k \in Nat : k < q => blk2[e][k] = blk[e][k]
      /\ \A d \in Entry : d # e => blk2[d] = blk[d] /\ num2[d] = num[d]
  BY DEF Grown
<1>2. ASSUME NEW d \in Entry, NEW k \in 0..(num2[d] - 1)
      PROVE  \/ d = e /\ k = q /\ blk2[d][k] = b
             \/ k \in 0..(num[d] - 1) /\ blk2[d][k] = blk[d][k] /\ ~(d = e /\ k = q)
  BY <1>1
<1>3. ASSUME NEW d \in Entry, NEW k \in 0..(num[d] - 1)
      PROVE  k \in 0..(num2[d] - 1) /\ blk2[d][k] = blk[d][k]
  BY <1>1
<1>4. q \in 0..(num2[e] - 1)
  BY <1>1
<1>5. ASSUME NEW c PROVE Owned(blk2, num2, c) <=> (Owned(blk, num, c) \/ c = b)
  <2>1. Owned(blk2, num2, c) => Owned(blk, num, c) \/ c = b
    BY <1>2 DEF Owned
  <2>2. Owned(blk, num, c) => Owned(blk2, num2, c)
    BY <1>3 DEF Owned
  <2>3. Owned(blk2, num2, b)
    BY <1>1, <1>4 DEF Owned
  <2> QED
    BY <2>1, <2>2, <2>3
<1> QED
  BY <1>2, <1>3, <1>5 DEF GrownBy

LEMMA GrownChains ==
  ASSUME NEW blk \in [Entry -> [Nat -> Block]], NEW num \in [Entry -> Nat],
         NEW blk2 \in [Entry -> [Nat -> Block]], NEW num2 \in [Entry -> Nat],
         NEW e \in Entry, NEW q \in Nat, NEW b \in Block, Grown(blk, num, blk2, num2, e, q, b),
         ChainsSound(blk, num), LinkedTo(blk, e, q, b),
         table' = table, table[b] = USED, next[b] = INVAL, ~Owned(blk, num, b)
  PROVE  ChainsSound(blk2, num2)'
<1>1. /\ num[e] = q /\ num2[e] = q + 1 /\ blk2[e][q] = b
      /\ \A d \in Entry : d # e => blk2[d] = blk[d] /\ num2[d] = num[d]
  BY DEF Grown
<1>0. GrownBy(blk, num, blk2, num2, e, q, b)
  BY GrownBlocks
<1>2. /\ \A d \in Entry : \A k \in 0..(num2[d] - 1) :
           \/ d = e /\ k = q /\ blk2[d][k] = b
           \/ k \in 0..(num[d] - 1) /\ blk2[d][k] = blk[d][k] /\ ~(d = e /\ k = q)
      /\ \A d \in Entry : \A k \in 0..(num[d] - 1) :
           k \in 0..(num2[d] - 1) /\ blk2[d][k] = blk[d][k]
  BY <1>0 DEF GrownBy
<1>3. /\ \A d \in Entry : \A k \in 0..(num[d] - 1) :
           /\ table[blk[d][k]] = USED
           /\ next[blk[d][k]] = IF k + 1 < num[d] THEN blk[d][k + 1] ELSE INVAL
      /\ \A c, d \in Entry : \A j \in 0..(num[c] - 1), k \in 0..(num[d] - 1) :
           blk[c][j] = blk[d][k] => c = d /\ j = k
  BY DEF ChainsSound
<1>4. \A d \in Entry : \A k \in 0..(num[d] - 1) : blk[d][k] # b
  BY DEF Owned
<1>5. ASSUME NEW d \in Entry, NEW k \in 0..(num2[d] - 1)
      PROVE  /\ table'[blk2[d][k]] = USED
             /\ next'[blk2[d][k]] = IF k + 1 < num2[d] THEN blk2[d][k + 1] ELSE INVAL
  <2>1. CASE d = e /\ k = q
    <3>1. q > 0 => blk[e][q - 1] # b
      BY <1>1, <1>4
    <3>2. next'[b] = INVAL
      BY <3>1 DEF LinkedTo
    <3> QED
      BY <1>1, <2>1, <3>2
  <2>2. CASE k \in 0..(num[d] - 1) /\ blk2[d][k] = blk[d][k]
    <3>1. table'[blk[d][k]] = USED /\ next[blk[d][k]] = IF k + 1 < num[d] THEN blk[d][k + 1] ELSE INVAL
      BY <1>3, <2>2
    <3>2. CASE d = e /\ k = q - 1
      <4>1. next'[blk[d][k]] = b
        BY <3>2, <2>2 DEF LinkedTo
      <4>2. k + 1 = q /\ k + 1 < num2[d]
        BY <1>1, <3>2
      <4> QED
        BY <1>1, <2>2, <3>1, <3>2, <4>1, <4>2
    <3>3. CASE ~(d = e /\ k = q - 1)
      <4>1. q > 0 => blk[d][k] # blk[e][q - 1]
        BY <1>1, <1>3, <2>2, <3>3
      <4>2. blk[d][k] \in Block
        BY <2>2
      <4>3. next'[blk[d][k]] = next[blk[d][k]]
        BY <4>1, <4>2 DEF LinkedTo
      <4>4. k + 1 < num[d] <=> k + 1 < num2[d]
        BY <1>1, <2>2, <3>3
      <4>5. k + 1 < num[d] => blk2[d][k + 1] = blk[d][k + 1]
        BY <1>2, <2>2
      <4> QED
        BY <2>2, <3>1, <4>3, <4>4, <4>5
    <3> QED
      BY <3>2, <3>3
  <2> QED
    BY <1>2, <2>1, <2>2
<1>6. ASSUME NEW c \in Entry, NEW d \in Entry,
             NEW j \in 0..(num2[c] - 1), NEW k \in 0..(num2[d] - 1), blk2[c][j] = blk2[d][k]
      PROVE  c = d /\ j = k
  <2>1. \/ c = e /\ j = q /\ blk2[c][j] = b
        \/ j \in 0..(num[c] - 1) /\ blk2[c][j] = blk[c][j]
    BY <1>2
  <2>2. \/ d = e /\ k = q /\ blk2[d][k] = b
        \/ k \in 0..(num[d] - 1) /\ blk2[d][k] = blk[d][k]
    BY <1>2
  <2> QED
    BY <1>3, <1>4, <1>6, <2>1, <2>2
<1> QED
  BY <1>5, <1>6 DEF ChainsSound

LEMMA GrownFiles ==
  ASSUME TablesInv, NEW t \in Thread, NEW h \in Slot, NEW i \in Slot, NEW e \in Entry,
         Appended(t, h, i, e),
         NEW blk \in [Entry -> [Nat -> Block]], NEW num \in [Entry -> Nat],
         NEW put \in [Entry -> Nat], FilesAre(blk, num, put),
         NEW blk2 \in [Entry -> [Nat -> Block]], NEW num2 \in [Entry -> Nat],
         Extended(e, h, i, blk, num, blk2, num2, put),
         NEW q \in Nat, NEW b \in Block, Grown(blk, num, blk2, num2, e, q, b),
         LinkedTo(blk, e, q, b), table' = table, data' = data,
         put[e] = BlockData * q, Pc(t) = "link", at[t].b = b
  PROVE  FilesAre(blk2, num2, put)'
<1>1. /\ ChainsSound(blk, num) /\ AllocationSound(blk, num) /\ CountsSound(blk, num)
      /\ DataSound(blk, num, put) /\ Types
  BY DEF FilesAre, TablesInv
<1>2. SizesSound(blk2, put)' /\ WritersSound(blk2)' /\ CurrentSound(blk2, num2)' /\ DirectorySound(blk2, put)'
  BY AppendedSizes, AppendedWriters, AppendedCurrent
<1>3. table[b] = USED /\ Erased(b) /\ ~Owned(blk, num, b)
  BY <1>1 DEF AllocationSound
<1>4. next[b] = INVAL /\ data[b] = [c \in Cell |-> Blank]
  BY <1>3 DEF Erased
<1>5. ChainsSound(blk2, num2)'
  BY <1>1, <1>3, <1>4, GrownChains
<1>0. GrownBy(blk, num, blk2, num2, e, q, b)
  BY GrownBlocks
<1>6. /\ \A d \in Entry : \A k \in 0..(num2[d] - 1) :
           \/ d = e /\ k = q /\ blk2[d][k] = b
           \/ k \in 0..(num[d] - 1) /\ blk2[d][k] = blk[d][k]
      /\ \A c : Owned(blk2, num2, c) <=> (Owned(blk, num, c) \/ c = b)
  BY <1>0 DEF GrownBy
<1>7. /\ Files' = Files /\ \A d : Removing(d)' <=> Removing(d)
      /\ e \in Files /\ ~Removing(e)
  BY AppendedFacts
<1>8. OthersStay(t) /\ at'[t].pc \in {"idle", "flush"}
  BY DEF Appended
<1>9. \A u \in Thread : /\ Pc(u) = "link" => u = t
                        /\ Pc(u) # "erase"
  <2>1. \A u \in Thread : Pc(u) \in {"link", "erase"} => u = t
    BY OneAtATime
  <2> QED
    BY <2>1
<1>10. \A u \in Thread : Pc(u)' \notin {"link", "erase"}
  BY <1>8, <1>9 DEF OthersStay, Pc
<1>11. AllocationSound(blk2, num2)'
  <2>1. \A c \in Block : table'[c] = USED => Owned(blk2, num2, c)
    <3>1. \A c \in Block : table[c] = USED =>
            Owned(blk, num, c) \/ \E u \in Thread : Pc(u) = "link" /\ at[u].b = c
      BY <1>1 DEF AllocationSound
    <3> QED
      BY <1>6, <1>9, <3>1
  <2>2. ASSUME NEW c \in Block, table'[c] = FREE PROVE next'[c] = INVAL /\ data'[c] = [x \in Cell |-> Blank]
    <3>1. Erased(c)
      BY <1>1, <1>9, <2>2 DEF AllocationSound
    <3>2. q > 0 => table[blk[e][q - 1]] = USED
      <4>1. \A k \in 0..(num[e] - 1) : table[blk[e][k]] = USED
        BY <1>1, OwnedUsed
      <4>2. num[e] = q
        BY DEF Grown
      <4> QED
        BY <4>1, <4>2
    <3>3. next'[c] = next[c]
      BY <2>2, <3>2 DEF LinkedTo, FREE, USED
    <3> QED
      BY <3>1, <3>3 DEF Erased
  <2>3. \A c : Owned(blk2, num2, c)' <=> Owned(blk2, num2, c)
    BY DEF Owned
  <2> QED
    BY <1>10, <2>1, <2>2, <2>3 DEF AllocationSound, Erased
<1>12. CountsSound(blk2, num2)'
  <2>1. \A d \in Entry : d # e => blk2[d] = blk[d] /\ num2[d] = num[d]
    BY DEF Grown
  <2>2. \A d \in Entry : d # e => length'[d] = length[d]
    BY DEF Appended
  <2>3. num2[e] = BlocksFor(length'[e])
    BY DEF Extended, Appended
  <2>4. \A d \in Entry : /\ d \notin Files' => num2[d] = 0
                         /\ d \in Files' /\ ~Removing(d)' => num2[d] = BlocksFor(length'[d])
    BY <1>1, <1>7, <2>1, <2>2, <2>3 DEF CountsSound
  <2>5. \A u \in Thread : Pc(u)' = "free" => Pc(u) = "free" /\ at'[u] = at[u]
    BY <1>8 DEF OthersStay, Pc
  <2>6. \A u \in Thread : Pc(u) = "free" => at[u].id \in Entry /\ at[u].id # e
    <3>1. \A u \in Thread : Pc(u) = "free" => at[u].id \in Entry
      <4>1. \A u \in Thread : Pc(u) = "free" => at[u] \in FreeLocals
        BY <1>1, CallTypes, LocalsAre DEF Pc
      <4> QED
        BY <4>1 DEF FreeLocals
    <3> QED
      BY <1>7, <3>1 DEF Removing
  <2>7. \A u \in Thread : Pc(u)' = "free" =>
          /\ num2[at'[u].id] = BlocksFor(at'[u].left)
          /\ at'[u].left > 0 => at'[u].b = blk2[at'[u].id][0]
    BY <1>1, <2>1, <2>5, <2>6 DEF CountsSound
  <2> QED
    BY <2>4, <2>7 DEF CountsSound
<1>13. DataSound(blk2, num2, put)'
  <2> SUFFICES ASSUME NEW d \in Files', ~Removing(d)', NEW k \in 0..(num2[d] - 1), NEW c \in Cell
               PROVE  data'[blk2[d][k]][c] =
                        IF BlockData * k + c < put[d] THEN <<d, BlockData * k + c>> ELSE Blank
    BY DEF DataSound
  <2>1. d \in Files /\ d \in Entry /\ ~Removing(d)
    BY <1>7 DEF Files
  <2>2. CASE d = e /\ k = q /\ blk2[d][k] = b
    <3>1. data'[b][c] = Blank
      BY <1>4
    <3>2. ~(BlockData * k + c < put[d])
      <4>1. PICK m \in Nat : m = BlockData * q
        BY Constants
      <4> QED
        BY <2>2, <4>1 DEF Cell
    <3> QED
      BY <2>2, <3>1, <3>2
  <2>3. CASE k \in 0..(num[d] - 1) /\ blk2[d][k] = blk[d][k]
    <3>1. data[blk[d][k]][c] = IF BlockData * k + c < put[d] THEN <<d, BlockData * k + c>> ELSE Blank
      BY <1>1, <2>1, <2>3 DEF DataSound
    <3> QED
      BY <2>3, <3>1
  <2> QED
    BY <1>6, <2>1, <2>2, <2>3
<1> QED
  BY <1>2, <1>5, <1>11, <1>12, <1>13 DEF FilesAre

(* A block that was allocated is linked into its file, with the unit.      *)
LinksTo(t, h, i, e, b) ==
  /\ h = at[t].h /\ b = at[t].b /\ FcbOf(h) = i /\ fcb[i].id = e /\ fcbLock[i] = t
  /\ Appended(t, h, i, e) /\ handle'[h].curr = b /\ length[e] % BlockData = 0
  /\ fcb'[i].first = IF fcb[i].first = INVAL THEN b ELSE fcb[i].first
  /\ \A j \in Slot \ {i} : fcbLock'[j] = fcbLock[j]

LEMMA AllocateLinkIs ==
  ASSUME TablesInv, NEW blk, WritersSound(blk), NEW t \in Thread, AllocateLink(t)
  PROVE  \E h \in Slot, i \in Slot, e \in Entry, b \in Block : LinksTo(t, h, i, e, b)
<1>1. Pc(t) = "link" /\ Writing(t) /\ dir' = dir /\ unsynced' = unsynced
  BY DEF AllocateLink, Writing, eeprom
<1>2. PICK h \in Slot, i \in Slot, e \in Entry :
        h = at[t].h /\ ActiveWriter(h) /\ i = FcbOf(h) /\ e = fcb[i].id /\ fcbLock[i] = t
  BY <1>1, WritingActs
<1>3. PICK b \in Block : b = at[t].b
  <2>1. at[t] \in LinkLocals
    BY <1>1, CallTypes, LocalsAre DEF Pc, TablesInv
  <2> QED
    BY <2>1 DEF LinkLocals
<1>4. PICK n \in Nat : n = length[e] /\ n = handle[h].pos /\ n % BlockData = 0
  <2>1. length \in [Entry -> 0..MaxSize]
    BY DEF TablesInv, Types
  <2>2. handle[h].pos = length[e]
    BY <1>2, WriterAt
  <2>3. handle[h].pos % BlockData = 0
    BY <1>1, <1>2 DEF WritersSound
  <2> QED
    BY <2>1, <2>2, <2>3
<1>5. /\ handle' = [handle EXCEPT ![h].curr = b, ![h].pos = @ + 1]
      /\ fcb' = IF fcb[i].first = INVAL THEN [fcb EXCEPT ![i].first = b] ELSE fcb
      /\ AppendUnit(t, h, fcbLock)
  BY <1>2, <1>3 DEF AllocateLink
<1>6. handle' = [handle EXCEPT ![h] = [handle[h] EXCEPT !.pos = n + 1, !.curr = b]]
  <2> DEFINE H == [fcb : Slot \cup {INVAL}, mode : Mode \cup {"read"}, pos : 0..MaxSize,
                   curr : Block \cup {INVAL, NoBlock}]
  <2>1. handle \in [Slot -> H] /\ handle[h] \in H
    BY DEF TablesInv, Types
  <2>2. PICK p : p = n + 1
    OBVIOUS
  <2>3. [handle[h] EXCEPT !.curr = b, !.pos = p] = [handle[h] EXCEPT !.pos = p, !.curr = b]
    BY <2>1
  <2>4. handle' = [handle EXCEPT ![h] = [handle[h] EXCEPT !.curr = b, !.pos = p]]
    BY <1>4, <1>5, <2>1, <2>2
  <2> QED
    BY <2>2, <2>3, <2>4
<1>7. /\ \A j \in Slot : fcb'[j].id = fcb[j].id /\ fcb'[j].size = fcb[j].size
      /\ \A j \in Slot : j # i => fcb'[j].first = fcb[j].first
      /\ fcb'[i].first = IF fcb[i].first = INVAL THEN b ELSE fcb[i].first
  <2>1. fcb \in [Slot -> FcbRecords]
    BY DEF TablesInv, Types, FcbRecords
  <2> QED
    BY <1>5, <2>1 DEF FcbRecords
<1>8. AppendedOne(t, h, i, e, b)
  <2>1. AppendStep(t, h, i, n, b)
    BY <1>1, <1>5, <1>6, <1>7 DEF AppendStep
  <2> QED
    BY <1>1, <1>2, <1>4, <2>1, WriterAppends
<1>9. length[e] % BlockData = 0
  BY <1>4
<1> QED
  BY <1>2, <1>3, <1>7, <1>8, <1>9 DEF LinksTo, AppendedOne

LEMMA AllocateLinkFiles ==
  ASSUME TablesInv, NEW t \in Thread, AllocateLink(t),
         NEW blk \in [Entry -> [Nat -> Block]], NEW num \in [Entry -> Nat],
         NEW put \in [Entry -> Nat], FilesAre(blk, num, put)
  PROVE  \E blk2 \in [Entry -> [Nat -> Block]], num2 \in [Entry -> Nat] :
           FilesAre(blk2, num2, put)'
<1>1. /\ ChainsSound(blk, num) /\ AllocationSound(blk, num) /\ CountsSound(blk, num)
      /\ SizesSound(blk, put) /\ WritersSound(blk) /\ Types
  BY DEF FilesAre, TablesInv
<1>2. Pc(t) = "link" /\ Writing(t)
  BY DEF AllocateLink, Writing
<1>3. PICK h \in Slot, i \in Slot, e \in Entry, b \in Block : LinksTo(t, h, i, e, b)
  BY <1>1, AllocateLinkIs
<1>4. /\ h = at[t].h /\ b = at[t].b /\ i = FcbOf(h) /\ e = fcb[i].id /\ fcbLock[i] = t
      /\ Appended(t, h, i, e) /\ handle'[h].curr = b /\ length[e] % BlockData = 0
      /\ fcb'[i].first = IF fcb[i].first = INVAL THEN b ELSE fcb[i].first
  BY <1>3 DEF LinksTo
<1>5. ActiveWriter(h)
  BY <1>4 DEF Appended
<1>6. table[b] = USED /\ next[b] = INVAL /\ ~Owned(blk, num, b)
  BY <1>1, <1>2, <1>4 DEF AllocationSound, Erased
<1>7. PICK n \in Nat : n = length[e] /\ n = handle[h].pos /\ n % BlockData = 0
  <2>1. handle[h].pos = length[e]
    BY <1>1, <1>4, <1>5, WriterAt
  <2> QED
    BY <1>1, <1>4, <2>1 DEF Types
<1>8. e \in Files /\ ~Removing(e)
  BY <1>4, FcbIsFile, NotInval
<1>9. PICK q \in Nat : q = num[e] /\ q = BlocksFor(n) /\ BlocksFor(n + 1) = q + 1 /\ BlockData * q = n
  <2>1. num[e] = BlocksFor(n)
    BY <1>1, <1>7, <1>8 DEF CountsSound
  <2> QED
    BY <1>7, <2>1, NextUnit
<1>10. /\ n = 0 <=> q = 0
       /\ handle[h].curr = (IF q = 0 THEN INVAL ELSE blk[e][q - 1])
       /\ fcb[i].first = (IF q = 0 THEN INVAL ELSE blk[e][0])
  <2>1. n = 0 <=> q = 0
    BY <1>9, BlocksForIs
  <2>2. handle[h].curr = LastOf(blk, e, n)
    BY <1>1, <1>4, <1>5, <1>7, WriterAt
  <2>3. fcb[i].first = FirstOf(blk, e, n)
    BY <1>1, <1>4, <1>7, NotInval DEF SizesSound
  <2> QED
    BY <1>9, <2>1, <2>2, <2>3 DEF LastOf, FirstOf
<1>11. put[e] = n
  <2>1. fcb[i].size = put[e]
    BY <1>1, <1>4, NotInval DEF SizesSound
  <2>2. \A u \in Thread : Pc(u) \in {"flush", "program"} => at[u].h # h
    <3>1. \A u \in Thread : Pc(u) \in {"flush", "program"} => u # t /\ Writing(u)
      BY <1>2 DEF Writing
    <3> QED
      BY <1>4, <3>1, WritingActs
  <2>3. fcb[i].size = handle[h].pos
    BY <1>1, <1>4, <1>5, <1>7, <2>2, WriterAt
  <2> QED
    BY <1>7, <2>1, <2>3
<1>12. /\ table' = table /\ data' = data
       /\ next' = IF handle[h].curr \in Block
                  THEN [next EXCEPT ![handle[h].curr] = IF @ = INVAL THEN b ELSE NoBlock] ELSE next
  BY <1>4 DEF AllocateLink, eeprom
<1>13. fcb'[i].first = IF q = 0 THEN b ELSE blk[e][0]
  <2>1. q # 0 => blk[e][0] # INVAL
    BY NotInval
  <2> QED
    BY <1>4, <1>10, <2>1
<1>14. PICK new \in [Nat -> Block] : new = [blk[e] EXCEPT ![q] = b]
  OBVIOUS
<1>15. new[q] = b /\ \A k \in Nat : k # q => new[k] = blk[e][k]
  BY <1>14
<1>16. PICK blk2 \in [Entry -> [Nat -> Block]] : blk2 = [blk EXCEPT ![e] = new]
  OBVIOUS
<1>17. PICK num2 \in [Entry -> Nat] : num2[e] = q + 1 /\ \A d \in Entry : d # e => num2[d] = num[d]
  <2>1. PICK m \in Nat : m = q + 1
    OBVIOUS
  <2>2. PICK num3 \in [Entry -> Nat] : num3 = [num EXCEPT ![e] = m]
    OBVIOUS
  <2>3. num3[e] = m /\ \A d \in Entry : d # e => num3[d] = num[d]
    BY <2>2
  <2> QED
    BY <2>1, <2>3
<1>18. Grown(blk, num, blk2, num2, e, q, b)
  BY <1>9, <1>15, <1>16, <1>17 DEF Grown
<1>19. LinkedTo(blk, e, q, b)
  <2>1. CASE q = 0
    <3>1. next' = next
      BY <1>10, <1>12, <2>1, NotInval
    <3> QED
      BY <2>1, <3>1 DEF LinkedTo
  <2>2. CASE q # 0
    <3>1. PICK k \in Nat : k = q - 1 /\ k \in 0..(num[e] - 1) /\ ~(k + 1 < num[e])
      BY <1>9, <2>2
    <3>2. blk[e][k] \in Block /\ next[blk[e][k]] = INVAL
      <4>1. \A x \in 0..(num[e] - 1) :
              next[blk[e][x]] = IF x + 1 < num[e] THEN blk[e][x + 1] ELSE INVAL
        BY <1>1 DEF ChainsSound
      <4>2. next[blk[e][k]] = INVAL
        BY <3>1, <4>1
      <4> QED
        BY <4>2
    <3>3. next' = [next EXCEPT ![blk[e][k]] = b]
      BY <1>10, <1>12, <2>2, <3>1, <3>2
    <3>4. next \in [Block -> Block \cup {INVAL, NoBlock}]
      BY <1>1 DEF Types
    <3> QED
      BY <2>2, <3>1, <3>2, <3>3, <3>4 DEF LinkedTo
  <2> QED
    BY <2>1, <2>2
<1>20. Extended(e, h, i, blk, num, blk2, num2, put)
  <2>1. LastOf(blk2, e, n + 1) = b
    BY <1>9, <1>15, <1>16 DEF LastOf
  <2>2. FirstOf(blk2, e, n + 1) = IF q = 0 THEN b ELSE blk[e][0]
    BY <1>15, <1>16 DEF FirstOf
  <2>3. \A k \in Nat : k < num[e] => blk2[e][k] = blk[e][k]
    BY <1>9, <1>15, <1>16
  <2>4. num2[e] = BlocksFor(length[e] + 1)
    BY <1>7, <1>9, <1>17
  <2> QED
    BY <1>4, <1>7, <1>11, <1>13, <1>16, <1>17, <2>1, <2>2, <2>3, <2>4 DEF Extended
<1>21. put[e] = BlockData * q /\ at[t].b = b /\ table' = table /\ data' = data
  BY <1>4, <1>9, <1>11, <1>12
<1>22. FilesAre(blk2, num2, put)'
  BY <1>2, <1>4, <1>18, <1>19, <1>20, <1>21, GrownFiles
<1> QED
  BY <1>22
------------------------------------------------------------------------------
(* The buffer goes to the flash: the file of entry e has all its units     *)
(* there.                                                                  *)
Programmed(t, h, i, e, n) ==
  /\ ActiveWriter(h) /\ FcbOf(h) = i /\ fcb[i].id = e /\ length[e] = n
  /\ Pc(t) = "program" /\ at'[t].pc = "flush" /\ at'[t].op = at[t].op /\ at'[t].h = at[t].h
  /\ OthersStay(t)
  /\ fcb'[i].id = e /\ fcb'[i].first = fcb[i].first /\ fcb'[i].size = n
  /\ \A j \in Slot : j # i => fcb'[j] = fcb[j]
  /\ UNCHANGED <<table, dir, next, handle, unsynced, length>>

Written(blk, num, put, e, n) ==
  \A d \in Entry : \A k \in 0..(num[d] - 1), c \in Cell :
    data'[blk[d][k]][c] = IF d = e /\ put[e] <= BlockData * k + c /\ BlockData * k + c < n
                          THEN <<e, BlockData * k + c>> ELSE data[blk[d][k]][c]

AllPut(put, put2, e, n) == put2[e] = n /\ \A d \in Entry : d # e => put2[d] = put[d]

RestUnwritten(blk, num) == \A c \in Block : ~Owned(blk, num, c) => data'[c] = data[c]

LEMMA ProgrammedFiles ==
  ASSUME TablesInv, NEW t \in Thread, NEW h \in Slot, NEW i \in Slot, NEW e \in Entry, NEW n \in Nat,
         Programmed(t, h, i, e, n),
         NEW blk \in [Entry -> [Nat -> Block]], NEW num \in [Entry -> Nat],
         NEW put \in [Entry -> Nat], FilesAre(blk, num, put), NEW put2 \in [Entry -> Nat],
         AllPut(put, put2, e, n), Written(blk, num, put, e, n), RestUnwritten(blk, num)
  PROVE  FilesAre(blk, num, put2)'
<1> SUFFICES ASSUME put2[e] = n, \A d \in Entry : d # e => put2[d] = put[d],
                    \A c \in Block : ~Owned(blk, num, c) => data'[c] = data[c]
             PROVE  FilesAre(blk, num, put2)'
  BY DEF AllPut, RestUnwritten
<1>1. /\ ChainsSound(blk, num) /\ AllocationSound(blk, num) /\ CountsSound(blk, num)
      /\ SizesSound(blk, put) /\ DataSound(blk, num, put) /\ DirectorySound(blk, put)
      /\ WritersSound(blk) /\ CurrentSound(blk, num) /\ Types
  BY DEF FilesAre, TablesInv
<1>2. /\ ActiveWriter(h) /\ FcbOf(h) = i /\ fcb[i].id = e /\ length[e] = n
      /\ fcb'[i].id = e /\ fcb'[i].first = fcb[i].first /\ fcb'[i].size = n
      /\ \A j \in Slot : j # i => fcb'[j] = fcb[j]
  BY DEF Programmed
<1>3. /\ Pc(t) = "program" /\ at'[t].pc = "flush" /\ at'[t].op = at[t].op /\ at'[t].h = at[t].h
      /\ OthersStay(t)
  BY DEF Programmed
<1>4. /\ table' = table /\ dir' = dir /\ next' = next /\ handle' = handle
      /\ unsynced' = unsynced /\ length' = length
  BY DEF Programmed
<1>5. Files' = Files
  BY <1>4 DEF Files, Named
<1>6. \A d : Removing(d)' <=> Removing(d)
  BY <1>3, RemovingKept
<1>7. \A d : InUse(d)' <=> InUse(d)
  BY <1>2 DEF InUse
<1>8. \A g : ActiveWriter(g)' <=> ActiveWriter(g)
  BY <1>3, <1>4, ActiveSame
<1>9. \A g : FcbOf(g)' = FcbOf(g)
  BY <1>4 DEF FcbOf
<1>10. \A j \in Slot : fcb[j].id = e => j = i
  BY <1>2, NotInval DEF TablesInv, OneFcbEach, FcbsDiffer
<1>11. ChainsSound(blk, num)'
  BY <1>1, <1>4 DEF ChainsSound
<1>12. AllocationSound(blk, num)'
  <2>1. \A c \in Block : ~Owned(blk, num, c) => (Erased(c)' <=> Erased(c))
    BY <1>4 DEF Erased
  <2>2. \A u \in Thread : /\ (Pc(u)' = "link" <=> Pc(u) = "link")
                          /\ (Pc(u)' = "erase" <=> Pc(u) = "erase")
                          /\ (Pc(u) \in {"link", "erase"} => at'[u] = at[u])
    BY <1>3 DEF OthersStay, Pc
  <2>3. \A c : Owned(blk, num, c)' <=> Owned(blk, num, c)
    BY DEF Owned
  <2>4. \A u \in Thread : Pc(u) = "link" => at[u].b \in Block
    <3>1. \A u \in Thread : Pc(u) = "link" => at[u] \in LinkLocals
      BY <1>1, CallTypes, LocalsAre DEF Pc
    <3> QED
      BY <3>1 DEF LinkLocals
  <2>5. \A c \in Block : table[c] = FREE => ~Owned(blk, num, c)
    BY <1>1, OwnedUsed DEF FREE, USED
  <2>6. \A c \in Block : table'[c] = USED =>
          Owned(blk, num, c) \/ \E u \in Thread : Pc(u)' = "link" /\ at'[u].b = c
    BY <1>1, <1>4, <2>2 DEF AllocationSound
  <2>7. \A u \in Thread : Pc(u) = "link" =>
          /\ table[at[u].b] = USED /\ Erased(at[u].b) /\ ~Owned(blk, num, at[u].b)
    BY <1>1 DEF AllocationSound
  <2>8. \A u \in Thread : Pc(u)' = "link" =>
          /\ table'[at'[u].b] = USED /\ ~Owned(blk, num, at'[u].b)
          /\ next'[at'[u].b] = INVAL /\ data'[at'[u].b] = [c \in Cell |-> Blank]
    BY <1>4, <2>2, <2>4, <2>7 DEF Erased
  <2>9. \A u \in Thread : Pc(u)' = "erase" => \A c \in InSegment(at'[u].s) : table'[c] = FREE
    BY <1>1, <1>4, <2>2 DEF AllocationSound
  <2>10. \A c \in Block : table'[c] = FREE =>
           Erased(c)' \/ \E u \in Thread : Pc(u)' = "erase" /\ at'[u].s = segNum(c)
    <3>1. \A c \in Block : table[c] = FREE =>
            Erased(c) \/ \E u \in Thread : Pc(u) = "erase" /\ at[u].s = segNum(c)
      BY <1>1 DEF AllocationSound
    <3> QED
      BY <1>4, <2>1, <2>2, <2>5, <3>1
  <2> QED
    BY <2>3, <2>6, <2>8, <2>9, <2>10 DEF AllocationSound, Erased, InSegment, segNum
<1>13. CountsSound(blk, num)'
  <2>1. \A u \in Thread : Pc(u)' = "free" => Pc(u) = "free" /\ at'[u] = at[u]
    BY <1>3 DEF OthersStay, Pc
  <2>2. \A u \in Thread : Pc(u)' = "free" =>
          /\ num[at'[u].id] = BlocksFor(at'[u].left)
          /\ at'[u].left > 0 => at'[u].b = blk[at'[u].id][0]
    BY <1>1, <2>1 DEF CountsSound
  <2>3. \A d \in Entry : /\ d \notin Files' => num[d] = 0
                         /\ d \in Files' /\ ~Removing(d)' => num[d] = BlocksFor(length'[d])
    BY <1>1, <1>4, <1>5, <1>6 DEF CountsSound
  <2> QED
    BY <2>2, <2>3 DEF CountsSound
<1>14. put[e] <= n
  BY <1>1, <1>2 DEF SizesSound
<1>15. DataSound(blk, num, put2)'
  <2> SUFFICES ASSUME NEW d \in Files', ~Removing(d)', NEW k \in 0..(num[d] - 1), NEW c \in Cell
               PROVE  data'[blk[d][k]][c] =
                        IF BlockData * k + c < put2[d] THEN <<d, BlockData * k + c>> ELSE Blank
    BY DEF DataSound
  <2>1. d \in Files /\ d \in Entry /\ ~Removing(d)
    BY <1>5, <1>6 DEF Files
  <2>2. PICK u \in Nat : u = BlockData * k + c
    <3>1. BlockData * k \in Nat /\ c \in Nat
      BY Constants DEF Cell
    <3> QED
      BY <3>1
  <2>3. data[blk[d][k]][c] = IF u < put[d] THEN <<d, u>> ELSE Blank
    BY <1>1, <2>1, <2>2 DEF DataSound
  <2>4. data'[blk[d][k]][c] = IF d = e /\ put[e] <= u /\ u < n THEN <<e, u>> ELSE data[blk[d][k]][c]
    BY <2>1, <2>2 DEF Written
  <2> QED
    BY <1>14, <2>1, <2>2, <2>3, <2>4
<1>16. SizesSound(blk, put2)'
  <2>1. ASSUME NEW d \in Entry
        PROVE  /\ put2[d] <= length'[d] /\ BlockData * (BlocksFor(length'[d]) - 1) <= put2[d]
               /\ ~InUse(d)' => put2[d] = length'[d]
    <3>1. CASE d = e
      BY <1>2, <1>4, <3>1, BlocksBelow
    <3>2. CASE d # e
      BY <1>1, <1>4, <1>7, <3>2 DEF SizesSound
    <3> QED
      BY <3>1, <3>2
  <2>2. ASSUME NEW j \in Slot, fcb'[j].id # INVAL
        PROVE  /\ fcb'[j].size = put2[fcb'[j].id]
               /\ fcb'[j].first = FirstOf(blk, fcb'[j].id, length'[fcb'[j].id])
               /\ put2[fcb'[j].id] # length'[fcb'[j].id] =>
                    \E g \in Slot : ActiveWriter(g)' /\ FcbOf(g)' = j
    <3>1. PICK d \in Entry : d = fcb[j].id /\ d = fcb'[j].id
      <4>1. fcb'[j].id = fcb[j].id
        BY <1>2
      <4>2. fcb[j].id \in Entry
        BY <1>1, <2>2, <4>1 DEF Types
      <4> QED
        BY <4>1, <4>2
    <3>2. /\ fcb[j].size = put[d] /\ fcb[j].first = FirstOf(blk, d, length[d])
          /\ put[d] # length[d] => \E g \in Slot : ActiveWriter(g) /\ FcbOf(g) = j
      BY <1>1, <3>1, NotInval DEF SizesSound
    <3>3. CASE j = i
      BY <1>2, <1>4, <3>1, <3>2, <3>3
    <3>4. CASE j # i
      <4>1. d # e /\ fcb'[j] = fcb[j]
        BY <1>2, <1>10, <3>1, <3>4
      <4> QED
        BY <1>4, <1>8, <1>9, <3>1, <3>2, <4>1
    <3> QED
      BY <3>3, <3>4
  <2> QED
    BY <2>1, <2>2 DEF SizesSound, FirstOf
<1>17. DirectorySound(blk, put2)'
  <2>1. unsynced \in SUBSET Entry
    BY <1>1 DEF Types
  <2>2. \A d \in unsynced' : InUse(d)'
    BY <1>1, <1>4, <1>7 DEF DirectorySound
  <2>3. ASSUME NEW d \in Files', ~Removing(d)'
        PROVE  /\ d \notin unsynced' => /\ dir'[d].size <= put2[d]
                                        /\ dir'[d].size > 0 => dir'[d].first = blk[d][0]
               /\ ~InUse(d)' => dir'[d].size = length'[d] /\ dir'[d].first = FirstOf(blk, d, length'[d])
    <3>1. d \in Files /\ d \in Entry /\ ~Removing(d)
      BY <1>5, <1>6, <2>3 DEF Files
    <3>2. /\ d \notin unsynced => /\ dir[d].size <= put[d]
                                  /\ dir[d].size > 0 => dir[d].first = blk[d][0]
          /\ ~InUse(d) => dir[d].size = length[d] /\ dir[d].first = FirstOf(blk, d, length[d])
      BY <1>1, <3>1 DEF DirectorySound
    <3>3. put[d] <= put2[d]
      BY <1>14, <3>1
    <3>4. dir[d].size \in Nat
      BY <1>1, <3>1, Constants DEF Types
    <3> QED
      BY <1>4, <1>7, <3>1, <3>2, <3>3, <3>4
  <2> QED
    BY <2>2, <2>3 DEF DirectorySound, FirstOf
<1>18. WritersSound(blk)'
  <2>1. ASSUME NEW u \in Thread, Pc(u)' = "alloc handle", Appends(at'[u].mode)
        PROVE  fcb'[at'[u].i].size = length'[fcb'[at'[u].i].id]
    <3>1. u # t
      BY <1>3, <2>1 DEF Pc
    <3>2. at'[u] = at[u] /\ Pc(u) = "alloc handle" /\ Appends(at[u].mode)
      BY <1>3, <2>1, <3>1 DEF OthersStay, Pc
    <3>3. PICK j \in Slot : j = at[u].i
      BY <3>2, OpeningHas
    <3>4. j # i
      BY <1>2, <3>2, <3>3, OpeningWriterAlone
    <3>5. fcb'[j] = fcb[j]
      BY <1>2, <3>4
    <3>6. fcb[j].size = length[fcb[j].id]
      BY <1>1, <3>2, <3>3, OpenersAt
    <3> QED
      BY <1>4, <3>2, <3>3, <3>5, <3>6
  <2>2. ASSUME NEW g \in Slot, ActiveWriter(g)'
        PROVE  /\ handle'[g].pos = length'[fcb'[FcbOf(g)'].id]
               /\ handle'[g].curr = LastOf(blk, fcb'[FcbOf(g)'].id, length'[fcb'[FcbOf(g)'].id])
               /\ handle'[g].pos % BlockData = 0 =>
                    \/ fcb'[FcbOf(g)'].size = handle'[g].pos
                    \/ \E u \in Thread : /\ Pc(u)' \in {"flush", "program"} /\ at'[u].op = "write"
                                         /\ at'[u].h = g
    <3>1. ActiveWriter(g)
      BY <1>8, <2>2
    <3>2. PICK j \in Slot : j = FcbOf(g) /\ j = FcbOf(g)'
      BY <1>9, <3>1, ActiveWriterIs
    <3>3. /\ handle[g].pos = length[fcb[j].id]
          /\ handle[g].curr = LastOf(blk, fcb[j].id, length[fcb[j].id])
          /\ handle[g].pos % BlockData = 0 =>
                \/ fcb[j].size = handle[g].pos
                \/ \E u \in Thread : /\ Pc(u) \in {"flush", "program"} /\ at[u].op = "write"
                                     /\ at[u].h = g
      <4>1. j = FcbOf(g)
        BY <3>2
      <4> QED
        BY <1>1, <3>1, <4>1, WriterAt
    <3>4. CASE j = i
      BY <1>2, <1>4, <3>2, <3>3, <3>4
    <3>5. CASE j # i
      <4>1. fcb'[j] = fcb[j]
        BY <1>2, <3>5
      <4>2. \A u \in Thread : Pc(u) \in {"flush", "program"} =>
              /\ Pc(u)' \in {"flush", "program"} /\ at'[u].op = at[u].op /\ at'[u].h = at[u].h
        BY <1>3 DEF OthersStay, Pc
      <4> QED
        BY <1>4, <3>2, <3>3, <4>1, <4>2
    <3> QED
      BY <3>4, <3>5
  <2>3. \A u \in Thread : Pc(u)' \in {"allocate", "erase", "link"} =>
          handle'[at'[u].h].pos % BlockData = 0
    <3>1. \A u \in Thread : Pc(u) \in {"allocate", "erase", "link"} =>
            handle[at[u].h].pos % BlockData = 0
      BY <1>1 DEF WritersSound
    <3>2. \A u \in Thread : Pc(u)' \in {"allocate", "erase", "link"} =>
            Pc(u)' = Pc(u) /\ at'[u] = at[u]
      BY <1>3 DEF OthersStay, Pc
    <3> QED
      BY <1>4, <3>1, <3>2
  <2> QED
    BY <2>1, <2>2, <2>3 DEF WritersSound, LastOf
<1>19. CurrentSound(blk, num)'
  <2> SUFFICES ASSUME NEW g \in Slot
               PROVE  /\ handle'[g].curr # NoBlock
                      /\ /\ FcbOf(g)' # INVAL /\ Appends(handle'[g].mode)
                         /\ ~Busy(g, {"close handle"})'
                         => \/ handle'[g].curr = INVAL
                            \/ \E k \in 0..(num[fcb'[FcbOf(g)'].id] - 1) :
                                 handle'[g].curr = blk[fcb'[FcbOf(g)'].id][k]
    BY DEF CurrentSound
  <2>1. Busy(g, {"close handle"}) => Busy(g, {"close handle"})'
    <3>1. \A u \in Thread : Pc(u) = "close handle" => Pc(u)' = Pc(u) /\ at'[u] = at[u]
      BY <1>3 DEF OthersStay, Pc
    <3> QED
      BY <3>1 DEF Busy
  <2>2. PICK j : j = FcbOf(g) /\ j = FcbOf(g)'
    BY <1>9
  <2>3. j # INVAL /\ ~Busy(g, {"close handle"}) => fcb'[j].id = fcb[j].id
    <3>1. j # INVAL /\ ~Busy(g, {"close handle"}) => j \in Slot
      BY <2>2, HandleHasFcb
    <3> QED
      BY <1>2, <3>1
  <2>4. /\ handle[g].curr # NoBlock
        /\ j # INVAL /\ Appends(handle[g].mode) /\ ~Busy(g, {"close handle"}) =>
             \/ handle[g].curr = INVAL
             \/ \E k \in 0..(num[fcb[j].id] - 1) : handle[g].curr = blk[fcb[j].id][k]
    BY <1>1, <2>2 DEF CurrentSound
  <2> QED
    BY <1>4, <2>1, <2>2, <2>3, <2>4
<1> QED
  BY <1>11, <1>12, <1>13, <1>15, <1>16, <1>17, <1>18, <1>19 DEF FilesAre

(* Where a flush begins, when the units it has fit in one block.           *)
LEMMA StartOfBlock ==
  ASSUME NEW m \in Nat, NEW q \in Nat, BlockData * q <= m, m < BlockData * q + BlockData
  PROVE  m - (m % BlockData) = BlockData * q
<1>1. PICK p \in Nat, r \in 0..(BlockData - 1) : r = m % BlockData /\ m = BlockData * p + r
  BY QuotientIs
<1>2. PICK d \in Nat : d = BlockData /\ d > 0
  BY Constants
<1>3. d * p < d * (q + 1) /\ d * q < d * (p + 1)
  BY <1>1, <1>2
<1>4. p < q + 1 /\ q < p + 1
  BY <1>2, <1>3
<1>5. p = q
  BY <1>4
<1>6. PICK x \in Nat : x = BlockData * p
  BY <1>2
<1> QED
  BY <1>1, <1>2, <1>5, <1>6

LEMMA ProgramFiles ==
  ASSUME TablesInv, NEW t \in Thread, Program(t),
         NEW blk \in [Entry -> [Nat -> Block]], NEW num \in [Entry -> Nat],
         NEW put \in [Entry -> Nat], FilesAre(blk, num, put)
  PROVE  \E put2 \in [Entry -> Nat] : FilesAre(blk, num, put2)'
<1>1. /\ ChainsSound(blk, num) /\ CountsSound(blk, num) /\ DataSound(blk, num, put)
      /\ SizesSound(blk, put) /\ WritersSound(blk) /\ Types
  BY DEF FilesAre, TablesInv
<1>2. Pc(t) = "program" /\ Writing(t) /\ at[t] \in Locals
  BY <1>1 DEF Program, Writing, Types
<1>3. PICK h \in Slot : h = at[t].h /\ ActiveWriter(h)
  BY <1>2, WritingActs
<1>4. PICK i \in Slot, e \in Entry : i = FcbOf(h) /\ e = fcb[i].id
  BY <1>2, <1>3, WritingActs
<1>5. PICK n \in Nat : n = length[e] /\ n = handle[h].pos
  <2>1. length \in [Entry -> 0..MaxSize]
    BY <1>1 DEF Types
  <2>2. handle[h].pos = length[e]
    BY <1>1, <1>3, <1>4, WriterAt
  <2>3. length[e] \in Nat
    BY <2>1
  <2> QED
    BY <2>2, <2>3
<1>6. PICK m \in Nat : m = fcb[i].size /\ m = put[e] /\ m <= n /\ BlockData * (BlocksFor(n) - 1) <= m
  <2>1. fcb[i].size = put[e]
    BY <1>1, <1>4, NotInval DEF SizesSound
  <2>2. put[e] <= length[e] /\ BlockData * (BlocksFor(length[e]) - 1) <= put[e]
    BY <1>1 DEF SizesSound
  <2> QED
    BY <1>5, <2>1, <2>2
<1>7. e \in Files /\ ~Removing(e)
  BY <1>4, FcbIsFile, NotInval
<1>8. num[e] = BlocksFor(n)
  BY <1>1, <1>5, <1>7 DEF CountsSound
<1>9. handle[h].curr = LastOf(blk, e, n)
  BY <1>1, <1>3, <1>4, <1>5, WriterAt
<1> DEFINE start == m - (m % BlockData)
<1>10. /\ data' = [data EXCEPT ![handle[h].curr] =
                     [c \in Cell |-> IF start + c \notin m..(n - 1) THEN @[c]
                                     ELSE IF @[c] = Blank THEN <<e, start + c>> ELSE Junk]]
       /\ fcb' = [fcb EXCEPT ![i].size = n]
       /\ at' = [at EXCEPT ![t] = [at[t] EXCEPT !.pc = "flush"]]
  BY <1>3, <1>4, <1>5, <1>6 DEF Program, Goto
<1>11. /\ table' = table /\ dir' = dir /\ next' = next /\ handle' = handle
       /\ unsynced' = unsynced /\ length' = length
  BY DEF Program, eeprom, history
<1>12. /\ fcb'[i].id = e /\ fcb'[i].first = fcb[i].first /\ fcb'[i].size = n
       /\ \A j \in Slot : j # i => fcb'[j] = fcb[j]
  <2> DEFINE F == [id : Entry \cup {INVAL}, refcount : Nat, writer : BOOLEAN,
                   first : Block \cup {INVAL}, size : 0..MaxSize]
  <2> DEFINE new == [fcb[i] EXCEPT !.size = n]
  <2>1. fcb \in [Slot -> F] /\ fcb[i] \in F
    BY <1>1 DEF Types
  <2>2. fcb' = [fcb EXCEPT ![i] = new]
    BY <1>10, <2>1
  <2>3. new.id = fcb[i].id /\ new.size = n /\ new.first = fcb[i].first
    BY <2>1
  <2> HIDE DEF F, new
  <2>4. fcb'[i] = new /\ \A j \in Slot : j # i => fcb'[j] = fcb[j]
    BY <2>1, <2>2
  <2> QED
    BY <1>4, <2>3, <2>4
<1>13. at'[t].pc = "flush" /\ at'[t].op = at[t].op /\ at'[t].h = at[t].h /\ OthersStay(t)
  <2> DEFINE loc == [at[t] EXCEPT !.pc = "flush"]
  <2>1. FlushResumed(at[t], loc, "flush")
    BY <1>2, FlushGoesOn DEF Pc
  <2>2. at'[t] = loc /\ OthersStay(t)
    BY <1>1, <1>10 DEF OthersStay, Types
  <2> HIDE DEF loc
  <2> QED
    BY <2>1, <2>2 DEF FlushResumed
<1>14. Programmed(t, h, i, e, n)
  BY <1>2, <1>3, <1>4, <1>5, <1>11, <1>12, <1>13 DEF Programmed
<1>15. PICK put2 \in [Entry -> Nat] : put2 = [put EXCEPT ![e] = n]
  OBVIOUS
<1>16. AllPut(put, put2, e, n)
  BY <1>15 DEF AllPut
<1>17. data \in [Block -> [Cell -> (Entry \X (0..MaxSize)) \cup {Blank, Junk}]]
  BY <1>1 DEF Types
<1>18. /\ Written(blk, num, put, e, n)
       /\ RestUnwritten(blk, num)
  <2>1. CASE m = n
    <3>1. ASSUME NEW c \in Block PROVE data'[c] = data[c]
      <4>1. CASE c = handle[h].curr
        <5>1. \A x : x \notin m..(n - 1)
          BY <2>1
        <5>2. data'[c] = [x \in Cell |-> data[c][x]]
          BY <1>10, <1>17, <4>1, <5>1
        <5> QED
          BY <1>17, <5>2
      <4>2. CASE c # handle[h].curr
        BY <1>10, <1>17, <4>2
      <4> QED
        BY <4>1, <4>2
    <3>2. ASSUME NEW d \in Entry, NEW k \in 0..(num[d] - 1), NEW c \in Cell
          PROVE  data'[blk[d][k]][c] =
                   IF d = e /\ put[e] <= BlockData * k + c /\ BlockData * k + c < n
                   THEN <<e, BlockData * k + c>> ELSE data[blk[d][k]][c]
      <4>1. PICK u \in Nat : u = BlockData * k + c
        <5>1. BlockData * k \in Nat /\ c \in Nat
          BY Constants DEF Cell
        <5> QED
          BY <5>1
      <4>2. ~(put[e] <= u /\ u < n)
        BY <1>6, <2>1
      <4> QED
        BY <3>1, <4>1, <4>2
    <3> QED
      BY <3>1, <3>2 DEF Written, RestUnwritten
  <2>2. CASE m < n
    <3>1. PICK q \in Nat : BlocksFor(n) = q + 1
      <4>1. n # 0
        BY <2>2
      <4>2. BlocksFor(n) \in Nat /\ BlocksFor(n) # 0
        BY <4>1, BlocksForIs
      <4>3. PICK p \in Nat : p = BlocksFor(n)
        BY <4>2
      <4>4. p - 1 \in Nat /\ p = (p - 1) + 1
        BY <4>2, <4>3
      <4> QED
        BY <4>3, <4>4
    <3>2. PICK s \in Nat : s = BlockData * q /\ s <= m /\ n <= s + BlockData
      <4>1. PICK s \in Nat : s = BlockData * q
        BY Constants
      <4>2. BlockData * (q + 1) = s + BlockData
        BY <4>1, Constants
      <4>3. n <= BlockData * (q + 1)
        BY <3>1, BlocksForIs
      <4>4. BlockData * ((q + 1) - 1) = s
        BY <4>1
      <4> QED
        BY <1>6, <3>1, <4>1, <4>2, <4>3, <4>4
    <3>3. start = s
      <4>1. BlockData * q <= m /\ m < BlockData * q + BlockData
        <5>1. BlockData \in Nat
          BY Constants
        <5>2. s <= m /\ m < s + BlockData
          BY <2>2, <3>2, <5>1
        <5> QED
          BY <3>2, <5>2
      <4>2. m - (m % BlockData) = BlockData * q
        BY <4>1, StartOfBlock
      <4> QED
        BY <3>2, <4>2
    <3> HIDE DEF start
    <3>4. q \in 0..(num[e] - 1) /\ handle[h].curr = blk[e][q] /\ blk[e][q] \in Block
      BY <1>8, <1>9, <2>2, <3>1 DEF LastOf
    <3>5. \A d \in Entry : \A k \in 0..(num[d] - 1) : blk[d][k] = blk[e][q] => d = e /\ k = q
      BY <1>1, <3>4 DEF ChainsSound
    <3>6. \A c \in Block : c # blk[e][q] => data'[c] = data[c]
      BY <1>10, <1>17, <3>4
    <3>7. \A c \in Block : ~Owned(blk, num, c) => data'[c] = data[c]
      BY <3>4, <3>6 DEF Owned
    <3>8. \A c \in Cell : data'[blk[e][q]][c] =
            IF s + c \notin m..(n - 1) THEN data[blk[e][q]][c]
            ELSE IF data[blk[e][q]][c] = Blank THEN <<e, s + c>> ELSE Junk
      BY <1>10, <1>17, <3>3, <3>4
    <3>9. ASSUME NEW d \in Entry, NEW k \in 0..(num[d] - 1), NEW c \in Cell
          PROVE  data'[blk[d][k]][c] =
                   IF d = e /\ put[e] <= BlockData * k + c /\ BlockData * k + c < n
                   THEN <<e, BlockData * k + c>> ELSE data[blk[d][k]][c]
      <4>1. PICK u \in Nat : u = BlockData * k + c
        <5>1. BlockData * k \in Nat /\ c \in Nat
          BY Constants DEF Cell
        <5> QED
          BY <5>1
      <4>2. CASE d = e /\ k = q
        <5>1. u = s + c
          BY <3>2, <4>1, <4>2
        <5>2. u >= m => data[blk[e][q]][c] = Blank
          <6>1. data[blk[e][q]][c] =
                  IF BlockData * q + c < put[e] THEN <<e, BlockData * q + c>> ELSE Blank
            BY <1>1, <1>7, <3>4 DEF DataSound
          <6>2. BlockData * q + c = u
            BY <4>1, <4>2
          <6>3. u >= m => ~(u < put[e])
            BY <1>6
          <6> QED
            BY <6>1, <6>2, <6>3
        <5>3. u \in m..(n - 1) <=> (m <= u /\ u < n)
          OBVIOUS
        <5>4. data'[blk[e][q]][c] = IF u \notin m..(n - 1) THEN data[blk[e][q]][c]
                                    ELSE IF data[blk[e][q]][c] = Blank THEN <<e, u>> ELSE Junk
          BY <3>8, <5>1
        <5> QED
          BY <1>6, <4>1, <4>2, <5>2, <5>3, <5>4
      <4>3. CASE d = e /\ k # q
        <5>1. k < q
          BY <1>8, <3>1, <4>3
        <5>2. PICK w \in Nat : w = BlockData /\ w > 0
          BY Constants
        <5>3. w * k + w <= w * q
          BY <5>1, <5>2
        <5>4. PICK x \in Nat, y \in Nat : x = w * k /\ y = w * q
          BY <5>2
        <5>5. u < m
          <6>1. x + w <= y /\ y = s /\ s <= m
            BY <3>2, <5>2, <5>3, <5>4
          <6>2. c \in Nat /\ c < w
            BY <5>2 DEF Cell
          <6>3. u = x + c
            BY <4>1, <5>2, <5>4
          <6> QED
            BY <1>6, <3>2, <4>1, <5>2, <5>4, <6>1, <6>2, <6>3
        <5>6. data'[blk[d][k]] = data[blk[d][k]]
          <6>1. blk[d][k] \in Block /\ blk[d][k] # blk[e][q]
            BY <3>5, <4>3
          <6> QED
            BY <3>6, <6>1
        <5> QED
          BY <1>6, <4>1, <5>5, <5>6
      <4>4. CASE d # e
        <5>1. blk[d][k] \in Block /\ blk[d][k] # blk[e][q]
          BY <3>5, <4>4
        <5> QED
          BY <3>6, <4>4, <5>1
      <4> QED
        BY <4>2, <4>3, <4>4
    <3> QED
      BY <3>7, <3>9 DEF Written, RestUnwritten
  <2>3. m = n \/ m < n
    BY <1>6
  <2> QED
    BY <2>1, <2>2, <2>3
<1>19. FilesAre(blk, num, put2)'
  BY <1>14, <1>16, <1>18, ProgrammedFiles
<1> QED
  BY <1>19
------------------------------------------------------------------------------
(* The first of p blocks of a file that is being removed is given back.    *)
Shortened(blk, num, blk2, num2, e, p) ==
  /\ num[e] = p /\ num2[e] = p - 1 /\ \A k \in Nat : blk2[e][k] = blk[e][k + 1]
  /\ \A d \in Entry : d # e => blk2[d] = blk[d] /\ num2[d] = num[d]

Freed(t, e, p, b, blk) ==
  /\ Pc(t) = "free" /\ at[t].id = e /\ at'[t].pc = "free" /\ at'[t].id = e /\ OthersStay(t)
  /\ BlocksFor(at'[t].left) = p - 1 /\ (at'[t].left > 0 => at'[t].b = blk[e][1])
  /\ tableLock = Nobody /\ b = blk[e][0]
  /\ table'[b] = AVAIL /\ \A c \in Block : c # b => table'[c] = table[c]
  /\ UNCHANGED <<dir, next, data, fcb, handle, unsynced, length>>

LEMMA FreedFiles ==
  ASSUME TablesInv, NEW t \in Thread, NEW e \in Entry, NEW p \in Nat \ {0}, NEW b \in Block,
         NEW blk \in [Entry -> [Nat -> Block]], NEW num \in [Entry -> Nat],
         NEW put \in [Entry -> Nat], FilesAre(blk, num, put), Freed(t, e, p, b, blk),
         NEW blk2 \in [Entry -> [Nat -> Block]], NEW num2 \in [Entry -> Nat],
         Shortened(blk, num, blk2, num2, e, p)
  PROVE  FilesAre(blk2, num2, put)'
<1>1. /\ ChainsSound(blk, num) /\ AllocationSound(blk, num) /\ CountsSound(blk, num)
      /\ SizesSound(blk, put) /\ DataSound(blk, num, put) /\ DirectorySound(blk, put)
      /\ WritersSound(blk) /\ CurrentSound(blk, num) /\ Types /\ SearchOf(t)
  BY DEF FilesAre, TablesInv, OneFcbEach
<1>2. /\ Pc(t) = "free" /\ at[t].id = e /\ at'[t].pc = "free" /\ at'[t].id = e /\ OthersStay(t)
      /\ BlocksFor(at'[t].left) = p - 1 /\ (at'[t].left > 0 => at'[t].b = blk[e][1])
  BY DEF Freed
<1>3. /\ tableLock = Nobody /\ b = blk[e][0]
      /\ table'[b] = AVAIL /\ \A c \in Block : c # b => table'[c] = table[c]
  BY DEF Freed
<1>4. /\ dir' = dir /\ next' = next /\ data' = data /\ fcb' = fcb /\ handle' = handle
      /\ unsynced' = unsynced /\ length' = length
  BY DEF Freed
<1>5. /\ num[e] = p /\ num2[e] = p - 1 /\ \A k \in Nat : blk2[e][k] = blk[e][k + 1]
      /\ \A d \in Entry : d # e => blk2[d] = blk[d] /\ num2[d] = num[d]
  BY DEF Shortened
<1>6. Files' = Files
  BY <1>4 DEF Files, Named
<1>7. \A d : Removing(d)' <=> Removing(d)
  <2>1. \A u \in Thread : (Pc(u)' = "free" <=> Pc(u) = "free") /\ at'[u].id = at[u].id
    BY <1>2 DEF OthersStay, Pc
  <2> QED
    BY <2>1 DEF Removing
<1>8. \A d : InUse(d)' <=> InUse(d)
  BY <1>4 DEF InUse
<1>9. \A g : ActiveWriter(g)' <=> ActiveWriter(g)
  BY <1>2, <1>4, ActiveSame
<1>10. \A g : FcbOf(g)' = FcbOf(g)
  BY <1>4 DEF FcbOf
<1>11. Removing(e) /\ \A j \in Slot : fcb[j].id # e
  BY <1>1, <1>2 DEF SearchOf, Removing
<1>12. \A u \in Thread : Pc(u) \notin {"link", "erase"} /\ (Pc(u) = "free" => u = t)
  BY <1>2, <1>3, OneAtATime, OtherConstants
<1>13. \A u \in Thread : Pc(u)' \notin {"link", "erase"} /\ (Pc(u)' = "free" => u = t)
  BY <1>2, <1>12 DEF OthersStay, Pc
<1>14. /\ \A d \in Entry : \A k \in 0..(num2[d] - 1) :
            \E j \in 0..(num[d] - 1) : /\ blk2[d][k] = blk[d][j] /\ blk2[d][k] # b
                                       /\ j = IF d = e THEN k + 1 ELSE k
       /\ \A c : Owned(blk2, num2, c) <=> Owned(blk, num, c) /\ c # b
  <2>1. \A d \in Entry : \A j \in 0..(num[d] - 1) : blk[d][j] = b => d = e /\ j = 0
    <3>1. 0 \in 0..(num[e] - 1)
      BY <1>5
    <3>2. \A c, d \in Entry : \A j \in 0..(num[c] - 1), k \in 0..(num[d] - 1) :
            blk[c][j] = blk[d][k] => c = d /\ j = k
      BY <1>1 DEF ChainsSound
    <3>3. \A d \in Entry : \A j \in 0..(num[d] - 1) : blk[d][j] = blk[e][0] => d = e /\ j = 0
      BY <3>1, <3>2
    <3> QED
      BY <1>3, <3>3
  <2>2. ASSUME NEW d \in Entry, NEW k \in 0..(num2[d] - 1)
        PROVE  \E j \in 0..(num[d] - 1) : /\ blk2[d][k] = blk[d][j] /\ blk2[d][k] # b
                                          /\ j = IF d = e THEN k + 1 ELSE k
    <3>1. CASE d = e
      <4>1. k + 1 \in 0..(num[e] - 1) /\ k \in Nat
        BY <1>5, <3>1
      <4>2. blk2[e][k] = blk[e][k + 1] /\ blk[e][k + 1] # b
        BY <1>5, <2>1, <4>1
      <4> QED
        BY <3>1, <4>1, <4>2
    <3>2. CASE d # e
      <4>1. blk2[d] = blk[d] /\ num2[d] = num[d]
        BY <1>5, <3>2
      <4> QED
        BY <2>1, <3>2, <4>1
    <3> QED
      BY <3>1, <3>2
  <2>3. ASSUME NEW d \in Entry, NEW j \in 0..(num[d] - 1), blk[d][j] # b
        PROVE  \E k \in 0..(num2[d] - 1) : blk2[d][k] = blk[d][j]
    <3>1. CASE d = e
      <4>1. j # 0
        BY <1>3, <2>3, <3>1
      <4>2. j - 1 \in 0..(num2[e] - 1) /\ (j - 1) + 1 = j /\ j - 1 \in Nat
        BY <1>5, <3>1, <4>1
      <4>3. blk2[e][j - 1] = blk[e][j]
        BY <1>5, <4>2
      <4> QED
        BY <3>1, <4>2, <4>3
    <3>2. CASE d # e
      BY <1>5, <3>2
    <3> QED
      BY <3>1, <3>2
  <2>4. ASSUME NEW c PROVE Owned(blk2, num2, c) <=> Owned(blk, num, c) /\ c # b
    <3>1. Owned(blk2, num2, c) => Owned(blk, num, c) /\ c # b
      BY <2>2 DEF Owned
    <3>2. Owned(blk, num, c) /\ c # b => Owned(blk2, num2, c)
      BY <2>3 DEF Owned
    <3> QED
      BY <3>1, <3>2
  <2> QED
    BY <2>2, <2>4
<1>15. ChainsSound(blk2, num2)'
  <2>1. ASSUME NEW d \in Entry, NEW k \in 0..(num2[d] - 1)
        PROVE  /\ table'[blk2[d][k]] = USED
               /\ next'[blk2[d][k]] = IF k + 1 < num2[d] THEN blk2[d][k + 1] ELSE INVAL
    <3>1. PICK j \in 0..(num[d] - 1) : /\ blk2[d][k] = blk[d][j] /\ blk2[d][k] # b
                                       /\ j = IF d = e THEN k + 1 ELSE k
      BY <1>14
    <3>2. /\ table[blk[d][j]] = USED
          /\ next[blk[d][j]] = IF j + 1 < num[d] THEN blk[d][j + 1] ELSE INVAL
      BY <1>1 DEF ChainsSound
    <3>3. blk2[d][k] \in Block
      BY <3>1
    <3>4. (j + 1 < num[d] <=> k + 1 < num2[d]) /\ blk2[d][k + 1] = blk[d][j + 1]
      BY <1>5, <3>1
    <3> QED
      BY <1>3, <1>4, <3>1, <3>2, <3>3, <3>4
  <2>2. ASSUME NEW c \in Entry, NEW d \in Entry,
               NEW j \in 0..(num2[c] - 1), NEW k \in 0..(num2[d] - 1), blk2[c][j] = blk2[d][k]
        PROVE  c = d /\ j = k
    <3>1. PICK x \in 0..(num[c] - 1) : blk2[c][j] = blk[c][x] /\ x = IF c = e THEN j + 1 ELSE j
      BY <1>14
    <3>2. PICK y \in 0..(num[d] - 1) : blk2[d][k] = blk[d][y] /\ y = IF d = e THEN k + 1 ELSE k
      BY <1>14
    <3>3. c = d /\ x = y
      <4>1. blk[c][x] = blk[d][y]
        BY <2>2, <3>1, <3>2
      <4>2. \A v \in 0..(num[c] - 1), w \in 0..(num[d] - 1) : blk[c][v] = blk[d][w] => c = d /\ v = w
        BY <1>1 DEF ChainsSound
      <4> QED
        BY <3>1, <3>2, <4>1, <4>2
    <3> QED
      BY <3>1, <3>2, <3>3
  <2> QED
    BY <2>1, <2>2 DEF ChainsSound
<1>16. AllocationSound(blk2, num2)'
  <2>1. \A c \in Block : table'[c] = USED => Owned(blk2, num2, c)
    <3>1. \A c \in Block : table[c] = USED => Owned(blk, num, c)
      BY <1>1, <1>12 DEF AllocationSound
    <3> QED
      BY <1>3, <1>14, <3>1 DEF USED, AVAIL
  <2>2. \A c \in Block : table'[c] = FREE => Erased(c)
    BY <1>1, <1>3, <1>12 DEF AllocationSound, FREE, AVAIL
  <2>3. \A c : (Owned(blk2, num2, c)' <=> Owned(blk2, num2, c)) /\ (Erased(c)' <=> Erased(c))
    BY <1>4 DEF Owned, Erased
  <2> QED
    BY <1>13, <2>1, <2>2, <2>3 DEF AllocationSound
<1>17. CountsSound(blk2, num2)'
  <2>1. blk2[e][0] = blk[e][1]
    BY <1>5
  <2>2. \A d \in Entry : /\ d \notin Files' => num2[d] = 0
                         /\ d \in Files' /\ ~Removing(d)' => num2[d] = BlocksFor(length'[d])
    <3>1. e \in Files
      BY <1>1, <1>2 DEF SearchOf, Files, Named
    <3> QED
      BY <1>1, <1>4, <1>5, <1>6, <1>7, <1>11, <3>1 DEF CountsSound
  <2>3. \A u \in Thread : Pc(u)' = "free" =>
          /\ num2[at'[u].id] = BlocksFor(at'[u].left)
          /\ at'[u].left > 0 => at'[u].b = blk2[at'[u].id][0]
    BY <1>2, <1>5, <1>13, <2>1
  <2> QED
    BY <2>2, <2>3 DEF CountsSound
<1>18. \A d \in Entry : d # e => blk2[d] = blk[d] /\ num2[d] = num[d]
  BY <1>5
<1>19. SizesSound(blk2, put)'
  <2>1. \A d \in Entry : /\ put[d] <= length'[d] /\ BlockData * (BlocksFor(length'[d]) - 1) <= put[d]
                         /\ ~InUse(d)' => put[d] = length'[d]
    BY <1>1, <1>4, <1>8 DEF SizesSound
  <2>2. ASSUME NEW j \in Slot, fcb'[j].id # INVAL
        PROVE  /\ fcb'[j].size = put[fcb'[j].id]
               /\ fcb'[j].first = FirstOf(blk2, fcb'[j].id, length'[fcb'[j].id])
               /\ put[fcb'[j].id] # length'[fcb'[j].id] =>
                    \E g \in Slot : ActiveWriter(g)' /\ FcbOf(g)' = j
    <3>1. PICK d \in Entry : d = fcb[j].id /\ d # e
      BY <1>1, <1>4, <1>11, <2>2 DEF Types
    <3>2. /\ fcb[j].size = put[d] /\ fcb[j].first = FirstOf(blk, d, length[d])
          /\ put[d] # length[d] => \E g \in Slot : ActiveWriter(g) /\ FcbOf(g) = j
      BY <1>1, <3>1, NotInval DEF SizesSound
    <3>3. FirstOf(blk2, d, length[d]) = FirstOf(blk, d, length[d])
      BY <1>18, <3>1 DEF FirstOf
    <3> QED
      BY <1>4, <1>9, <1>10, <3>1, <3>2, <3>3
  <2> QED
    BY <2>1, <2>2 DEF SizesSound, FirstOf
<1>20. DataSound(blk2, num2, put)'
  <2> SUFFICES ASSUME NEW d \in Files', ~Removing(d)', NEW k \in 0..(num2[d] - 1), NEW c \in Cell
               PROVE  data'[blk2[d][k]][c] =
                        IF BlockData * k + c < put[d] THEN <<d, BlockData * k + c>> ELSE Blank
    BY DEF DataSound
  <2>1. d \in Files /\ d \in Entry /\ ~Removing(d) /\ d # e
    BY <1>6, <1>7, <1>11 DEF Files
  <2>2. blk2[d] = blk[d] /\ num2[d] = num[d]
    BY <1>18, <2>1
  <2> QED
    BY <1>1, <1>4, <2>1, <2>2 DEF DataSound
<1>21. DirectorySound(blk2, put)'
  <2>1. \A d \in unsynced' : InUse(d)'
    BY <1>1, <1>4, <1>8 DEF DirectorySound
  <2>2. ASSUME NEW d \in Files', ~Removing(d)'
        PROVE  /\ d \notin unsynced' => /\ dir'[d].size <= put[d]
                                        /\ dir'[d].size > 0 => dir'[d].first = blk2[d][0]
               /\ ~InUse(d)' => dir'[d].size = length'[d] /\ dir'[d].first = FirstOf(blk2, d, length'[d])
    <3>1. d \in Files /\ d \in Entry /\ ~Removing(d) /\ d # e
      BY <1>6, <1>7, <1>11, <2>2 DEF Files
    <3>2. blk2[d] = blk[d]
      BY <1>18, <3>1
    <3>3. FirstOf(blk2, d, length[d]) = FirstOf(blk, d, length[d])
      BY <3>2 DEF FirstOf
    <3> QED
      BY <1>1, <1>4, <1>8, <3>1, <3>2, <3>3 DEF DirectorySound
  <2> QED
    BY <2>1, <2>2 DEF DirectorySound, FirstOf
<1>22. WritersSound(blk2)'
  <2>1. \A u \in Thread : Pc(u)' = Pc(u) /\ (Pc(u) # "free" => at'[u] = at[u])
    BY <1>2 DEF OthersStay, Pc
  <2>2. \A u \in Thread : Pc(u)' = "alloc handle" /\ Appends(at'[u].mode) =>
          fcb'[at'[u].i].size = length'[fcb'[at'[u].i].id]
    BY <1>1, <1>4, <2>1, OpenersAt
  <2>3. ASSUME NEW g \in Slot, ActiveWriter(g)'
        PROVE  /\ handle'[g].pos = length'[fcb'[FcbOf(g)'].id]
               /\ handle'[g].curr = LastOf(blk2, fcb'[FcbOf(g)'].id, length'[fcb'[FcbOf(g)'].id])
               /\ handle'[g].pos % BlockData = 0 =>
                    \/ fcb'[FcbOf(g)'].size = handle'[g].pos
                    \/ \E u \in Thread : /\ Pc(u)' \in {"flush", "program"} /\ at'[u].op = "write"
                                         /\ at'[u].h = g
    <3>1. ActiveWriter(g)
      BY <1>9, <2>3
    <3>2. PICK j \in Slot, d \in Entry : /\ j = FcbOf(g) /\ j = FcbOf(g)' /\ d = fcb[j].id
                                         /\ d = fcb'[j].id /\ d # e
      BY <1>4, <1>10, <1>11, <3>1, ActiveWriterIs
    <3>3. /\ handle[g].pos = length[fcb[j].id]
          /\ handle[g].curr = LastOf(blk, fcb[j].id, length[fcb[j].id])
          /\ handle[g].pos % BlockData = 0 =>
                \/ fcb[j].size = handle[g].pos
                \/ \E u \in Thread : /\ Pc(u) \in {"flush", "program"} /\ at[u].op = "write"
                                     /\ at[u].h = g
      <4>1. j = FcbOf(g)
        BY <3>2
      <4> QED
        BY <1>1, <3>1, <4>1, WriterAt
    <3>4. LastOf(blk2, d, length[d]) = LastOf(blk, d, length[d])
      BY <1>18, <3>2 DEF LastOf
    <3>5. \A u \in Thread : Pc(u) \in {"flush", "program"} => Pc(u)' = Pc(u) /\ at'[u] = at[u]
      BY <2>1
    <3> QED
      BY <1>4, <3>2, <3>3, <3>4, <3>5
  <2>4. \A u \in Thread : Pc(u)' \in {"allocate", "erase", "link"} =>
          handle'[at'[u].h].pos % BlockData = 0
    <3>1. \A u \in Thread : Pc(u) \in {"allocate", "erase", "link"} =>
            handle[at[u].h].pos % BlockData = 0
      BY <1>1 DEF WritersSound
    <3> QED
      BY <1>4, <2>1, <3>1
  <2> QED
    BY <2>2, <2>3, <2>4 DEF WritersSound, LastOf
<1>23. CurrentSound(blk2, num2)'
  <2> SUFFICES ASSUME NEW g \in Slot
               PROVE  /\ handle'[g].curr # NoBlock
                      /\ /\ FcbOf(g)' # INVAL /\ Appends(handle'[g].mode)
                         /\ ~Busy(g, {"close handle"})'
                         => \/ handle'[g].curr = INVAL
                            \/ \E k \in 0..(num2[fcb'[FcbOf(g)'].id] - 1) :
                                 handle'[g].curr = blk2[fcb'[FcbOf(g)'].id][k]
    BY DEF CurrentSound
  <2>1. Busy(g, {"close handle"}) => Busy(g, {"close handle"})'
    <3>1. \A u \in Thread : Pc(u) = "close handle" => Pc(u)' = Pc(u) /\ at'[u] = at[u]
      BY <1>2 DEF OthersStay, Pc
    <3> QED
      BY <3>1 DEF Busy
  <2>2. PICK j : j = FcbOf(g) /\ j = FcbOf(g)'
    BY <1>10
  <2>3. /\ handle[g].curr # NoBlock
        /\ j # INVAL /\ Appends(handle[g].mode) /\ ~Busy(g, {"close handle"}) =>
             \/ handle[g].curr = INVAL
             \/ \E k \in 0..(num[fcb[j].id] - 1) : handle[g].curr = blk[fcb[j].id][k]
    BY <1>1, <2>2 DEF CurrentSound
  <2>4. j # INVAL /\ ~Busy(g, {"close handle"}) =>
          blk2[fcb[j].id] = blk[fcb[j].id] /\ num2[fcb[j].id] = num[fcb[j].id]
    <3>1. j # INVAL /\ ~Busy(g, {"close handle"}) => j \in Slot /\ fcb[j].id \in Entry
      BY <2>2, HandleHasFcb
    <3> QED
      BY <1>11, <1>18, <3>1
  <2> QED
    BY <1>4, <2>1, <2>2, <2>3, <2>4
<1> QED
  BY <1>15, <1>16, <1>17, <1>19, <1>20, <1>21, <1>22, <1>23 DEF FilesAre

LEMMA OneBlockLess ==
  ASSUME NEW n \in Nat, n > 0
  PROVE  BlocksFor(IF n > BlockData THEN n - BlockData ELSE 0) = BlocksFor(n) - 1
<1>1. PICK d \in Nat : d = BlockData /\ d > 0
  BY Constants
<1>2. PICK p \in Nat : BlocksFor(n) = p + 1
  <2>1. BlocksFor(n) \in Nat /\ BlocksFor(n) # 0
    BY BlocksForIs
  <2>2. PICK q \in Nat : q = BlocksFor(n)
    BY <2>1
  <2>3. q - 1 \in Nat /\ q = (q - 1) + 1
    BY <2>1, <2>2
  <2> QED
    BY <2>2, <2>3
<1>3. d * p < n /\ n <= d * p + d
  <2>1. n <= d * (p + 1) /\ d * (p + 1) < n + d
    BY <1>1, <1>2, BlocksForIs
  <2>2. d * (p + 1) = d * p + d
    BY <1>1
  <2>3. PICK x \in Nat : x = d * p
    BY <1>1
  <2> QED
    BY <1>1, <2>1, <2>2, <2>3
<1>4. CASE n > d
  <2>1. PICK m \in Nat : m = n - d /\ m > 0
    BY <1>1, <1>4
  <2>2. d * (p - 1) = d * p - d
    BY <1>1
  <2>3. PICK x \in Nat : x = d * p
    BY <1>1
  <2>4. d * (p - 1) < m /\ m <= d * p
    BY <1>1, <1>3, <2>1, <2>2, <2>3
  <2>5. BlocksFor(m) = p
    BY <1>1, <2>4, BlocksForUnique
  <2> QED
    BY <1>1, <1>2, <1>4, <2>1, <2>5
<1>5. CASE ~(n > d)
  <2>1. d * p < d * 1
    BY <1>1, <1>3, <1>5
  <2>2. p = 0
    BY <1>1, <2>1
  <2>3. BlocksFor(0) = 0
    BY BlocksForIs
  <2> QED
    BY <1>1, <1>2, <1>5, <2>2, <2>3
<1> QED
  BY <1>4, <1>5

LEMMA BlockFreeFiles ==
  ASSUME TablesInv, NEW t \in Thread, BlockFree(t),
         NEW blk \in [Entry -> [Nat -> Block]], NEW num \in [Entry -> Nat],
         NEW put \in [Entry -> Nat], FilesAre(blk, num, put)
  PROVE  \E blk2 \in [Entry -> [Nat -> Block]], num2 \in [Entry -> Nat] :
           FilesAre(blk2, num2, put)'
<1>1. /\ ChainsSound(blk, num) /\ CountsSound(blk, num) /\ Types
  BY DEF FilesAre, TablesInv
<1>2. Pc(t) = "free" /\ at[t] \in FreeLocals /\ at[t].left > 0 /\ tableLock = Nobody
  <2>1. Pc(t) = "free" /\ at[t].left > 0 /\ tableLock = Nobody
    BY DEF BlockFree
  <2> QED
    BY <1>1, <2>1, CallTypes, LocalsAre DEF Pc
<1>3. PICK e \in Entry, n \in Nat : e = at[t].id /\ n = at[t].left /\ n > 0
  <2>1. at[t].left \in 0..MaxSize /\ at[t].id \in Entry
    BY <1>2 DEF FreeLocals
  <2> QED
    BY <1>2, <2>1
<1>4. PICK p \in Nat \ {0} : p = num[e] /\ p = BlocksFor(n)
  <2>1. num[e] = BlocksFor(n)
    BY <1>1, <1>2, <1>3 DEF CountsSound
  <2>2. BlocksFor(n) # 0
    BY <1>3, BlocksForIs
  <2> QED
    BY <2>1, <2>2
<1>5. PICK b \in Block : b = blk[e][0] /\ b = at[t].b
  <2>1. at[t].b = blk[e][0]
    BY <1>1, <1>2, <1>3 DEF CountsSound
  <2>2. blk[e][0] \in Block
    OBVIOUS
  <2> QED
    BY <2>1, <2>2
<1> DEFINE less == IF n > BlockData THEN n - BlockData ELSE 0
<1> DEFINE loc == [at[t] EXCEPT !.b = fsBlockGetNext(b), !.left = less]
<1>6. /\ at' = [at EXCEPT ![t] = loc] /\ table' = [table EXCEPT ![b] = AVAIL]
      /\ dir' = dir /\ next' = next /\ data' = data /\ fcb' = fcb /\ handle' = handle
      /\ unsynced' = unsynced /\ length' = length
  BY <1>2, <1>3, <1>5 DEF BlockFree, Goto, flash, ram, history, FreeLocals
<1>7. BlocksFor(less) = p - 1 /\ less \in Nat
  <2>1. less \in Nat
    BY <1>3, Constants
  <2> QED
    BY <1>3, <1>4, <2>1, OneBlockLess
<1> HIDE DEF less
<1>8. loc.pc = "free" /\ loc.id = e /\ loc.b = next[b] /\ loc.left = less
  BY <1>2, <1>3, <1>5 DEF FreeLocals, Pc, fsBlockGetNext
<1> HIDE DEF loc
<1>9. at'[t] = loc /\ OthersStay(t)
  BY <1>1, <1>6 DEF Types, OthersStay
<1>10. less > 0 => next[b] = blk[e][1]
  <2>1. less > 0 => 1 < p
    <3>1. less > 0 => BlocksFor(less) \in Nat /\ BlocksFor(less) # 0
      BY <1>7, BlocksForIs
    <3> QED
      BY <1>4, <1>7, <3>1
  <2>2. next[blk[e][0]] = IF 0 + 1 < num[e] THEN blk[e][0 + 1] ELSE INVAL
    <3>1. 0 \in 0..(num[e] - 1)
      BY <1>4
    <3>2. \A k \in 0..(num[e] - 1) : next[blk[e][k]] = IF k + 1 < num[e] THEN blk[e][k + 1] ELSE INVAL
      BY <1>1 DEF ChainsSound
    <3> QED
      BY <3>1, <3>2
  <2> QED
    BY <1>4, <1>5, <2>1, <2>2
<1>11. table'[b] = AVAIL /\ \A c \in Block : c # b => table'[c] = table[c]
  BY <1>1, <1>6 DEF Types
<1>12. Freed(t, e, p, b, blk)
  BY <1>2, <1>3, <1>5, <1>6, <1>7, <1>8, <1>9, <1>10, <1>11 DEF Freed
<1>13. PICK new \in [Nat -> Block] : \A k \in Nat : new[k] = blk[e][k + 1]
  <2>1. \A k \in Nat : blk[e][k + 1] \in Block
    OBVIOUS
  <2>2. [k \in Nat |-> blk[e][k + 1]] \in [Nat -> Block]
    BY <2>1
  <2> QED
    BY <2>2
<1>14. PICK blk2 \in [Entry -> [Nat -> Block]] : blk2 = [blk EXCEPT ![e] = new]
  OBVIOUS
<1>15. PICK num2 \in [Entry -> Nat] : num2[e] = p - 1 /\ \A d \in Entry : d # e => num2[d] = num[d]
  <2>1. PICK m \in Nat : m = p - 1
    BY <1>4
  <2>2. PICK num3 \in [Entry -> Nat] : num3 = [num EXCEPT ![e] = m]
    OBVIOUS
  <2>3. num3[e] = m /\ \A d \in Entry : d # e => num3[d] = num[d]
    BY <2>2
  <2> QED
    BY <2>1, <2>3
<1>16. Shortened(blk, num, blk2, num2, e, p)
  BY <1>4, <1>13, <1>14, <1>15 DEF Shortened
<1>17. FilesAre(blk2, num2, put)'
  BY <1>12, <1>16, FreedFiles
<1> QED
  BY <1>17

LEMMA DelEntryFiles ==
  ASSUME TablesInv, NEW t \in Thread, DelEntry(t),
         NEW blk \in [Entry -> [Nat -> Block]], NEW num \in [Entry -> Nat],
         NEW put \in [Entry -> Nat], FilesAre(blk, num, put)
  PROVE  FilesAre(blk, num, put)'
<1>1. /\ ChainsSound(blk, num) /\ AllocationSound(blk, num) /\ CountsSound(blk, num)
      /\ SizesSound(blk, put) /\ DataSound(blk, num, put) /\ DirectorySound(blk, put)
      /\ WritersSound(blk) /\ CurrentSound(blk, num) /\ Types
  BY DEF FilesAre, TablesInv
<1>2. Pc(t) = "free" /\ at[t] \in FreeLocals /\ at[t].left = 0
  <2>1. Pc(t) = "free" /\ at[t].left = 0
    BY DEF DelEntry
  <2> QED
    BY <1>1, <2>1, CallTypes, LocalsAre DEF Pc
<1>3. PICK e \in Entry : e = at[t].id
  BY <1>2 DEF FreeLocals
<1>4. /\ dir' = [dir EXCEPT ![e].name = NoName] /\ at' = [at EXCEPT ![t] = Idle]
      /\ table' = table /\ next' = next /\ data' = data /\ fcb' = fcb /\ handle' = handle
      /\ unsynced' = unsynced /\ length' = length
  BY <1>3 DEF DelEntry, Return, Goto, flash, ram, history
<1>5. num[e] = 0
  <2>1. num[e] = BlocksFor(0)
    BY <1>1, <1>2, <1>3 DEF CountsSound
  <2> QED
    BY <2>1, BlocksForIs
<1>6. at'[t].pc = "idle" /\ OthersStay(t)
  BY <1>1, <1>4 DEF Types, OthersStay, Idle
<1>7. \A d \in Entry : /\ dir'[d].first = dir[d].first /\ dir'[d].size = dir[d].size
                       /\ dir'[d].name = IF d = e THEN NoName ELSE dir[d].name
  BY <1>1, <1>4 DEF Types
<1>8. Files' = Files \ {e}
  BY <1>7 DEF Files, Named
<1>9. \A u \in Thread : Pc(u)' # "free"
  <2>1. \A u \in Thread : Pc(u) = "free" => u = t
    BY <1>2, OneAtATime
  <2> QED
    BY <1>6, <2>1 DEF OthersStay, Pc
<1>10. \A d \in Files' : ~Removing(d)
  <2>1. \A u \in Thread : Pc(u) = "free" => u = t
    BY <1>2, OneAtATime
  <2> QED
    BY <1>3, <1>8, <2>1 DEF Removing
<1>11. ChainsSound(blk, num)'
  BY <1>1, <1>4 DEF ChainsSound
<1>12. AllocationSound(blk, num)'
  BY <1>1, <1>2, <1>4, <1>6, AllocationSame
<1>13. CountsSound(blk, num)'
  <2>1. \A d \in Entry : /\ d \notin Files' => num[d] = 0
                         /\ d \in Files' => num[d] = BlocksFor(length'[d])
    BY <1>1, <1>4, <1>5, <1>8, <1>10 DEF CountsSound
  <2> QED
    BY <1>9, <2>1 DEF CountsSound
<1>14. RamKept(t)
  <2>1. \A h : ActiveWriter(h)' <=> ActiveWriter(h)
    BY <1>2, <1>4, <1>6, ActiveSame
  <2> QED
    BY <1>2, <1>4, <1>6, <2>1 DEF RamKept
<1>15. /\ \A d : InUse(d)' <=> InUse(d)
       /\ SizesSound(blk, put)' /\ WritersSound(blk)' /\ CurrentSound(blk, num)'
  BY <1>1, <1>14, RamSame
<1>16. DataSound(blk, num, put)'
  BY <1>1, <1>4, <1>8, <1>10 DEF DataSound
<1>17. DirectorySound(blk, put)'
  <2>1. \A d \in unsynced' : InUse(d)'
    BY <1>1, <1>4, <1>15 DEF DirectorySound
  <2>2. ASSUME NEW d \in Files'
        PROVE  /\ d \notin unsynced' => /\ dir'[d].size <= put[d]
                                        /\ dir'[d].size > 0 => dir'[d].first = blk[d][0]
               /\ ~InUse(d)' => dir'[d].size = length'[d] /\ dir'[d].first = FirstOf(blk, d, length'[d])
    <3>1. d \in Files /\ d \in Entry /\ ~Removing(d)
      BY <1>8, <1>10 DEF Files
    <3> QED
      BY <1>1, <1>4, <1>7, <1>15, <3>1 DEF DirectorySound
  <2> QED
    BY <2>1, <2>2 DEF DirectorySound, FirstOf
<1> QED
  BY <1>11, <1>12, <1>13, <1>15, <1>16, <1>17 DEF FilesAre
------------------------------------------------------------------------------
(* RAM as fsBlockInit() leaves it says nothing about the files.            *)
LEMMA FreshRamFiles ==
  ASSUME RamInit', NEW blk, NEW num, NEW put
  PROVE  /\ \A d \in Entry : ~InUse(d)'
         /\ \A d : ~Removing(d)'
         /\ \A u \in Thread : Pc(u)' = "idle"
         /\ WritersSound(blk)' /\ CurrentSound(blk, num)'
         /\ \A i \in Slot : fcb'[i].id = INVAL
<1>1. /\ fcb' = [i \in Slot |-> NoFcb] /\ handle' = [i \in Slot |-> NoHandle]
      /\ at' = [t \in Thread |-> Idle]
  BY DEF RamInit
<1>2. \A i \in Slot : fcb'[i].id = INVAL
  BY <1>1 DEF NoFcb
<1>3. \A d \in Entry : ~InUse(d)'
  BY <1>2, NotInval DEF InUse
<1>4. \A u \in Thread : Pc(u)' = "idle"
  BY <1>1 DEF Pc, Idle
<1>5. \A d : ~Removing(d)'
  BY <1>4 DEF Removing
<1>6. \A h \in Slot : FcbOf(h)' = INVAL /\ handle'[h].curr = INVAL
  BY <1>1 DEF FcbOf, NoHandle
<1>7. \A h \in Slot : ~ActiveWriter(h)'
  BY <1>6 DEF ActiveWriter
<1>8. WritersSound(blk)'
  BY <1>4, <1>7 DEF WritersSound
<1>9. CurrentSound(blk, num)'
  BY <1>6, NotInval DEF CurrentSound
<1> QED
  BY <1>2, <1>3, <1>4, <1>5, <1>8, <1>9

(* What is not in the middle of a change is on EEPROM and flash as it is   *)
(* in RAM.                                                                 *)
LEMMA Settled ==
  ASSUME TablesInv, NEW blk, NEW put, SizesSound(blk, put), WritersSound(blk),
         DirectorySound(blk, put), NEW e \in Entry, ~InChange(e)
  PROVE  /\ ~Removing(e) /\ put[e] = length[e] /\ e \notin unsynced
         /\ InUse(e) => dir[e].size = length[e] /\ dir[e].first = FirstOf(blk, e, length[e])
         /\ \A t \in Thread : Writing(t) => fcb[FcbOf(at[t].h)].id # e
<1>1. ~Removing(e)
  BY DEF InChange, Removers, Removing
<1>2. e \in unsynced => InUse(e)
  BY DEF DirectorySound
<1>3. CASE ~InUse(e)
  <2>1. put[e] = length[e]
    BY <1>3 DEF SizesSound
  <2>2. \A t \in Thread : Writing(t) => fcb[FcbOf(at[t].h)].id # e
    BY <1>3, WritingActs DEF InUse
  <2> QED
    BY <1>1, <1>2, <1>3, <2>1, <2>2
<1>4. CASE InUse(e)
  <2>1. PICK i \in Slot : fcb[i].id = e
    BY <1>4 DEF InUse
  <2>2. FcbFor(e) = i /\ fcb[i].id # INVAL
    BY <2>1, NotInval, FcbIsFile
  <2>3. /\ e \notin unsynced /\ fcbLock[i] = Nobody
        /\ fcb[i].first = dir[e].first /\ fcb[i].size = dir[e].size
        /\ \A h \in Writers(i) : handle[h].pos = dir[e].size
    BY <1>4, <2>2 DEF InChange
  <2>4. /\ fcb[i].size = put[e] /\ fcb[i].first = FirstOf(blk, e, length[e])
        /\ put[e] # length[e] => \E h \in Slot : ActiveWriter(h) /\ FcbOf(h) = i
    BY <2>1, <2>2 DEF SizesSound
  <2>5. put[e] = length[e]
    <3> SUFFICES ASSUME put[e] # length[e] PROVE FALSE
      OBVIOUS
    <3>1. PICK h \in Slot : ActiveWriter(h) /\ FcbOf(h) = i
      BY <2>4
    <3>2. h \in Writers(i)
      BY <3>1, ActiveWriterIs DEF Writers, HandlesOf, ActiveWriter
    <3>3. handle[h].pos = length[e]
      BY <2>1, <3>1, WriterAt
    <3> QED
      BY <2>3, <2>4, <3>2, <3>3
  <2>6. ASSUME NEW t \in Thread, Writing(t), fcb[FcbOf(at[t].h)].id = e PROVE FALSE
    <3>1. PICK j \in Slot : j = FcbOf(at[t].h) /\ fcbLock[j] = t /\ fcb[j].id = e
      BY <2>6, WritingActs
    <3>2. j = i
      BY <2>2, <3>1, FcbIsFile, NotInval
    <3> QED
      BY <2>3, <3>1, <3>2, OtherConstants
  <2> QED
    BY <1>1, <2>3, <2>4, <2>5, <2>6
<1> QED
  BY <1>3, <1>4

LEMMA ResetFiles ==
  ASSUME TablesInv, Reset,
         NEW blk \in [Entry -> [Nat -> Block]], NEW num \in [Entry -> Nat],
         NEW put \in [Entry -> Nat], FilesAre(blk, num, put)
  PROVE  FilesAre(blk, num, put)'
<1>1. /\ ChainsSound(blk, num) /\ AllocationSound(blk, num) /\ CountsSound(blk, num)
      /\ SizesSound(blk, put) /\ DataSound(blk, num, put) /\ DirectorySound(blk, put)
      /\ WritersSound(blk) /\ Types
  BY DEF FilesAre, TablesInv
<1>2. /\ table' = table /\ dir' = dir /\ next' = next /\ data' = data
      /\ unsynced' = unsynced /\ length' = length
  BY DEF Reset, eeprom, flash, history
<1>3. RamInit'
  BY DEF Reset, RamInit
<1>4. /\ \A d \in Entry : ~InUse(d)'
      /\ \A d : ~Removing(d)'
      /\ \A u \in Thread : Pc(u)' = "idle"
      /\ WritersSound(blk)' /\ CurrentSound(blk, num)'
      /\ \A i \in Slot : fcb'[i].id = INVAL
  BY <1>3, FreshRamFiles
<1>5. \A e \in Entry : /\ ~Removing(e) /\ put[e] = length[e] /\ e \notin unsynced
                       /\ InUse(e) => dir[e].size = length[e] /\ dir[e].first = FirstOf(blk, e, length[e])
                       /\ \A t \in Thread : Writing(t) => fcb[FcbOf(at[t].h)].id # e
  BY <1>1, Settled DEF Reset
<1>6. \A t \in Thread : ~Writing(t)
  <2>1. \A t \in Thread : Writing(t) => fcb[FcbOf(at[t].h)].id \in Entry
    BY WritingActs
  <2> QED
    BY <1>5, <2>1
<1>7. \A t \in Thread : Pc(t) \notin {"link", "erase"}
  BY <1>6 DEF Writing
<1>8. Files' = Files /\ Files \in SUBSET Entry
  BY <1>2 DEF Files, Named
<1>9. ChainsSound(blk, num)'
  BY <1>1, <1>2 DEF ChainsSound
<1>10. AllocationSound(blk, num)'
  <2>1. \A c : (Erased(c)' <=> Erased(c)) /\ (Owned(blk, num, c)' <=> Owned(blk, num, c))
    BY <1>2 DEF Erased, Owned
  <2>2. /\ \A c \in Block : table[c] = USED => Owned(blk, num, c)
        /\ \A c \in Block : table[c] = FREE => Erased(c)
    BY <1>1, <1>7 DEF AllocationSound
  <2> QED
    BY <1>2, <1>4, <2>1, <2>2 DEF AllocationSound
<1>11. CountsSound(blk, num)'
  BY <1>1, <1>2, <1>4, <1>5, <1>8 DEF CountsSound
<1>12. SizesSound(blk, put)'
  <2>1. \A e \in Entry : put[e] <= length[e] /\ BlockData * (BlocksFor(length[e]) - 1) <= put[e]
    BY <1>1 DEF SizesSound
  <2> QED
    BY <1>2, <1>4, <1>5, <2>1 DEF SizesSound
<1>13. DataSound(blk, num, put)'
  BY <1>1, <1>2, <1>5, <1>8 DEF DataSound
<1>14. DirectorySound(blk, put)'
  <2>1. \A d \in unsynced' : InUse(d)'
    BY <1>1, <1>2, <1>5 DEF Types
  <2>2. ASSUME NEW d \in Files'
        PROVE  /\ d \notin unsynced' => /\ dir'[d].size <= put[d]
                                        /\ dir'[d].size > 0 => dir'[d].first = blk[d][0]
               /\ ~InUse(d)' => dir'[d].size = length'[d] /\ dir'[d].first = FirstOf(blk, d, length'[d])
    <3>1. d \in Files /\ d \in Entry /\ ~Removing(d)
      BY <1>5, <1>8
    <3>2. /\ d \notin unsynced => /\ dir[d].size <= put[d]
                                  /\ dir[d].size > 0 => dir[d].first = blk[d][0]
          /\ ~InUse(d) => dir[d].size = length[d] /\ dir[d].first = FirstOf(blk, d, length[d])
      BY <1>1, <3>1 DEF DirectorySound
    <3> QED
      BY <1>2, <1>5, <3>1, <3>2
  <2> QED
    BY <2>1, <2>2 DEF DirectorySound, FirstOf
<1> QED
  BY <1>4, <1>9, <1>10, <1>11, <1>12, <1>13, <1>14 DEF FilesAre

LEMMA InitFiles == Init => FilesInv
<1> SUFFICES ASSUME Init PROVE FilesInv
  OBVIOUS
<1>1. PICK blk \in [Entry -> [Nat -> Block]] : TRUE
  <2>1. PICK b \in Block : TRUE
    <3>1. PICK s \in Nat, p \in Nat : s = Segments /\ p = PerSegment /\ s > 0 /\ p > 0
      BY Constants
    <3>2. s * p \in Nat /\ s * p > 0
      BY <3>1
    <3>3. 0 \in Block
      BY <3>1, <3>2 DEF Block
    <3> QED
      BY <3>3
  <2>2. [e \in Entry |-> [k \in Nat |-> b]] \in [Entry -> [Nat -> Block]]
    OBVIOUS
  <2> QED
    BY <2>2
<1>2. PICK zero \in [Entry -> Nat] : \A e \in Entry : zero[e] = 0
  <2>1. [e \in Entry |-> 0] \in [Entry -> Nat] /\ \A e \in Entry : [x \in Entry |-> 0][e] = 0
    OBVIOUS
  <2> QED
    BY <2>1
<1>3. /\ table = [b \in Block |-> AVAIL] /\ unsynced = {} /\ length = [e \in Entry |-> 0]
      /\ dir = [e \in Entry |-> [name |-> NoName, first |-> 0, size |-> 1]]
      /\ RamInit
  BY DEF Init
<1>4. Files = {}
  BY <1>3 DEF Files, Named
<1>5. /\ fcb = [i \in Slot |-> NoFcb] /\ handle = [i \in Slot |-> NoHandle]
      /\ at = [t \in Thread |-> Idle]
  BY <1>3 DEF RamInit
<1>6. \A u \in Thread : Pc(u) = "idle"
  BY <1>5 DEF Pc, Idle
<1>7. \A h \in Slot : FcbOf(h) = INVAL /\ handle[h].curr = INVAL
  BY <1>5 DEF FcbOf, NoHandle
<1>8. \A h \in Slot : ~ActiveWriter(h)
  BY <1>7 DEF ActiveWriter
<1>9. \A i \in Slot : fcb[i].id = INVAL
  BY <1>5 DEF NoFcb
<1>10. WritersSound(blk)
  BY <1>6, <1>8 DEF WritersSound
<1>11. CurrentSound(blk, zero)
  BY <1>7, NotInval DEF CurrentSound
<1>12. ChainsSound(blk, zero)
  BY <1>2 DEF ChainsSound
<1>13. AllocationSound(blk, zero)
  BY <1>3, <1>6 DEF AllocationSound, USED, FREE, AVAIL
<1>14. CountsSound(blk, zero)
  BY <1>2, <1>4, <1>6 DEF CountsSound
<1>15. SizesSound(blk, zero)
  <2>1. BlocksFor(0) = 0 /\ BlockData * (0 - 1) <= 0
    BY BlocksForIs, Constants
  <2>2. \A e \in Entry : length[e] = 0 /\ zero[e] = 0
    BY <1>2, <1>3
  <2> QED
    BY <1>9, <2>1, <2>2 DEF SizesSound
<1>16. DataSound(blk, zero, zero)
  BY <1>4 DEF DataSound
<1>17. DirectorySound(blk, zero)
  BY <1>3, <1>4 DEF DirectorySound
<1>18. FilesAre(blk, zero, zero)
  BY <1>10, <1>11, <1>12, <1>13, <1>14, <1>15, <1>16, <1>17 DEF FilesAre
<1> QED
  BY <1>18 DEF FilesInv
------------------------------------------------------------------------------
(* Every step has its witnesses.                                           *)
LEMMA SameFiles ==
  ASSUME UNCHANGED vars, NEW blk, NEW num, NEW put, FilesAre(blk, num, put)
  PROVE  FilesAre(blk, num, put)'
<1>1. UNCHANGED <<table, dir, next, data, fcb, handle, openFiles, root, tableLock, fcbLock, at,
                  unsynced, length>>
  BY DEF vars, eeprom, flash, ram, locks, history
<1>2. /\ \A t : Pc(t)' = Pc(t)
      /\ \A h : FcbOf(h)' = FcbOf(h)
      /\ \A e : (InUse(e)' <=> InUse(e)) /\ (Removing(e)' <=> Removing(e))
      /\ Files' = Files
  BY <1>1 DEF Pc, FcbOf, InUse, Removing, Files, Named
<1>3. /\ \A b : (Erased(b)' <=> Erased(b)) /\ (Owned(blk, num, b)' <=> Owned(blk, num, b))
      /\ \A h : (ActiveWriter(h)' <=> ActiveWriter(h))
      /\ \A h, pcs : Busy(h, pcs)' <=> Busy(h, pcs)
  BY <1>1 DEF Erased, Owned, ActiveWriter, Busy, Pc, FcbOf
<1>4. /\ ChainsSound(blk, num) /\ AllocationSound(blk, num) /\ CountsSound(blk, num)
      /\ SizesSound(blk, put) /\ DataSound(blk, num, put) /\ DirectorySound(blk, put)
      /\ WritersSound(blk) /\ CurrentSound(blk, num)
  BY DEF FilesAre
<1>5. ChainsSound(blk, num)'
  BY <1>1, <1>4 DEF ChainsSound
<1>6. AllocationSound(blk, num)'
  BY <1>1, <1>2, <1>3, <1>4 DEF AllocationSound
<1>7. CountsSound(blk, num)'
  BY <1>1, <1>2, <1>4 DEF CountsSound
<1>8. SizesSound(blk, put)'
  BY <1>1, <1>2, <1>3, <1>4 DEF SizesSound
<1>9. DataSound(blk, num, put)'
  BY <1>1, <1>2, <1>4 DEF DataSound
<1>10. DirectorySound(blk, put)'
  BY <1>1, <1>2, <1>4 DEF DirectorySound
<1>11. WritersSound(blk)'
  BY <1>1, <1>2, <1>3, <1>4 DEF WritersSound
<1>12. CurrentSound(blk, num)'
  BY <1>1, <1>2, <1>3, <1>4 DEF CurrentSound
<1> QED
  BY <1>5, <1>6, <1>7, <1>8, <1>9, <1>10, <1>11, <1>12 DEF FilesAre

LEMMA StepFiles ==
  ASSUME TablesInv, NEW t \in Thread, Step(t), FilesInv
  PROVE  FilesInv'
<1>1. PICK blk \in [Entry -> [Nat -> Block]], num \in [Entry -> Nat], put \in [Entry -> Nat] :
        FilesAre(blk, num, put)
  BY DEF FilesInv
<1>2. ASSUME FilesAre(blk, num, put)' PROVE FilesInv'
  BY <1>2 DEF FilesInv
<1>3. ASSUME NEW put2 \in [Entry -> Nat], FilesAre(blk, num, put2)' PROVE FilesInv'
  BY <1>3 DEF FilesInv
<1>4. ASSUME NEW blk2 \in [Entry -> [Nat -> Block]], NEW num2 \in [Entry -> Nat],
             FilesAre(blk2, num2, put)'
      PROVE  FilesInv'
  BY <1>4 DEF FilesInv
<1>5. CASE Open(t)
  <2>1. CASE AllocFcb(t)
    BY <1>1, <1>3, <2>1, AllocFcbFiles
  <2>2. CASE fsOpen(t) \/ OpenFind(t) \/ FindFcbOn(t) \/ ShareFcb(t)
    BY <1>1, <1>2, <2>2, FsOpenFiles, OpenFindFiles, FindFcbOnFiles, ShareFcbFiles
  <2>3. CASE AllocFcbOn(t) \/ OpenHandle(t)
    BY <1>1, <1>2, <2>3, AllocFcbOnFiles, OpenHandleFiles
  <2> QED
    BY <1>5, <2>1, <2>2, <2>3 DEF Open
<1>6. CASE Allocate(t)
  <2>1. CASE AllocateLink(t)
    BY <1>1, <1>4, <2>1, AllocateLinkFiles
  <2>2. CASE AllocateMark(t) \/ AllocateRecord(t) \/ AllocateErase(t) \/ AllocateFail(t)
    BY <1>1, <1>2, <2>2, AllocateMarkFiles, AllocateRecordFiles, AllocateEraseFiles,
       AllocateFailFiles
  <2> QED
    BY <1>6, <2>1, <2>2 DEF Allocate
<1>7. CASE Write(t)
  <2>1. CASE Program(t)
    BY <1>1, <1>3, <2>1, ProgramFiles
  <2>2. CASE fsWrite(t) \/ fsFlush(t) \/ Flush(t) \/ FlushDone(t)
    BY <1>1, <1>2, <2>2, FsWriteFiles, FsFlushFiles, FlushFiles, FlushDoneFiles
  <2> QED
    BY <1>7, <2>1, <2>2 DEF Write
<1>8. CASE Close(t)
  BY <1>1, <1>2, <1>8, FsCloseReaderFiles, FsBlockCloseFileFiles, FsFreeHandleFiles DEF Close
<1>9. CASE Remove(t)
  <2>1. CASE BlockFree(t)
    BY <1>1, <1>4, <2>1, BlockFreeFiles
  <2>2. CASE fsRemove(t) \/ RemoveRefused(t) \/ DelEntry(t)
    BY <1>1, <1>2, <2>2, FsRemoveFiles, RemoveRefusedFiles, DelEntryFiles
  <2> QED
    BY <1>9, <2>1, <2>2 DEF Remove
<1>10. CASE fsRename(t)
  BY <1>1, <1>2, <1>10, FsRenameFiles
<1> QED
  BY <1>5, <1>6, <1>7, <1>8, <1>9, <1>10 DEF Step

LEMMA NextFiles ==
  ASSUME TablesInv, FilesInv, [Next]_vars
  PROVE  FilesInv'
<1>1. PICK blk \in [Entry -> [Nat -> Block]], num \in [Entry -> Nat], put \in [Entry -> Nat] :
        FilesAre(blk, num, put)
  BY DEF FilesInv
<1>2. ASSUME FilesAre(blk, num, put)' PROVE FilesInv'
  BY <1>2 DEF FilesInv
<1>3. CASE Reset
  BY <1>1, <1>2, <1>3, ResetFiles
<1>4. CASE UNCHANGED vars
  BY <1>1, <1>2, <1>4, SameFiles
<1>5. CASE \E t \in Thread : Step(t)
  BY <1>5, StepFiles
<1> QED
  BY <1>3, <1>4, <1>5 DEF Next

(* The inductive invariant about the files: the table, the flash, the      *)
(* directory, the handles and the calls agree on which blocks each file    *)
(* has, in which order, what is in them and how much of it is written, in  *)
(* the middle of every call and after every reset the model follows.       *)
THEOREM FilesInvariant == Spec => []FilesInv
<1>1. TablesInv /\ FilesInv /\ [Next]_vars => FilesInv'
  BY NextFiles
<1> QED
  BY InitFiles, TablesInvariant, <1>1, PTL DEF Spec
------------------------------------------------------------------------------
(* What the invariant says of the blocks of a file.                        *)
BlockSet(blk, e, n) == {blk[e][k] : k \in 0..(n - 1)}

LEMMA ChainIs ==
  ASSUME NEW blk \in [Entry -> [Nat -> Block]], NEW num \in [Entry -> Nat],
         ChainsSound(blk, num), NEW e \in Entry, NEW n \in Nat, BlocksFor(n) <= num[e],
         NEW first, n > 0 => first = blk[e][0]
  PROVE  Chain(first, n) = BlockSet(blk, e, BlocksFor(n))
<1>1. \A k \in 0..(num[e] - 1) : Along(blk[e][0], k) = blk[e][k]
  BY AlongChain
<1>2. PICK q \in Nat : q = BlocksFor(n) /\ (q = 0 <=> n = 0)
  BY BlocksForIs
<1>3. PICK m \in Nat : m = num[e] /\ q <= m
  BY <1>2
<1>4. ASSUME NEW k \in 0..(q - 1) PROVE Along(first, k) = blk[e][k]
  <2>1. k \in 0..(num[e] - 1) /\ n > 0
    BY <1>2, <1>3, <1>4
  <2> QED
    BY <1>1, <2>1
<1>5. {Along(first, k) : k \in 0..(q - 1)} = {blk[e][k] : k \in 0..(q - 1)}
  BY <1>4
<1> QED
  BY <1>2, <1>5 DEF Chain, BlockSet

LEMMA FileHas ==
  ASSUME TablesInv, NEW blk, NEW num, CountsSound(blk, num), NEW e \in Files, ~Removing(e)
  PROVE  e \in Entry /\ length[e] \in Nat /\ num[e] = BlocksFor(length[e])
<1>1. length \in [Entry -> 0..MaxSize]
  BY DEF TablesInv, Types
<1>2. e \in Entry
  BY DEF Files
<1> QED
  BY <1>1, <1>2 DEF CountsSound

(* The blocks of an open file: what is on the flash, and the writer's.     *)
LEMMA OpenFileBlocks ==
  ASSUME TablesInv,
         NEW blk \in [Entry -> [Nat -> Block]], NEW num \in [Entry -> Nat],
         NEW put \in [Entry -> Nat], FilesAre(blk, num, put),
         NEW e \in Files, InUse(e)
  PROVE  BlocksOf(e) = BlockSet(blk, e, num[e])
<1>1. /\ ChainsSound(blk, num) /\ CountsSound(blk, num) /\ SizesSound(blk, put)
      /\ WritersSound(blk) /\ CurrentSound(blk, num)
  BY DEF FilesAre
<1>2. PICK i \in Slot : fcb[i].id = e
  BY DEF InUse
<1>3. e \in Entry /\ fcb[i].id # INVAL
  BY <1>2, NotInval DEF Files
<1>4. ~Removing(e) /\ FcbFor(e) = i
  BY <1>2, <1>3, FcbIsFile
<1>5. PICK m \in Nat : m = length[e] /\ num[e] = BlocksFor(m)
  BY <1>1, <1>4, FileHas
<1>6. PICK p \in Nat : p = put[e] /\ p <= m /\ BlockData * (BlocksFor(m) - 1) <= p
  BY <1>1, <1>3, <1>5 DEF SizesSound
<1>7. /\ fcb[i].size = p /\ fcb[i].first = FirstOf(blk, e, m)
      /\ p # m => \E h \in Slot : ActiveWriter(h) /\ FcbOf(h) = i
  BY <1>1, <1>2, <1>3, <1>5, <1>6 DEF SizesSound
<1>8. PICK q \in Nat, r \in Nat : q = BlocksFor(p) /\ r = BlocksFor(m) /\ (r = 0 <=> m = 0)
  BY BlocksForIs
<1>9. q <= r
  <2>1. CASE q = 0
    BY <2>1
  <2>2. CASE q > 0
    <3>1. PICK j \in Nat : q = j + 1
      BY <2>2
    <3>2. j < BlocksFor(p)
      BY <1>8, <3>1
    <3>3. BlockData * j < p
      BY <1>6, <3>2, UnitIsIn
    <3>4. BlockData * j \in Nat
      BY Constants
    <3>5. BlockData * j < m
      BY <1>6, <3>3, <3>4
    <3>6. j < r
      BY <1>8, <3>5, UnitIsIn
    <3> QED
      BY <3>1, <3>6
  <2> QED
    BY <2>1, <2>2
<1>10. Chain(fcb[i].first, fcb[i].size) = BlockSet(blk, e, q)
  <2>1. p > 0 => fcb[i].first = blk[e][0]
    BY <1>6, <1>7 DEF FirstOf
  <2>2. BlocksFor(p) <= num[e]
    BY <1>5, <1>8, <1>9
  <2> QED
    BY <1>1, <1>3, <1>7, <1>8, <2>1, <2>2, ChainIs
<1> DEFINE W == {handle[h].curr : h \in Writers(i)} \ {INVAL}
<1>11. BlocksOf(e) = BlockSet(blk, e, q) \cup W
  BY <1>4, <1>10 DEF BlocksOf
<1>12. BlockSet(blk, e, q) \subseteq BlockSet(blk, e, r)
  BY <1>9 DEF BlockSet
<1>13. ASSUME NEW b \in W PROVE b \in BlockSet(blk, e, r)
  <2>1. PICK h \in Writers(i) : b = handle[h].curr /\ b # INVAL
    OBVIOUS
  <2>2. h \in Slot /\ FcbOf(h) = i /\ ~Busy(h, {"close handle"}) /\ Appends(handle[h].mode)
    BY <2>1 DEF Writers, HandlesOf
  <2>3. \E k \in 0..(num[fcb[FcbOf(h)].id] - 1) : handle[h].curr = blk[fcb[FcbOf(h)].id][k]
    BY <1>1, <2>1, <2>2, Slots DEF CurrentSound
  <2> QED
    BY <1>2, <1>5, <1>8, <2>1, <2>2, <2>3 DEF BlockSet
<1>14. ASSUME NEW b \in BlockSet(blk, e, r), b \notin BlockSet(blk, e, q) PROVE b \in W
  <2>1. PICK k \in 0..(r - 1) : b = blk[e][k]
    BY <1>14 DEF BlockSet
  <2>2. k \in Nat /\ k < r /\ ~(k < q)
    BY <1>14, <2>1 DEF BlockSet
  <2>3. PICK x \in Nat : x = BlockData * k
    BY <2>2, Constants
  <2>4. p <= x /\ x < m
    BY <1>8, <2>2, <2>3, UnitIsIn
  <2>5. PICK h \in Slot : ActiveWriter(h) /\ FcbOf(h) = i
    BY <1>6, <1>7, <2>4
  <2>6. k = r - 1
    <3>1. PICK d \in Nat : d = BlockData /\ d > 0
      BY Constants
    <3>2. d * (r - 1) <= d * k
      BY <1>6, <1>8, <2>3, <2>4, <3>1
    <3>3. k < r - 1 => d * k + d <= d * (r - 1)
      BY <2>2, <3>1
    <3>4. d * k \in Nat /\ d * (r - 1) \in Int
      BY <2>2, <3>1
    <3> QED
      BY <2>2, <3>1, <3>2, <3>3, <3>4
  <2>7. handle[h].curr = LastOf(blk, e, m)
    BY <1>1, <1>2, <1>5, <2>5, WriterAt
  <2>8. m # 0
    BY <2>3, <2>4
  <2>9. handle[h].curr = blk[e][k]
    BY <1>8, <2>6, <2>7, <2>8 DEF LastOf
  <2>10. b \in Block /\ b # INVAL
    BY <1>3, <2>1, <2>2, NotInval
  <2>11. h \in Writers(i)
    BY <2>5, ActiveWriterIs DEF Writers, HandlesOf, ActiveWriter
  <2> QED
    BY <2>1, <2>9, <2>10, <2>11
<1> HIDE DEF W
<1>15. BlocksOf(e) = BlockSet(blk, e, r)
  BY <1>11, <1>12, <1>13, <1>14
<1> QED
  BY <1>5, <1>8, <1>15

(* The blocks that a removal has left.                                     *)
LEMMA RemovedFileBlocks ==
  ASSUME TablesInv,
         NEW blk \in [Entry -> [Nat -> Block]], NEW num \in [Entry -> Nat],
         ChainsSound(blk, num), CountsSound(blk, num),
         NEW e \in Files, ~InUse(e), Removers(e) # {}
  PROVE  BlocksOf(e) = BlockSet(blk, e, num[e])
<1>1. PICK t \in Thread : Pc(t) = "free" /\ at[t].id = e
  BY DEF Removers
<1>2. Removers(e) = {t}
  BY <1>1, OneAtATime DEF Removers
<1>3. e \in Entry
  BY DEF Files
<1>4. PICK n \in Nat : n = at[t].left
  <2>1. at[t] \in Locals /\ at[t].pc = "free"
    BY <1>1 DEF TablesInv, Types, Pc
  <2>2. at[t] \in FreeLocals
    BY <2>1, LocalsAre
  <2>3. at[t].left \in 0..MaxSize
    BY <2>2 DEF FreeLocals
  <2> QED
    BY <2>3
<1>5. num[e] = BlocksFor(n) /\ (n > 0 => at[t].b = blk[e][0])
  BY <1>1, <1>4 DEF CountsSound
<1>6. BlocksFor(n) <= num[e]
  BY <1>3, <1>5
<1>7. Chain(at[t].b, at[t].left) = BlockSet(blk, e, num[e])
  BY <1>3, <1>4, <1>5, <1>6, ChainIs
<1>8. UNION {Chain(at[u].b, at[u].left) : u \in {t}} = Chain(at[t].b, at[t].left)
  OBVIOUS
<1> QED
  BY <1>2, <1>7, <1>8 DEF BlocksOf

LEMMA FileBlocks ==
  ASSUME TablesInv,
         NEW blk \in [Entry -> [Nat -> Block]], NEW num \in [Entry -> Nat],
         NEW put \in [Entry -> Nat], FilesAre(blk, num, put), NEW e \in Files
  PROVE  BlocksOf(e) = BlockSet(blk, e, num[e])
<1>1. /\ ChainsSound(blk, num) /\ CountsSound(blk, num) /\ DirectorySound(blk, put)
  BY DEF FilesAre
<1>2. CASE InUse(e)
  BY <1>2, OpenFileBlocks
<1>3. CASE ~InUse(e) /\ Removers(e) # {}
  BY <1>1, <1>3, RemovedFileBlocks
<1>4. CASE ~InUse(e) /\ Removers(e) = {}
  <2>1. ~Removing(e)
    BY <1>4 DEF Removers, Removing
  <2>2. PICK m \in Nat : m = length[e] /\ num[e] = BlocksFor(m) /\ e \in Entry
    BY <1>1, <2>1, FileHas
  <2>3. dir[e].size = m /\ dir[e].first = FirstOf(blk, e, m)
    BY <1>1, <1>4, <2>1, <2>2 DEF DirectorySound
  <2>4. m > 0 => dir[e].first = blk[e][0]
    BY <2>3 DEF FirstOf
  <2>5. BlocksFor(m) <= num[e]
    BY <2>2
  <2>6. Chain(dir[e].first, dir[e].size) = BlockSet(blk, e, BlocksFor(m))
    BY <1>1, <2>2, <2>3, <2>4, <2>5, ChainIs
  <2> QED
    BY <1>4, <2>2, <2>6 DEF BlocksOf
<1> QED
  BY <1>2, <1>3, <1>4
------------------------------------------------------------------------------
LEMMA OwnedOnceHolds == TablesInv /\ FilesInv => OwnedOnce
<1> SUFFICES ASSUME TablesInv, FilesInv PROVE OwnedOnce
  OBVIOUS
<1>1. PICK blk \in [Entry -> [Nat -> Block]], num \in [Entry -> Nat], put \in [Entry -> Nat] :
        FilesAre(blk, num, put)
  BY DEF FilesInv
<1>2. \A e \in Files : e \in Entry /\ BlocksOf(e) = BlockSet(blk, e, num[e])
  BY <1>1, FileBlocks DEF Files
<1>3. ChainsSound(blk, num)
  BY <1>1 DEF FilesAre
<1>4. \A e \in Entry : \A k \in 0..(num[e] - 1) : blk[e][k] \in Block /\ table[blk[e][k]] = USED
  BY <1>3, OwnedUsed
<1>5. \A d, e \in Entry : \A j \in 0..(num[d] - 1), k \in 0..(num[e] - 1) :
        blk[d][j] = blk[e][k] => d = e /\ j = k
  BY <1>3 DEF ChainsSound
<1>6. ASSUME NEW e \in Files PROVE BlocksOf(e) \subseteq {b \in Block : table[b] = USED}
  BY <1>2, <1>4 DEF BlockSet
<1>7. ASSUME NEW e \in Files, NEW d \in Files \ {e} PROVE BlocksOf(e) \cap BlocksOf(d) = {}
  BY <1>2, <1>5 DEF BlockSet
<1> QED
  BY <1>6, <1>7 DEF OwnedOnce

LEMMA NothingLeaksHolds == TablesInv /\ FilesInv => NothingLeaks
<1> SUFFICES ASSUME TablesInv, FilesInv, NEW b \in Block, table[b] = USED,
                    ~ \E t \in Thread : Pc(t) = "link" /\ at[t].b = b
             PROVE  \E e \in Files : b \in BlocksOf(e)
  BY DEF NothingLeaks
<1>1. PICK blk \in [Entry -> [Nat -> Block]], num \in [Entry -> Nat], put \in [Entry -> Nat] :
        FilesAre(blk, num, put)
  BY DEF FilesInv
<1>2. AllocationSound(blk, num) /\ CountsSound(blk, num)
  BY <1>1 DEF FilesAre
<1>3. Owned(blk, num, b)
  BY <1>2 DEF AllocationSound
<1>4. PICK e \in Entry : \E k \in 0..(num[e] - 1) : blk[e][k] = b
  BY <1>3 DEF Owned
<1>5. PICK k \in 0..(num[e] - 1) : blk[e][k] = b
  BY <1>4
<1>6. num[e] # 0
  BY <1>5
<1>7. e \in Files
  BY <1>2, <1>6 DEF CountsSound
<1>8. b \in BlockSet(blk, e, num[e])
  BY <1>5 DEF BlockSet
<1> QED
  BY <1>1, <1>7, <1>8, FileBlocks

LEMMA FreeIsErasedHolds == FilesInv => FreeIsErased
<1> SUFFICES ASSUME FilesInv, NEW b \in Block, table[b] = FREE
             PROVE  \/ next[b] = INVAL /\ data[b] = [c \in Cell |-> Blank]
                    \/ \E t \in Thread : Pc(t) = "erase" /\ at[t].s = segNum(b)
  BY DEF FreeIsErased
<1>1. PICK blk \in [Entry -> [Nat -> Block]], num \in [Entry -> Nat], put \in [Entry -> Nat] :
        FilesAre(blk, num, put)
  BY DEF FilesInv
<1>2. AllocationSound(blk, num)
  BY <1>1 DEF FilesAre
<1> QED
  BY <1>2 DEF AllocationSound, Erased
------------------------------------------------------------------------------
(* What the flash holds of a file.                                         *)
LEMMA HoldsWhatIsPut ==
  ASSUME TablesInv,
         NEW blk \in [Entry -> [Nat -> Block]], NEW num \in [Entry -> Nat],
         NEW put \in [Entry -> Nat], FilesAre(blk, num, put),
         NEW e \in Files, ~Removing(e), NEW n \in Nat, n <= put[e], n > 0 => dir[e].first = blk[e][0]
  PROVE  Holds(e, n)
<1> SUFFICES ASSUME NEW p \in 0..(n - 1)
             PROVE  LET b == Along(dir[e].first, p \div BlockData)
                    IN  b \in Block /\ data[b][p % BlockData] = <<e, p>>
  BY DEF Holds
<1>1. /\ ChainsSound(blk, num) /\ CountsSound(blk, num) /\ SizesSound(blk, put)
      /\ DataSound(blk, num, put)
  BY DEF FilesAre
<1>2. PICK m \in Nat : m = length[e] /\ num[e] = BlocksFor(m) /\ e \in Entry
  BY <1>1, FileHas
<1>3. PICK s \in Nat : s = put[e] /\ s <= m
  BY <1>1, <1>2 DEF SizesSound
<1>4. p \in Nat /\ p < n /\ p < s /\ p < m
  BY <1>3
<1>5. PICK k \in Nat, c \in 0..(BlockData - 1) :
        k = p \div BlockData /\ c = p % BlockData /\ p = BlockData * k + c
  BY <1>4, QuotientIs
<1>6. PICK x \in Nat : x = BlockData * k /\ p = x + c
  BY <1>5, Constants
<1>7. x < m
  BY <1>4, <1>6
<1>8. k < BlocksFor(m)
  BY <1>6, <1>7, UnitIsIn
<1>9. k \in 0..(num[e] - 1)
  BY <1>2, <1>8
<1>10. dir[e].first = blk[e][0]
  BY <1>4
<1>11. Along(dir[e].first, k) = blk[e][k]
  BY <1>1, <1>2, <1>9, <1>10, AlongChain
<1>12. blk[e][k] \in Block /\ c \in Cell
  BY <1>2 DEF Cell
<1>13. data[blk[e][k]][c] = IF BlockData * k + c < put[e] THEN <<e, BlockData * k + c>> ELSE Blank
  BY <1>1, <1>9, <1>12 DEF DataSound
<1>14. data[blk[e][k]][c] = <<e, p>>
  BY <1>3, <1>4, <1>5, <1>13
<1> QED
  BY <1>5, <1>11, <1>12, <1>14

LEMMA FlushedSurvivesHolds == TablesInv /\ FilesInv => FlushedSurvives
<1> SUFFICES ASSUME TablesInv, FilesInv, NEW e \in Files, ~InChange(e)
             PROVE  dir[e].size = length[e] /\ Holds(e, length[e])
  BY DEF FlushedSurvives
<1>1. PICK blk \in [Entry -> [Nat -> Block]], num \in [Entry -> Nat], put \in [Entry -> Nat] :
        FilesAre(blk, num, put)
  BY DEF FilesInv
<1>2. /\ SizesSound(blk, put) /\ WritersSound(blk) /\ DirectorySound(blk, put)
      /\ CountsSound(blk, num) /\ e \in Entry
  BY <1>1 DEF FilesAre, Files
<1>3. /\ ~Removing(e) /\ put[e] = length[e]
      /\ InUse(e) => dir[e].size = length[e] /\ dir[e].first = FirstOf(blk, e, length[e])
  BY <1>2, Settled
<1>4. ~InUse(e) => dir[e].size = length[e] /\ dir[e].first = FirstOf(blk, e, length[e])
  BY <1>2, <1>3 DEF DirectorySound
<1>5. PICK n \in Nat : n = length[e]
  BY <1>2, <1>3, FileHas
<1>6. dir[e].size = n /\ (n > 0 => dir[e].first = blk[e][0]) /\ n <= put[e]
  BY <1>3, <1>4, <1>5 DEF FirstOf
<1>7. Holds(e, n)
  BY <1>1, <1>3, <1>6, HoldsWhatIsPut
<1> QED
  BY <1>5, <1>6, <1>7

LEMMA DirectoryBehindFlashHolds == TablesInv /\ FilesInv => DirectoryBehindFlash
<1> SUFFICES ASSUME TablesInv, FilesInv, NEW e \in Files \ unsynced, Removers(e) = {}
             PROVE  Holds(e, dir[e].size)
  BY DEF DirectoryBehindFlash
<1>1. PICK blk \in [Entry -> [Nat -> Block]], num \in [Entry -> Nat], put \in [Entry -> Nat] :
        FilesAre(blk, num, put)
  BY DEF FilesInv
<1>2. DirectorySound(blk, put) /\ ~Removing(e) /\ e \in Entry
  BY <1>1 DEF FilesAre, Removers, Removing, Files
<1>3. dir[e].size \in 0..MaxSize
  BY <1>2 DEF TablesInv, Types
<1>4. PICK n \in Nat : n = dir[e].size
  BY <1>3
<1>5. n <= put[e] /\ (n > 0 => dir[e].first = blk[e][0])
  BY <1>2, <1>4 DEF DirectorySound
<1>6. Holds(e, n)
  BY <1>1, <1>2, <1>5, HoldsWhatIsPut
<1> QED
  BY <1>4, <1>6

(* The types that TablesInv leaves open: a reference count is within the   *)
(* number of slots, and no handle has lost its block.                      *)
LEMMA TypeOKHolds == TablesInv /\ FilesInv => TypeOK
<1> SUFFICES ASSUME TablesInv, FilesInv PROVE TypeOK
  OBVIOUS
<1>1. Types /\ Counted
  BY DEF TablesInv
<1>2. ASSUME NEW i \in Slot PROVE fcb[i].refcount \in 0..MaxOpen
  <2>1. fcb[i].refcount \in Nat /\ fcb[i].refcount = Cardinality(Users(i))
    BY <1>1 DEF Types, Counted
  <2>2. Users(i) \subseteq Slot
    BY DEF Users
  <2>3. Cardinality(Users(i)) <= Cardinality(Slot)
    BY <2>2, Slots, FS_Subset
  <2> QED
    BY <2>1, <2>3, Slots, Constants
<1>3. ASSUME NEW h \in Slot PROVE handle[h].curr \in Block \cup {INVAL}
  <2>1. handle[h].curr \in Block \cup {INVAL, NoBlock}
    BY <1>1 DEF Types
  <2>2. handle[h].curr # NoBlock
    BY DEF FilesInv, FilesAre, CurrentSound
  <2> QED
    BY <2>1, <2>2
<1>4. fcb \in [Slot -> [id : Entry \cup {INVAL}, refcount : 0..MaxOpen, writer : BOOLEAN,
                        first : Block \cup {INVAL}, size : 0..MaxSize]]
  BY <1>1, <1>2 DEF Types
<1>5. handle \in [Slot -> [fcb : Slot \cup {INVAL}, mode : Mode \cup {"read"}, pos : 0..MaxSize,
                           curr : Block \cup {INVAL}]]
  BY <1>1, <1>3 DEF Types
<1>6. {root, tableLock} \cup {fcbLock[i] : i \in Slot} \subseteq Thread \cup {Nobody}
  BY <1>1 DEF Types
<1> QED
  BY <1>1, <1>4, <1>5, <1>6 DEF Types, TypeOK
------------------------------------------------------------------------------
(* The directory does not go back either: once a file has been written     *)
(* back, its size never shrinks and its first block stays, whichever of    *)
(* the calls that use it writes the entry, and in whatever order.          *)
DirectoryGrows ==
  [][\A e \in Files \ unsynced : /\ dir'[e].size >= dir[e].size
                                 /\ dir[e].size > 0 => dir'[e].first = dir[e].first]_vars

FieldsKept == \A e \in Entry : dir'[e].size = dir[e].size /\ dir'[e].first = dir[e].first

EntrySynced == \E i \in Slot : fcb[i].id # INVAL /\ fsBlockSyncEntry(fcb[i])

LEMMA EntrySteps ==
  ASSUME TablesInv, NEW t \in Thread, Step(t)
  PROVE  FieldsKept \/ EntrySynced
<1>1. dir \in [Entry -> [name : Name \cup {NoName}, first : Block \cup {INVAL}, size : 0..MaxSize]]
  BY DEF TablesInv, Types
<1>2. ASSUME dir' = dir PROVE FieldsKept
  BY <1>2 DEF FieldsKept
<1>3. ASSUME NEW e \in Entry, NEW n, dir' = [dir EXCEPT ![e].name = n] PROVE FieldsKept
  BY <1>1, <1>3 DEF FieldsKept
<1>4. CASE Open(t)
  <2>1. CASE AllocFcb(t)
    <3>1. at[t] \in Locals /\ at[t].pc = "alloc fcb"
      BY <2>1 DEF AllocFcb, TablesInv, Types, Pc
    <3>2. at[t].id \in Entry
      BY <3>1, LocalsAre DEF SearchLocals
    <3>3. dir' = dir \/ dir' = [dir EXCEPT ![at[t].id].name = at[t].new]
      BY <2>1 DEF AllocFcb
    <3> QED
      BY <1>2, <1>3, <3>2, <3>3
  <2>2. CASE fsOpen(t) \/ OpenFind(t) \/ FindFcbOn(t) \/ ShareFcb(t) \/ AllocFcbOn(t) \/ OpenHandle(t)
    BY <1>2, <2>2 DEF fsOpen, OpenFind, FindFcbOn, ShareFcb, AllocFcbOn, OpenHandle, eeprom
  <2> QED
    BY <1>4, <2>1, <2>2 DEF Open
<1>5. CASE Allocate(t)
  BY <1>2, <1>5 DEF Allocate, AllocateMark, AllocateRecord, AllocateErase, AllocateFail,
                    AllocateLink, eeprom
<1>6. CASE Write(t)
  <2>1. CASE Flush(t) \/ FlushDone(t)
    <3>1. Writing(t)
      BY <2>1 DEF Flush, FlushDone, Writing
    <3>2. PICK i \in Slot : i = FcbOf(at[t].h) /\ fcb[i].id \in Entry
      BY <3>1, WritingActs
    <3>3. fcb[i].id # INVAL
      BY <3>2, NotInval
    <3>4. dir' = dir \/ fsBlockSyncEntry(fcb[i])
      BY <2>1, <3>2 DEF Flush, FlushDone
    <3> QED
      BY <1>2, <3>3, <3>4 DEF EntrySynced
  <2>2. CASE fsWrite(t) \/ fsFlush(t) \/ Program(t)
    BY <1>2, <2>2 DEF fsWrite, fsFlush, Program, eeprom
  <2> QED
    BY <1>6, <2>1, <2>2 DEF Write
<1>7. CASE Close(t)
  <2>1. CASE fsBlockCloseFile(t)
    <3>1. Pc(t) = "close fcb"
      BY <2>1 DEF fsBlockCloseFile
    <3>2. PICK i \in Slot : i = at[t].i /\ fcb[i].id \in Entry
      BY <3>1, LastUser
    <3>3. fcb[i].id # INVAL
      BY <3>2, NotInval
    <3>4. dir' = dir \/ fsBlockSyncEntry(fcb[i])
      BY <2>1, <3>2 DEF fsBlockCloseFile
    <3> QED
      BY <1>2, <3>3, <3>4 DEF EntrySynced
  <2>2. CASE fsCloseReader(t) \/ fsFreeHandle(t)
    BY <1>2, <2>2 DEF fsCloseReader, fsFreeHandle, eeprom
  <2> QED
    BY <1>7, <2>1, <2>2 DEF Close
<1>8. CASE Remove(t)
  <2>1. CASE DelEntry(t)
    <3>1. at[t] \in Locals /\ at[t].pc = "free"
      BY <2>1 DEF DelEntry, TablesInv, Types, Pc
    <3>2. at[t].id \in Entry
      BY <3>1, LocalsAre DEF FreeLocals
    <3>3. dir' = [dir EXCEPT ![at[t].id].name = NoName]
      BY <2>1 DEF DelEntry
    <3> QED
      BY <1>3, <3>2, <3>3
  <2>2. CASE fsRemove(t) \/ RemoveRefused(t) \/ BlockFree(t)
    BY <1>2, <2>2 DEF fsRemove, RemoveRefused, BlockFree, eeprom
  <2> QED
    BY <1>8, <2>1, <2>2 DEF Remove
<1>9. CASE fsRename(t)
  <2>1. PICK e \in Entry \ Named(NoName), n \in Name : dir' = [dir EXCEPT ![e].name = n]
    BY <1>9 DEF fsRename
  <2> QED
    BY <1>3, <2>1
<1> QED
  BY <1>4, <1>5, <1>6, <1>7, <1>8, <1>9 DEF Step

LEMMA EntryGrows ==
  ASSUME TablesInv, FilesInv, FieldsKept \/ EntrySynced, NEW e \in Files \ unsynced
  PROVE  dir'[e].size >= dir[e].size /\ (dir[e].size > 0 => dir'[e].first = dir[e].first)
<1>1. dir \in [Entry -> [name : Name \cup {NoName}, first : Block \cup {INVAL}, size : 0..MaxSize]]
      /\ length \in [Entry -> 0..MaxSize]
  BY DEF TablesInv, Types
<1>2. e \in Entry
  BY DEF Files
<1>3. PICK n \in Nat : n = dir[e].size
  BY <1>1, <1>2
<1>4. CASE FieldsKept
  BY <1>2, <1>3, <1>4 DEF FieldsKept
<1>5. CASE EntrySynced
  <2>1. PICK i \in Slot : fcb[i].id # INVAL /\ fsBlockSyncEntry(fcb[i])
    BY <1>5 DEF EntrySynced
  <2>2. /\ \A d \in Entry : d # fcb[i].id => dir'[d] = dir[d]
        /\ dir'[fcb[i].id].first = fcb[i].first /\ dir'[fcb[i].id].size = fcb[i].size
    BY <2>1, EntryWritten
  <2>3. CASE e # fcb[i].id
    BY <1>2, <1>3, <2>2, <2>3
  <2>4. CASE e = fcb[i].id
    <3>1. PICK blk \in [Entry -> [Nat -> Block]], num \in [Entry -> Nat], put \in [Entry -> Nat] :
            FilesAre(blk, num, put)
      BY DEF FilesInv
    <3>2. SizesSound(blk, put) /\ DirectorySound(blk, put) /\ ~Removing(e)
      BY <2>1, <2>4, <3>1, FcbIsFile DEF FilesAre
    <3>3. n <= put[e] /\ (n > 0 => dir[e].first = blk[e][0])
      BY <1>3, <3>2 DEF DirectorySound
    <3>4. PICK p \in Nat, m \in Nat : p = put[e] /\ m = length[e] /\ p <= m
      BY <1>1, <1>2, <3>1, <3>2 DEF SizesSound
    <3>5. fcb[i].size = p /\ fcb[i].first = FirstOf(blk, e, m)
      BY <2>1, <2>4, <3>2, <3>4 DEF SizesSound
    <3>6. n > 0 => fcb[i].first = dir[e].first
      BY <3>3, <3>4, <3>5 DEF FirstOf
    <3> QED
      BY <1>3, <2>2, <2>4, <3>3, <3>4, <3>5, <3>6
  <2> QED
    BY <2>3, <2>4
<1> QED
  BY <1>4, <1>5
(* No two files have one name, and a file that is being created has one    *)
(* that no other has, because rootMutex is held from the search for it on. *)
NamesInv ==
  /\ \A d, e \in Files : dir[d].name = dir[e].name => d = e
  /\ \A t \in Thread : Pc(t) = "alloc fcb" /\ at[t].new # NoName => Named(at[t].new) = {}

SameNames == \A e \in Entry : dir'[e].name = dir[e].name

NewNames(t) == Pc(t) = "alloc fcb" /\ at[t].new # NoName => Named(at[t].new) = {}

LEMMA NamesKeepDifferent ==
  ASSUME NamesInv, SameNames, NEW t \in Thread, OthersStay(t), NewNames(t)'
  PROVE  NamesInv'
<1>1. Files' = Files /\ \A n : Named(n)' = Named(n)
  BY DEF SameNames, Files, Named
<1>2. ASSUME NEW d \in Files', NEW e \in Files', dir'[d].name = dir'[e].name PROVE d = e
  BY <1>1, <1>2 DEF NamesInv, SameNames, Files
<1>3. ASSUME NEW u \in Thread, Pc(u)' = "alloc fcb", at'[u].new # NoName
      PROVE  Named(at[u].new)' = {}
  <2>2. CASE u = t
    BY <1>3, <2>2 DEF NewNames
  <2>3. CASE u # t
    <3>1. at'[u] = at[u]
      BY <2>3 DEF OthersStay
    <3>2. Pc(u) = "alloc fcb" /\ at[u].new # NoName
      BY <1>3, <3>1 DEF Pc
    <3>3. Named(at[u].new) = {}
      BY <3>2 DEF NamesInv
    <3>4. Named(at[u].new)' = {e \in Entry : dir'[e].name = at[u].new}
      BY <3>1 DEF Named
    <3> QED
      BY <3>3, <3>4 DEF Named, SameNames
  <2> QED
    BY <2>2, <2>3
<1> QED
  BY <1>2, <1>3 DEF NamesInv

(* A step after which its thread is in no search for a control block.      *)
LEMMA NamesStay ==
  ASSUME NamesInv, SameNames, NEW t \in Thread, OthersStay(t), Pc(t)' # "alloc fcb"
  PROVE  NamesInv'
BY NamesKeepDifferent DEF NewNames

------------------------------------------------------------------------------
(* What a step does to the files.  Most steps concern one of them only, by *)
(* its control block i.                                                    *)
FcbFrame(i) ==
  \A j \in Slot \ {i} : /\ fcb'[j].id = fcb[j].id /\ fcb'[j].first = fcb[j].first
                        /\ fcb'[j].size = fcb[j].size /\ fcbLock'[j] = fcbLock[j]

HandleFrame(t, i, own) ==
  /\ \A h \in Slot \ {own} : handle'[h] = handle[h]
  /\ Pc(t) = "close handle" => at[t].h = own
  /\ Pc(t)' = "close handle" => at'[t].h = own
  /\ own \in Slot => handle[own].fcb \in {i, INVAL} /\ handle'[own].fcb \in {i, INVAL}

EntryFrame(e) ==
  \A x \in Entry \ {e} : /\ dir'[x] = dir[x] /\ length'[x] = length[x]
                         /\ (x \in unsynced') <=> (x \in unsynced)
                         /\ Removing(x)' <=> Removing(x)

OthersAlike(e) == EntryFrame(e) /\ \A x \in Entry \ {e} : InChange(x)' <=> InChange(x)

WritersKept(j) == \A h \in Slot : /\ (h \in Writers(j)') <=> (h \in Writers(j))
                                  /\ h \in Writers(j) => handle'[h].pos = handle[h].pos

LEMMA WritersFramed ==
  ASSUME NEW t \in Thread, OthersStay(t), NEW i, NEW own, HandleFrame(t, i, own),
         NEW j \in Slot, j # i
  PROVE  WritersKept(j)
<1> SUFFICES ASSUME NEW h \in Slot
             PROVE  /\ (h \in Writers(j)') <=> (h \in Writers(j))
                    /\ h \in Writers(j) => handle'[h].pos = handle[h].pos
  BY DEF WritersKept
<1>1. j # INVAL
  BY Slots
<1>2. CASE h = own
  <2>1. FcbOf(h) # j /\ FcbOf(h)' # j
    BY <1>1, <1>2 DEF HandleFrame, FcbOf
  <2> QED
    BY <2>1 DEF Writers, HandlesOf
<1>3. CASE h # own
  <2>1. handle'[h] = handle[h]
    BY <1>3 DEF HandleFrame
  <2>2. Busy(h, {"close handle"})' <=> Busy(h, {"close handle"})
    <3>1. ASSUME NEW u \in Thread
          PROVE  (Pc(u)' = "close handle" /\ at'[u].h = h) <=> (Pc(u) = "close handle" /\ at[u].h = h)
      <4>1. CASE u = t
        BY <1>3, <4>1 DEF HandleFrame
      <4>2. CASE u # t
        BY <4>2 DEF OthersStay, Pc
      <4> QED
        BY <4>1, <4>2
    <3> QED
      BY <3>1 DEF Busy
  <2> QED
    BY <2>1, <2>2 DEF Writers, HandlesOf, FcbOf
<1> QED
  BY <1>2, <1>3

(* An open file is in change if its control block says so.                 *)
ChangeAt(j) ==
  LET e == fcb[j].id
  IN  e # INVAL =>
        (InChange(e) <=> \/ Removing(e) \/ e \in unsynced \/ fcbLock[j] # Nobody
                         \/ fcb[j].first # dir[e].first \/ fcb[j].size # dir[e].size
                         \/ \E h \in Writers(j) : handle[h].pos # dir[e].size)

ChangesAre == \A j \in Slot : ChangeAt(j)

LEMMA ChangeIs == TablesInv => ChangesAre
<1> SUFFICES ASSUME TablesInv, NEW j \in Slot, fcb[j].id # INVAL PROVE ChangeAt(j)
  BY DEF ChangesAre, ChangeAt
<1>1. PICK x : x = fcb[j].id
  OBVIOUS
<1>2. InUse(x) /\ FcbFor(x) = j
  BY <1>1, FcbIsFile DEF InUse
<1>3. Removers(x) # {} <=> Removing(x)
  BY DEF Removers, Removing
<1> QED
  BY <1>1, <1>2, <1>3 DEF InChange, ChangeAt

LEMMA OthersAlikeIf ==
  ASSUME TablesInv, TablesInv', NEW t \in Thread, OthersStay(t),
         NEW i, NEW own, NEW e \in Entry, FcbFrame(i), HandleFrame(t, i, own), EntryFrame(e),
         i \in Slot => fcb[i].id \in {e, INVAL} /\ fcb'[i].id \in {e, INVAL}
  PROVE  OthersAlike(e)
<1> SUFFICES ASSUME NEW x \in Entry, x # e PROVE InChange(x)' <=> InChange(x)
  BY DEF OthersAlike
<1>1. x # INVAL
  BY NotInval
<1>2. InUse(x)' <=> InUse(x)
  BY <1>1 DEF InUse, FcbFrame
<1>3. Removing(x)' <=> Removing(x)
  BY DEF EntryFrame
<1>4. CASE InUse(x)
  <2>1. PICK j \in Slot : fcb[j].id = x
    BY <1>4 DEF InUse
  <2>2. j # i
    BY <1>1, <2>1
  <2>3. WritersKept(j)
    BY <2>2, WritersFramed
  <2>4. /\ fcb'[j].id = x /\ fcb'[j].first = fcb[j].first /\ fcb'[j].size = fcb[j].size
        /\ fcbLock'[j] = fcbLock[j] /\ dir'[x] = dir[x] /\ ((x \in unsynced') <=> (x \in unsynced))
    BY <2>1, <2>2 DEF FcbFrame, EntryFrame
  <2>5. InChange(x) <=>
           \/ Removing(x) \/ x \in unsynced \/ fcbLock[j] # Nobody
           \/ fcb[j].first # dir[x].first \/ fcb[j].size # dir[x].size
           \/ \E h \in Writers(j) : handle[h].pos # dir[x].size
    BY <1>1, <2>1, ChangeIs DEF ChangesAre, ChangeAt
  <2>6. ChangesAre'
    BY ChangeIs, PTL
  <2>7. InChange(x)' <=>
           \/ Removing(x)' \/ x \in unsynced' \/ fcbLock'[j] # Nobody
           \/ fcb'[j].first # dir'[x].first \/ fcb'[j].size # dir'[x].size
           \/ \E h \in Writers(j)' : handle'[h].pos # dir'[x].size
    BY <1>1, <2>4, <2>6 DEF ChangesAre, ChangeAt
  <2>8. Writers(j) \subseteq Slot /\ Writers(j)' \subseteq Slot
    BY DEF Writers, HandlesOf
  <2>9. (\E h \in Writers(j)' : handle'[h].pos # dir'[x].size)
          <=> \E h \in Writers(j) : handle[h].pos # dir[x].size
    BY <2>3, <2>4, <2>8 DEF WritersKept
  <2> QED
    BY <1>3, <2>4, <2>5, <2>7, <2>9
<1>5. CASE ~InUse(x)
  BY <1>2, <1>3, <1>5 DEF InChange, Removers, Removing
<1> QED
  BY <1>4, <1>5
------------------------------------------------------------------------------
(* How a file stands, in the words of the invariants.                      *)
Standing(e) ==
  /\ StateOf(e) = IF Removing(e) THEN "going" ELSE IF e \in unsynced THEN "new"
                  ELSE IF InChange(e) THEN "open" ELSE "safe"
  /\ Removing(e) => ~InUse(e)
  /\ length[e] \in Nat /\ dir[e].size \in Nat
  /\ ~Removing(e) /\ e \notin unsynced => dir[e].size <= length[e]
  /\ ~InChange(e) => dir[e].size = length[e] /\ e \notin unsynced /\ ~Removing(e)

FilesStand == \A e \in Files : Standing(e)

LEMMA FilesStandSo == TablesInv /\ FilesInv => FilesStand
<1> SUFFICES ASSUME TablesInv, FilesInv, NEW e \in Files PROVE Standing(e)
  BY DEF FilesStand
<1>1. PICK blk \in [Entry -> [Nat -> Block]], num \in [Entry -> Nat], put \in [Entry -> Nat] :
        FilesAre(blk, num, put)
  BY DEF FilesInv
<1>2. /\ SizesSound(blk, put) /\ WritersSound(blk) /\ DirectorySound(blk, put) /\ e \in Entry
  BY <1>1 DEF FilesAre, Files
<1>3. length[e] \in Nat /\ dir[e].size \in Nat
  BY <1>2, Constants DEF TablesInv, Types
<1>4. Removing(e) => ~InUse(e)
  BY DEF Removing, InUse, TablesInv, OneFcbEach, SearchOf
<1>5. ~Removing(e) /\ e \notin unsynced => dir[e].size <= length[e]
  <2>1. put[e] \in Nat /\ put[e] <= length[e]
    BY <1>1, <1>2 DEF SizesSound
  <2> QED
    BY <1>2, <1>3, <2>1 DEF DirectorySound
<1>6. ~InChange(e) => dir[e].size = length[e] /\ e \notin unsynced /\ ~Removing(e)
  <2>1. DirectorySound(blk, put) /\ SizesSound(blk, put) /\ WritersSound(blk)
    BY <1>2
  <2>2. ~InChange(e) => /\ ~Removing(e) /\ e \notin unsynced
                        /\ InUse(e) => dir[e].size = length[e]
    BY <1>2, <2>1, Settled
  <2> QED
    BY <1>2, <2>2 DEF DirectorySound
<1>7. Removers(e) # {} <=> Removing(e)
  BY DEF Removers, Removing
<1>8. ~Removing(e) /\ e \notin unsynced => Holds(e, dir[e].size)
  BY <1>7, DirectoryBehindFlashHolds DEF DirectoryBehindFlash
<1>9. StateOf(e) = IF Removing(e) THEN "going" ELSE IF e \in unsynced THEN "new"
                   ELSE IF InChange(e) THEN "open" ELSE "safe"
  BY <1>7, <1>8 DEF StateOf
<1> QED
  BY <1>3, <1>4, <1>5, <1>6, <1>9 DEF Standing

(* What a step may do to the file of entry e, as module FileSpec sees it.  *)
MayMove(e) ==
  \/ StateOf(e)' = StateOf(e) /\ length'[e] = length[e] /\ Found(e)' = Found(e)
  \/ /\ StateOf(e) = "safe" /\ StateOf(e)' = "open"
     /\ length'[e] = length[e] /\ Found(e)' = Found(e)
  \/ /\ StateOf(e) \in {"new", "open", "safe"} /\ length'[e] = length[e] + 1
     /\ StateOf(e)' = (IF StateOf(e) = "safe" THEN "open" ELSE StateOf(e))
     /\ Found(e)' = Found(e)
  \/ /\ StateOf(e) \in {"new", "open"} /\ StateOf(e)' \in {"open", "safe"}
     /\ Found(e)' \in Found(e)..length[e] /\ length'[e] = length[e]
     /\ StateOf(e)' = "safe" => Found(e)' = length[e]
  \/ /\ StateOf(e) = "safe" /\ StateOf(e)' = "going"
     /\ length'[e] = length[e] /\ Found(e)' = 0

(* A step that appends nothing and does not begin to remove the file.      *)
LEMMA MovesOn ==
  ASSUME FilesStand, FilesStand', SameNames, NEW e \in Files, length'[e] = length[e],
         Removing(e)' <=> Removing(e), (e \in unsynced') => e \in unsynced,
         e \notin unsynced => dir'[e].size >= dir[e].size
  PROVE  MayMove(e)
<1>1. e \in Files'
  BY DEF SameNames, Files, Named
<1>2. Standing(e) /\ Standing(e)'
  BY <1>1 DEF FilesStand
<1>3. PICK m \in Nat : m = length[e]
  BY <1>2 DEF Standing
<1>4. PICK k \in Nat : k = dir[e].size
  BY <1>2 DEF Standing
<1>5. PICK l \in Nat : l = dir'[e].size
  BY <1>2 DEF Standing
<1>6. CASE Removing(e)
  <2>1. StateOf(e) = "going" /\ StateOf(e)' = "going"
    BY <1>2, <1>6 DEF Standing
  <2> QED
    BY <2>1 DEF MayMove, Found
<1>7. CASE ~Removing(e) /\ e \in unsynced
  <2>1. StateOf(e) = "new" /\ Found(e) = 0
    BY <1>2, <1>7 DEF Standing, Found
  <2>2. CASE e \in unsynced'
    <3>1. StateOf(e)' = "new" /\ Found(e)' = 0
      BY <1>2, <1>7, <2>2 DEF Standing, Found
    <3> QED
      BY <2>1, <3>1 DEF MayMove
  <2>3. CASE e \notin unsynced'
    <3>1. StateOf(e)' \in {"open", "safe"} /\ Found(e)' = l
      BY <1>2, <1>5, <1>7, <2>3 DEF Standing, Found
    <3>2. l <= m /\ (StateOf(e)' = "safe" => l = m)
      BY <1>2, <1>3, <1>5, <1>7, <2>3 DEF Standing
    <3>3. Found(e)' \in Found(e)..length[e]
      BY <1>3, <2>1, <3>1, <3>2
    <3> QED
      BY <1>3, <2>1, <3>1, <3>2, <3>3 DEF MayMove
  <2> QED
    BY <2>2, <2>3
<1>8. CASE ~Removing(e) /\ e \notin unsynced
  <2>1. StateOf(e) = (IF InChange(e) THEN "open" ELSE "safe") /\ Found(e) = k
    BY <1>2, <1>4, <1>8 DEF Standing, Found
  <2>2. StateOf(e)' = (IF InChange(e)' THEN "open" ELSE "safe") /\ Found(e)' = l
    BY <1>2, <1>5, <1>8 DEF Standing, Found
  <2>3. k <= l /\ l <= m
    BY <1>2, <1>3, <1>4, <1>5, <1>8 DEF Standing
  <2>4. ~InChange(e) => k = m
    BY <1>2, <1>3, <1>4 DEF Standing
  <2>5. ~InChange(e)' => l = m
    BY <1>2, <1>3, <1>5 DEF Standing
  <2>6. CASE InChange(e)
    <3>1. StateOf(e) = "open" /\ StateOf(e)' \in {"open", "safe"}
      BY <2>1, <2>2, <2>6
    <3>2. Found(e)' \in Found(e)..length[e]
      BY <1>3, <2>1, <2>2, <2>3
    <3>3. StateOf(e)' = "safe" => Found(e)' = length[e]
      BY <1>3, <2>2, <2>5
    <3> QED
      BY <3>1, <3>2, <3>3 DEF MayMove
  <2>7. CASE ~InChange(e)
    <3>1. k = l
      BY <2>3, <2>4, <2>7
    <3> QED
      BY <2>1, <2>2, <2>7, <3>1 DEF MayMove
  <2> QED
    BY <2>6, <2>7
<1> QED
  BY <1>6, <1>7, <1>8

LEMMA MovesAhead ==
  ASSUME FilesStand, FilesStand', SameNames, NEW e \in Files, length'[e] = length[e] + 1,
         ~Removing(e), ~Removing(e)', (e \in unsynced') <=> (e \in unsynced),
         dir'[e].size = dir[e].size
  PROVE  MayMove(e)
<1>1. e \in Files'
  BY DEF SameNames, Files, Named
<1>2. Standing(e) /\ Standing(e)'
  BY <1>1 DEF FilesStand
<1>3. PICK m \in Nat : m = length[e]
  BY <1>2 DEF Standing
<1>4. CASE e \in unsynced
  <2>1. StateOf(e) = "new" /\ StateOf(e)' = "new" /\ Found(e) = 0 /\ Found(e)' = 0
    BY <1>2, <1>4 DEF Standing, Found
  <2> QED
    BY <2>1 DEF MayMove
<1>5. CASE e \notin unsynced
  <2>1. StateOf(e) \in {"open", "safe"} /\ Found(e) = dir[e].size
    BY <1>2, <1>5 DEF Standing, Found
  <2>2. StateOf(e)' = (IF InChange(e)' THEN "open" ELSE "safe") /\ Found(e)' = dir[e].size
    BY <1>2, <1>5 DEF Standing, Found
  <2>3. dir[e].size <= m /\ (~InChange(e)' => dir[e].size = m + 1) /\ dir[e].size \in Nat
    BY <1>2, <1>3, <1>5 DEF Standing
  <2>4. InChange(e)'
    BY <2>3
  <2> QED
    BY <2>1, <2>2, <2>4 DEF MayMove
<1> QED
  BY <1>4, <1>5

LEMMA MovesToRemoval ==
  ASSUME FilesStand, FilesStand', SameNames, NEW e \in Files, length'[e] = length[e],
         ~InChange(e), Removing(e)'
  PROVE  MayMove(e)
<1>1. e \in Files'
  BY DEF SameNames, Files, Named
<1>2. Standing(e) /\ Standing(e)'
  BY <1>1 DEF FilesStand
<1>3. StateOf(e) = "safe" /\ StateOf(e)' = "going" /\ Found(e)' = 0
  BY <1>2 DEF Standing, Found
<1> QED
  BY <1>3 DEF MayMove

(* A name's file.                                                          *)
LEMMA FileOfName ==
  ASSUME NamesInv, dir \in [Entry -> [name : Name \cup {NoName}, first : Block \cup {INVAL},
                                      size : 0..MaxSize]]
  PROVE  /\ \A n \in Name : Named(n) # {} => FileOf(n) \in Files /\ dir[FileOf(n)].name = n
         /\ \A e \in Files : /\ dir[e].name \in Name /\ Named(dir[e].name) # {}
                             /\ FileOf(dir[e].name) = e
<1>1. \A e \in Entry : dir[e].name \in Name \cup {NoName}
  OBVIOUS
<1>2. ASSUME NEW n \in Name, Named(n) # {} PROVE FileOf(n) \in Files /\ dir[FileOf(n)].name = n
  <2>1. \E e \in Entry : dir[e].name = n
    BY <1>2 DEF Named
  <2>2. FileOf(n) \in Entry /\ dir[FileOf(n)].name = n
    BY <2>1 DEF FileOf
  <2> QED
    BY <2>2, OtherConstants DEF Files, Named
<1>3. ASSUME NEW e \in Files
      PROVE  dir[e].name \in Name /\ Named(dir[e].name) # {} /\ FileOf(dir[e].name) = e
  <2>1. e \in Entry /\ dir[e].name # NoName
    BY DEF Files, Named
  <2>2. dir[e].name \in Name
    BY <1>1, <2>1
  <2>3. Named(dir[e].name) # {}
    BY <2>1 DEF Named
  <2>4. FileOf(dir[e].name) \in Files /\ dir[FileOf(dir[e].name)].name = dir[e].name
    BY <1>2, <2>2, <2>3
  <2> QED
    BY <2>2, <2>3, <2>4 DEF NamesInv
<1> QED
  BY <1>2, <1>3

(* What a program sees of the name of each file, and of the other names.   *)
SeenAt(n, s, w, k) == SeenState[n] = s /\ SeenWritten[n] = w /\ SeenStored[n] = k

NamesSeen ==
  /\ \A e \in Files : /\ dir[e].name \in Name /\ FileOf(dir[e].name) = e
                      /\ SeenAt(dir[e].name, StateOf(e), length[e], Found(e))
  /\ \A n \in Name : Named(n) = {} => SeenAt(n, "none", 0, 0)
  /\ \A n \in Name : Named(n) # {} => \E e \in Files : dir[e].name = n
  /\ SeenState = [n \in Name |-> SeenState[n]] /\ SeenWritten = [n \in Name |-> SeenWritten[n]]
  /\ SeenStored = [n \in Name |-> SeenStored[n]]

LEMMA NamesAreSeen == TablesInv /\ NamesInv => NamesSeen
<1> SUFFICES ASSUME TablesInv, NamesInv PROVE NamesSeen
  OBVIOUS
<1>1. dir \in [Entry -> [name : Name \cup {NoName}, first : Block \cup {INVAL}, size : 0..MaxSize]]
  BY DEF TablesInv, Types
<1>2. /\ \A n \in Name : Named(n) # {} => FileOf(n) \in Files /\ dir[FileOf(n)].name = n
      /\ \A e \in Files : /\ dir[e].name \in Name /\ Named(dir[e].name) # {}
                          /\ FileOf(dir[e].name) = e
  BY <1>1, FileOfName
<1>3. ASSUME NEW e \in Files
      PROVE  SeenAt(dir[e].name, StateOf(e), length[e], Found(e))
  BY <1>2 DEF SeenAt, SeenState, SeenWritten, SeenStored
<1>4. ASSUME NEW n \in Name, Named(n) = {} PROVE SeenAt(n, "none", 0, 0)
  BY <1>4 DEF SeenAt, SeenState, SeenWritten, SeenStored
<1>5. SeenState = [n \in Name |-> SeenState[n]] /\ SeenWritten = [n \in Name |-> SeenWritten[n]]
      /\ SeenStored = [n \in Name |-> SeenStored[n]]
  BY DEF SeenState, SeenWritten, SeenStored
<1> QED
  BY <1>2, <1>3, <1>4, <1>5 DEF NamesSeen

SeenOnlyAt(n) ==
  \A m \in Name \ {n} : /\ SeenState'[m] = SeenState[m] /\ SeenWritten'[m] = SeenWritten[m]
                        /\ SeenStored'[m] = SeenStored[m]

LEMMA SeenElsewhere ==
  ASSUME NamesSeen, NamesSeen', FilesStand, FilesStand', NEW e \in Entry, OthersAlike(e),
         NEW m \in Name, dir[e].name # m, dir'[e].name # m
  PROVE  /\ SeenState'[m] = SeenState[m] /\ SeenWritten'[m] = SeenWritten[m]
         /\ SeenStored'[m] = SeenStored[m]
<1>1. Named(m)' = Named(m)
  BY DEF OthersAlike, EntryFrame, Named
<1>2. CASE Named(m) = {}
  <2>1. SeenAt(m, "none", 0, 0) /\ SeenAt(m, "none", 0, 0)'
    BY <1>1, <1>2 DEF NamesSeen
  <2> QED
    BY <2>1 DEF SeenAt
<1>3. CASE Named(m) # {}
  <2>1. PICK x \in Files : dir[x].name = m
    BY <1>3 DEF NamesSeen
  <2>2. x \in Entry \ {e}
    BY <2>1 DEF Files
  <2>3. SeenAt(m, StateOf(x), length[x], Found(x))
    BY <2>1 DEF NamesSeen
  <2>4. /\ dir'[x] = dir[x] /\ length'[x] = length[x]
        /\ (x \in unsynced') <=> (x \in unsynced)
        /\ Removing(x)' <=> Removing(x)
    BY <2>2 DEF OthersAlike, EntryFrame
  <2>5. x \in Files'
    BY <2>1, <2>4 DEF Files, Named
  <2>6. SeenState'[m] = StateOf(x)' /\ SeenWritten'[m] = length'[x] /\ SeenStored'[m] = Found(x)'
    BY <2>1, <2>4, <2>5 DEF NamesSeen, SeenAt
  <2>7. InChange(x)' <=> InChange(x)
    BY <2>2 DEF OthersAlike
  <2>8. Standing(x) /\ Standing(x)'
    BY <2>1, <2>5 DEF FilesStand
  <2>9. StateOf(x)' = StateOf(x)
    BY <2>4, <2>7, <2>8 DEF Standing
  <2>10. Found(x)' = Found(x)
    BY <2>4, <2>9 DEF Found
  <2> QED
    BY <2>3, <2>4, <2>6, <2>9, <2>10 DEF SeenAt
<1> QED
  BY <1>2, <1>3

LEMMA SeenOthers ==
  ASSUME NamesSeen, NamesSeen', FilesStand, FilesStand', SameNames,
         NEW e \in Entry, OthersAlike(e)
  PROVE  SeenOnlyAt(dir[e].name)
BY SeenElsewhere DEF SeenOnlyAt, SameNames

(* From what is seen of one name to an action of FileSpec.                 *)
SeenTo(n, s, w, k) == /\ SeenState' = [SeenState EXCEPT ![n] = s]
                      /\ SeenWritten' = [SeenWritten EXCEPT ![n] = w]
                      /\ SeenStored' = [SeenStored EXCEPT ![n] = k]

LEMMA SeenOne ==
  ASSUME NamesSeen, NamesSeen', NEW n \in Name, SeenOnlyAt(n),
         NEW s, NEW w, NEW k, SeenAt(n, s, w, k)'
  PROVE  SeenTo(n, s, w, k)
<1>1. /\ SeenState = [m \in Name |-> SeenState[m]] /\ SeenWritten = [m \in Name |-> SeenWritten[m]]
      /\ SeenStored = [m \in Name |-> SeenStored[m]]
  BY DEF NamesSeen
<1>2. /\ SeenState' = [m \in Name |-> SeenState'[m]]
      /\ SeenWritten' = [m \in Name |-> SeenWritten'[m]]
      /\ SeenStored' = [m \in Name |-> SeenStored'[m]]
  BY DEF NamesSeen
<1>3. SeenState'[n] = s /\ SeenWritten'[n] = w /\ SeenStored'[n] = k
  BY DEF SeenAt
<1>4. SeenState' = [SeenState EXCEPT ![n] = s]
  <2>1. [SeenState EXCEPT ![n] = s] = [m \in Name |-> IF m = n THEN s ELSE SeenState[m]]
    BY <1>1
  <2>2. \A m \in Name : SeenState'[m] = IF m = n THEN s ELSE SeenState[m]
    BY <1>3 DEF SeenOnlyAt
  <2> QED
    BY <1>2, <2>1, <2>2
<1>5. SeenWritten' = [SeenWritten EXCEPT ![n] = w]
  <2>1. [SeenWritten EXCEPT ![n] = w] = [m \in Name |-> IF m = n THEN w ELSE SeenWritten[m]]
    BY <1>1
  <2>2. \A m \in Name : SeenWritten'[m] = IF m = n THEN w ELSE SeenWritten[m]
    BY <1>3 DEF SeenOnlyAt
  <2> QED
    BY <1>2, <2>1, <2>2
<1>6. SeenStored' = [SeenStored EXCEPT ![n] = k]
  <2>1. [SeenStored EXCEPT ![n] = k] = [m \in Name |-> IF m = n THEN k ELSE SeenStored[m]]
    BY <1>1
  <2>2. \A m \in Name : SeenStored'[m] = IF m = n THEN k ELSE SeenStored[m]
    BY <1>3 DEF SeenOnlyAt
  <2> QED
    BY <1>2, <2>1, <2>2
<1> QED
  BY <1>4, <1>5, <1>6 DEF SeenTo

LEMMA SeenSame ==
  ASSUME NamesSeen, NamesSeen',
         \A m \in Name : /\ SeenState'[m] = SeenState[m] /\ SeenWritten'[m] = SeenWritten[m]
                         /\ SeenStored'[m] = SeenStored[m]
  PROVE  UNCHANGED Promise!vars
<1>1. /\ SeenState = [m \in Name |-> SeenState[m]] /\ SeenWritten = [m \in Name |-> SeenWritten[m]]
      /\ SeenStored = [m \in Name |-> SeenStored[m]]
  BY DEF NamesSeen
<1>2. /\ SeenState' = [m \in Name |-> SeenState'[m]]
      /\ SeenWritten' = [m \in Name |-> SeenWritten'[m]]
      /\ SeenStored' = [m \in Name |-> SeenStored'[m]]
  BY DEF NamesSeen
<1> QED
  BY <1>1, <1>2 DEF Promise!vars

LEMMA PutBack ==
  ASSUME NEW f, NEW S, f = [m \in S |-> f[m]], NEW n \in S
  PROVE  [f EXCEPT ![n] = f[n]] = f
<1>1. \A m \in S : [f EXCEPT ![n] = f[n]][m] = f[m]
  OBVIOUS
<1>2. [f EXCEPT ![n] = f[n]] = [m \in S |-> [f EXCEPT ![n] = f[n]][m]]
  OBVIOUS
<1> QED
  BY <1>1, <1>2

LEMMA FileMoves ==
  ASSUME NamesSeen, NamesSeen', FilesStand, FilesStand', SameNames,
         NEW e \in Entry, OthersAlike(e), e \in Files => MayMove(e)
  PROVE  Promise!Next \/ UNCHANGED Promise!vars
<1>1. SeenOnlyAt(dir[e].name)
  BY SeenOthers
<1>2. CASE e \notin Files
  <2>1. dir[e].name = NoName
    BY <1>2 DEF Files, Named
  <2>2. dir[e].name \notin Name
    BY <2>1, OtherConstants
  <2> QED
    BY <1>1, <2>2, SeenSame DEF SeenOnlyAt
<1>3. CASE e \in Files
  <2>1. PICK n \in Name : n = dir[e].name /\ n = dir'[e].name
    BY <1>3 DEF NamesSeen, SameNames
  <2>2. e \in Files'
    BY <1>3 DEF SameNames, Files, Named
  <2>3. SeenState[n] = StateOf(e) /\ SeenWritten[n] = length[e] /\ SeenStored[n] = Found(e)
    BY <1>3, <2>1 DEF NamesSeen, SeenAt
  <2>4. SeenState'[n] = StateOf(e)' /\ SeenWritten'[n] = length'[e] /\ SeenStored'[n] = Found(e)'
    BY <2>1, <2>2 DEF NamesSeen, SeenAt
  <2>5. PICK s, w, k : s = StateOf(e)' /\ w = length'[e] /\ k = Found(e)'
    OBVIOUS
  <2>6. SeenAt(n, s, w, k)'
    BY <2>4, <2>5 DEF SeenAt
  <2>7. SeenTo(n, s, w, k)
    BY <1>1, <2>1, <2>6, SeenOne
  <2>8. /\ w = SeenWritten[n] => SeenWritten' = SeenWritten
        /\ k = SeenStored[n] => SeenStored' = SeenStored
    <3>1. [SeenWritten EXCEPT ![n] = SeenWritten[n]] = SeenWritten
      <4>1. SeenWritten = [m \in Name |-> SeenWritten[m]]
        BY DEF NamesSeen
      <4> QED
        BY <4>1, PutBack
    <3>2. [SeenStored EXCEPT ![n] = SeenStored[n]] = SeenStored
      <4>1. SeenStored = [m \in Name |-> SeenStored[m]]
        BY DEF NamesSeen
      <4> QED
        BY <4>1, PutBack
    <3> QED
      BY <2>7, <3>1, <3>2 DEF SeenTo
  <2>9. CASE s = StateOf(e) /\ w = length[e] /\ k = Found(e)
    BY <1>1, <2>1, <2>3, <2>4, <2>5, <2>9, SeenSame DEF SeenOnlyAt
  <2>10. CASE StateOf(e) = "safe" /\ s = "open" /\ w = length[e] /\ k = Found(e)
    <3>1. SeenWritten' = SeenWritten /\ SeenStored' = SeenStored
      BY <2>3, <2>10, <2>8
    <3>2. Promise!Take(n)
      BY <2>3, <2>7, <2>10, <3>1 DEF SeenTo, Promise!Take
    <3> QED
      BY <3>2 DEF Promise!Next
  <2>11. CASE /\ StateOf(e) \in {"new", "open", "safe"} /\ w = length[e] + 1
              /\ s = (IF StateOf(e) = "safe" THEN "open" ELSE StateOf(e)) /\ k = Found(e)
    <3>1. SeenStored' = SeenStored
      BY <2>3, <2>11, <2>8
    <3>2. SeenWritten' = [SeenWritten EXCEPT ![n] = @ + 1]
      BY <2>3, <2>7, <2>11 DEF SeenTo
    <3>3. SeenState' = [SeenState EXCEPT ![n] = IF @ = "safe" THEN "open" ELSE @]
      BY <2>3, <2>7, <2>11 DEF SeenTo
    <3>4. Promise!Append(n)
      BY <2>3, <2>11, <3>1, <3>2, <3>3 DEF Promise!Append
    <3> QED
      BY <3>4 DEF Promise!Next
  <2>12. CASE /\ StateOf(e) \in {"new", "open"} /\ s \in {"open", "safe"}
              /\ k \in Found(e)..length[e] /\ w = length[e]
              /\ s = "safe" => k = length[e]
    <3>1. SeenWritten' = SeenWritten
      BY <2>3, <2>12, <2>8
    <3>2. Promise!Store(n)
      BY <2>3, <2>7, <2>12, <3>1 DEF SeenTo, Promise!Store
    <3> QED
      BY <3>2 DEF Promise!Next
  <2>13. CASE StateOf(e) = "safe" /\ s = "going" /\ w = length[e] /\ k = 0
    <3>1. SeenWritten' = SeenWritten
      BY <2>3, <2>13, <2>8
    <3>2. Promise!BeginRemove(n)
      BY <2>3, <2>7, <2>13, <3>1 DEF SeenTo, Promise!BeginRemove
    <3> QED
      BY <3>2 DEF Promise!Next
  <2> QED
    BY <1>3, <2>5, <2>9, <2>10, <2>11, <2>12, <2>13 DEF MayMove
<1> QED
  BY <1>2, <1>3

------------------------------------------------------------------------------
(* The steps of the calls, but those that create, remove and rename: names *)
(* stay, one file at most moves.                                           *)
FileStep(t) == /\ SameNames /\ OthersStay(t) /\ NewNames(t)'
               /\ \E e \in Entry : OthersAlike(e) /\ (e \in Files => MayMove(e))

EntriesGrow == \A e \in Files \ unsynced : dir'[e].size >= dir[e].size

Stand == TablesInv /\ FilesStand

LEMMA ControlStep ==
  ASSUME Stand, Stand', EntriesGrow, NEW t \in Thread, OthersStay(t), SameNames, NewNames(t)',
         NEW i \in Slot, NEW own, NEW e \in Entry, FcbFrame(i), HandleFrame(t, i, own),
         EntryFrame(e), fcb[i].id \in {e, INVAL}, fcb'[i].id \in {e, INVAL},
         length'[e] = length[e], Removing(e)' <=> Removing(e), (e \in unsynced') => e \in unsynced
  PROVE  FileStep(t)
<1>1. OthersAlike(e)
  BY OthersAlikeIf DEF Stand
<1>2. ASSUME e \in Files PROVE MayMove(e)
  BY <1>2, MovesOn DEF Stand, EntriesGrow
<1> QED
  BY <1>1, <1>2 DEF FileStep

SameEntries == /\ dir' = dir /\ length' = length /\ unsynced' = unsynced
               /\ \A x \in Entry : Removing(x)' <=> Removing(x)

LEMMA CallStep ==
  ASSUME Stand, Stand', SameEntries, NEW t \in Thread, OthersStay(t), NewNames(t)',
         NEW i \in Slot, NEW own, FcbFrame(i), HandleFrame(t, i, own), fcb'[i].id = fcb[i].id
  PROVE  FileStep(t)
<1>1. SameNames
  BY DEF SameEntries, SameNames
<1>2. \A e \in Entry : EntryFrame(e)
  BY DEF SameEntries, EntryFrame
<1>3. EntriesGrow
  <2>1. \A e \in Files : dir[e].size \in Nat
    BY DEF Stand, FilesStand, Standing
  <2> QED
    BY <2>1 DEF SameEntries, EntriesGrow
<1>4. PICK e \in Entry : fcb[i].id \in {e, INVAL}
  <2>1. fcb[i].id \in Entry \cup {INVAL}
    BY DEF Stand, TablesInv, Types
  <2>2. 0 \in Entry
    BY Constants DEF Entry
  <2> QED
    BY <2>1, <2>2
<1>5. length'[e] = length[e] /\ (Removing(e)' <=> Removing(e)) /\ ((e \in unsynced') => e \in unsynced)
  BY DEF SameEntries
<1> QED
  BY <1>1, <1>2, <1>3, <1>4, <1>5, ControlStep

LEMMA GotoIs ==
  ASSUME TablesInv, NEW t \in Thread, NEW loc, Goto(t, loc)
  PROVE  OthersStay(t) /\ at'[t] = loc /\ Pc(t)' = loc.pc
<1>1. at' = [at EXCEPT ![t] = loc] /\ DOMAIN at = Thread
  BY DEF Goto, TablesInv, Types
<1> QED
  BY <1>1 DEF OthersStay, Pc

(* A step that leaves the entries, control blocks and handles alone.       *)
LEMMA StillStep ==
  ASSUME Stand, Stand', SameEntries, NEW t \in Thread, OthersStay(t), NewNames(t)',
         fcb' = fcb, fcbLock' = fcbLock, handle' = handle,
         Pc(t) # "close handle", Pc(t)' # "close handle"
  PROVE  FileStep(t)
<1>1. FcbFrame(0) /\ 0 \in Slot
  BY Slots DEF FcbFrame
<1>2. HandleFrame(t, 0, INVAL)
  BY Slots DEF HandleFrame
<1> QED
  BY <1>1, <1>2, CallStep

(* ... or locks, unlocks and changes one control block only.               *)
LEMMA LockStep ==
  ASSUME Stand, Stand', SameEntries, NEW t \in Thread, OthersStay(t), NewNames(t)',
         NEW i \in Slot, FcbFrame(i), fcb'[i].id = fcb[i].id, handle' = handle,
         Pc(t) # "close handle", Pc(t)' # "close handle"
  PROVE  FileStep(t)
<1>1. HandleFrame(t, i, INVAL)
  BY Slots DEF HandleFrame
<1> QED
  BY <1>1, CallStep

LEMMA SameEntriesIf ==
  ASSUME NEW t \in Thread, OthersStay(t), Pc(t) # "free", Pc(t)' # "free",
         dir' = dir, length' = length, unsynced' = unsynced
  PROVE  SameEntries
<1>1. \A x \in Entry : Removing(x)' <=> Removing(x)
  BY DEF Removing, OthersStay, Pc
<1> QED
  BY <1>1 DEF SameEntries

LEMMA FsOpenMoves ==
  ASSUME Stand, Stand', NEW t \in Thread, fsOpen(t)
  PROVE  FileStep(t)
<1>1. /\ dir' = dir /\ length' = length /\ unsynced' = unsynced /\ fcb' = fcb
      /\ fcbLock' = fcbLock /\ handle' = handle /\ Pc(t) = "idle"
  BY DEF fsOpen, eeprom, locks, history
<1>2. PICK loc : Goto(t, loc) /\ loc.pc = "open"
  BY DEF fsOpen
<1>3. OthersStay(t) /\ Pc(t)' = "open"
  BY <1>2, GotoIs DEF Stand
<1>4. SameEntries /\ NewNames(t)'
  BY <1>1, <1>3, SameEntriesIf DEF NewNames
<1> QED
  BY <1>1, <1>3, <1>4, StillStep

LEMMA OpenFindMoves ==
  ASSUME Stand, Stand', NEW t \in Thread, OpenFind(t)
  PROVE  FileStep(t)
<1>1. /\ dir' = dir /\ length' = length /\ unsynced' = unsynced /\ fcb' = fcb
      /\ fcbLock' = fcbLock /\ handle' = handle /\ Pc(t) = "open"
  BY DEF OpenFind, eeprom, history
<1>2. PICK n \in Name, mode \in Mode :
        LET found == Named(n)
            free  == IF found = {} /\ Appends(mode) THEN Named(NoName) ELSE {}
        IN  IF found \cup free = {}
            THEN FreeFd(t) /\ UNCHANGED root
            ELSE /\ root' = t
                 /\ Goto(t, [pc |-> IF found # {} THEN "find fcb" ELSE "alloc fcb",
                             op |-> "open", fd |-> at[t].fd, mode |-> mode,
                             new |-> IF found # {} THEN NoName ELSE n,
                             id |-> Least(found \cup free), i |-> 0])
                 /\ UNCHANGED openFiles
  BY DEF OpenFind
<1>3. \/ Goto(t, Idle)
      \/ \E p, q : Goto(t, [pc |-> IF Named(n) # {} THEN "find fcb" ELSE "alloc fcb",
                            op |-> "open", fd |-> at[t].fd, mode |-> mode,
                            new |-> IF Named(n) # {} THEN NoName ELSE n, id |-> p, i |-> q])
  BY <1>2 DEF FreeFd, Return
<1>4. CASE Goto(t, Idle)
  <2>1. OthersStay(t) /\ Pc(t)' = "idle"
    BY <1>4, GotoIs DEF Stand, Idle
  <2>2. SameEntries /\ NewNames(t)'
    BY <1>1, <2>1, SameEntriesIf DEF NewNames
  <2> QED
    BY <1>1, <2>1, <2>2, StillStep
<1>5. CASE \E p, q : Goto(t, [pc |-> IF Named(n) # {} THEN "find fcb" ELSE "alloc fcb",
                              op |-> "open", fd |-> at[t].fd, mode |-> mode,
                              new |-> IF Named(n) # {} THEN NoName ELSE n, id |-> p, i |-> q])
  <2>1. PICK p, q : Goto(t, [pc |-> IF Named(n) # {} THEN "find fcb" ELSE "alloc fcb",
                             op |-> "open", fd |-> at[t].fd, mode |-> mode,
                             new |-> IF Named(n) # {} THEN NoName ELSE n, id |-> p, i |-> q])
    BY <1>5
  <2> DEFINE loc == [pc |-> IF Named(n) # {} THEN "find fcb" ELSE "alloc fcb",
                     op |-> "open", fd |-> at[t].fd, mode |-> mode,
                     new |-> IF Named(n) # {} THEN NoName ELSE n, id |-> p, i |-> q]
  <2>2. /\ loc.pc = IF Named(n) # {} THEN "find fcb" ELSE "alloc fcb"
        /\ loc.new = IF Named(n) # {} THEN NoName ELSE n
    OBVIOUS
  <2>3. Goto(t, loc)
    BY <2>1
  <2> HIDE DEF loc
  <2>4. OthersStay(t) /\ at'[t] = loc /\ Pc(t)' = loc.pc
    BY <2>3, GotoIs DEF Stand
  <2>5. Named(n)' = Named(n)
    BY <1>1 DEF Named
  <2>6. ASSUME Pc(t)' = "alloc fcb" PROVE Named(at[t].new)' = {}
    <3>1. Named(n) = {} /\ at'[t].new = n
      BY <2>2, <2>4, <2>6
    <3>2. Named(at[t].new)' = {e \in Entry : dir'[e].name = n}
      BY <3>1 DEF Named
    <3> QED
      BY <1>1, <3>1, <3>2 DEF Named
  <2>7. NewNames(t)'
    BY <2>6 DEF NewNames
  <2>8. Pc(t)' \in {"find fcb", "alloc fcb"}
    BY <2>2, <2>4
  <2>9. SameEntries
    BY <1>1, <2>4, <2>8, SameEntriesIf
  <2> QED
    BY <1>1, <2>4, <2>7, <2>8, <2>9, StillStep
<1> QED
  BY <1>3, <1>4, <1>5

(* A step to a point outside of searches, removals and closes.             *)
LEMMA PlainStep ==
  ASSUME Stand, Stand', NEW t \in Thread, NEW loc, Goto(t, loc),
         loc.pc \notin {"alloc fcb", "free", "close handle"}, Pc(t) \notin {"free", "close handle"},
         UNCHANGED <<dir, fcb, fcbLock, handle, unsynced, length>>
  PROVE  FileStep(t)
<1>1. OthersStay(t) /\ Pc(t)' = loc.pc
  BY GotoIs DEF Stand
<1>2. SameEntries /\ NewNames(t)'
  BY <1>1, SameEntriesIf DEF NewNames
<1> QED
  BY <1>1, <1>2, StillStep

LEMMA PlainLockStep ==
  ASSUME Stand, Stand', NEW t \in Thread, NEW loc, Goto(t, loc),
         loc.pc \notin {"alloc fcb", "free", "close handle"}, Pc(t) \notin {"free", "close handle"},
         NEW i \in Slot, FcbFrame(i), fcb'[i].id = fcb[i].id,
         UNCHANGED <<dir, handle, unsynced, length>>
  PROVE  FileStep(t)
<1>1. OthersStay(t) /\ Pc(t)' = loc.pc
  BY GotoIs DEF Stand
<1>2. SameEntries /\ NewNames(t)'
  BY <1>1, SameEntriesIf DEF NewNames
<1> QED
  BY <1>1, <1>2, LockStep

LEMMA IdlePc == Idle.pc = "idle"
BY DEF Idle

(* The search passes a control block.                                      *)
LEMMA AllocFcbOnMoves ==
  ASSUME Stand, Stand', NamesInv, NEW t \in Thread, AllocFcbOn(t)
  PROVE  FileStep(t)
<1>1. /\ Pc(t) = "alloc fcb" /\ at[t] \in Locals
      /\ UNCHANGED <<dir, fcb, fcbLock, handle, unsynced, length>>
  BY DEF AllocFcbOn, eeprom, history, Stand, TablesInv, Types
<1>2. CASE at[t].i + 1 \in Slot
  <2>1. PICK loc : Goto(t, loc) /\ loc.pc = "alloc fcb" /\ loc.new = at[t].new
    <3>1. Resumed(at[t], [at[t] EXCEPT !.i = at[t].i + 1], "alloc fcb", at[t].i + 1)
      BY <1>1, <1>2, SearchGoesOn DEF Pc
    <3>2. Goto(t, [at[t] EXCEPT !.i = at[t].i + 1])
      BY <1>2 DEF AllocFcbOn
    <3> QED
      BY <1>1, <3>1, <3>2 DEF Resumed, Pc
  <2>2. OthersStay(t) /\ at'[t] = loc /\ Pc(t)' = loc.pc
    BY <2>1, GotoIs DEF Stand
  <2>3. NewNames(t)'
    <3>1. at'[t].new # NoName => Named(at[t].new) = {}
      BY <1>1, <2>1, <2>2 DEF NamesInv
    <3>2. Named(at[t].new)' = {e \in Entry : dir[e].name = at[t].new}
      BY <1>1, <2>1, <2>2 DEF Named
    <3> QED
      BY <3>1, <3>2 DEF NewNames, Named
  <2>4. SameEntries
    BY <1>1, <2>1, <2>2, SameEntriesIf
  <2> QED
    BY <1>1, <2>1, <2>2, <2>3, <2>4, StillStep
<1>3. CASE at[t].i + 1 \notin Slot
  <2>1. Goto(t, Idle)
    BY <1>3 DEF AllocFcbOn, FreeFd, Return
  <2> QED
    BY <1>1, <2>1, IdlePc, PlainStep
<1> QED
  BY <1>2, <1>3

(* It passes the last one of a file to be removed: nobody uses the file.   *)
LEMMA RemovalMoves ==
  ASSUME Stand, Stand', NEW t \in Thread, FindFcbOn(t), at[t].i + 1 \notin Slot, at[t].op # "open"
  PROVE  FileStep(t)
<1> DEFINE e == at[t].id
<1> DEFINE loc == [pc |-> "free", id |-> e, b |-> dir[e].first, left |-> dir[e].size]
<1>1. /\ UNCHANGED <<dir, fcb, fcbLock, handle, unsynced, length>>
      /\ Pc(t) = "find fcb" /\ fcb[at[t].i].id # e /\ Goto(t, loc)
  BY DEF FindFcbOn, eeprom, ram, locks, history
<1>2. loc.pc = "free" /\ loc.id = e
  OBVIOUS
<1>3. TablesInv /\ SearchOf(t) /\ at[t] \in Locals
  BY DEF Stand, TablesInv, OneFcbEach, Types
<1>4. e \in Entry /\ at[t].i \in Slot
  BY <1>1, <1>3, LocalsAre DEF Pc
<1> HIDE DEF loc
<1>5. OthersStay(t) /\ at'[t] = loc /\ Pc(t)' = "free"
  BY <1>1, <1>2, <1>3, GotoIs
<1>6. \A j \in Slot : fcb[j].id # e
  <2>0. \A j \in Slot : j <= at[t].i
    BY <1>4, Constants DEF Slot
  <2>1. \A j \in Slot : j < at[t].i \/ j = at[t].i
    <3>1. at[t].i \in Nat /\ \A j \in Slot : j \in Nat
      BY <1>4, Slots
    <3> QED
      BY <2>0, <3>1
  <2>2. \A j \in Slot : j < at[t].i => fcb[j].id # e
    BY <1>1, <1>3 DEF SearchOf
  <2> QED
    BY <1>1, <2>1, <2>2
<1>7. e \in Files /\ ~InUse(e)
  BY <1>1, <1>3, <1>4, <1>6 DEF SearchOf, Files, Named, InUse
<1>8. \A u \in Thread : Pc(u) # "free"
  BY <1>1, <1>3, OneAtATime
<1>9. ~InChange(e)
  BY <1>7, <1>8 DEF InChange, Removers
<1>10. \A d : Removing(d)' <=> d = e
  <2>1. \A u \in Thread : Pc(u)' = "free" <=> u = t
    BY <1>5, <1>8 DEF OthersStay, Pc
  <2> QED
    <3>1. at'[t].id = e
      BY <1>2, <1>5
    <3> QED
      BY <2>1, <3>1 DEF Removing
<1>11. SameNames /\ EntryFrame(e)
  BY <1>1, <1>8, <1>10 DEF SameNames, EntryFrame, Removing
<1>12. MayMove(e)
  BY <1>1, <1>7, <1>9, <1>10, <1>11, MovesToRemoval DEF Stand
<1>13. FcbFrame(INVAL) /\ HandleFrame(t, INVAL, INVAL) /\ INVAL \notin Slot
  BY <1>1, <1>5, Slots DEF FcbFrame, HandleFrame
<1>14. OthersAlike(e)
  BY <1>3, <1>4, <1>5, <1>11, <1>13, OthersAlikeIf DEF Stand
<1>15. NewNames(t)'
  BY <1>5 DEF NewNames
<1> QED
  BY <1>4, <1>5, <1>11, <1>12, <1>14, <1>15 DEF FileStep

LEMMA FindFcbOnMoves ==
  ASSUME Stand, Stand', NEW t \in Thread, FindFcbOn(t)
  PROVE  FileStep(t)
<1>1. /\ Pc(t) = "find fcb" /\ at[t] \in Locals /\ SearchOf(t)
      /\ UNCHANGED <<dir, fcb, fcbLock, handle, unsynced, length>>
  BY DEF FindFcbOn, eeprom, ram, locks, history, Stand, TablesInv, OneFcbEach, Types
<1>2. CASE at[t].i + 1 \in Slot
  <2>1. Resumed(at[t], [at[t] EXCEPT !.i = at[t].i + 1], "find fcb", at[t].i + 1)
    BY <1>1, <1>2, SearchGoesOn DEF Pc
  <2>2. Goto(t, [at[t] EXCEPT !.i = at[t].i + 1])
    BY <1>2 DEF FindFcbOn
  <2>3. PICK loc : Goto(t, loc) /\ loc.pc = "find fcb"
    BY <2>1, <2>2 DEF Resumed
  <2> QED
    BY <1>1, <2>3, PlainStep
<1>3. CASE at[t].i + 1 \notin Slot /\ at[t].op = "open"
  <2>1. Resumed(at[t], [at[t] EXCEPT !.pc = "alloc fcb", !.i = 0], "alloc fcb", 0)
    BY <1>1, <1>3, Slots, SearchAllocates DEF Pc
  <2>2. Goto(t, [at[t] EXCEPT !.pc = "alloc fcb", !.i = 0])
    BY <1>3 DEF FindFcbOn
  <2>3. PICK loc : Goto(t, loc) /\ loc.pc = "alloc fcb" /\ loc.new = at[t].new
    BY <1>3, <2>1, <2>2 DEF Resumed
  <2>4. OthersStay(t) /\ at'[t] = loc /\ Pc(t)' = loc.pc
    BY <2>3, GotoIs DEF Stand
  <2>5. at'[t].new = NoName
    BY <1>1, <1>3, <2>3, <2>4 DEF SearchOf
  <2>6. SameEntries /\ NewNames(t)'
    BY <1>1, <2>3, <2>4, <2>5, SameEntriesIf DEF NewNames
  <2> QED
    BY <1>1, <2>3, <2>4, <2>6, StillStep
<1>4. CASE at[t].i + 1 \notin Slot /\ at[t].op # "open"
  BY <1>4, RemovalMoves
<1> QED
  BY <1>2, <1>3, <1>4

LEMMA RemoveCallsMove ==
  ASSUME Stand, Stand', NEW t \in Thread, fsRemove(t) \/ RemoveRefused(t) \/ fsCloseReader(t)
  PROVE  FileStep(t)
<1>1. UNCHANGED <<dir, fcb, fcbLock, handle, unsynced, length>>
  BY DEF fsRemove, RemoveRefused, fsCloseReader, eeprom, ram, locks, history
<1>2. CASE fsRemove(t)
  <2>1. PICK e : Goto(t, [pc |-> "find fcb", op |-> "remove", id |-> e, i |-> 0])
    BY <1>2 DEF fsRemove
  <2>2. PICK loc : Goto(t, loc) /\ loc.pc = "find fcb"
    <3> DEFINE l == [pc |-> "find fcb", op |-> "remove", id |-> e, i |-> 0]
    <3>1. Goto(t, l) /\ l.pc = "find fcb"
      BY <2>1
    <3> HIDE DEF l
    <3> QED
      BY <3>1
  <2>3. Pc(t) = "idle"
    BY <1>2 DEF fsRemove
  <2> QED
    BY <1>1, <2>2, <2>3, PlainStep
<1>3. CASE RemoveRefused(t)
  <2>1. Pc(t) = "find fcb" /\ Goto(t, Idle)
    BY <1>3 DEF RemoveRefused, Return
  <2> QED
    BY <1>1, <2>1, IdlePc, PlainStep
<1>4. CASE fsCloseReader(t)
  <2>1. PICK fd : Goto(t, [pc |-> "close fcb", fd |-> fd, i |-> FcbOf(openFiles[fd].handle),
                           h |-> openFiles[fd].handle])
    BY <1>4 DEF fsCloseReader
  <2>2. PICK loc : Goto(t, loc) /\ loc.pc = "close fcb"
    <3> DEFINE l == [pc |-> "close fcb", fd |-> fd, i |-> FcbOf(openFiles[fd].handle),
                     h |-> openFiles[fd].handle]
    <3>1. Goto(t, l) /\ l.pc = "close fcb"
      BY <2>1
    <3> HIDE DEF l
    <3> QED
      BY <3>1
  <2>3. Pc(t) = "idle"
    BY <1>4 DEF fsCloseReader
  <2> QED
    BY <1>1, <2>2, <2>3, PlainStep
<1> QED
  BY <1>2, <1>3, <1>4

LEMMA AllocateMoves ==
  ASSUME Stand, Stand', NEW t \in Thread,
         AllocateMark(t) \/ AllocateRecord(t) \/ AllocateErase(t)
  PROVE  FileStep(t)
<1>1. /\ UNCHANGED <<dir, fcb, fcbLock, handle, unsynced, length>>
      /\ Pc(t) \in {"allocate", "erase"}
  BY DEF AllocateMark, AllocateRecord, AllocateErase, ram, locks, history
<1>2. \/ \E b : Goto(t, [pc |-> "link", h |-> at[t].h, b |-> b])
      \/ \E s : Goto(t, [pc |-> "erase", h |-> at[t].h, s |-> s])
  BY DEF AllocateMark, AllocateRecord, AllocateErase
<1>3. PICK loc : Goto(t, loc) /\ loc.pc \in {"link", "erase"}
  <2>1. CASE \E b : Goto(t, [pc |-> "link", h |-> at[t].h, b |-> b])
    <3>1. PICK b : Goto(t, [pc |-> "link", h |-> at[t].h, b |-> b])
      BY <2>1
    <3> DEFINE l == [pc |-> "link", h |-> at[t].h, b |-> b]
    <3>2. Goto(t, l) /\ l.pc = "link"
      BY <3>1
    <3> HIDE DEF l
    <3> QED
      BY <3>2
  <2>2. CASE \E s : Goto(t, [pc |-> "erase", h |-> at[t].h, s |-> s])
    <3>1. PICK s : Goto(t, [pc |-> "erase", h |-> at[t].h, s |-> s])
      BY <2>2
    <3> DEFINE l == [pc |-> "erase", h |-> at[t].h, s |-> s]
    <3>2. Goto(t, l) /\ l.pc = "erase"
      BY <3>1
    <3> HIDE DEF l
    <3> QED
      BY <3>2
  <2> QED
    BY <1>2, <2>1, <2>2
<1> QED
  BY <1>1, <1>3, PlainStep

(* A removal frees one block.                                              *)
LEMMA BlockFreeMoves ==
  ASSUME Stand, Stand', NEW t \in Thread, BlockFree(t)
  PROVE  FileStep(t)
<1>1. /\ UNCHANGED <<dir, fcb, fcbLock, handle, unsynced, length>> /\ Pc(t) = "free"
  BY DEF BlockFree, ram, locks, history
<1>2. PICK b, left : Goto(t, [at[t] EXCEPT !.b = b, !.left = left])
  BY DEF BlockFree
<1>3. at[t] \in FreeLocals
  <2>1. at[t] \in Locals
    BY DEF Stand, TablesInv, Types
  <2> QED
    BY <1>1, <2>1, LocalsAre DEF Pc
<1>4. PICK loc : Goto(t, loc) /\ loc.pc = "free" /\ loc.id = at[t].id
  <2> DEFINE l == [at[t] EXCEPT !.b = b, !.left = left]
  <2>1. Goto(t, l) /\ l.pc = "free" /\ l.id = at[t].id
    BY <1>2, <1>3 DEF FreeLocals
  <2> HIDE DEF l
  <2> QED
    BY <2>1
<1>5. OthersStay(t) /\ at'[t] = loc /\ Pc(t)' = "free"
  BY <1>4, GotoIs DEF Stand
<1>6. \A x \in Entry : Removing(x)' <=> Removing(x)
  <2> SUFFICES ASSUME NEW x \in Entry PROVE Removing(x)' <=> Removing(x)
    OBVIOUS
  <2>1. \A u \in Thread : (Pc(u)' = "free" /\ at'[u].id = x) <=> (Pc(u) = "free" /\ at[u].id = x)
    BY <1>1, <1>4, <1>5 DEF OthersStay, Pc
  <2> QED
    BY <2>1 DEF Removing
<1>7. SameEntries /\ NewNames(t)'
  BY <1>1, <1>5, <1>6 DEF SameEntries, NewNames
<1> QED
  BY <1>1, <1>5, <1>7, StillStep

(* Calls that lock or unlock a control block, or count a user of it.       *)
LEMMA ShareFcbMoves ==
  ASSUME Stand, Stand', NEW t \in Thread, ShareFcb(t)
  PROVE  FileStep(t)
<1> DEFINE i == at[t].i
<1>1. /\ UNCHANGED <<dir, fcbLock, handle, unsynced, length>> /\ Pc(t) = "find fcb"
  BY DEF ShareFcb, eeprom, history
<1>2. i \in Slot
  <2>1. at[t] \in Locals
    BY DEF Stand, TablesInv, Types
  <2> QED
    BY <1>1, <2>1, LocalsAre DEF Pc
<1>3. \/ fcb' = fcb
      \/ fcb' = [fcb EXCEPT ![i].refcount = @ + 1, ![i].writer = @ \/ Appends(at[t].mode)]
  BY DEF ShareFcb
<1>4. \A j \in Slot : fcb'[j].id = fcb[j].id /\ fcb'[j].first = fcb[j].first
                      /\ fcb'[j].size = fcb[j].size
  <2>1. fcb \in [Slot -> FcbRecords]
    BY DEF Stand, TablesInv, Types, FcbRecords
  <2> QED
    BY <1>2, <1>3, <2>1 DEF FcbRecords
<1>5. FcbFrame(i) /\ fcb'[i].id = fcb[i].id
  BY <1>1, <1>2, <1>4 DEF FcbFrame
<1>6. PICK loc : Goto(t, loc) /\ loc.pc \in {"idle", "alloc handle"}
  <2>1. \/ Goto(t, Idle)
        \/ Goto(t, [pc |-> "alloc handle", fd |-> at[t].fd, i |-> i, mode |-> at[t].mode])
    BY DEF ShareFcb, FreeFd, Return
  <2> DEFINE l == [pc |-> "alloc handle", fd |-> at[t].fd, i |-> i, mode |-> at[t].mode]
  <2>2. (Goto(t, Idle) \/ Goto(t, l)) /\ l.pc = "alloc handle"
    BY <2>1
  <2> HIDE DEF l
  <2> QED
    BY <2>2, IdlePc
<1> QED
  BY <1>1, <1>2, <1>5, <1>6, PlainLockStep

(* UnlockFcb() of a call that writes.                                      *)
LEMMA Unlocked ==
  ASSUME TablesInv, NEW t \in Thread, Writing(t), UnlockFcb(t)
  PROVE  \A j \in Slot \ {FcbOf(at[t].h)} : fcbLock'[j] = fcbLock[j]
<1>1. \A j \in Slot : fcbLock[j] = t <=> FcbOf(at[t].h) = j
  BY DEF TablesInv, LocksHeld, LocksOf
<1> QED
  BY <1>1 DEF UnlockFcb

LEMMA FsFlushMoves ==
  ASSUME Stand, Stand', NEW t \in Thread, fsFlush(t)
  PROVE  FileStep(t)
<1>1. UNCHANGED <<dir, fcb, handle, unsynced, length>> /\ Pc(t) = "idle"
  BY DEF fsFlush, eeprom, ram, history
<1>2. PICK fd \in Opened(t), op \in {"sync", "close"} :
        /\ LockFcb(t, FcbOf(openFiles[fd].handle))
        /\ Goto(t, [pc |-> "flush", op |-> op, h |-> openFiles[fd].handle, fd |-> fd])
  BY DEF fsFlush
<1>3. PICK loc : Goto(t, loc) /\ loc.pc = "flush"
  <2> DEFINE l == [pc |-> "flush", op |-> op, h |-> openFiles[fd].handle, fd |-> fd]
  <2>1. Goto(t, l) /\ l.pc = "flush"
    BY <1>2
  <2> HIDE DEF l
  <2> QED
    BY <2>1
<1>4. FcbOf(openFiles[fd].handle) \in Slot
  BY <1>1, IdleOwner DEF Stand
<1>5. FcbFrame(FcbOf(openFiles[fd].handle))
  BY <1>1, <1>2 DEF FcbFrame, LockFcb
<1> QED
  BY <1>1, <1>3, <1>4, <1>5, PlainLockStep

LEMMA AllocateFailMoves ==
  ASSUME Stand, Stand', NEW t \in Thread, AllocateFail(t)
  PROVE  FileStep(t)
<1>1. /\ UNCHANGED <<dir, fcb, handle, unsynced, length>> /\ Pc(t) = "allocate"
      /\ Goto(t, Idle) /\ UnlockFcb(t) /\ Writing(t)
  BY DEF AllocateFail, eeprom, ram, history, Return, Writing
<1>2. FcbOf(at[t].h) \in Slot
  BY <1>1, WritingActs DEF Stand
<1>3. FcbFrame(FcbOf(at[t].h))
  BY <1>1, Unlocked DEF FcbFrame, Stand
<1> QED
  BY <1>1, <1>2, <1>3, IdlePc, PlainLockStep

LEMMA ProgramMoves ==
  ASSUME Stand, Stand', NEW t \in Thread, Program(t)
  PROVE  FileStep(t)
<1>1. /\ UNCHANGED <<dir, fcbLock, handle, unsynced, length>> /\ Pc(t) = "program"
      /\ fcb' = [fcb EXCEPT ![FcbOf(at[t].h)].size = handle[at[t].h].pos]
      /\ Goto(t, [at[t] EXCEPT !.pc = "flush"]) /\ Writing(t)
  BY DEF Program, eeprom, locks, history, Writing
<1>2. PICK i \in Slot : i = FcbOf(at[t].h)
  BY <1>1, WritingActs DEF Stand
<1>3. fcb \in [Slot -> FcbRecords] /\ at[t] \in Locals
  BY DEF Stand, TablesInv, Types, FcbRecords
<1>4. FcbFrame(i) /\ fcb'[i].id = fcb[i].id
  BY <1>1, <1>2, <1>3 DEF FcbFrame, FcbRecords
<1>5. PICK loc : Goto(t, loc) /\ loc.pc = "flush"
  <2>1. FlushResumed(at[t], [at[t] EXCEPT !.pc = "flush"], "flush")
    BY <1>1, <1>3, FlushGoesOn DEF Pc
  <2> QED
    BY <1>1, <2>1 DEF FlushResumed
<1> QED
  BY <1>1, <1>4, <1>5, PlainLockStep

(* What a write of entry e changes in the directory.                       *)
SyncedOnly(e) ==
  /\ SameNames /\ EntryFrame(e) /\ length' = length
  /\ (Removing(e)' <=> Removing(e)) /\ ((e \in unsynced') => e \in unsynced)

LEMMA SyncedIs ==
  ASSUME TablesInv, NEW i \in Slot, NEW e, e = fcb[i].id, e # INVAL,
         fsBlockSyncEntry(fcb[i]) \/ UNCHANGED <<dir, unsynced>>, length' = length,
         NEW t \in Thread, OthersStay(t), Pc(t) # "free", Pc(t)' # "free"
  PROVE  SyncedOnly(e)
<1>1. \A x \in Entry : Removing(x)' <=> Removing(x)
  BY DEF Removing, OthersStay, Pc
<1>2. e \in Entry
  BY FcbIsFile
<1>3. CASE UNCHANGED <<dir, unsynced>>
  BY <1>1, <1>2, <1>3 DEF SyncedOnly, SameNames, EntryFrame
<1>4. CASE fsBlockSyncEntry(fcb[i])
  <2>1. /\ unsynced' = unsynced \ {e}
        /\ \A d \in Entry : d # e => dir'[d] = dir[d]
    BY <1>4, EntryWritten
  <2>2. SameNames
    <3>1. fcb[i].id \in Entry /\ fcb[i].first \in Block \cup {INVAL} /\ fcb[i].size \in 0..MaxSize
      BY <1>2 DEF TablesInv, Types
    <3>2. PICK f : f = fcb[i]
      OBVIOUS
    <3>3. Types /\ f.id \in Entry /\ f.first \in Block \cup {INVAL} /\ f.size \in 0..MaxSize
          /\ fsBlockSyncEntry(f)
      BY <1>4, <3>1, <3>2 DEF TablesInv
    <3>4. \A d \in Entry : dir'[d].name = dir[d].name
      BY <3>3, SyncEntryIs
    <3> QED
      BY <3>4 DEF SameNames
  <2> QED
    BY <1>1, <1>2, <2>1, <2>2 DEF SyncedOnly, EntryFrame
<1> QED
  BY <1>3, <1>4

LEMMA SyncStepMoves ==
  ASSUME Stand, Stand', EntriesGrow, NEW t \in Thread, OthersStay(t),
         NEW i \in Slot, NEW own, FcbFrame(i), HandleFrame(t, i, own),
         NEW e \in Entry, fcb[i].id = e, fcb'[i].id \in {e, INVAL}, SyncedOnly(e),
         Pc(t)' # "alloc fcb"
  PROVE  FileStep(t)
<1>2. NewNames(t)'
  BY DEF NewNames
<1>3. /\ SameNames /\ EntryFrame(e) /\ length'[e] = length[e] /\ (Removing(e)' <=> Removing(e))
      /\ ((e \in unsynced') => e \in unsynced)
  BY DEF SyncedOnly
<1> QED
  BY <1>2, <1>3, ControlStep

LEMMA FlushMoves ==
  ASSUME Stand, Stand', EntriesGrow, NEW t \in Thread, Flush(t)
  PROVE  FileStep(t)
<1>1. /\ UNCHANGED <<fcb, fcbLock, handle, length>> /\ Pc(t) = "flush"
      /\ fsBlockSyncEntry(fcb[FcbOf(at[t].h)]) \/ UNCHANGED <<dir, unsynced>>
      /\ Goto(t, [at[t] EXCEPT !.pc = "program"]) /\ Writing(t)
  BY DEF Flush, ram, locks, Writing
<1>2. PICK i \in Slot, e \in Entry : i = FcbOf(at[t].h) /\ e = fcb[i].id
  BY <1>1, WritingActs DEF Stand
<1>3. PICK loc : Goto(t, loc) /\ loc.pc = "program"
  <2>1. at[t] \in Locals
    BY DEF Stand, TablesInv, Types
  <2>2. FlushResumed(at[t], [at[t] EXCEPT !.pc = "program"], "program")
    BY <1>1, <2>1, FlushGoesOn DEF Pc
  <2> QED
    BY <1>1, <2>2 DEF FlushResumed
<1>4. OthersStay(t) /\ Pc(t)' = "program"
  BY <1>3, GotoIs DEF Stand
<1>5. SyncedOnly(e)
  BY <1>1, <1>2, <1>4, SyncedIs, NotInval DEF Stand
<1>6. FcbFrame(i) /\ HandleFrame(t, i, INVAL)
  BY <1>1, <1>4, Slots DEF FcbFrame, HandleFrame
<1> QED
  BY <1>1, <1>2, <1>4, <1>5, <1>6, SyncStepMoves

LEMMA FlushDoneMoves ==
  ASSUME Stand, Stand', EntriesGrow, NEW t \in Thread, FlushDone(t)
  PROVE  FileStep(t)
<1>1. /\ UNCHANGED <<handle, length>> /\ Pc(t) = "flush" /\ UnlockFcb(t) /\ Writing(t)
      /\ fsBlockSyncEntry(fcb[FcbOf(at[t].h)]) \/ UNCHANGED <<dir, unsynced>>
  BY DEF FlushDone, Writing
<1>2. PICK i \in Slot, e \in Entry : i = FcbOf(at[t].h) /\ e = fcb[i].id
  BY <1>1, WritingActs DEF Stand
<1>3. PICK loc : Goto(t, loc) /\ loc.pc \in {"close fcb", "idle"}
  <2> DEFINE l == [pc |-> "close fcb", fd |-> at[t].fd, i |-> FcbOf(at[t].h), h |-> at[t].h]
  <2>1. (Goto(t, l) \/ Goto(t, Idle)) /\ l.pc = "close fcb"
    BY DEF FlushDone, Return
  <2> HIDE DEF l
  <2> QED
    BY <2>1, IdlePc
<1>4. OthersStay(t) /\ Pc(t)' \in {"close fcb", "idle"}
  BY <1>3, GotoIs DEF Stand
<1>5. SyncedOnly(e)
  BY <1>1, <1>2, <1>4, SyncedIs, NotInval DEF Stand
<1>6. fcb' = fcb \/ fcb' = [fcb EXCEPT ![i].writer = FALSE]
  BY <1>2 DEF FlushDone
<1>7. \A j \in Slot : fcb'[j].id = fcb[j].id /\ fcb'[j].first = fcb[j].first
                      /\ fcb'[j].size = fcb[j].size
  <2>1. fcb \in [Slot -> FcbRecords]
    BY DEF Stand, TablesInv, Types, FcbRecords
  <2> QED
    BY <1>2, <1>6, <2>1 DEF FcbRecords
<1>8. FcbFrame(i) /\ HandleFrame(t, i, INVAL)
  <2>1. \A j \in Slot \ {i} : fcbLock'[j] = fcbLock[j]
    BY <1>1, <1>2, Unlocked DEF Stand
  <2> QED
    BY <1>1, <1>4, <1>7, <2>1, Slots DEF FcbFrame, HandleFrame
<1> QED
  BY <1>2, <1>4, <1>5, <1>7, <1>8, SyncStepMoves

LEMMA FsBlockCloseFileMoves ==
  ASSUME Stand, Stand', EntriesGrow, NEW t \in Thread, fsBlockCloseFile(t)
  PROVE  FileStep(t)
<1>1. /\ UNCHANGED <<fcbLock, handle, length>> /\ Pc(t) = "close fcb"
      /\ fsBlockSyncEntry(fcb[at[t].i]) \/ UNCHANGED <<dir, unsynced>>
      /\ \/ fcb' = [fcb EXCEPT ![at[t].i] = NoFcb]
         \/ fcb' = [fcb EXCEPT ![at[t].i].refcount = @ - 1]
      /\ Goto(t, [pc |-> "close handle", fd |-> at[t].fd, h |-> at[t].h])
  BY DEF fsBlockCloseFile, locks
<1>2. PICK i \in Slot, h \in Slot, e \in Entry :
        i = at[t].i /\ h = at[t].h /\ FcbOf(h) = i /\ e = fcb[i].id
  BY <1>1, LastUser DEF Stand
<1>3. PICK loc : Goto(t, loc) /\ loc.pc = "close handle" /\ loc.h = h
  <2> DEFINE l == [pc |-> "close handle", fd |-> at[t].fd, h |-> at[t].h]
  <2>1. Goto(t, l) /\ l.pc = "close handle" /\ l.h = h
    BY <1>1, <1>2
  <2> HIDE DEF l
  <2> QED
    BY <2>1
<1>4. OthersStay(t) /\ at'[t] = loc /\ Pc(t)' = "close handle"
  BY <1>3, GotoIs DEF Stand
<1>5. SyncedOnly(e)
  BY <1>1, <1>2, <1>4, SyncedIs, NotInval DEF Stand
<1>6. fcb'[i].id \in {e, INVAL} /\ \A j \in Slot \ {i} : fcb'[j] = fcb[j]
  <2>1. fcb \in [Slot -> FcbRecords]
    BY DEF Stand, TablesInv, Types, FcbRecords
  <2>2. CASE fcb' = [fcb EXCEPT ![i] = NoFcb]
    BY <2>1, <2>2 DEF NoFcb
  <2>3. CASE fcb' = [fcb EXCEPT ![i].refcount = @ - 1]
    BY <1>2, <2>1, <2>3 DEF FcbRecords
  <2> QED
    BY <1>1, <1>2, <2>2, <2>3
<1>7. FcbFrame(i) /\ HandleFrame(t, i, h)
  BY <1>1, <1>2, <1>3, <1>4, <1>6 DEF FcbFrame, HandleFrame, FcbOf
<1> QED
  BY <1>2, <1>4, <1>5, <1>6, <1>7, SyncStepMoves

LEMMA FsFreeHandleMoves ==
  ASSUME Stand, Stand', NEW t \in Thread, fsFreeHandle(t)
  PROVE  FileStep(t)
<1>1. /\ UNCHANGED <<dir, fcb, fcbLock, unsynced, length>> /\ Pc(t) = "close handle" /\ Goto(t, Idle)
  BY DEF fsFreeHandle, FreeFd, Return, eeprom, locks, history
<1>2. PICK h \in Slot : h = at[t].h
  <2>1. at[t] \in ClosedLocals
    BY <1>1, CallTypes, LocalsAre DEF Pc, Stand, TablesInv
  <2> QED
    BY <2>1 DEF ClosedLocals
<1>3. handle' = [handle EXCEPT ![h] = NoHandle]
  BY <1>2 DEF fsFreeHandle
<1>4. PICK i \in Slot : handle[h].fcb \in {i, INVAL}
  <2>1. handle[h].fcb \in Slot \cup {INVAL}
    BY DEF Stand, TablesInv, Types
  <2> QED
    BY <2>1, Slots
<1>5. handle'[h].fcb = INVAL /\ \A g \in Slot \ {h} : handle'[g] = handle[g]
  BY <1>3 DEF Stand, TablesInv, Types, NoHandle
<1>6. OthersStay(t) /\ Pc(t)' = "idle"
  BY <1>1, IdlePc, GotoIs DEF Stand
<1>7. FcbFrame(i) /\ HandleFrame(t, i, h)
  BY <1>1, <1>2, <1>4, <1>5, <1>6 DEF FcbFrame, HandleFrame
<1>8. SameEntries /\ NewNames(t)'
  BY <1>1, <1>6, SameEntriesIf DEF NewNames
<1> QED
  BY <1>1, <1>6, <1>7, <1>8, CallStep

LEMMA OpenHandleMoves ==
  ASSUME Stand, Stand', NEW t \in Thread, OpenHandle(t)
  PROVE  FileStep(t)
<1>1. fcbLock' = fcbLock
  BY DEF OpenHandle, locks
<1>2. PICK i \in Slot, h \in Slot : \E new : NewHandle(t, i, h, new)
  BY OpenHandleIs DEF Stand
<1>3. PICK new : NewHandle(t, i, h, new)
  BY <1>2
<1>4. /\ Pc(t) = "alloc handle" /\ Pc(t)' = "idle" /\ OthersStay(t)
      /\ FcbOf(h) = INVAL /\ handle'[h].fcb = i /\ \A g \in Slot : g # h => handle'[g] = handle[g]
      /\ UNCHANGED <<dir, fcb, unsynced, length>>
  BY <1>3 DEF NewHandle, Pc
<1>5. FcbFrame(i) /\ HandleFrame(t, i, h)
  BY <1>1, <1>4 DEF FcbFrame, HandleFrame, FcbOf
<1>6. SameEntries /\ NewNames(t)'
  BY <1>4, SameEntriesIf DEF NewNames
<1> QED
  BY <1>4, <1>5, <1>6, CallStep

(* A control block for a file that was not open.                           *)
LEMMA OldFcbMoves ==
  ASSUME Stand, Stand', NEW t \in Thread, AllocFcb(t), at[t].new = NoName
  PROVE  FileStep(t)
<1>1. /\ UNCHANGED <<dir, fcbLock, handle, unsynced, length>> /\ Pc(t) = "alloc fcb"
      /\ fcb[at[t].i].id = INVAL
      /\ Goto(t, [pc |-> "alloc handle", fd |-> at[t].fd, i |-> at[t].i, mode |-> at[t].mode])
  BY DEF AllocFcb, history
<1>2. PICK i \in Slot, e \in Entry : i = at[t].i /\ e = at[t].id
  <2>1. at[t] \in SearchLocals
    BY <1>1, CallTypes, LocalsAre DEF Pc, Stand, TablesInv
  <2> QED
    BY <2>1 DEF SearchLocals
<1>3. fcb'[i].id = e /\ \A j \in Slot \ {i} : fcb'[j] = fcb[j]
  <2>1. PICK r : fcb' = [fcb EXCEPT ![i] = r] /\ r.id = e
    <3> DEFINE r == [id |-> at[t].id, refcount |-> 1, writer |-> Appends(at[t].mode),
                     first |-> IF at[t].new # NoName THEN INVAL ELSE dir[at[t].id].first,
                     size  |-> IF at[t].new # NoName THEN 0 ELSE dir[at[t].id].size]
    <3>1. fcb' = [fcb EXCEPT ![i] = r] /\ r.id = e
      BY <1>2 DEF AllocFcb
    <3> HIDE DEF r
    <3> QED
      BY <3>1
  <2>2. fcb \in [Slot -> FcbRecords]
    BY DEF Stand, TablesInv, Types, FcbRecords
  <2> QED
    BY <2>1, <2>2
<1>4. PICK loc : Goto(t, loc) /\ loc.pc = "alloc handle"
  <2> DEFINE l == [pc |-> "alloc handle", fd |-> at[t].fd, i |-> at[t].i, mode |-> at[t].mode]
  <2>1. Goto(t, l) /\ l.pc = "alloc handle"
    BY <1>1
  <2> HIDE DEF l
  <2> QED
    BY <2>1
<1>5. OthersStay(t) /\ Pc(t)' = "alloc handle"
  BY <1>4, GotoIs DEF Stand
<1>6. SameEntries /\ NewNames(t)'
  BY <1>1, <1>5, SameEntriesIf DEF NewNames
<1>7. FcbFrame(i) /\ HandleFrame(t, i, INVAL)
  BY <1>1, <1>3, <1>5, Slots DEF FcbFrame, HandleFrame
<1>8. EntriesGrow /\ SameNames /\ EntryFrame(e)
  <2>1. \A d \in Files : dir[d].size \in Nat
    BY DEF Stand, FilesStand, Standing
  <2> QED
    BY <1>6, <2>1 DEF SameEntries, SameNames, EntryFrame, EntriesGrow
<1>9. /\ length'[e] = length[e] /\ (Removing(e)' <=> Removing(e))
      /\ ((e \in unsynced') => e \in unsynced)
  BY <1>6 DEF SameEntries
<1> QED
  BY <1>1, <1>2, <1>3, <1>5, <1>6, <1>7, <1>8, <1>9, ControlStep

LEMMA AppendedMoves ==
  ASSUME Stand, Stand', NEW t \in Thread, NEW h \in Slot, NEW i \in Slot, NEW e \in Entry,
         Appended(t, h, i, e), \A j \in Slot \ {i} : fcbLock'[j] = fcbLock[j]
  PROVE  FileStep(t)
<1>1. /\ FcbOf(h) = i /\ fcb[i].id = e /\ OthersStay(t) /\ dir' = dir /\ unsynced' = unsynced
      /\ length'[e] = length[e] + 1 /\ \A d \in Entry : d # e => length'[d] = length[d]
      /\ handle'[h].fcb = i /\ \A g \in Slot : g # h => handle'[g] = handle[g]
      /\ \A j \in Slot : fcb'[j].id = fcb[j].id /\ fcb'[j].size = fcb[j].size
      /\ \A j \in Slot : j # i => fcb'[j].first = fcb[j].first
  BY DEF Appended
<1>2. Pc(t) \in {"idle", "link"} /\ Pc(t)' \in {"idle", "flush"}
  BY DEF Appended, Pc
<1>3. e \in Files /\ ~Removing(e) /\ \A d : Removing(d)' <=> Removing(d)
  BY AppendedFacts DEF Stand
<1>4. FcbFrame(i) /\ HandleFrame(t, i, h)
  BY <1>1, <1>2 DEF FcbFrame, HandleFrame, FcbOf
<1>5. SameNames /\ EntryFrame(e)
  BY <1>1, <1>3 DEF SameNames, EntryFrame
<1>6. OthersAlike(e)
  BY <1>1, <1>4, <1>5, OthersAlikeIf DEF Stand
<1>7. MayMove(e)
  BY <1>1, <1>3, <1>5, MovesAhead DEF Stand
<1>8. NewNames(t)'
  BY <1>2 DEF NewNames
<1> QED
  BY <1>1, <1>5, <1>6, <1>7, <1>8 DEF FileStep

LEMMA FsWriteMoves ==
  ASSUME Stand, Stand', FilesInv, NEW t \in Thread, fsWrite(t)
  PROVE  FileStep(t)
<1>1. PICK blk : WritersSound(blk)
  BY DEF FilesInv, FilesAre
<1>2. PICK h \in Slot, i \in Slot, e \in Entry : WritesTo(t, h, i, e)
  BY <1>1, FsWriteIs DEF Stand
<1>3. UNCHANGED <<dir, fcb, unsynced>> /\ Pc(t) = "idle"
  BY DEF fsWrite, eeprom
<1>4. CASE Goto(t, [pc |-> "allocate", h |-> h]) /\ handle' = handle /\ length' = length
  <2>1. PICK loc : Goto(t, loc) /\ loc.pc = "allocate"
    BY <1>4
  <2>2. FcbFrame(i)
    BY <1>2, <1>3 DEF WritesTo, FcbFrame
  <2> QED
    BY <1>3, <1>4, <2>1, <2>2, PlainLockStep
<1>5. CASE Appended(t, h, i, e)
  BY <1>2, <1>5, AppendedMoves DEF WritesTo
<1> QED
  BY <1>2, <1>4, <1>5 DEF WritesTo

LEMMA AllocateLinkMoves ==
  ASSUME Stand, Stand', FilesInv, NEW t \in Thread, AllocateLink(t)
  PROVE  FileStep(t)
<1>1. PICK blk : WritersSound(blk)
  BY DEF FilesInv, FilesAre
<1>2. PICK h \in Slot, i \in Slot, e \in Entry, b \in Block : LinksTo(t, h, i, e, b)
  BY <1>1, AllocateLinkIs DEF Stand
<1> QED
  BY <1>2, AppendedMoves DEF LinksTo

------------------------------------------------------------------------------
(* All calls but those that create, remove and rename a file.              *)
NameStep(t) == (AllocFcb(t) /\ at[t].new # NoName) \/ DelEntry(t) \/ fsRename(t)

LEMMA StepMoves ==
  ASSUME Stand, Stand', FilesInv, NamesInv, NEW t \in Thread, Step(t), ~NameStep(t)
  PROVE  FileStep(t)
<1>1. EntriesGrow
  <2>1. FieldsKept \/ EntrySynced
    BY EntrySteps DEF Stand
  <2> QED
    BY <2>1, EntryGrows DEF Stand, EntriesGrow
<1>2. CASE Open(t)
  <2>1. CASE AllocFcb(t)
    BY <2>1, OldFcbMoves DEF NameStep
  <2>2. CASE fsOpen(t) \/ OpenFind(t) \/ FindFcbOn(t)
    BY <2>2, FsOpenMoves, OpenFindMoves, FindFcbOnMoves
  <2>3. CASE ShareFcb(t) \/ AllocFcbOn(t) \/ OpenHandle(t)
    BY <2>3, ShareFcbMoves, AllocFcbOnMoves, OpenHandleMoves
  <2> QED
    BY <1>2, <2>1, <2>2, <2>3 DEF Open
<1>3. CASE Allocate(t)
  BY <1>3, AllocateMoves, AllocateFailMoves, AllocateLinkMoves DEF Allocate
<1>4. CASE Write(t)
  <2>1. CASE Flush(t) \/ FlushDone(t)
    BY <1>1, <2>1, FlushMoves, FlushDoneMoves
  <2>2. CASE fsWrite(t) \/ fsFlush(t) \/ Program(t)
    BY <2>2, FsWriteMoves, FsFlushMoves, ProgramMoves
  <2> QED
    BY <1>4, <2>1, <2>2 DEF Write
<1>5. CASE Close(t)
  BY <1>1, <1>5, RemoveCallsMove, FsBlockCloseFileMoves, FsFreeHandleMoves DEF Close
<1>6. CASE Remove(t)
  BY <1>6, RemoveCallsMove, BlockFreeMoves DEF Remove, NameStep
<1> QED
  BY <1>2, <1>3, <1>4, <1>5, <1>6 DEF Step, NameStep

(* A new file.                                                             *)
Creates(t, e, n) ==
  /\ at[t].id = e /\ dir[e].name = NoName /\ Named(n) = {} /\ OthersStay(t)
  /\ Pc(t) = "alloc fcb" /\ Pc(t)' = "alloc handle"
  /\ dir'[e].name = n /\ length'[e] = 0 /\ e \in unsynced' /\ OthersAlike(e)

LEMMA NewFcbIs ==
  ASSUME TablesInv, TablesInv', NamesInv, NEW t \in Thread, AllocFcb(t), at[t].new # NoName
  PROVE  \E e \in Entry, n \in Name : Creates(t, e, n)
<1>1. /\ UNCHANGED <<fcbLock, handle>> /\ Pc(t) = "alloc fcb" /\ fcb[at[t].i].id = INVAL
      /\ Goto(t, [pc |-> "alloc handle", fd |-> at[t].fd, i |-> at[t].i, mode |-> at[t].mode])
      /\ dir' = [dir EXCEPT ![at[t].id].name = at[t].new]
      /\ length' = [length EXCEPT ![at[t].id] = 0]
      /\ unsynced' = unsynced \cup {at[t].id}
  BY DEF AllocFcb
<1>2. PICK i \in Slot, e \in Entry, n \in Name : i = at[t].i /\ e = at[t].id /\ n = at[t].new
  <2>1. at[t] \in SearchLocals
    BY <1>1, CallTypes, LocalsAre DEF Pc, TablesInv
  <2> QED
    BY <2>1 DEF SearchLocals
<1>3. fcb'[i].id = e /\ \A j \in Slot \ {i} : fcb'[j] = fcb[j]
  <2>1. PICK r : fcb' = [fcb EXCEPT ![i] = r] /\ r.id = e
    <3> DEFINE r == [id |-> at[t].id, refcount |-> 1, writer |-> Appends(at[t].mode),
                     first |-> IF at[t].new # NoName THEN INVAL ELSE dir[at[t].id].first,
                     size  |-> IF at[t].new # NoName THEN 0 ELSE dir[at[t].id].size]
    <3>1. fcb' = [fcb EXCEPT ![i] = r] /\ r.id = e
      BY <1>2 DEF AllocFcb
    <3> HIDE DEF r
    <3> QED
      BY <3>1
  <2>2. fcb \in [Slot -> FcbRecords]
    BY DEF TablesInv, Types, FcbRecords
  <2> QED
    BY <2>1, <2>2
<1>4. PICK loc : Goto(t, loc) /\ loc.pc = "alloc handle"
  <2> DEFINE l == [pc |-> "alloc handle", fd |-> at[t].fd, i |-> at[t].i, mode |-> at[t].mode]
  <2>1. Goto(t, l) /\ l.pc = "alloc handle"
    BY <1>1
  <2> HIDE DEF l
  <2> QED
    BY <2>1
<1>5. OthersStay(t) /\ Pc(t)' = "alloc handle"
  BY <1>4, GotoIs
<1>6. \A x : Removing(x)' <=> Removing(x)
  BY <1>1, <1>5 DEF Removing, OthersStay, Pc
<1>7. /\ dir'[e].name = n /\ length'[e] = 0 /\ e \in unsynced'
      /\ \A x \in Entry \ {e} : /\ dir'[x] = dir[x] /\ length'[x] = length[x]
                                /\ (x \in unsynced') <=> (x \in unsynced)
  <2>1. /\ DOMAIN length = Entry
        /\ dir \in [Entry -> [name : Name \cup {NoName}, first : Block \cup {INVAL}, size : 0..MaxSize]]
    BY DEF TablesInv, Types
  <2>2. /\ dir' = [dir EXCEPT ![e].name = n]
        /\ length' = [length EXCEPT ![e] = 0] /\ unsynced' = unsynced \cup {e}
    BY <1>1, <1>2
  <2>3. dir'[e].name = n /\ \A x \in Entry \ {e} : dir'[x] = dir[x]
    BY <2>1, <2>2
  <2>4. length'[e] = 0 /\ \A x \in Entry \ {e} : length'[x] = length[x]
    BY <2>1, <2>2
  <2>5. e \in unsynced' /\ \A x \in Entry \ {e} : (x \in unsynced') <=> (x \in unsynced)
    BY <2>2
  <2> QED
    BY <2>3, <2>4, <2>5
<1>8. EntryFrame(e)
  BY <1>6, <1>7 DEF EntryFrame
<1>9. FcbFrame(i) /\ HandleFrame(t, i, INVAL)
  BY <1>1, <1>3, <1>5, Slots DEF FcbFrame, HandleFrame
<1>10. OthersAlike(e)
  BY <1>1, <1>2, <1>3, <1>5, <1>8, <1>9, OthersAlikeIf
<1>11. dir[e].name = NoName
  BY <1>1, <1>2, OtherConstants DEF TablesInv, OneFcbEach, SearchOf
<1>12. Named(n) = {}
  BY <1>1, <1>2, OtherConstants DEF NamesInv
<1> QED
  BY <1>1, <1>2, <1>5, <1>7, <1>10, <1>11, <1>12 DEF Creates

LEMMA CreatedNames ==
  ASSUME TablesInv, NamesInv, NEW t \in Thread, NEW e \in Entry, NEW n \in Name, Creates(t, e, n)
  PROVE  NamesInv'
<1>1. /\ \A x \in Entry \ {e} : dir'[x] = dir[x]
      /\ dir'[e].name = n /\ Named(n) = {} /\ OthersStay(t)
      /\ Pc(t) = "alloc fcb" /\ Pc(t)' = "alloc handle"
  BY DEF Creates, OthersAlike, EntryFrame
<1>2. \A x \in Entry : dir[x].name # n
  BY <1>1 DEF Named
<1>3. ASSUME NEW c \in Files', NEW d \in Files', dir'[c].name = dir'[d].name PROVE c = d
  <2>1. c \in Entry /\ d \in Entry /\ dir'[c].name # NoName
    BY DEF Files, Named
  <2>2. CASE c # e /\ d # e
    <3>1. dir[c] = dir'[c] /\ dir[d] = dir'[d]
      BY <1>1, <2>1, <2>2
    <3>2. c \in Files /\ d \in Files /\ dir[c].name = dir[d].name
      BY <1>3, <2>1, <3>1 DEF Files, Named
    <3> QED
      BY <3>2 DEF NamesInv
  <2>3. CASE c = e \/ d = e
    BY <1>1, <1>2, <1>3, <2>1, <2>3
  <2> QED
    BY <2>2, <2>3
<1>4. \A u \in Thread : Pc(u)' # "alloc fcb"
  BY <1>1, OneAtATime DEF OthersStay, Pc
<1> QED
  BY <1>3, <1>4 DEF NamesInv

LEMMA CreateIsSeen ==
  ASSUME NamesSeen, NamesSeen', FilesStand, FilesStand',
         NEW t \in Thread, NEW e \in Entry, NEW n \in Name, Creates(t, e, n), ~Removing(e)'
  PROVE  Promise!Next
<1>1. /\ dir[e].name = NoName /\ Named(n) = {} /\ OthersAlike(e)
      /\ dir'[e].name = n /\ length'[e] = 0 /\ e \in unsynced'
  BY DEF Creates
<1>2. e \in Files'
  BY <1>1, OtherConstants DEF Files, Named
<1>3. StateOf(e)' = "new" /\ Found(e)' = 0
  BY <1>1, <1>2 DEF FilesStand, Standing, Found
<1>4. SeenAt(n, "none", 0, 0)
  BY <1>1 DEF NamesSeen
<1>5. SeenState'[n] = "new" /\ SeenWritten'[n] = 0 /\ SeenStored'[n] = 0
  BY <1>1, <1>2, <1>3 DEF NamesSeen, SeenAt
<1>6. SeenOnlyAt(n)
  <2>1. \A m \in Name \ {n} : dir[e].name # m /\ dir'[e].name # m
    BY <1>1, OtherConstants
  <2> QED
    BY <1>1, <2>1, SeenElsewhere DEF SeenOnlyAt
<1>7. SeenAt(n, "new", 0, 0)'
  BY <1>5 DEF SeenAt
<1>8. SeenTo(n, "new", 0, 0)
  BY <1>6, <1>7, SeenOne
<1>9. SeenWritten' = SeenWritten /\ SeenStored' = SeenStored
  <2>1. [SeenWritten EXCEPT ![n] = SeenWritten[n]] = SeenWritten
    <3>1. SeenWritten = [m \in Name |-> SeenWritten[m]]
      BY DEF NamesSeen
    <3> QED
      BY <3>1, PutBack
  <2>2. [SeenStored EXCEPT ![n] = SeenStored[n]] = SeenStored
    <3>1. SeenStored = [m \in Name |-> SeenStored[m]]
      BY DEF NamesSeen
    <3> QED
      BY <3>1, PutBack
  <2> QED
    BY <1>4, <1>8, <2>1, <2>2 DEF SeenTo, SeenAt
<1>10. Promise!Create(n)
  BY <1>4, <1>8, <1>9 DEF SeenTo, SeenAt, Promise!Create
<1> QED
  BY <1>10 DEF Promise!Next

(* The last step of a removal.                                             *)
Deletes(t, e) ==
  /\ e \in Files /\ Removing(e) /\ OthersStay(t) /\ Pc(t)' = "idle"
  /\ dir'[e].name = NoName /\ OthersAlike(e)

LEMMA DelEntryIs ==
  ASSUME TablesInv, TablesInv', NEW t \in Thread, DelEntry(t)
  PROVE  \E e \in Entry : Deletes(t, e)
<1>1. /\ UNCHANGED <<fcb, fcbLock, handle, length, unsynced>> /\ Pc(t) = "free" /\ Goto(t, Idle)
      /\ dir' = [dir EXCEPT ![at[t].id].name = NoName]
  BY DEF DelEntry, Return, ram, history
<1>2. PICK e \in Entry : e = at[t].id
  <2>1. at[t] \in FreeLocals
    BY <1>1, CallTypes, LocalsAre DEF Pc, TablesInv
  <2> QED
    BY <2>1 DEF FreeLocals
<1>3. OthersStay(t) /\ Pc(t)' = "idle"
  BY <1>1, IdlePc, GotoIs
<1>4. e \in Files /\ Removing(e)
  BY <1>1, <1>2 DEF Removing, TablesInv, OneFcbEach, SearchOf, Files, Named
<1>5. dir'[e].name = NoName /\ \A x \in Entry \ {e} : dir'[x] = dir[x]
  BY <1>1, <1>2 DEF TablesInv, Types
<1>6. \A x \in Entry \ {e} : Removing(x)' <=> Removing(x)
  BY <1>1, <1>2, <1>3 DEF Removing, OthersStay, Pc
<1>7. EntryFrame(e) /\ FcbFrame(INVAL) /\ HandleFrame(t, INVAL, INVAL) /\ INVAL \notin Slot
  BY <1>1, <1>3, <1>5, <1>6, Slots DEF EntryFrame, FcbFrame, HandleFrame
<1>8. OthersAlike(e)
  BY <1>3, <1>7, OthersAlikeIf
<1> QED
  BY <1>3, <1>4, <1>5, <1>8 DEF Deletes

LEMMA DeletedNames ==
  ASSUME NamesInv, NEW t \in Thread, NEW e \in Entry, Deletes(t, e),
         \A u \in Thread : Pc(u) # "alloc fcb"
  PROVE  NamesInv'
<1>1. /\ \A x \in Entry \ {e} : dir'[x] = dir[x]
      /\ dir'[e].name = NoName /\ OthersStay(t) /\ Pc(t)' = "idle"
  BY DEF Deletes, OthersAlike, EntryFrame
<1>2. ASSUME NEW c \in Files', NEW d \in Files', dir'[c].name = dir'[d].name PROVE c = d
  BY <1>1, <1>2 DEF NamesInv, Files, Named
<1>3. \A u \in Thread : Pc(u)' # "alloc fcb"
  BY <1>1 DEF OthersStay, Pc
<1> QED
  BY <1>2, <1>3 DEF NamesInv

LEMMA DeleteIsSeen ==
  ASSUME NamesInv, NamesSeen, NamesSeen', FilesStand, FilesStand',
         NEW t \in Thread, NEW e \in Entry, Deletes(t, e)
  PROVE  Promise!Next
<1>1. /\ e \in Files /\ Removing(e) /\ dir'[e].name = NoName /\ OthersAlike(e)
      /\ \A x \in Entry \ {e} : dir'[x] = dir[x]
  BY DEF Deletes, OthersAlike, EntryFrame
<1>2. PICK n \in Name : n = dir[e].name
  BY <1>1 DEF NamesSeen
<1>3. StateOf(e) = "going" /\ Found(e) = 0
  BY <1>1 DEF FilesStand, Standing, Found
<1>4. SeenState[n] = "going" /\ SeenStored[n] = 0
  BY <1>1, <1>2, <1>3 DEF NamesSeen, SeenAt
<1>5. Named(n)' = {}
  <2>1. \A x \in Entry \ {e} : dir[x].name # n
    BY <1>1, <1>2, OtherConstants DEF NamesInv, Files, Named
  <2> QED
    BY <1>1, <2>1, OtherConstants DEF Named
<1>6. SeenAt(n, "none", 0, 0)'
  BY <1>5 DEF NamesSeen
<1>7. SeenOnlyAt(n)
  <2>1. \A m \in Name \ {n} : dir[e].name # m /\ dir'[e].name # m
    BY <1>1, <1>2, OtherConstants
  <2> QED
    BY <1>1, <2>1, SeenElsewhere DEF SeenOnlyAt
<1>8. SeenTo(n, "none", 0, 0)
  BY <1>6, <1>7, SeenOne
<1>9. SeenStored' = SeenStored
  <2>1. SeenStored = [m \in Name |-> SeenStored[m]]
    BY DEF NamesSeen
  <2>2. [SeenStored EXCEPT ![n] = SeenStored[n]] = SeenStored
    BY <2>1, PutBack
  <2> QED
    BY <1>4, <1>8, <2>2 DEF SeenTo
<1>10. Promise!Remove(n)
  BY <1>4, <1>8, <1>9 DEF SeenTo, Promise!Remove
<1> QED
  BY <1>10 DEF Promise!Next

(* A step that changes names at most.                                      *)
LEMMA ChangeSame ==
  ASSUME FieldsKept, UNCHANGED <<fcb, handle, fcbLock, at, unsynced>>
  PROVE  \A e \in Entry : (InChange(e)' <=> InChange(e)) /\ (Removing(e)' <=> Removing(e))
<1>1. \A i : Writers(i)' = Writers(i)
  <2>1. \A h : /\ FcbOf(h)' = FcbOf(h) /\ handle'[h] = handle[h]
               /\ (Busy(h, {"close handle"})' <=> Busy(h, {"close handle"}))
    BY DEF FcbOf, Busy, Pc
  <2> QED
    BY <2>1 DEF Writers, HandlesOf
<1>2. \A e : /\ (InUse(e)' <=> InUse(e)) /\ FcbFor(e)' = FcbFor(e) /\ Removers(e)' = Removers(e)
             /\ (Removing(e)' <=> Removing(e))
  BY DEF InUse, FcbFor, Removers, Removing, Pc
<1> QED
  BY <1>1, <1>2 DEF InChange, FieldsKept

Renames(e, n) ==
  /\ e \in Files /\ Named(n) = {} /\ dir'[e].name = n /\ OthersAlike(e) /\ length' = length
  /\ StateOf(e) \in {"new", "open", "safe"} /\ StateOf(e)' = StateOf(e) /\ Found(e)' = Found(e)

LEMMA RenameIs ==
  ASSUME Stand, Stand', NEW t \in Thread, fsRename(t)
  PROVE  \E e \in Entry, n \in Name : Renames(e, n)
<1>1. PICK e \in Entry \ Named(NoName), n \in Name : Named(n) = {} /\ dir' = [dir EXCEPT ![e].name = n]
  BY DEF fsRename
<1>2. UNCHANGED <<fcb, handle, fcbLock, at, unsynced, length>> /\ root = Nobody
  BY DEF fsRename, ram, locks, history
<1>3. /\ FieldsKept /\ dir'[e].name = n
      /\ \A x \in Entry \ {e} : dir'[x] = dir[x]
  BY <1>1 DEF Stand, TablesInv, Types, FieldsKept
<1>4. \A x \in Entry : (InChange(x)' <=> InChange(x)) /\ (Removing(x)' <=> Removing(x))
  BY <1>2, <1>3, ChangeSame
<1>5. OthersAlike(e)
  BY <1>2, <1>3, <1>4 DEF OthersAlike, EntryFrame
<1>6. e \in Files /\ e \in Files'
  BY <1>1, <1>3, OtherConstants DEF Files, Named
<1>7. ~Removing(e)
  BY <1>2, OneAtATime, OtherConstants DEF Removing, Stand
<1>8. StateOf(e) \in {"new", "open", "safe"} /\ StateOf(e)' = StateOf(e)
  BY <1>2, <1>4, <1>6, <1>7 DEF Stand, FilesStand, Standing
<1>9. Found(e)' = Found(e)
  BY <1>3, <1>8 DEF Found, FieldsKept
<1> QED
  BY <1>1, <1>2, <1>3, <1>5, <1>6, <1>8, <1>9 DEF Renames

LEMMA RenamedNames ==
  ASSUME NamesInv, NEW e \in Entry, NEW n \in Name, Renames(e, n),
         \A u \in Thread : Pc(u)' # "alloc fcb"
  PROVE  NamesInv'
<1>1. /\ \A x \in Entry \ {e} : dir'[x] = dir[x]
      /\ e \in Files /\ dir'[e].name = n /\ Named(n) = {}
  BY DEF Renames, OthersAlike, EntryFrame
<1>2. \A x \in Entry : dir[x].name # n
  BY <1>1 DEF Named
<1>3. ASSUME NEW c \in Files', NEW d \in Files', dir'[c].name = dir'[d].name PROVE c = d
  <2>1. c \in Entry /\ d \in Entry /\ dir'[c].name # NoName
    BY DEF Files, Named
  <2>2. CASE c # e /\ d # e
    <3>1. dir[c] = dir'[c] /\ dir[d] = dir'[d]
      BY <1>1, <2>1, <2>2
    <3>2. c \in Files /\ d \in Files /\ dir[c].name = dir[d].name
      BY <1>3, <2>1, <3>1 DEF Files, Named
    <3> QED
      BY <3>2 DEF NamesInv
  <2>3. CASE c = e \/ d = e
    BY <1>1, <1>2, <1>3, <2>1, <2>3
  <2> QED
    BY <2>2, <2>3
<1> QED
  BY <1>3 DEF NamesInv

(* Two names change places.                                                *)
LEMMA PutTwo ==
  ASSUME NEW S, NEW f, f = [x \in S |-> f[x]], NEW g, g = [x \in S |-> g[x]],
         NEW m \in S, NEW n \in S, m # n, NEW a, NEW b, g[m] = a, g[n] = b,
         \A x \in S \ {m, n} : g[x] = f[x]
  PROVE  g = [f EXCEPT ![m] = a, ![n] = b]
<1>1. [f EXCEPT ![m] = a, ![n] = b] = [x \in S |-> IF x = n THEN b ELSE IF x = m THEN a ELSE f[x]]
  OBVIOUS
<1>2. \A x \in S : g[x] = IF x = n THEN b ELSE IF x = m THEN a ELSE f[x]
  OBVIOUS
<1> QED
  BY <1>1, <1>2

LEMMA RenameIsSeen ==
  ASSUME NamesInv, NamesSeen, NamesSeen', FilesStand, FilesStand',
         NEW e \in Entry, NEW n \in Name, Renames(e, n)
  PROVE  Promise!Next
<1>1. /\ e \in Files /\ Named(n) = {} /\ dir'[e].name = n /\ OthersAlike(e) /\ length' = length
      /\ StateOf(e) \in {"new", "open", "safe"} /\ StateOf(e)' = StateOf(e) /\ Found(e)' = Found(e)
      /\ \A x \in Entry \ {e} : dir'[x] = dir[x]
  BY DEF Renames, OthersAlike, EntryFrame
<1>2. PICK m \in Name : m = dir[e].name
  BY <1>1 DEF NamesSeen
<1>3. m # n
  BY <1>1, <1>2 DEF Named
<1>4. SeenState[m] = StateOf(e) /\ SeenWritten[m] = length[e] /\ SeenStored[m] = Found(e)
  BY <1>1, <1>2 DEF NamesSeen, SeenAt
<1>5. SeenState[n] = "none"
  BY <1>1 DEF NamesSeen, SeenAt
<1>6. Named(m)' = {}
  <2>1. \A x \in Entry \ {e} : dir[x].name # m
    BY <1>1, <1>2, OtherConstants DEF NamesInv, Files, Named
  <2> QED
    BY <1>1, <1>3, <2>1 DEF Named
<1>7. SeenState'[m] = "none" /\ SeenWritten'[m] = 0 /\ SeenStored'[m] = 0
  BY <1>6 DEF NamesSeen, SeenAt
<1>8. SeenState'[n] = SeenState[m] /\ SeenWritten'[n] = SeenWritten[m] /\ SeenStored'[n] = SeenStored[m]
  <2>1. e \in Files'
    BY <1>1, OtherConstants DEF Files, Named
  <2> QED
    BY <1>1, <1>4, <2>1 DEF NamesSeen, SeenAt
<1>9. \A x \in Name \ {m, n} : /\ SeenState'[x] = SeenState[x] /\ SeenWritten'[x] = SeenWritten[x]
                               /\ SeenStored'[x] = SeenStored[x]
  <2>1. \A x \in Name \ {m, n} : dir[e].name # x /\ dir'[e].name # x
    BY <1>1, <1>2
  <2> QED
    BY <1>1, <2>1, SeenElsewhere
<1>10. /\ SeenState = [x \in Name |-> SeenState[x]] /\ SeenWritten = [x \in Name |-> SeenWritten[x]]
       /\ SeenStored = [x \in Name |-> SeenStored[x]]
  BY DEF NamesSeen
<1>11. /\ SeenState' = [x \in Name |-> SeenState'[x]]
       /\ SeenWritten' = [x \in Name |-> SeenWritten'[x]]
       /\ SeenStored' = [x \in Name |-> SeenStored'[x]]
  BY DEF NamesSeen
<1>12. SeenState' = [SeenState EXCEPT ![m] = "none", ![n] = SeenState[m]]
  BY <1>3, <1>7, <1>8, <1>9, <1>10, <1>11, PutTwo
<1>13. SeenWritten' = [SeenWritten EXCEPT ![m] = 0, ![n] = SeenWritten[m]]
  BY <1>3, <1>7, <1>8, <1>9, <1>10, <1>11, PutTwo
<1>14. SeenStored' = [SeenStored EXCEPT ![m] = 0, ![n] = SeenStored[m]]
  BY <1>3, <1>7, <1>8, <1>9, <1>10, <1>11, PutTwo
<1>15. Promise!Rename(m, n)
  BY <1>1, <1>4, <1>5, <1>12, <1>13, <1>14 DEF Promise!Rename
<1> QED
  BY <1>15 DEF Promise!Next

(* A reset, and a step of none.                                            *)
LEMMA SeenStays ==
  ASSUME NamesSeen, NamesSeen', dir' = dir, length' = length,
         \A e \in Files : StateOf(e)' = StateOf(e)
  PROVE  UNCHANGED Promise!vars
<1>1. Files' = Files /\ \A n : Named(n)' = Named(n)
  BY DEF Files, Named
<1>2. \A e \in Files : Found(e)' = Found(e)
  BY DEF Found
<1>3. ASSUME NEW m \in Name
      PROVE  /\ SeenState'[m] = SeenState[m] /\ SeenWritten'[m] = SeenWritten[m]
             /\ SeenStored'[m] = SeenStored[m]
  <2>1. CASE Named(m) = {}
    <3>1. SeenAt(m, "none", 0, 0) /\ SeenAt(m, "none", 0, 0)'
      BY <1>1, <2>1 DEF NamesSeen
    <3> QED
      BY <3>1 DEF SeenAt
  <2>2. CASE Named(m) # {}
    <3>1. PICK x \in Files : dir[x].name = m
      BY <2>2 DEF NamesSeen
    <3>2. SeenAt(m, StateOf(x), length[x], Found(x))
      BY <3>1 DEF NamesSeen
    <3>3. SeenState'[m] = StateOf(x)' /\ SeenWritten'[m] = length'[x] /\ SeenStored'[m] = Found(x)'
      BY <1>1, <3>1 DEF NamesSeen, SeenAt
    <3> QED
      BY <1>2, <3>1, <3>2, <3>3 DEF SeenAt
  <2> QED
    BY <2>1, <2>2
<1> QED
  BY <1>3, SeenSame

LEMMA ResetStays ==
  ASSUME FilesStand, FilesStand', Reset
  PROVE  dir' = dir /\ length' = length /\ \A e \in Files : StateOf(e)' = StateOf(e)
<1>1. /\ dir' = dir /\ length' = length /\ unsynced' = unsynced
      /\ at' = [t \in Thread |-> Idle] /\ fcb' = [i \in Slot |-> NoFcb]
      /\ \A e \in Entry : ~InChange(e)
  BY DEF Reset, eeprom, history
<1>2. \A e \in Files : ~Removing(e)' /\ ~InUse(e)'
  <2>1. \A t \in Thread : Pc(t)' = "idle"
    BY <1>1, IdlePc DEF Pc
  <2>2. \A i \in Slot : fcb'[i].id = INVAL
    BY <1>1 DEF NoFcb
  <2> QED
    BY <2>1, <2>2, NotInval DEF Removing, InUse, Files
<1>3. \A e \in Files : ~InChange(e)'
  BY <1>2 DEF InChange, Removers, Removing
<1>4. Files' = Files
  BY <1>1 DEF Files, Named
<1>5. \A e \in Files : StateOf(e) = "safe" /\ StateOf(e)' = "safe"
  <2>1. \A e \in Files : Standing(e) /\ Standing(e)' /\ ~InChange(e) /\ ~InChange(e)'
    BY <1>1, <1>3, <1>4 DEF FilesStand, Files
  <2> QED
    BY <1>1, <2>1 DEF Standing
<1> QED
  BY <1>1, <1>5

LEMMA NothingStays ==
  ASSUME FilesStand, FilesStand', UNCHANGED vars
  PROVE  dir' = dir /\ length' = length /\ \A e \in Files : StateOf(e)' = StateOf(e)
<1>1. UNCHANGED <<dir, length, fcb, handle, fcbLock, at, unsynced>>
  BY DEF vars, eeprom, ram, locks, history
<1>2. \A e \in Entry : (InChange(e)' <=> InChange(e)) /\ (Removing(e)' <=> Removing(e))
  BY <1>1, ChangeSame DEF FieldsKept
<1>3. Files' = Files
  BY <1>1 DEF Files, Named
<1>4. ASSUME NEW e \in Files PROVE StateOf(e)' = StateOf(e)
  <2>1. Standing(e) /\ Standing(e)' /\ e \in Entry
    BY <1>3 DEF FilesStand, Files
  <2> QED
    BY <1>1, <1>2, <2>1 DEF Standing
<1> QED
  BY <1>1, <1>4

LEMMA InitNames == Init => NamesInv /\ Promise!Init
<1> SUFFICES ASSUME Init PROVE NamesInv /\ Promise!Init
  OBVIOUS
<1>1. \A e \in Entry : dir[e].name = NoName
  BY DEF Init
<1>2. Files = {} /\ \A n \in Name : Named(n) = {}
  BY <1>1, OtherConstants DEF Files, Named
<1>3. \A t \in Thread : Pc(t) = "idle"
  BY DEF Init, RamInit, Idle, Pc
<1>4. NamesInv
  BY <1>2, <1>3 DEF NamesInv
<1>5. /\ SeenState = [n \in Name |-> "none"] /\ SeenWritten = [n \in Name |-> 0]
      /\ SeenStored = [n \in Name |-> 0]
  BY <1>2 DEF SeenState, SeenWritten, SeenStored
<1> QED
  BY <1>4, <1>5 DEF Promise!Init

(* A step of a call that creates, removes or renames a file.               *)
LEMMA NameStepNames ==
  ASSUME Stand, Stand', NamesInv, NEW t \in Thread, NameStep(t)
  PROVE  NamesInv'
<1>1. CASE AllocFcb(t) /\ at[t].new # NoName
  BY <1>1, NewFcbIs, CreatedNames DEF Stand
<1>2. CASE DelEntry(t)
  <2>1. \A u \in Thread : Pc(u) # "alloc fcb"
    <3>1. Pc(t) = "free"
      BY <1>2 DEF DelEntry
    <3> QED
      BY <3>1, OneAtATime DEF Stand
  <2> QED
    BY <1>2, <2>1, DelEntryIs, DeletedNames DEF Stand
<1>3. CASE fsRename(t)
  <2>1. \A u \in Thread : Pc(u)' # "alloc fcb"
    <3>1. root = Nobody /\ at' = at
      BY <1>3 DEF fsRename
    <3> QED
      BY <3>1, OneAtATime, OtherConstants DEF Stand, Pc
  <2> QED
    BY <1>3, <2>1, RenameIs, RenamedNames
<1> QED
  BY <1>1, <1>2, <1>3 DEF NameStep

LEMMA NextNames ==
  ASSUME Stand, Stand', FilesInv, NamesInv, [Next]_vars
  PROVE  NamesInv'
<1>1. CASE Reset
  <2>1. dir' = dir /\ \A t \in Thread : Pc(t)' = "idle"
    BY <1>1, IdlePc DEF Reset, eeprom, Pc
  <2> QED
    BY <2>1 DEF NamesInv, Files, Named
<1>2. CASE \E t \in Thread : Step(t)
  <2>1. PICK t \in Thread : Step(t)
    BY <1>2
  <2>2. CASE NameStep(t)
    BY <2>2, NameStepNames
  <2>3. CASE ~NameStep(t)
    BY <2>1, <2>3, StepMoves, NamesKeepDifferent DEF FileStep
  <2> QED
    BY <2>2, <2>3
<1>3. CASE UNCHANGED vars
  BY <1>3 DEF vars, eeprom, NamesInv, Files, Named, Pc
<1> QED
  BY <1>1, <1>2, <1>3 DEF Next

LEMMA NextIsSeen ==
  ASSUME Stand, Stand', FilesInv, NamesInv, NamesInv', [Next]_vars
  PROVE  [Promise!Next]_Promise!vars
<1>1. NamesSeen /\ FilesStand /\ FilesStand' /\ TablesInv
  BY NamesAreSeen DEF Stand
<1>2. NamesSeen'
  <2>1. TablesInv'
    BY DEF Stand
  <2> QED
    BY <2>1, NamesAreSeen, PTL
<1>3. CASE Reset
  BY <1>1, <1>2, <1>3, ResetStays, SeenStays
<1>4. CASE \E t \in Thread : Step(t)
  <2>1. PICK t \in Thread : Step(t)
    BY <1>4
  <2>2. CASE ~NameStep(t)
    <3>1. FileStep(t)
      BY <2>1, <2>2, StepMoves
    <3> QED
      BY <1>1, <1>2, <3>1, FileMoves DEF FileStep
  <2>3. CASE AllocFcb(t) /\ at[t].new # NoName
    <3>1. PICK e \in Entry, n \in Name : Creates(t, e, n)
      BY <2>3, NewFcbIs DEF Stand
    <3>2. ~Removing(e)'
      <4>1. \A u \in Thread : Pc(u)' # "free"
        BY <1>1, <3>1, OneAtATime DEF Creates, OthersStay, Pc
      <4> QED
        BY <4>1 DEF Removing
    <3> QED
      BY <1>1, <1>2, <3>1, <3>2, CreateIsSeen
  <2>4. CASE DelEntry(t)
    BY <1>1, <1>2, <2>4, DelEntryIs, DeleteIsSeen DEF Stand
  <2>5. CASE fsRename(t)
    BY <1>1, <1>2, <2>5, RenameIs, RenameIsSeen
  <2> QED
    BY <2>2, <2>3, <2>4, <2>5 DEF NameStep
<1>5. CASE UNCHANGED vars
  BY <1>1, <1>2, <1>5, NothingStays, SeenStays
<1> QED
  BY <1>3, <1>4, <1>5 DEF Next
------------------------------------------------------------------------------
(* Theorems about the specification.                                       *)

(* Every variable keeps its type; in particular a handle never gets as its *)
(* current block the value of a next pointer that is no block number.      *)
THEOREM TypeCorrect == Spec => []TypeOK
BY TablesInvariant, FilesInvariant, TypeOKHolds, PTL

(* However opens, appends, allocations, closes and removals interleave,    *)
(* and after resets: a block belongs to one file, and is marked as used.   *)
THEOREM BlocksOwnedOnce == Spec => []OwnedOnce
BY TablesInvariant, FilesInvariant, OwnedOnceHolds, PTL

(* No block is lost: what fsBlockAllocate() has marked is in a file or on  *)
(* its way into one, and a removal that stops half way has the rest.       *)
THEOREM NoBlockLeaks == Spec => []NothingLeaks
BY TablesInvariant, FilesInvariant, NothingLeaksHolds, PTL

(* fsBlockAllocate() never hands out a block that is not erased, whoever   *)
(* records, erases and marks blocks: a free one is erased, except between  *)
(* the recording of an erasure and the erasure itself.                     *)
THEOREM FreeBlocksErased == Spec => []FreeIsErased
BY FilesInvariant, FreeIsErasedHolds, PTL

(* A file that nobody is changing is in EEPROM and flash with all that was *)
(* appended to it, in its place: a reset loses nothing of it.              *)
THEOREM FlushedFilesSurvive == Spec => []FlushedSurvives
BY TablesInvariant, FilesInvariant, FlushedSurvivesHolds, PTL

(* In the middle of appending, allocating, flushing or closing, too, what  *)
(* a reset finds is consistent: the directory's first block leads to every *)
(* unit that its size speaks of.                                           *)
THEOREM DirectoryStaysBehind == Spec => []DirectoryBehindFlash
BY TablesInvariant, FilesInvariant, DirectoryBehindFlashHolds, PTL

(* What was written back of a file stays in the directory: no close, sync  *)
(* or flush of another handle writes an older size over it (meta.c:263),   *)
(* until the file is removed.                                              *)
THEOREM DirectoryNeverGoesBack == Spec => DirectoryGrows
<1>1. TablesInv /\ FilesInv /\ [Next]_vars
        => [\A e \in Files \ unsynced : /\ dir'[e].size >= dir[e].size
                                        /\ dir[e].size > 0 => dir'[e].first = dir[e].first]_vars
  <2> SUFFICES ASSUME TablesInv, FilesInv, Next, NEW e \in Files \ unsynced
               PROVE  /\ dir'[e].size >= dir[e].size
                      /\ dir[e].size > 0 => dir'[e].first = dir[e].first
    OBVIOUS
  <2>1. CASE Reset
    <3>1. FieldsKept
      BY <2>1 DEF Reset, eeprom, FieldsKept
    <3> QED
      BY <3>1, EntryGrows
  <2>2. CASE \E t \in Thread : Step(t)
    BY <2>2, EntrySteps, EntryGrows
  <2> QED
    BY <2>1, <2>2 DEF Next
<1> QED
  BY <1>1, TablesInvariant, FilesInvariant, PTL DEF Spec, DirectoryGrows

(* Whoever creates and renames files, no two files have one name, and the  *)
(* name that an open found free is free when it writes the entry: the      *)
(* search and the writing are under rootMutex, and so is a renaming        *)
(* (meta.c:196-239, 361).                                                  *)
THEOREM NamesStayDifferent == Spec => []NamesInv
<1>1. Init => NamesInv
  BY InitNames
<1>2. TablesInv /\ FilesInv => Stand
  BY FilesStandSo DEF Stand
<1>3. /\ TablesInv /\ TablesInv' /\ FilesInv /\ FilesInv' /\ NamesInv /\ [Next]_vars
      => NamesInv'
  <2> SUFFICES ASSUME TablesInv, TablesInv', FilesInv, FilesInv', NamesInv, [Next]_vars
               PROVE  NamesInv'
    OBVIOUS
  <2>1. Stand
    BY <1>2
  <2>2. Stand'
    BY <1>2, PTL
  <2> QED
    BY <2>1, <2>2, NextNames
<1> QED
  BY <1>1, <1>3, TablesInvariant, FilesInvariant, PTL DEF Spec

(* Each step of the calls is, by name, one of FileSpec or changes nothing  *)
(* there: an append comes behind all others (block.c:352), what a reset    *)
(* leaves of a file never gets less and is all of it once no call changes  *)
(* the file (meta.c:263), only such a file is removed (meta.c:329), and no *)
(* create, rename or removal touches the file of another name.             *)
THEOREM FilesKeepTheirPromise == Spec => ImplementsFileSpec
<1>1. Init => Promise!Init
  BY InitNames
<1>2. TablesInv /\ FilesInv => Stand
  BY FilesStandSo DEF Stand
<1>3. /\ TablesInv /\ TablesInv' /\ FilesInv /\ FilesInv' /\ NamesInv /\ NamesInv' /\ [Next]_vars
      => [Promise!Next]_Promise!vars
  <2> SUFFICES ASSUME TablesInv, TablesInv', FilesInv, FilesInv', NamesInv, NamesInv', [Next]_vars
               PROVE  [Promise!Next]_Promise!vars
    OBVIOUS
  <2>1. Stand
    BY <1>2
  <2>2. Stand'
    BY <1>2, PTL
  <2> QED
    BY <2>1, <2>2, NextIsSeen
<1> QED
  BY <1>1, <1>3, TablesInvariant, FilesInvariant, NamesStayDifferent, PTL
  DEF Spec, ImplementsFileSpec, Promise!Spec
==============================================================================
