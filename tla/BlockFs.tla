------------------------------ MODULE BlockFs ------------------------------
(***************************************************************************)
(* The block file system: fs/core.c, fs/block/block.c, meta.c, alloc.c.    *)
(*                                                                         *)
(* EEPROM holds the block table and the directory, the flash holds blocks  *)
(* and, at the end of each, the number of the next one; file control       *)
(* blocks, handles and locks are in RAM.  A step is what happens between   *)
(* two points where another thread, or a reset, can make a difference: the *)
(* taking of a lock, a write to EEPROM or flash.                           *)
(*                                                                         *)
(* Data is counted in units; a chunk is a block of BlockData units.  What  *)
(* a program appends at position p of the file of entry e is <<e, p>>.     *)
(* Reading and seeking change nothing but the reader's own handle and are  *)
(* left out.                                                               *)
(***************************************************************************)
EXTENDS Integers, FiniteSets

CONSTANTS Thread, Name,
          Mode,       \* the modes programs open files in
          Entries,    \* NUM_FILE_ENTRIES
          MaxOpen,    \* FS_MAX_OPEN_FILES
          Segments,   \* EXT_FLASH_SECTOR_COUNT
          PerSegment, \* BLOCKS_PER_SEGMENT
          BlockData,  \* BLOCK_DATA_SIZE
          MaxSize     \* bound: programs append to this length only

ASSUME FsAssumption ==
  /\ {Entries, MaxOpen, Segments, PerSegment, BlockData} \subseteq Nat \ {0}
  /\ MaxSize \in Nat \ {0} /\ Mode \subseteq {"read", "append", "append nocache"}

Entry == 0..(Entries - 1)
Slot  == 0..(MaxOpen - 1)   \* indices of fcbs[], blkHandles[] and openFiles[]
Seg   == 0..(Segments - 1)
Block == 0..(Segments * PerSegment - 1)
Cell  == 0..(BlockData - 1)
INVAL == -1                 \* BLOCK_INVAL; also a free fcb, a free handle
NoBlock == -2               \* a next pointer that is no block number
FREE  == "free"             \* BLOCK_FREE, BLOCK_USED, BLOCK_AVAIL
USED  == "used"
AVAIL == "avail"
Blank == <<>>               \* an erased cell
Junk  == <<-1, -1>>         \* a cell that was written twice
NoName == "no name"           \* the empty name
Nobody == "nobody"

ASSUME NamesAssumption ==
  IsFiniteSet(Thread) /\ Nobody \notin Thread /\ NoName \notin Name

VARIABLES
  table, dir,             \* EEPROM: block states; name, first, size
  next, data,             \* flash
  fcb, handle, openFiles, \* RAM
  root, tableLock,        \* who holds rootMutex, fsBlkTableMutex,
  fcbLock,                \* fcbs[i].mutex
  at,                     \* where each thread is, and its local variables
  unsynced,               \* history: the entries with a new name and the other
                          \* fields of the file before
  length                  \* history: units appended to each entry's file

eeprom  == <<table, dir>>
flash   == <<next, data>>
ram     == <<fcb, handle, openFiles>>
locks   == <<root, tableLock, fcbLock>>
history == <<unsynced, length>>
vars    == <<eeprom, flash, ram, locks, at, history>>
-----------------------------------------------------------------------------
Least(S) == CHOOSE x \in S : \A y \in S : x <= y

Appends(mode) == mode \in {"append", "append nocache"}
Named(n)      == {e \in Entry : dir[e].name = n}
FcbOf(h)      == handle[h].fcb
Pc(t)         == at[t].pc

segNum(b)       == b \div PerSegment
InSegment(s)    == {b \in Block : segNum(b) = s}
BlocksFor(size) == (size + BlockData - 1) \div BlockData

(* fsBlockGetNext(): no error is detected.                                 *)
fsBlockGetNext(b) == IF b \in Block THEN next[b] ELSE NoBlock

(* The block that n steps along the chain lead to.                         *)
Along(first, n) == LET b[k \in 0..n] == IF k = 0 THEN first ELSE fsBlockGetNext(b[k - 1])
                   IN  b[n]
Chain(first, size) == {Along(first, k) : k \in 0..(BlocksFor(size) - 1)}

(* Mutant of seekBlock: on a boundary it goes on.                          *)
SeekTooFar(first, pos) == Along(first, BlocksFor(pos))

(* seekBlock(): on a boundary it stops one block before.                   *)
seekBlock(first, pos) == Along(first, IF pos = 0 THEN 0 ELSE BlocksFor(pos) - 1)

Idle     == [pc |-> "idle"]
NoFcb    == [id |-> INVAL, refcount |-> 0, first |-> INVAL, size |-> 0, writer |-> FALSE]
NoHandle == [fcb |-> INVAL, mode |-> "read", pos |-> 0, curr |-> INVAL]
NoFile   == [owner |-> Nobody, handle |-> INVAL]

RamInit == /\ fcb = [i \in Slot |-> NoFcb]
           /\ handle = [i \in Slot |-> NoHandle]
           /\ openFiles = [i \in Slot |-> NoFile]
           /\ root = Nobody /\ tableLock = Nobody
           /\ fcbLock = [i \in Slot |-> Nobody]
           /\ at = [t \in Thread |-> Idle]

(* fsBlockInit() on a chip without the signature: every block needs to be  *)
(* erased, every entry is free, its fields are what was in the EEPROM.     *)
Init == /\ table = [b \in Block |-> AVAIL]
        /\ dir = [e \in Entry |-> [name |-> NoName, first |-> 0, size |-> 1]]
        /\ next = [b \in Block |-> NoBlock]
        /\ data = [b \in Block |-> [c \in Cell |-> Junk]]
        /\ RamInit
        /\ unsynced = {} /\ length = [e \in Entry |-> 0]

Goto(t, loc) == at' = [at EXCEPT ![t] = loc]
Return(t)    == Goto(t, Idle)

LockFcb(t, i) == fcbLock[i] = Nobody /\ fcbLock' = [fcbLock EXCEPT ![i] = t]
UnlockFcb(t)  == fcbLock' = [i \in Slot |-> IF fcbLock[i] = t THEN Nobody ELSE fcbLock[i]]
-----------------------------------------------------------------------------
(* fsOpen(name, mode).  fsAllocHandle() takes the first free slot of       *)
(* openFiles[]; the arguments matter from the next step on.                *)
fsOpen(t) ==
  /\ Pc(t) = "idle"
  /\ LET free == {fd \in Slot : openFiles[fd].owner = Nobody}
     IN  /\ free # {}
         /\ openFiles' = [openFiles EXCEPT ![Least(free)].owner = t]
         /\ Goto(t, [pc |-> "open", fd |-> Least(free)])
  /\ UNCHANGED <<eeprom, flash, fcb, handle, locks, history>>

(* fsFreeHandle(), also after an open that failed.                         *)
FreeFd(t) == /\ openFiles' = [openFiles EXCEPT ![at[t].fd] = NoFile]
             /\ Return(t)

(* fsBlockOpenFile(): look for the name, or for a free entry, under        *)
(* rootMutex.                                                              *)
OpenFind(t) ==
  /\ Pc(t) = "open" /\ root = Nobody
  /\ \E n \in Name, mode \in Mode :
       LET found == Named(n)
           free  == IF found = {} /\ Appends(mode) THEN Named(NoName) ELSE {}
       IN  IF found \cup free = {}
           THEN FreeFd(t) /\ UNCHANGED root
           ELSE /\ root' = t
                /\ Goto(t, [pc |-> IF found # {} THEN "find fcb" ELSE "alloc fcb",
                            op |-> "open", fd |-> at[t].fd, mode |-> mode,
                            new |-> IF found # {} THEN NoName ELSE n,
                            id |-> Least(found \cup free), i |-> 0])
                /\ UNCHANGED openFiles
  /\ UNCHANGED <<eeprom, flash, fcb, handle, tableLock, fcbLock, history>>

(* findAndLockFcb(entry) passes a control block of another file; after the *)
(* last one the file is known not to be open.                              *)
FindFcbOn(t) ==
  /\ Pc(t) = "find fcb" /\ fcbLock[at[t].i] = Nobody /\ fcb[at[t].i].id # at[t].id
  /\ LET e == at[t].id
     IN  Goto(t, IF at[t].i + 1 \in Slot THEN [at[t] EXCEPT !.i = @ + 1]
                 ELSE IF at[t].op = "open" THEN [at[t] EXCEPT !.pc = "alloc fcb", !.i = 0]
                 ELSE [pc |-> "free", id |-> e, b |-> dir[e].first, left |-> dir[e].size])
  /\ UNCHANGED <<eeprom, flash, ram, locks, history>>

(* Mutant of ShareFcb: a second writer is let in.                          *)
ShareAnyway(t) ==
  /\ Pc(t) = "find fcb" /\ at[t].op = "open"
  /\ fcbLock[at[t].i] = Nobody /\ fcb[at[t].i].id = at[t].id
  /\ fcb' = [fcb EXCEPT ![at[t].i].refcount = @ + 1,
                        ![at[t].i].writer = @ \/ Appends(at[t].mode)]
  /\ Goto(t, [pc |-> "alloc handle", fd |-> at[t].fd, i |-> at[t].i, mode |-> at[t].mode])
  /\ root' = Nobody
  /\ UNCHANGED <<eeprom, flash, handle, openFiles, tableLock, fcbLock, history>>

(* It finds the one of this file: share it, unless both write.             *)
ShareFcb(t) ==
  /\ Pc(t) = "find fcb" /\ at[t].op = "open"
  /\ fcbLock[at[t].i] = Nobody /\ fcb[at[t].i].id = at[t].id
  /\ LET i == at[t].i
         w == Appends(at[t].mode)
     IN  IF w /\ fcb[i].writer
         THEN FreeFd(t) /\ UNCHANGED fcb
         ELSE /\ fcb' = [fcb EXCEPT ![i].refcount = @ + 1, ![i].writer = @ \/ w]
              /\ Goto(t, [pc |-> "alloc handle", fd |-> at[t].fd, i |-> i, mode |-> at[t].mode])
              /\ UNCHANGED openFiles
  /\ root' = Nobody
  /\ UNCHANGED <<eeprom, flash, handle, tableLock, fcbLock, history>>

(* allocFcb(), the same search for a free control block.                   *)
AllocFcbOn(t) ==
  /\ Pc(t) = "alloc fcb" /\ fcbLock[at[t].i] = Nobody /\ fcb[at[t].i].id # INVAL
  /\ IF at[t].i + 1 \in Slot
     THEN Goto(t, [at[t] EXCEPT !.i = @ + 1]) /\ UNCHANGED <<root, openFiles>>
     ELSE root' = Nobody /\ FreeFd(t)
  /\ UNCHANGED <<eeprom, flash, fcb, handle, tableLock, fcbLock, history>>

(* A new file gets its name in the directory now, and its other fields     *)
(* when the control block is first written back.                           *)
AllocFcb(t) ==
  /\ Pc(t) = "alloc fcb" /\ fcbLock[at[t].i] = Nobody /\ fcb[at[t].i].id = INVAL
  /\ LET l   == at[t]
         new == l.new # NoName
     IN  /\ fcb' = [fcb EXCEPT ![l.i] =
                      [id |-> l.id, refcount |-> 1, writer |-> Appends(l.mode),
                       first |-> IF new THEN INVAL ELSE dir[l.id].first,
                       size  |-> IF new THEN 0 ELSE dir[l.id].size]]
         /\ IF new
            THEN /\ dir' = [dir EXCEPT ![l.id].name = l.new]
                 /\ length' = [length EXCEPT ![l.id] = 0]
                 /\ unsynced' = unsynced \cup {l.id}
            ELSE UNCHANGED <<dir, history>>
         /\ Goto(t, [pc |-> "alloc handle", fd |-> l.fd, i |-> l.i, mode |-> l.mode])
  /\ root' = Nobody
  /\ UNCHANGED <<table, flash, handle, openFiles, tableLock, fcbLock>>

(* The rest of blkOpen(): allocHandle(), and the position and the current  *)
(* block under the lock of the file (a reader's are left out); without a  *)
(* handle the control block is given back.                                 *)
OpenHandle(t) ==
  /\ Pc(t) = "alloc handle"
  /\ LET l    == at[t]
         f    == fcb[l.i]
         free == {h \in Slot : FcbOf(h) = INVAL}
     IN  IF free = {}
         THEN /\ Goto(t, [pc |-> "close fcb", fd |-> l.fd, i |-> l.i, h |-> INVAL])
              /\ UNCHANGED <<handle, openFiles>>
         ELSE /\ fcbLock[l.i] = Nobody
              /\ handle' = [handle EXCEPT ![Least(free)] =
                   IF Appends(l.mode)
                   THEN [fcb |-> l.i, mode |-> l.mode, pos |-> f.size,
                         curr |-> seekBlock(f.first, f.size)]
                   ELSE [NoHandle EXCEPT !.fcb = l.i]]
              /\ openFiles' = [openFiles EXCEPT ![l.fd].handle = Least(free)]
              /\ Return(t)
  /\ UNCHANGED <<eeprom, flash, fcb, locks, history>>
-----------------------------------------------------------------------------
(* Calls on open files.  A thread uses the files it opened.                *)
Opened(t) == {fd \in Slot : openFiles[fd].owner = t}

(* The unit goes to the buffer, and on to the flash when the buffer is     *)
(* full or not used; lock is fcbLock with the lock of the file held.       *)
AppendUnit(t, h, lock) ==
  LET p == handle[h].pos + 1
  IN  /\ length' = [length EXCEPT ![fcb[FcbOf(h)].id] = p]
      /\ IF p % BlockData = 0 \/ handle[h].mode = "append nocache"
         THEN Goto(t, [pc |-> "flush", op |-> "write", h |-> h]) /\ fcbLock' = lock
         ELSE Return(t) /\ fcbLock' = [lock EXCEPT ![FcbOf(h)] = Nobody]

(* blkWrite() of one unit; the block is allocated first if one begins.     *)
fsWrite(t) ==
  /\ Pc(t) = "idle"
  /\ \E fd \in Opened(t) :
       LET h == openFiles[fd].handle
           i == FcbOf(h)
       IN  /\ Appends(handle[h].mode) /\ handle[h].pos < MaxSize
           /\ fcbLock[i] = Nobody
           /\ IF handle[h].pos % BlockData = 0
              THEN /\ LockFcb(t, i)
                   /\ Goto(t, [pc |-> "allocate", h |-> h])
                   /\ UNCHANGED <<handle, length>>
              ELSE /\ handle' = [handle EXCEPT ![h].pos = @ + 1]
                   /\ AppendUnit(t, h, [fcbLock EXCEPT ![i] = t])
  /\ UNCHANGED <<eeprom, flash, fcb, openFiles, root, tableLock, unsynced>>

FreeIn(s)     == {b \in InSegment(s) : table[b] = FREE}
FreshSegments == {s \in Seg : FreeIn(s) = InSegment(s)}

(* Mutant of ErasableSegments: one block that needs erasure is enough.     *)
PartlyErasable == {s \in Seg : \E b \in InSegment(s) : table[b] = AVAIL}

ErasableSegments == {s \in Seg : \A b \in InSegment(s) : table[b] # USED}

(* The blocks fsBlockAllocate(old) may choose, by the order of its search. *)
(* Each search begins at a random place.                                   *)
Candidates(old) ==
  IF old \in Block /\ FreeIn(segNum(old)) # {} THEN FreeIn(segNum(old))
  ELSE IF FreshSegments # {} THEN UNION {InSegment(s) : s \in FreshSegments}
  ELSE IF ErasableSegments # {} THEN {}
  ELSE {b \in Block : table[b] = FREE}

(* fsBlockAllocate(): choose a block and mark it, ...                      *)
AllocateMark(t) ==
  /\ Pc(t) = "allocate" /\ tableLock = Nobody
  /\ \E b \in Candidates(handle[at[t].h].curr) :
       /\ table' = [table EXCEPT ![b] = USED]
       /\ Goto(t, [pc |-> "link", h |-> at[t].h, b |-> b])
  /\ tableLock' = t
  /\ UNCHANGED <<dir, flash, ram, root, fcbLock, history>>

(* ... or record an erasable segment as free, ...                          *)
AllocateRecord(t) ==
  /\ Pc(t) = "allocate" /\ tableLock = Nobody
  /\ Candidates(handle[at[t].h].curr) = {}
  /\ \E s \in ErasableSegments :
       /\ table' = [b \in Block |-> IF segNum(b) = s THEN FREE ELSE table[b]]
       /\ Goto(t, [pc |-> "erase", h |-> at[t].h, s |-> s])
  /\ tableLock' = t
  /\ UNCHANGED <<dir, flash, ram, root, fcbLock, history>>

(* Mutant of AllocateErase: the sector is not erased.                      *)
AllocateUnerased(t) ==
  /\ Pc(t) = "erase"
  /\ \E b \in InSegment(at[t].s) :
       /\ table' = [table EXCEPT ![b] = USED]
       /\ Goto(t, [pc |-> "link", h |-> at[t].h, b |-> b])
  /\ UNCHANGED <<dir, flash, ram, locks, history>>

(* ... erase it and mark one of its blocks, ...                            *)
AllocateErase(t) ==
  /\ Pc(t) = "erase"
  /\ next' = [b \in Block |-> IF segNum(b) = at[t].s THEN INVAL ELSE next[b]]
  /\ data' = [b \in Block |-> IF segNum(b) = at[t].s THEN [c \in Cell |-> Blank] ELSE data[b]]
  /\ \E b \in InSegment(at[t].s) :
       /\ table' = [table EXCEPT ![b] = USED]
       /\ Goto(t, [pc |-> "link", h |-> at[t].h, b |-> b])
  /\ UNCHANGED <<dir, ram, locks, history>>

(* Mutant of AllocateFail: the file stays locked.                          *)
FailLocked(t) ==
  /\ Pc(t) = "allocate" /\ tableLock = Nobody
  /\ Candidates(handle[at[t].h].curr) = {} /\ ErasableSegments = {}
  /\ Return(t)
  /\ UNCHANGED <<eeprom, flash, ram, locks, history>>

(* ... or give up: the write fails.                                        *)
AllocateFail(t) ==
  /\ Pc(t) = "allocate" /\ tableLock = Nobody
  /\ Candidates(handle[at[t].h].curr) = {} /\ ErasableSegments = {}
  /\ UnlockFcb(t)
  /\ Return(t)
  /\ UNCHANGED <<eeprom, flash, ram, root, tableLock, history>>

(* The block is written into the one before it, and blkWrite() goes on.    *)
(* Flash cells that are not blank do not take a second value.              *)
AllocateLink(t) ==
  /\ Pc(t) = "link"
  /\ LET h   == at[t].h
         old == handle[h].curr
         b   == at[t].b
         i   == FcbOf(h)
     IN  /\ next' = IF old \in Block
                    THEN [next EXCEPT ![old] = IF @ = INVAL THEN b ELSE NoBlock] ELSE next
         /\ handle' = [handle EXCEPT ![h].curr = b, ![h].pos = @ + 1]
         /\ fcb' = IF fcb[i].first = INVAL THEN [fcb EXCEPT ![i].first = b] ELSE fcb
         /\ AppendUnit(t, h, fcbLock)
  /\ tableLock' = Nobody
  /\ UNCHANGED <<eeprom, data, openFiles, root, unsynced>>

(* blkFlush(), and the first half of blkClose() of a writer.               *)
fsFlush(t) ==
  /\ Pc(t) = "idle"
  /\ \E fd \in Opened(t), op \in {"sync", "close"} :
       LET h == openFiles[fd].handle
       IN  /\ Appends(handle[h].mode) /\ LockFcb(t, FcbOf(h))
           /\ Goto(t, [pc |-> "flush", op |-> op, h |-> h, fd |-> fd])
  /\ UNCHANGED <<eeprom, flash, ram, root, tableLock, history>>

(* fsBlockSyncEntry() of control block f.                                  *)
fsBlockSyncEntry(f) == /\ dir' = [dir EXCEPT ![f.id].first = f.first, ![f.id].size = f.size]
                       /\ unsynced' = unsynced \ {f.id}

(* Mutant of Flush: the entry is written with the size to come.            *)
FlushAhead(t) ==
  /\ Pc(t) = "flush"
  /\ LET h == at[t].h
         f == fcb[FcbOf(h)]
     IN  /\ handle[h].pos # f.size
         /\ fsBlockSyncEntry([f EXCEPT !.size = handle[h].pos])
         /\ Goto(t, [at[t] EXCEPT !.pc = "program"])
  /\ UNCHANGED <<table, flash, ram, locks, length>>

(* doFlush() and doWrite(): at the start of a block the directory entry is *)
(* written first; then the units that are not on the flash yet.            *)
Flush(t) ==
  /\ Pc(t) = "flush"
  /\ LET h == at[t].h
         f == fcb[FcbOf(h)]
     IN  /\ handle[h].pos # f.size
         /\ IF f.size % BlockData = 0 THEN fsBlockSyncEntry(f) ELSE UNCHANGED <<dir, unsynced>>
         /\ Goto(t, [at[t] EXCEPT !.pc = "program"])
  /\ UNCHANGED <<table, flash, ram, locks, length>>

Program(t) ==
  /\ Pc(t) = "program"
  /\ LET h == at[t].h
         f == fcb[FcbOf(h)]
         start == f.size - (f.size % BlockData)
     IN  /\ data' = [data EXCEPT ![handle[h].curr] =
                       [c \in Cell |-> IF start + c \notin f.size..(handle[h].pos - 1) THEN @[c]
                                       ELSE IF @[c] = Blank THEN <<f.id, start + c>> ELSE Junk]]
         /\ fcb' = [fcb EXCEPT ![FcbOf(h)].size = handle[h].pos]
  /\ Goto(t, [at[t] EXCEPT !.pc = "flush"])
  /\ UNCHANGED <<eeprom, next, handle, openFiles, locks, history>>

(* The buffer is on the flash: what the call does after doFlush().         *)
FlushDone(t) ==
  /\ Pc(t) = "flush" /\ handle[at[t].h].pos = fcb[FcbOf(at[t].h)].size
  /\ LET i == FcbOf(at[t].h)
     IN  /\ IF at[t].op = "sync" THEN fsBlockSyncEntry(fcb[i]) ELSE UNCHANGED <<dir, unsynced>>
         /\ IF at[t].op = "close"
            THEN /\ fcb' = [fcb EXCEPT ![i].writer = FALSE]
                 /\ Goto(t, [pc |-> "close fcb", fd |-> at[t].fd, i |-> i, h |-> at[t].h])
            ELSE Return(t) /\ UNCHANGED fcb
  /\ UnlockFcb(t)
  /\ UNCHANGED <<table, flash, handle, openFiles, root, tableLock, length>>

(* blkClose() of a reader.                                                 *)
fsCloseReader(t) ==
  /\ Pc(t) = "idle"
  /\ \E fd \in Opened(t) :
       LET h == openFiles[fd].handle
       IN  /\ handle[h].mode = "read"
           /\ Goto(t, [pc |-> "close fcb", fd |-> fd, i |-> FcbOf(h), h |-> h])
  /\ UNCHANGED <<eeprom, flash, ram, locks, history>>

(* Mutant of fsBlockCloseFile: the control block is given back unwritten.  *)
CloseUnwritten(t) ==
  /\ Pc(t) = "close fcb" /\ fcbLock[at[t].i] = Nobody
  /\ LET i == at[t].i
     IN  fcb' = IF fcb[i].refcount = 1 THEN [fcb EXCEPT ![i] = NoFcb]
                ELSE [fcb EXCEPT ![i].refcount = @ - 1]
  /\ Goto(t, [pc |-> "close handle", fd |-> at[t].fd, h |-> at[t].h])
  /\ UNCHANGED <<eeprom, flash, handle, openFiles, locks, history>>

(* fsBlockCloseFile(): the last one out writes the entry.                  *)
fsBlockCloseFile(t) ==
  /\ Pc(t) = "close fcb" /\ fcbLock[at[t].i] = Nobody
  /\ LET i == at[t].i
     IN  IF fcb[i].refcount = 1
         THEN fsBlockSyncEntry(fcb[i]) /\ fcb' = [fcb EXCEPT ![i] = NoFcb]
         ELSE fcb' = [fcb EXCEPT ![i].refcount = @ - 1] /\ UNCHANGED <<dir, unsynced>>
  /\ Goto(t, [pc |-> "close handle", fd |-> at[t].fd, h |-> at[t].h])
  /\ UNCHANGED <<table, flash, handle, openFiles, locks, length>>

(* freeHandle() of block.c and fsFreeHandle() of core.c.                   *)
fsFreeHandle(t) ==
  /\ Pc(t) = "close handle"
  /\ handle' = IF at[t].h \in Slot THEN [handle EXCEPT ![at[t].h] = NoHandle] ELSE handle
  /\ FreeFd(t)
  /\ UNCHANGED <<eeprom, flash, fcb, locks, history>>
-----------------------------------------------------------------------------
(* fsRemove(): find out, as an open does, whether the file is in use, ...  *)
fsRemove(t) ==
  /\ Pc(t) = "idle" /\ root = Nobody
  /\ \E e \in Entry \ Named(NoName) :
       Goto(t, [pc |-> "find fcb", op |-> "remove", id |-> e, i |-> 0])
  /\ root' = t
  /\ UNCHANGED <<eeprom, flash, ram, tableLock, fcbLock, history>>

RemoveRefused(t) ==
  /\ Pc(t) = "find fcb" /\ at[t].op = "remove"
  /\ fcbLock[at[t].i] = Nobody /\ fcb[at[t].i].id = at[t].id
  /\ root' = Nobody
  /\ Return(t)
  /\ UNCHANGED <<eeprom, flash, ram, tableLock, fcbLock, history>>

(* Mutant of BlockFree: the last block stays in use.                       *)
BlockFreeButLast(t) ==
  /\ Pc(t) = "free" /\ at[t].left > 0 /\ tableLock = Nobody
  /\ table' = IF at[t].b \in Block /\ at[t].left > BlockData
              THEN [table EXCEPT ![at[t].b] = AVAIL] ELSE table
  /\ Goto(t, [at[t] EXCEPT !.b = fsBlockGetNext(@),
                           !.left = IF @ > BlockData THEN @ - BlockData ELSE 0])
  /\ UNCHANGED <<dir, flash, ram, locks, history>>

(* ... free its blocks one by one with fsBlockFree() ...                   *)
BlockFree(t) ==
  /\ Pc(t) = "free" /\ at[t].left > 0 /\ tableLock = Nobody
  /\ table' = IF at[t].b \in Block THEN [table EXCEPT ![at[t].b] = AVAIL] ELSE table
  /\ Goto(t, [at[t] EXCEPT !.b = fsBlockGetNext(@),
                           !.left = IF @ > BlockData THEN @ - BlockData ELSE 0])
  /\ UNCHANGED <<dir, flash, ram, locks, history>>

(* ... and then the entry.                                                 *)
DelEntry(t) ==
  /\ Pc(t) = "free" /\ at[t].left = 0
  /\ dir' = [dir EXCEPT ![at[t].id].name = NoName]
  /\ root' = Nobody
  /\ Return(t)
  /\ UNCHANGED <<table, flash, ram, tableLock, fcbLock, history>>

(* fsRename() writes only the name, also of a file in use.                 *)
fsRename(t) ==
  /\ Pc(t) = "idle" /\ root = Nobody
  /\ \E e \in Entry \ Named(NoName), n \in Name :
       Named(n) = {} /\ dir' = [dir EXCEPT ![e].name = n]
  /\ UNCHANGED <<table, flash, ram, locks, at, history>>
-----------------------------------------------------------------------------
(* A thread is at a point of pcs with handle h.                            *)
Busy(h, pcs) == \E t \in Thread : Pc(t) \in pcs /\ at[t].h = h

(* The handles that refer to control block i; in freeHandle() they do not  *)
(* use it any more.                                                        *)
HandlesOf(i) == {h \in Slot : FcbOf(h) = i /\ ~Busy(h, {"close handle"})}
Writers(i)   == {h \in HandlesOf(i) : Appends(handle[h].mode)}

InUse(e)    == \E i \in Slot : fcb[i].id = e
FcbFor(e)   == CHOOSE i \in Slot : fcb[i].id = e
Removers(e) == {t \in Thread : Pc(t) = "free" /\ at[t].id = e}

(* The file of entry e is being changed: a call holds its lock, its        *)
(* control block says what the directory does not, a writer has data in    *)
(* its buffer, or it is being removed.                                     *)
InChange(e) ==
  \/ Removers(e) # {}
  \/ InUse(e) /\ LET i == FcbFor(e)
                 IN  \/ e \in unsynced \/ fcbLock[i] # Nobody
                     \/ fcb[i].first # dir[e].first \/ fcb[i].size # dir[e].size
                     \/ \E h \in Writers(i) : handle[h].pos # dir[e].size

(* A reset.  EEPROM and flash stay; fsBlockInit() finds the signature and  *)
(* only initialises RAM.  Bound: what comes after a reset is followed if   *)
(* no file was in the middle of a change.  What any other reset would find *)
(* is the EEPROM and the flash of the state it falls in: the invariants    *)
(* below speak of them in every state.                                     *)
Reset == /\ \A e \in Entry : ~InChange(e)
         /\ fcb' = [i \in Slot |-> NoFcb]
         /\ handle' = [i \in Slot |-> NoHandle]
         /\ openFiles' = [i \in Slot |-> NoFile]
         /\ root' = Nobody /\ tableLock' = Nobody
         /\ fcbLock' = [i \in Slot |-> Nobody]
         /\ at' = [t \in Thread |-> Idle]
         /\ UNCHANGED <<eeprom, flash, history>>
-----------------------------------------------------------------------------
Open(t)     == \/ fsOpen(t) \/ OpenFind(t) \/ FindFcbOn(t) \/ ShareFcb(t)
               \/ AllocFcbOn(t) \/ AllocFcb(t) \/ OpenHandle(t)
Allocate(t) == \/ AllocateMark(t) \/ AllocateRecord(t) \/ AllocateErase(t)
               \/ AllocateFail(t) \/ AllocateLink(t)
Write(t)    == fsWrite(t) \/ fsFlush(t) \/ Flush(t) \/ Program(t) \/ FlushDone(t)
Close(t)    == fsCloseReader(t) \/ fsBlockCloseFile(t) \/ fsFreeHandle(t)
Remove(t)   == fsRemove(t) \/ RemoveRefused(t) \/ BlockFree(t) \/ DelEntry(t)

Step(t) == Open(t) \/ Allocate(t) \/ Write(t) \/ Close(t) \/ Remove(t) \/ fsRename(t)

Next == Reset \/ \E t \in Thread : Step(t)

Spec == Init /\ [][Next]_vars
-----------------------------------------------------------------------------
TypeOK ==
  /\ table \in [Block -> {FREE, USED, AVAIL}]
  /\ dir \in [Entry -> [name : Name \cup {NoName}, first : Block \cup {INVAL}, size : 0..MaxSize]]
  /\ next \in [Block -> Block \cup {INVAL, NoBlock}]
  /\ data \in [Block -> [Cell -> (Entry \X (0..MaxSize)) \cup {Blank, Junk}]]
  /\ fcb \in [Slot -> [id : Entry \cup {INVAL}, refcount : 0..MaxOpen, writer : BOOLEAN,
                       first : Block \cup {INVAL}, size : 0..MaxSize]]
  /\ handle \in [Slot -> [fcb : Slot \cup {INVAL}, mode : Mode \cup {"read"}, pos : 0..MaxSize,
                          curr : Block \cup {INVAL}]]
  /\ openFiles \in [Slot -> [owner : Thread \cup {Nobody}, handle : Slot \cup {INVAL}]]
  /\ {root, tableLock} \cup {fcbLock[i] : i \in Slot} \subseteq Thread \cup {Nobody}
  /\ unsynced \subseteq Entry /\ length \in [Entry -> 0..MaxSize]

Files == Entry \ Named(NoName)

(* The blocks of a file: those that hold data and the ones its writers     *)
(* have taken for more; of a file that is being removed, those left.       *)
BlocksOf(e) ==
  IF InUse(e)
  THEN LET i == FcbFor(e)
       IN  Chain(fcb[i].first, fcb[i].size)
             \cup ({handle[h].curr : h \in Writers(i)} \ {INVAL})
  ELSE IF Removers(e) # {} THEN UNION {Chain(at[t].b, at[t].left) : t \in Removers(e)}
  ELSE Chain(dir[e].first, dir[e].size)

(* A block belongs to one file, and the table knows that it is in use,     *)
(* whatever opens, writes, removals and resets do in between.              *)
OwnedOnce ==
  \A e \in Files : /\ BlocksOf(e) \subseteq {b \in Block : table[b] = USED}
                   /\ \A d \in Files \ {e} : BlocksOf(e) \cap BlocksOf(d) = {}

(* No block is lost: one that is in use is in a file, or on its way there. *)
NothingLeaks ==
  \A b \in Block : table[b] = USED => \/ \E e \in Files : b \in BlocksOf(e)
                                      \/ \E t \in Thread : Pc(t) = "link" /\ at[t].b = b

(* A block that the table says is ready for use is erased, on a reset too, *)
(* except between the recording of an erasure and the erasure: there the   *)
(* order of alloc.c:181-182 leaves a reset with blocks that are not.       *)
FreeIsErased ==
  \A b \in Block :
    table[b] = FREE => \/ next[b] = INVAL /\ data[b] = [c \in Cell |-> Blank]
                       \/ \E t \in Thread : Pc(t) = "erase" /\ at[t].s = segNum(b)

(* The directory and the flash alone lead to units 0..n-1 of the file.     *)
Holds(e, n) == \A p \in 0..(n - 1) :
                 LET b == Along(dir[e].first, p \div BlockData)
                 IN  b \in Block /\ data[b][p % BlockData] = <<e, p>>

(* What a file's writer has flushed or closed survives: when nothing is    *)
(* being changed, a reset finds in EEPROM and flash all that was appended. *)
FlushedSurvives ==
  \A e \in Files : ~InChange(e) => dir[e].size = length[e] /\ Holds(e, length[e])

(* The directory never runs ahead of the flash: a reset in the middle of   *)
(* appending, allocating or closing finds every unit the size speaks of.   *)
(* Not so while a file is created (meta.c:239) or removed.                 *)
DirectoryBehindFlash ==
  \A e \in Files \ unsynced : Removers(e) = {} => Holds(e, dir[e].size)

(* How the file of entry e stands, to a program and to a reset.            *)
StateOf(e) == IF Removers(e) # {} THEN "going"
              ELSE IF e \in unsynced THEN "new"
              ELSE IF ~Holds(e, dir[e].size) THEN "lost"
              ELSE IF InChange(e) THEN "open" ELSE "safe"
Found(e)   == IF StateOf(e) \in {"open", "safe"} THEN dir[e].size ELSE 0

(* Towards its programs the file system is that of module FileSpec: no     *)
(* file takes the place or the units of another, an append comes behind    *)
(* all others, what is on the flash and in the directory only grows, and   *)
(* it is everything once nobody is changing the file.                      *)
FileOf(n)   == CHOOSE e \in Entry : dir[e].name = n
SeenState   == [n \in Name |-> IF Named(n) = {} THEN "none" ELSE StateOf(FileOf(n))]
SeenWritten == [n \in Name |-> IF Named(n) = {} THEN 0 ELSE length[FileOf(n)]]
SeenStored  == [n \in Name |-> IF Named(n) = {} THEN 0 ELSE Found(FileOf(n))]

Promise == INSTANCE FileSpec WITH
  state <- SeenState, written <- SeenWritten, stored <- SeenStored
ImplementsFileSpec == Promise!Spec

(* Two threads never append to one file, wherever an open falls in between *)
(* the two halves of a close.                                              *)
OneWriter ==
  \A i \in Slot : Cardinality({h \in Writers(i) : ~Busy(h, {"close fcb"})}) <= 1

(* The reference count of a control block is the number of handles and     *)
(* calls that will use it; one that is given back is used by nobody.       *)
CountsAgree ==
  \A i \in Slot : fcb[i].refcount =
      Cardinality(HandlesOf(i)) + Cardinality({t \in Thread : Pc(t) = "alloc handle" /\ at[t].i = i})

(* The three tables have one size: an open that has a slot of openFiles[]  *)
(* finds a control block and a handle, while others close and open.        *)
TablesSuffice ==
  \A t \in Thread :
    /\ Pc(t) = "alloc fcb" => \E i \in Slot : i >= at[t].i /\ fcb[i].id = INVAL
    /\ Pc(t) = "alloc handle" => \E h \in Slot : FcbOf(h) = INVAL

(* Opens and closes leave the tables sound, and writers alone.             *)
HandlesSound == OneWriter /\ CountsAgree /\ TablesSuffice

(* Calls do not wait for each other in a circle, nor for a lock that was   *)
(* left behind: opens take rootMutex and then one file after the other,    *)
(* writes a file and then the block table, removals all three.             *)
SomeCallGoesOn ==
  LET inCall == {t \in Thread : Pc(t) # "idle"}
  IN  inCall # {} => \E t \in inCall : ENABLED Step(t)
=============================================================================
