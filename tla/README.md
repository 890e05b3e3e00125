# Verification of MansOS

MansOS is an operating system for wireless sensor motes (MSP430 and AVR, a few kilobytes of RAM).
This directory holds TLA+ models of its kernels, its file system and its network protocols, the
TLC configurations that check them, and proofs. Paths below are relative to `src/mos/`.

## 1. Inventory

An application is one image: kernel, drivers and `appMain()`. There are three kernels, chosen at
build time: preemptive **threads** (`kernel/threads`), a single **event loop**
(`kernel/nothreads`) and Contiki-like **protothreads** (`kernel/protothreads`). Alarms, radio and
file system sit on whichever is chosen.

| Component | State | Operations | Interacts with |
|---|---|---|---|
| Threads, sleep, timer interrupt (`kernel/threads/threads.c`, `timing.c`, `main.c`, `kernel/sleep.c`) | `currentThread`, per thread `state` and `sleepEndTime`, `jiffiesToSleep`, `processFlags`, `isInSleepMode` | `msleep`/`yield`, `schedule`, `threadWakeup`, thread exit, the loop `systemMain`, `ALARM_TIMER_INTERRUPT`, `doMsleep` | alarms and radio by two flags; mutexes by thread states |
| Mutex (`kernel/threads/mutex.c`) | `locked`, one `waiter` | `mutexInit`, `mutexLock`, `mutexUnlock` | scheduler; used by stdio, file system, sockets, packet queue |
| Alarms (`kernel/alarms.c`) | a singly linked list sorted by time | `alarmSchedule`, `alarmRemove`, `alarmsProcess` and callbacks | flag to the kernel thread; head of the list to the scheduler |
| Selection with several user threads (`threads.c`, `NUM_USER_THREADS > 1`) | as above | `SELECT_NEXT_THREAD`, policies | mutex |
| Event kernel (`kernel/nothreads`) | as above, no threads | `msleep` that runs alarms, `alarmsProcess` in interrupts | alarms |
| Protothreads (`kernel/protothreads`) | process list, event ring, `poll_requested`, timers | `process_post`, `process_poll`, `process_run`, `process_exit`, `etimer_*` | interrupts poll |
| FS blocks (`fs/block/alloc.c`) | block table (EEPROM), chains in flash, table lock | allocate, free, erase | file layer |
| FS files (`fs/core.c`, `fs/block/block.c`, `meta.c`) | directory (EEPROM), file control blocks, handles, open files, their mutexes | open, read, write, flush, seek, close, remove, rename | block layer, mutexes |
| Acknowledged MAC and packet queue (`net/mac/csma-ack.c`, `net/net_queue.c`) | queue, timer, sequence number, tries | send, poll, acknowledge, retry | radio, alarms, a mutex |
| Distance vector routing (`net/routing/dv.c`, `dv-bs.c`) | next hop, hops and sequence number, timers, active mark | originate, forward, request, expiry | MAC, alarms |
| Other MACs (`csma.c`, `null.c`) and routing (`sad*.c`) | backoff timer; slots of a time schedule | send, poll; forwarding in slots | radio, alarms |
| Sockets (`net/socket.c`) | list of sockets and its mutex | open, close, receive dispatch | routing, mutex |
| SSMP, boot, library, drivers, WMP, FAT | see `PROJECT.json` | | |

Interaction in the threaded kernel. Interrupts do little: they set a bit of `processFlags`, make
the kernel thread READY and `yield()` to it *inside* the handler. The kernel thread runs alarm
callbacks and the radio's receive callback. A user thread sleeps in `msleep()`: `schedule()`
selects another thread or stops the CPU. Alarm callbacks and the user thread share data under
mutexes and share the alarm list under no lock at all (a comment in `alarms.c` claims that none is
needed).

Hard behaviours, each with its line in `PROJECT.json` ("hazards"):

* a thread switch inside the timer interrupt at any instruction, in particular between the write
  and the use of the global `jiffiesToSleep` in `msleep()`;
* wake-ups that race with going to sleep; flags that must be served; 16- and 32-bit times;
* `mutexLock()` that calls the scheduler inside its critical section, hand-over without ownership,
  one waiter slot;
* a list walked without a lock while callbacks and another thread relink it;
* resets between flash and EEPROM writes; lost acknowledgements and retries; full queues.

What makes each component correct:

* *Threads*: states agree with who has the processor; the CPU is stopped only when nobody can use
  it; nobody is put to sleep for longer than requested or past the next alarm; flags are served;
  sleeps end; an ended thread never runs.
* *Mutex*: exclusion; no lost wake-up; a waiter gets in; any number of threads.
* *Alarms*: the list stays a list and loses nothing; an alarm fires once per setting, never early,
  never after removal, and does fire.
* *Protothreads*: a process has one call at a time; exits leave nothing behind; a poll is never
  lost; timers fire; the CPU sleeps only when there is nothing to do.
* *FS*: a block belongs to one file and none is lost; only erased blocks are handed out, across
  resets; what was flushed survives; reference counts match handles; locks do not deadlock.
* *MAC*: an acknowledged packet was received; retries stop; nothing stays in the queue.
* *Routing*: routes lead to the root; news are passed on; nobody floods the channel.
* *Sockets*: a packet reaches every matching socket; callbacks may use the socket calls.

## 2. Modules

| Module | Models | Checked / proved |
|---|---|---|
| `Mutex` | `mutex.c` for any number of threads; the scheduler is "some thread that may run" | run and proof |
| `Threads` | the scheduler, sleep and interrupts for `NUM_USER_THREADS == 1`, the kernel loop, one mutex, the head of the alarm list | runs and proof; implements `Mutex` |
| `Alarms` | `alarms.c` to the pointers of the list | runs and proof; implements `AlarmSpec` |
| `AlarmSpec` | what alarms promise clients (abstract; models no code) | |
| `BlockFs` | the block file system, from `fsOpen()` to the writes to EEPROM and flash | run and proof; implements `FileSpec` |
| `FileSpec` | what the file system promises programs and a reset (abstract; models no code) | |
| `Protothreads` | `process.c`, `etimer.c`, `radio.c`, `protosched.c` and the interrupts that poll | run and proof |
| `CsmaAck` | `csma-ack.c` and `net_queue.c` on nodes with a lossy channel between them | run and proof |
| `DvRouting` | `dv.c` and `dv-bs.c` on a root and other nodes | run and proof |
| `MutexProofs`, `ThreadsProofs`, `AlarmsProofs`, `BlockFsProofs`, `CsmaAckProofs`, `DvRoutingProofs`, `ProtothreadsProofs` | theorems about the module they are named after | TLAPS |
| `BlockFsBlocksProofs` | theorems about the blocks of `BlockFs`: who has them, what is in them, what a reset finds; the step to `FileSpec` | TLAPS |
| `MCMutex`, `MCAlarms`, `MCBlockFs`, `MCProtothreads`, `MCDvRouting` | symmetry, views and sets for TLC | |

An operator whose comment begins "Mutant of" is the one below it with a plausible bug; it is used
only to see that the properties notice (`PROJECT.json`, "mutants").

### Mutex

One step is the code that runs with interrupts disabled: a turn of the loop of `mutexLock()`
(`Take`, `Wait`, or `Contend` when the `ASSERT` fails) or `mutexUnlock()`. `blocked` is the set of
threads whose state is THREAD_BLOCKED. `at` is the position of each thread; its value "inside" is
the ownership that the code does not record. A blocked thread does not run, except when *all*
threads are blocked: `SELECT_NEXT_THREAD` then returns some thread nevertheless
(`threads.c:161-166`), and the loop in `mutexLock()` has to cope with that.

### Threads

`currentThread`, `state`, `jiffiesToSleep`, `processFlags` are the variables of the code.
Absolute times become differences to `jiffies` modulo `Clock` (the code only ever looks at
differences modulo 2^32); `sleepLeft[t]` is `threads[t].sleepEndTime - jiffies`, `alarmLeft` is
the time to the head of the alarm list. `jiffiesToSleep` is kept modulo `Short`, as `uint16_t`.
`asleep` and `wakeLeft` are the low power mode and its timer. `pc` says where each thread is;
`restMs` is `msleep()`'s remaining `ms`. `holding` and `owed` are history: who is inside the
mutex, and what is left of the sleep the user asked for.

| Action | Code |
|---|---|
| `UserSleep`, `UserSleepOn`, `UserSchedule`, `UserReturn` | `msleep()`: write of `jiffiesToSleep`; the loop; `schedule()`; return |
| `UserLock`, `KernelLock` (`Enter`, `Block`), `UserUnlock`, `KernelUnlock` | `mutexLock()`, `mutexUnlock()`, in the user thread and in an alarm callback |
| `UserAlarm` | `alarmSchedule()` as the scheduler sees it |
| `UserExit`, `UserGone` | end of `threadWrapper()` and its `yield()` |
| `KernelRadio`, `KernelAlarms`, `KernelPass`, `KernelCompute`, `KernelSchedule` | one round of `systemMain()` |
| `Tick` | `ALARM_TIMER_INTERRUPT()` with the CPU active, with or without the 16-bit wraparound |
| `SleepTick`, `RadioWakeup` | low power mode, its end, the rest of `doMsleep()` |
| `RadioInterrupt` | the radio interrupt with the CPU active |

`schedule()` is one operator: it runs with interrupts disabled from its entry to the return in the
next thread or the stop of the CPU. Constant `Window` decides whether an interrupt may fall
between the write of `jiffiesToSleep` and the `dint` of `schedule()`. On the real system it may;
with `Window = FALSE` the model shows what holds apart from that race.

Left out: the correction of `jiffies` by three in `ALARM_TIMER_INTERRUPT`, the polling hook of
one radio chip, `checkThreadLockups()`, saving of registers. Where the interrupt finds the CPU in
low power mode it does not switch threads; the rest of `doMsleep()` does the work.

### Alarms

`head` and `chain` are the `SLIST`; `step`, `cell`, `ap` and `next` are the position and the local
variables of `alarmsProcess()`. `alarmSchedule()` is two steps, because it writes the time *before*
its critical section (`alarms.c:86`): `SetTime` and `Relink`. `alarmsProcess()` reads the next
pointer (`Expire`), stores it and calls (`Unlink`), and goes on through the chain field of the
alarm it fired (`Return`). What alarms see of the scheduler is `cpu`: a jiffy that finds an expired
alarm, or the flag already up, gives the kernel thread the processor; a wraparound without a flag
preempts. `status` is what clients know. Constant `Uses` says what clients do:

* `once`: a callback may return without setting its alarm again;
* `others`: a callback may set other alarms; `now`: with delay 0; `remove`: `alarmRemove()` is used.

`AlarmSpec` promises: an alarm fires only when set, once per setting, not before its time; every
alarm that stays due fires. Between the two steps of `alarmSchedule()` the abstract alarm is
already set to its new time if it was set before; if the pass fires it in between, the refinement
takes the completion of `alarmSchedule()` as a new setting. The abstract `calling`, the alarm whose
callback runs, makes a firing visible: a callback that runs early, twice, or after a removal is
no step of `AlarmSpec`.

### BlockFs

| Where | Variables | Code |
|---|---|---|
| EEPROM | `table`; `dir` | the states of blocks, two bits each; name, first block and size of each entry |
| flash | `next`; `data` | the number of the next block at the end of each block; its contents |
| RAM | `fcb`, `handle`, `openFiles` | `fcbs[]` of `meta.c`, `blkHandles[]` of `block.c`, the table of `core.c` |
| RAM | `root`, `tableLock`, `fcbLock` | who holds `rootMutex`, `fsBlkTableMutex`, `fcbs[i].mutex` |
| | `at` | where each thread is, with its local variables |
| | `length`, `unsynced` | history: units appended; entries with a new name and old fields |

A step ends where another thread or a reset can make a difference: at a lock and at each write to
EEPROM or flash. `rootMutex` is held from `OpenFind` or `fsRemove` on while the locks of the
control blocks are taken in turn; `fsBlkTableMutex` from `AllocateMark` to `AllocateLink`.

| Actions | Code |
|---|---|
| `fsOpen`, `OpenFind`, `FindFcbOn`, `ShareFcb`, `AllocFcbOn`, `AllocFcb`, `OpenHandle` | `fsOpen()`, `fsBlockOpenFile()`, `findAndLockFcb()`, `allocFcb()`, `blkOpen()`, with every way they fail |
| `fsWrite`, `AllocateMark`, `AllocateRecord`, `AllocateErase`, `AllocateFail`, `AllocateLink` | `blkWrite()` of one unit, `fsBlockAllocate()` |
| `fsFlush`, `Flush`, `Program`, `FlushDone` | `blkFlush()`, `doFlush()`, `doWrite()`, `fsBlockSyncEntry()`; the first half of `blkClose()` of a writer |
| `fsCloseReader`, `fsBlockCloseFile`, `fsFreeHandle` | the rest of `blkClose()`, `fsBlockCloseFile()`, `freeHandle()` |
| `fsRemove`, `RemoveRefused`, `BlockFree`, `DelEntry`, `fsRename` | `fsRemove()`, `fsBlockFree()`, `fsRename()` |
| `Reset` | a reset: RAM is lost, EEPROM and flash stay, `fsBlockInit()` |

A cell of flash that is written twice holds `Junk`, a next pointer that is written twice is no
block number. `Reset` is followed only where no file is being changed (bound; the states after
other resets are many and say nothing new): what any other reset would find is the EEPROM and the
flash of the state in which it falls, and `OwnedOnce`, `FreeIsErased` and the `stored` of `FileSpec` speak
of these in every state. Left out: reading and seeking, which change only the reader's own handle;
checksums, prefixes, devices.

`FileSpec` knows names only: whether there is a file, how many units were appended (`written`), and how
many a reset leaves for certain (`stored`). `ImplementsFileSpec` looks a name up in the directory:
`written` is `length` of its entry; a file that is being removed is "going", one whose entry is not yet
written back "new", one that a call is changing "open", else "safe"; `stored` is the size in the
directory of an open or safe file. If the flash did not hold the units the directory speaks of,
the file would be "lost", a state `FileSpec` does not have. Takings, stores and the steps of a removal
are those of `FileSpec` or stutter; what happens to blocks, control blocks and locks is not seen, and
a reset is a stutter: it changes nothing that was promised.

### Protothreads

Everything but the interrupts is one thread of control; `work` is its call stack, with a frame
for each loop over the list of processes that is suspended in a call ("poll", "cast", "exit"), for
`call_process()` ("call") and for a handler that runs or has something left to do ("run",
"return"). `head` and `next` are `process_list`, and loops go on through `next`, so that a handler
which starts or exits processes changes the list under them. `events` is the ring, `polls` and
`pollRequested` are `needspoll` and `poll_requested`. `timerlist`, `timer` and `nextLeft` are the
event timers and `next_expiration`, as differences modulo `Clock`.

| Actions | Code |
|---|---|
| `Boot`, `RunPoll`, `do_event`, `Sleep` | start of the processes, `process_run()`, the decision to sleep in `protosched.c` |
| `do_poll`, `Broadcast`, `call_process`, `ExitTells`, `ExitUnlinks` | the loops of `process.c` |
| `RadioHandler`, `TimerExited`, `TimerPolled` | `radio_process`, `etimer_process` |
| `Return`, `Exit`, `etimer_set`, `etimer_stop`, `Post`, `Start`, `ExitOther` | handlers of applications: one of these things each time, then they return; after the exit of another process they may start one |
| `Tick`, `RadioInterrupt` | the interrupts, between any two steps |

A process that is told of the exit of another may itself exit that other once more; `twice` is the
history of that. Bound (`Doing`): from then on handlers only start processes, which is what brings
the consequences to light (see "Disagreements" below).

Left out: the EXIT event to the exiting process itself, `process_exit()` of a process that is in a
call, semaphores, `etimer_adjust()`.

### CsmaAck

`first`, `last` and `chain` are the `STAILQ`; `slot` is the one element of `queuedPackets[]`. The user
thread's send is six steps (`Send` to `StartTimer`), as the kernel thread may run in between: the
callback of the timer (`TimerDrops`, `Pop`, `TimerIdle`, `TimerEarly`, `TimerRetries`) and received
frames (`Deliver`, `Acknowledge`). `netQueueAddPacket()` and `netQueuePop()` take the lock of the
queue; `netQueueRemovePacket()` does not (`net_queue.c:83`). `popping` is the kernel thread waiting
for that lock. `young` says that the time for a retry has not come: the times of packet and alarm
matter only so far. `air` holds a copy of each frame for every node that hears it; any copy may be
lost, and copies arrive in any order. Bound in `Send`: frames do not live until their sequence
number is used again. History: `delivered`, and `torn`, the nodes where an acknowledgement has
unlinked a packet between the two stores of its insertion. Left out: broadcasts, headers,
statistics of reception.

### DvRouting

A handler is one step, as the kernel thread of a node runs them one by one. `seqnum`, `hopCount`,
`nexthop`, `valid` are what a node knows; `timesLeft` is the data of `roForwardTimer`, 16 bits, not
0 meaning that the timer is active; `forwardAlarm` and `requestAlarm` are the alarms that are set.
A broadcast reaches any of the other nodes, in place of a packet that they have not read
(`buffer`). `Originate` is the root; its bound keeps nodes from falling half of the sequence numbers
behind. `Expire` ages information, after the request timer has fired (it fires once, seconds after
the start; information lives for minutes). `Reset` is a restart. History: `lapsed`, `owes`, `stuck`.
Left out: `routePacket()`, which changes nothing; the synchronisation of time; preconfigured hops.

## 3. Runs

| Run | Question | Result |
|---|---|---|
| `MutexContention` | exclusion and no lost wake-up, with 5 threads | holds |
| `ThreadsSafety` | do the states agree; is an exit final; does the kernel implement `Mutex`? | holds, with the race window |
| `ThreadsNoWindow` | is anyone put to sleep for too long, but for the race? | holds |
| `ThreadsWindow` | and with the race? | **violated** |
| `ThreadsProgress` | are flags and alarms served, do waiters enter, do sleeps return? | holds, with the window |
| `AlarmsPeriodic` | is the list sound with removals, does it implement `AlarmSpec`? | holds, every callback sets its alarm again |
| `AlarmsProgress` | do due alarms fire, one-shot alarms included? | holds, nobody sets delay 0 in callbacks |
| `AlarmsLost` | is the list sound with one-shot alarms and removals? | **violated** |
| `FsBlocks` | blocks, directory, locks and counts, with two threads and resets | holds |
| `ProtoEvents` | calls, exits, sleep; are polls and timers served? | holds, timers with an exception |
| `CsmaAcks` | queue, timer, meaning of an acknowledgement; is the slot freed? | holds, but for torn queues |
| `DvRoutes` | do routes lead to the root, are news passed on, does anyone flood? | holds, with exceptions |

### What is checked, in words

* `FsBlocks`. `OwnedOnce`: a block is of one file, and the table has it as used. `NothingLeaks`: a used
  block is in a file or being linked. `FreeIsErased`: a free block is erased, except between the two
  writes of `alloc.c:181-182`. `ImplementsFileSpec`: an append comes behind all others; the size in
  the directory speaks only of units that are on the flash and never shrinks, in every state but
  between the creation of a file and its first write-back (`unsynced`) and during a removal; a file is removed only
  while no call changes it; no call touches a file of another name. `FlushedSurvives`: when nothing is in change,
  directory and flash have all that was appended. `HandlesSound`: one writer, counts that agree,
  tables that suffice. `SomeCallGoesOn`: the calls never wait for each other in a circle.
* `ProtoEvents`. `OneCallEach`, `ExitsSound`: handlers start and exit processes while loops over the
  list are suspended; still no process is entered twice, no dead one is called or stays in the
  list, no timer of a dead one is forgotten. The first two have an exception for processes that
  were exited twice (`twice`). `SleepsOnlyIdle`, `PollServed`: no poll is lost, nor
  slept over. `TimersFireUnlessMissed`: an expired timer is announced, also when the queue was full,
  unless `next_expiration` belongs to no timer.
* `CsmaAcks`. `QueueSound`, `NeverForgotten`, `SlotFreedUnlessTorn`: whatever the order of user, timer
  and acknowledgements and whatever is lost, the queue is a queue between two sends, a packet in
  it has a running timer, and it leaves. `AckMeansDelivered`: with one sender.
* `DvRoutes`. `NextHopCloser`: the next hop knows something newer or is nearer, so that routes have
  no circles, but through nodes that have `lapsed`. `NoFlood`: the 16-bit counter never runs through
  0. `NewsScheduled`: what is new is on its way to the neighbours, but for `stuck` timers.

The exceptions are what the code does, not gaps of the model. Each is written into the
property, with the narrowest history that makes it true, and named under "hazards".

### What the violations are

* `ThreadsWindow`. `msleep(ms)` writes `jiffiesToSleep`, an interrupt switches to the kernel thread
  and back, and `schedule()` leaves a stale difference, cut to 16 bits, in `jiffiesToSleep`.
  `yield()` then sleeps, in the worst case for most of a 16-bit period.
* `AlarmsLost`. After a one-shot callback `a` in `alarmsProcess()` is the chain field of an alarm off
  the list. If the callback removes the next alarm, and a wraparound preempts the pass between its
  read and its store, the store overwrites the link of another alarm, which is then lost.

### Disagreements without a run of their own

They were met while the modules were written; they show in the models as described.

* `threads/mutex.c:34`: the assertion about the waiter slot fails with a third thread (`Contend`).
* `kernel/sleep.c:134`: any wake-up makes the current thread RUNNING, and `msleep()` does not look at the
  time left: a sleep may end early. `owed` is not 0 then.
* `alarms.c:68`: after a one-shot callback the next expired alarm is called without being unlinked,
  and again in the next pass. The list is not always sorted (`alarms.c:86`). With `once` and `remove`
  together a removed alarm can fire.
* `threads/timing.c:95` and `cc2420.c:591`: what the comments intend about keeping the CPU awake is not
  what happens.
* `threads.c:205-261`, several user threads: `continue` in the selection loop does not advance
  `tmpThread`, so a thread that loses a comparison keeps the loop where it is, with interrupts
  disabled; under the priority policy the first comparison is of the current thread with itself
  and ends the loop.
* `etimer.c:106-122`: timers of an exited process are removed without `update_time()`;
  `next_expiration` stays, and timers of others may not be looked at again (`Stale`), although
  `etimer.h` promises an event.
* `process.c:171`: a process that is exited again by a handler that is being told of its exit is
  unlinked at once; started again by a handler told later, it is unlinked by the first exit, although
  it runs. `process_start()` does not find it in the list then, and calls it inside its own call.
* `csma-ack.c:135`: nobody sets `dataLength` of a queued packet, so that retries send nothing;
  `csma-ack.c:95`: the tries of the packet before may be counted; `csma-ack.c:210`: an acknowledgement
  for another node is taken for one's own when the sequence number is the same;
  `net_queue.c:83`: the queue can be torn, and its one packet then stays for ever.
* `csma.c` never calls `netQueueInit()`, and its callback (`csma.c:67-71`) sends from an empty queue.
* `dv.c:87`: `roForwardTimerCb()` returns with the timer marked active when it has nothing to
  send, and the timer does not run again; `dv.c:95,169`: expired information is forwarded and
  replaced by anything, also by one's own that comes back: circles arise that way.

### Bounds

* `MutexContention`: five threads. Only the thread inside, the one registered, a woken one and one
  newcomer can play different parts; the proof covers any number.
* `Threads`: `Clock` 8 and `Short` 4 keep the relations 2^32 > 2^16 > longest sleep, so truncation
  and signs of differences occur; `MaxSleep` 2 < `MaxMs` 3 makes `msleep()` loop. Overdue times stop
  at half the clock (on a mote, 25 days). The liveness run has the smallest values at which a sleep
  lasts a jiffy.
* `Alarms`: three alarms are the least with which one is fired, one is skipped and one is linked
  behind; two for liveness. Delays 0..2 and `MaxLag` 2 order all of them in all ways. `MaxPass` 1
  lets one jiffy fall into a pass, at each of its steps. Clock exceeds twice the sum, as
  `timeAfter32()` needs.
* `FsBlocks`: two threads, names, entries and open files; one segment of two blocks of two units,
  files of up to three units. So blocks fill up and are chained, the flash runs full, segments are
  erased again, tables run out. Symmetry of threads and names; `View` leaves out places in tables
  and what nothing looks at again; `FirstOfEquals` follows one of several blocks that are alike.
  Larger instances were run by hand without a violation: one segment of three blocks (1.1 million
  states), two segments of two blocks (0.7 million), all three modes (1.8 million).
* `ProtoEvents`: two processes, a queue of one event, one packet. The queue is full as often as it
  can be (112 thousand states). By hand: three processes that start, exit, exit one another and post,
  without timers (78 thousand states).
* `CsmaAcks`: three nodes (sender, receiver, one that overhears), three tries, sequence numbers
  modulo 3, the least that skips 0 and tells two packets apart.
* `DvRoutes`: a root and two nodes, which is the least for a circle; three hops; sequence numbers
  modulo 5, so that they wrap around and have a newer and an older half. By hand: modulo 6.

### Fairness

* Time passes and the timer wraps around again and again (hardware).
* `Threads`: strong fairness of a thread's steps: a thread that gets the processor again and again
  executes some instructions between two interrupts (a jiffy is a thousand cycles). The strong
  fairness of the step that takes the mutex says that a thread to which `mutexUnlock()` keeps
  switching is not preempted just before its test *every* time. The user leaves its critical
  sections; nothing else is asked of it: it may loop for ever, exit or sleep.
* `Alarms`: the same for the pass and for callbacks, which return and set their alarm again and
  again; the user thread gives up the processor now and then (it sleeps, or a wraparound takes the
  processor). `AlarmsFire` assumes that the user is not for ever in the middle of one
  `alarmSchedule()` or the next.
* `Protothreads`: weak fairness of the one thread of control, which the CPU executes unless it
  sleeps, and of `Tick`. The radio owes nothing. Handlers return (each does one thing); messages
  are not answered with messages (bound in `Post`), as two processes that do so keep the queue full.
* `CsmaAck`: an alarm that is set fires (this is `AlarmsFire`), strongly, because the kernel thread
  may wait for the lock in between; a send that has begun is completed. Nothing is asked of the
  channel, of other nodes, or of the user to send.

## 4. Proofs

### MutexProofs

For every set of threads, of any size, finite or not, from `ThreadAssumption` (NULL is not a
thread):

* `TypeCorrect`: `Spec => []TypeOK`;
* `MutexExcludes`: `Spec => []MutualExclusion`;
* `NoWaiterIsLost`: `Spec => []NoLostWaiter`;
* `FieldsAreTrue`: `Spec => [](LockedIffHeld /\ WaiterWaits)`.

The inductive invariant `Inv` is the conjunction of all of these. Exclusion needs `LockedIffHeld`:
`Take` sees a free flag and must conclude that nobody is inside. `mutexUnlock` needs exclusion to
conclude that the flag may be cleared, and `NoLostWaiter` to know that the thread it wakes is the
only one blocked; `NoLostWaiter` in turn needs `WaiterWaits`, because `Wait` may overwrite the slot
only with the thread that is already there. There is one lemma per action.

### ThreadsProofs

For every clock, every width of `jiffiesToSleep` and every choice of the sleeping times that
`ClockAssumption` allows, with and without the race window: `TypeCorrect`, `StatesAlwaysAgree`,
`CriticalSectionsExclude`, `WakeupIsNotLost`, `EndedStaysEnded`, and `ThreadsUseTheMutex`, which
says `Spec => ImplementsMutex`: the scheduler, its interrupts and the mutex code together do what
`Mutex` does.

The inductive invariant `IInv` is `TypeOK`, `SchedInv`, `MutexInv` and `ExitIsFinal`. `SchedInv` adds
to `StatesAgree` that the sleep timer runs while the CPU sleeps and that the current thread is never
BLOCKED (the fall-back at `threads.c:161-166` is not needed with two threads). That depends on
`MutexInv`: a thread blocks only if the other one is inside, so the other one is neither BLOCKED nor
ended and the selection finds it. `MutexInv` ties the flag and the slot to the positions of the threads.
`ExitIsFinal` needs the same argument: when the user thread ends outside the mutex, the kernel
thread cannot be BLOCKED. The lemma `Scheduled` states what `schedule()` guarantees whatever states
it is entered with, and each caller's lemma uses it. In the refinement a step that leaves the mutex
alone is a stutter because the slot determines who is BLOCKED (`WaiterIsBlocked`).

Its second part is about sleeping times. From `ClockAssumption` and `~Window`: `NobodyOversleeps` (`Spec => []NeverOversleeps`) and `AlarmIsMet`
(`Spec => []KernelMeetsAlarm`). With the window both are false; `ThreadsWindow` shows how.

The two properties are not inductive. `FreshTime` says that between the write of `jiffiesToSleep` and
`schedule()` the writer has the processor and the value is the one it wants; this is what the race
breaks. `UserInTime` and `KernelInTime` carry it into the sleep. `KernelMeetsAlarm` itself says only on
which side of the alarm the wake-up lies, and times move: an overdue time stops at half the clock
while the other goes on. `Meets` therefore takes the two differences with their signs, and keeps them
less than half a clock apart.

### AlarmsProofs

For any set of alarms, any clock and bounds that `AlarmsAssumption` allows, and callbacks that set
their own alarm again before they return (`Periodic`): `TypeCorrect`, `ListStaysSound`
(`Spec => []ListSound`) and `AlarmsKeepTheirPromise` (`Spec => ImplementsAlarmSpec`). The hypothesis
is needed: after a one-shot callback `alarmsProcess()` goes on through the chain field of an alarm that
is on no list, and run `AlarmsLost` shows what follows.

The invariant `IInv` says what `ListSound` says in a form that steps can be applied to: there is a
sequence of the alarms that are set, each once, and the links lead from `head` through it to the end
(`Listed`). Linking an alarm in and taking one out insert and delete a place of the sequence. The rest
is why the unlocked walk does no harm. `Standing`: when the pass stands on an alarm it has fired, that
alarm is on the list, because its callback has set it, and doing so raised the flag, so that the kernel
thread keeps the processor until the pass ends. `Storing`: between reading a link and storing it
nobody else runs. `Near`: no alarm is further from its time than the bounds, on either side, so that
differences modulo the clock compare as `timeAfter32()` needs. In the refinement each step of the code
is a step of `AlarmSpec` or a stutter; `Unlink`, which calls the callback, is the firing.

### BlockFsProofs

For any threads, names, modes, sizes of tables, blocks, flash and files that `FsAssumption` and
`NamesAssumption` allow, with resets: `TablesInvariant` and, from it, `HandlesStaySound`
(`Spec => []HandlesSound`) and `LocksMakeNoCircle` (`Spec => []NoCircle`).

The inductive invariant `TablesInv` relates the three tables in RAM, the locks and the place and local
variables of every call:

* `CallsOwnFiles`, `FilesHaveHandles`: a call works on a slot of `openFiles[]` of its own thread, which has
  no handle exactly while it is being opened; slots and handles are one to one. This gives that an
  open which has a slot finds a handle.
* `LocksHeld`: a lock is held exactly where the code holds it, so what is left locked is
  known for every place a call can be at.
* `Counted`: `Use` says which control block a slot refers to, from `AllocFcb` or `ShareFcb` to
  `fsBlockCloseFile`; the reference count is the number of these slots, and a control block
  is free if nobody uses it. So an open that has a slot finds a control block.
* `WritersAlone`: of the slots that refer to a control block one at most may write, and only if the
  `writer` flag is set. `FlushDone` clears the flag before the slot is given back (`block.c:444`),
  therefore a slot stops to be a writer there and not when its handle is freed.
* `OneFcbEach`: two control blocks are never of one entry, although the search for one and its
  allocation are many steps: the thread that searches has `rootMutex`, what it has passed is not of its
  entry, and nobody else allocates.

There is one lemma per action. Steps that change no table go through the lemmas `Quiet`, `Aside` and
`WritingStep`; those that do through `FcbGained`, `HandleGained`, `UseLost` and `UseGone`, which say how the
users of a control block change. `NoCircle` follows from `LocksHeld` alone, which fixes the order of the
locks: who has the block table waits for nothing, who has a file waits for the table at most, and who
has `rootMutex` for these two. `LocksAreFreed` (`Spec => []SomeCallIsFree`) draws the conclusion: of the calls
that are under way one finds the lock it takes next free, because every lock that is taken has a call that
holds it.

The second part of the module states the invariant of the blocks, which the next section explains, and
proves that the calls which open, write, flush and close a file keep it.

### BlockFsBlocksProofs

For the same constants, with the same resets: `TypeCorrect` (`Spec => []TypeOK`), `BlocksOwnedOnce`, `NoBlockLeaks`,
`FreeBlocksErased`, `FlushedFilesSurvive` and `DirectoryStaysBehind`, which say that `OwnedOnce`,
`NothingLeaks`, `FreeIsErased`, `FlushedSurvives` and `DirectoryBehindFlash` always hold. `DirectoryNeverGoesBack`
(`Spec => DirectoryGrows`) adds that no step makes the directory's size of a file smaller or changes its
first block: until the file is removed, a later reset finds no less than an earlier one would have.
`FilesKeepTheirPromise` (`Spec => ImplementsFileSpec`) is the refinement, and rests on `NamesStayDifferent`.

The properties follow pointers through the flash, from the directory, a control block or the place
where a removal stands. A proof cannot do that at each step, so the invariant `FilesInv` says that there
*is* an assignment of blocks to files: `blk[e][k]` is the k-th block of entry e, `num[e]` the number of its
blocks, `put[e]` how many of its units are on the flash; and that the state is as it must be for them
(`FilesAre`):

* `ChainsSound`: these blocks are in use, each leads to the next, and none is at two places.
* `AllocationSound`: what else is in use is in the hand of one allocation, and erased; a free block is
  erased, unless it is of the segment that one thread is about to erase.
* `CountsSound`: a file has the blocks that its length needs; under removal, those that are left.
* `SizesSound`: a control block has the size that is on the flash and the first block of the file; only
  a writer's buffer is missing, and it is less than one block behind. Who buffers nothing has written
  all (so the last close, `meta.c:263`, writes back the right size).
* `DataSound`: the cells hold the units in their order, and after them nothing, so `Program` never
  writes a cell twice.
* `DirectorySound`: the directory is behind the flash; of a file that is not open it is exact.
* `WritersSound`, `CurrentSound`: a handle that writes is at the end of its file and its current block is
  the last one, which needs that there is one such handle at most (`TablesInv`). When the buffer ends
  with a block it has been written before the next block is allocated.

There is one lemma per action. Most steps keep the assignment. A new file and `Program` change `put`
(`AllocFcbFiles`, `ProgramFiles`), `AllocateLink` adds a block at the end (`GrownFiles`), `BlockFree` takes the
first away (`FreedFiles`), and the proofs name the new assignment. `FileBlocks` leads back from it to the
properties: the chain that the code would follow finds exactly `blk[e][0]`..`blk[e][num[e] - 1]`
(`AlongChain`, by induction along the chain). `Reset` uses `Settled`: of a file that is not being
changed, the directory is exact although it is open.

The refinement needs one invariant more. `NamesInv`: two files never have one name, and the name that
`fsBlockOpenFile()` found free is still free when `AllocFcb` writes it, although the search for a control block
takes and gives up locks in between; it holds because `rootMutex` is kept and renaming needs it too.
`Standing` says how each file stands in terms that steps can be applied to (no file is "lost" by
`DirectoryBehindFlash`, a "safe" one has all its units in the directory by `Settled`). Then the proof
goes from entries to names. `MayMove` lists what a step may do to the file of one entry: stay, be
taken, grow by one unit, store more, begin to be removed. `MovesOn` shows that every step that appends
nothing does one of these, whatever else it does, from frames (`EntryFrame`, `FcbFrame`,
`HandleFrame`) that say which entry, control block and handle it works on; `MovesAhead` and
`MovesToRemoval` are for the two others. The steps that change names (`AllocFcb` of a new file,
`DelEntry`, `fsRename`) have lemmas of their own. `NamesSeen` turns a lookup by name into an entry,
and with it each of these is the action of `FileSpec`.

### CsmaAckProofs

For any set of nodes, senders, number of tries and range of sequence numbers that `CsmaAssumption`
allows, whatever the channel loses: `TypeCorrect`, `QueueStaysSound`, `NothingIsForgotten`, and, when one
node sends, `AckedIsDelivered`.

The inductive invariant `Inv` says for each node what the pointers and the flag of the slot are at
each place of the send and of the timer (`Whole`), what they are for ever after the queue has been torn
(`Torn`), and when the timer has its alarm (`TimerInv`). `Torn` shows that `SlotFreedUnlessTorn` needs its
exception: no step leaves it. `AcksTrue` carries `AckMeansDelivered`: an acknowledgement in the air
is of a packet that arrived, and numbers are not used again while frames live. It needs
`Sender = {s}`, because `csma-ack.c:210` compares only the number of an acknowledgement and another
node's may pass for one's own.

### DvRoutingProofs

For any set of nodes, limit of hops and width of sequence numbers that `DvAssumption` allows, with
losses and resets: `TypeCorrect`, `NeverFloods`, `NewsAreScheduled`, `RoutesLeadToRoot`.

`TimersInv` says that the request timer finds only valid information, or none at all: for this reason
it may reset the counter of the forwarding timer without losing news. `NextHopCloser` compares what
a node knows with what its next hop knows *now*, which may be newer; and sequence numbers wrap
around, so "newer" is not transitive. `RoutesInv` gives each number an age relative to the root's,
which the bound in `Originate` keeps below half of the range; with ages the comparison of the code is an
order (`AfterIsAhead`, `AheadTransitive`). The invariant also speaks of packets in buffers: their
sender still knows what they say, or something better, or it has `lapsed`.

### ProtothreadsProofs

For any set of processes, any size of the event queue, any times that `ProtoAssumption` allows, and
calls of handlers nested to any depth: `TypeCorrect` (`Spec => []TypeOK`) and `NothingIsSleptOver`
(`Spec => []SleepsOnlyIdle`).

`protosched.c` looks at `poll_requested` before it sleeps, not at the processes; so the proof must show
that the timer process does not need a poll while the flag is down. `PollInv` says that then some loop of
`do_poll()` is suspended before the timer process and will come to it. That this loop does come to
it, although handlers relink the list under it, is `ListInv`: the timer process is the last of the
list and never leaves it, processes are linked only in front, and every process in the list or at
which a loop stands, but the timer process, has a successor. At the end of the stack there is no loop
left, so the flag being down is enough. The conjunction `SleepInv` of the two is inductive.

Its second part is about calls: for the same constants `CalledOnce` (`Spec => []OneCallEach`). A process that is listed need not be
running and one that runs need not be free, so the invariant `CallInv` relates the stack, the states
and the list, for processes that were not exited twice:

* `OneInv`: the stack holds the handler of a process once if its state is called, else not at all.
* `HeldInv`: what runs is listed. A process that is not listed has no call that could return into
  it, so `process_start()` may set it running.
* `ExitInv`: an exit that is under way is in the stack once, and its process is still listed. So no
  start links a process that another call is about to unlink.
* `LoopsBelow`: below a loop that polls there are only loops of events and calls that have not
  begun. `do_poll()` sets the state of the process it finds to running without looking at it; this
  does no harm because no process is in a call then.

The first three fail for a process that was exited twice, which is why `twice` is in the property.

Its third part is about exits: for the same constants `ExitsLeaveNothing` (`Spec => []ExitsSound`), from `CallInv`, `ListInv` and
`ExitsInv`:

* `ChainInv`: from every process with a successor, listed or not, the chain leads to the timer
  process. A loop may stand at a process that has left the list meanwhile; it still comes to the
  timer process (`ChainStarts`, `ChainUnlinks`).
* `GoneInv` and `TimerInv`: as long as a process is listed and does not run, its exit is in the stack;
  as long as it has a timer, the stack holds the loop that has yet to come to the timer process, or
  the call that tells it.
* `StackInv`: the timer process is in a call only at the top of the stack. It calls nobody, so
  whoever tells it of an exit finds it running and is heard (`TimerListens`).

### Only model-checked

Every safety property of a passing run is proved, but two. `SomeCallGoesOn` of `BlockFs` is about ENABLED;
its reason is proved (`LocksMakeNoCircle`, `LocksAreFreed`), and TLC adds that a call which waits for no lock
has a step.
The `TypeOK` of `Alarms` with one-shot callbacks (run `AlarmsProgress`) is outside the hypothesis of
`AlarmsProofs`. Every liveness property is only model-checked: TLAPS proves neither liveness under
fairness nor ENABLED.

## 5. Not modelled

Each component has a note in `PROJECT.json`. The models cover a small part of the lines of the
repository, because most of these are drivers for chips and platforms, tools that run on a PC, a FAT
driver, a web protocol and research prototypes of protocols.

* *Several user threads*: the mutex is modelled for any number; `SELECT_NEXT_THREAD` and the policies
  are not. Two user threads are a build option (`NUM_USER_THREADS`), the default is one.
* *Event kernel*: its `msleep()` and the alarms processed in the interrupt.
* *Network*: sockets, addressing, time synchronisation and SEAL; `csma.c`, `null.c`, `sad*.c`; sending of
  data through `routePacket()`, which reads what `DvRouting` maintains.
* *File system*: reading, seeking, checksums, prefixes, devices.
* *Protothreads*: `process_exit()` of a process in a call, semaphores, `etimer_adjust()`.
* *Drivers and chips*: register input and output. Their interrupts are actions of `Threads` and
  `Protothreads`, a radio is the channel of `CsmaAck` and `DvRouting`.
* *SSMP, WMP, codecs, library*: conversion of data, with little state that outlives a call.
* *Boot and reprogramming, FAT*: not studied.

## 6. Plan

In this order:

1. `SchedSelect`: `SELECT_NEXT_THREAD` with several users under each policy, as a loop that must end.
2. The event kernel: `msleep()` against `alarmsProcess()` in the interrupt.
3. Sockets: the list and its lock, callbacks that call back.
4. `Boot` (erase and write, the counter of attempts), the ring buffer, `sad.c`.
5. Proofs: a reader, whose handle follows the chain while the file grows, on top of `FilesInvariant` and
   `FileSpec`.
