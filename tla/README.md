# Models of the Axiom kernel: scheduling, calls, ports, rings, synchronization and interrupts

Astra68 is a 68k computer with an operating system of its own. Its kernel,
Axiom (`src/sw/kernel`), schedules threads by priority on one processor, lets a
blocked thread lend its priority to whoever it waits for, connects processes by
ports, synchronous calls and rings in shared memory, implements pthread locks by
waits on addresses, and hands device interrupts to drivers in user processes.
This directory models that core in TLA+, checks it with TLC and proves part of
it with TLAPS. Paths below are relative to `src/`.

## 1. Inventory

The kernel is one program without preemption inside it: a trap enters a
handler, the handler runs to its end with interrupts masked, and the processor
resumes the thread the handler chose. Concurrency is what user threads,
interrupts and timers do *between* handlers, and the hard part is the state one
handler leaves to the next. The exception is the maintenance worker, which runs
kernel code with interrupts enabled. In user space threads are preempted
anywhere.

| Component | State | Operations | What makes it correct |
|---|---|---|---|
| Thread pool, `sw/kernel/thread.c` | thread records, 32 ready queues with a bitmap, wait queues of registrations, deadline heap, donor lists | publish, take next, make ready, block on a wait set, wake one/all, expire, cancel, set priority, throttle, suspend, resume, assign wait owner, complete, retire, reap | every thread in exactly the queues its state calls for; queues sorted; lent priority exact |
| Scheduler and system calls, `sw/kernel/process.c` | process records, current thread, quantum, media budget, call and teardown bookkeeping | one handler per system call, timer interrupt, device interrupt, maintenance pass | the most urgent ready thread runs; no handler finds corrupt state; nobody is starved or stranded |
| Calls and reply capabilities, `process.c`, `thread.c`, `handle.c`, `port.c` | call numbers, handles of type REPLY, queued messages | PORT_CALL, send, receive, reply, close, exec, death | every caller can be answered once, by its own capability |
| Address waits, `sw/kernel/sync.c` | records of (process, address, kind, owner) with a wait queue | FUTEX_WAIT/WAKE, MUTEX_WAIT/UNLOCK, owner died, reap | no lost wake-up, no lost hand-over |
| Synchronization objects, `sync.c` | events, semaphores, timers with counts, references and waiters; heap of armed timers | create, signal, reset, arm, cancel, expire, wait, duplicate, close, owner died | no unit lost or given twice; a closed object strands nobody; freed with its last handle; the earliest timer first |
| Ports, `port.c` | message rings, receive and writable wait queues, windows | send, receive in two phases, close, wait | messages in order, none lost with its handles |
| Handle tables, `handle.c` | generations, rights, transfer state | allocate, look up, export, import, commit, abort, close all | a handle moves or stays, never both |
| Worker, `worker.c`, and the exits of `dispatch.c` | pending and deferred work, blocked/ready/running | signal, schedule, select, promote on a timer, serve a class, wait, resume a thread | work once recorded is done, and the machine neither idles nor stops over it |
| Rings and areas, `ring.c`, `area.c`, with the endpoints of `userspace/system/src/bulk_ring.c` and the pipes of `userspace/posix/src/console.c` | a ring's positions, references, results and waiting threads; the header in shared memory; a view per end; an area's handles, rings and mappings | create, attach, notify, reserve, commit, wait; copying read and write; close, fork, death | each element read once and in order, whatever the header says; no end sleeps past the other; the end of the stream after the data; the area as long as the ring |
| Memory, `memory.c`, `allocation.c`, `object_cache.c`, `vm.c` | frames, pools, page tables | allocate, free, map | each frame has one owner |
| Interrupts and drivers, `irq.c`, `interrupt.c`, `dma.c`, `block.c`, `device.c` | ring of claimed sources, endpoints, routes; descriptors | claim, dispatch, acknowledge, arm, mask, recover, revoke, quiesce; submit, complete | no interrupt lost between acknowledge and wait; controller and endpoint agree on what is masked |
| Traps, boot, diagnostics | registers, counters | entry, exit, console | straight-line code |
| POSIX threads, `sw/userspace/posix/src/pthread.c` | mutex word, owner, depth; condition sequence; rwlock, once | lock, unlock, wait, signal, broadcast, ... | mutual exclusion, no lost wake-up |
| Services and applications, `sw/userspace/*` | per service | messages | mostly sequential clients of the above |

The components interact by direct calls below `process.c` (a handler calls
`sync.c`, `port.c` and `handle.c`, which call `thread.c`), by callbacks upwards
(`reply_release` when a handle is closed, wait observers), and through the
state of the thread pool. `PROJECT.json` lists each component with its status,
and under `hazards` what is hard to test in it, by line.

## 2. Modules

| Module | Models | State ↔ code |
|---|---|---|
| `Threads` | `thread.c` | operators from a pool record to the next, one per function: `EnqueueReady`, `ChangePriority`, `RefreshWaitOwners`, `AssignWaitOwner`, `CompleteWait`, `RetireProcess`, ... `thread[t]` is `KernelThread`, `ready` the ready queues, `queue` the wait queues |
| `Scheduling` | handlers of `process.c` with what they call in `sync.c` and `port.c` | one action per handler, from entry to the resumed thread. `inbox` is the port's messages, `holder` who holds a reply capability, `word` a mutex word, `timer` a timer object, `media`, `stopped`, `due` (teardown waiting for the worker), `panic` (the consistency check that stopped the machine) |
| `MCScheduling` | instances of `Scheduling`, by workload | |
| `MCTurns` | `MCScheduling` with the supervisor timer as a fair process in the workloads `Timed` | `beat` turns over at each of its interrupts |
| `CallOutcomes` | abstract: what PORT_CALL promises | `begun`, `open`, `rights` |
| `ReplyCalls` | PORT_CALL, capabilities, handle tables and ports, slot reuse, call numbers | `thread`, `process`, `cap[i]` (place, slot, number), `number` is `next_call` |
| `ReplyCalls_proofs` | theorems about `ReplyCalls`, with the one that it implements `CallOutcomes` | |
| `Futexes` | address waits of `sync.c` | `word`, `record` (`KernelFutexSlot`), `sleeping`, `status` |
| `Pthreads` | mutex, condition, read-write lock and once of `pthread.c` over `Futexes` | `pc` per thread and memory access; `owner`, `depth` the mutex's fields; `seen` the sequence read; `rw` the lock's fields, `doing` the call a thread is in; `grip` (history) what calls have given it |
| `MCPthreads` | symmetry and view for `Pthreads` | |
| `Pthreads_proofs` | theorems about `Pthreads` | |
| `Waitables` | abstract: what events, semaphores and timers promise those who wait | `object`, `wait` |
| `SyncObjects` | `sync.c` but for address waits, with its system calls, the references by handles, waits of `thread.c`, and the expiry of both kinds of deadline | `object` (`KernelSyncObject`), `heap` (`timer_heap`), `pages` (its leaves), `queue` (registrations), `thread`, `process`, `handles` (how many of each object), `panic` |
| `MCSyncObjects` | instances of `SyncObjects`, by workload | |
| `SyncObjects_proofs` | theorems about `SyncObjects`, with the one that it implements `Waitables` | |
| `Channels` | abstract: what a port promises its messages | `channel` (state and messages of each) |
| `Ports` | `port.c`, `handle.c` and the port calls of `process.c` | `port` (queue links, counts, references), `message` (slots of the pool), `table` (handle tables), `detached` (handles in messages), `thread` (asking, waiting, told), `process` |
| `MCPorts` | instances of `Ports` for two runs | |
| `Ports_proofs` | theorems about `Ports` | |
| `Ports_refinement` | the theorem that `Ports` implements `Channels` | |
| `Interrupts` | `interrupt.c`, `irq.c`, `worker.c`, the exits of `dispatch.c`, the worker's side of `process.c` | `kernel` (processor, worker, threads), `ring` (`deferred_interrupts`), `dispatching` (how far the worker is with an entry), `enabled` (controller), `device`, `endpoint`, `route` |
| `MCInterrupts` | instance of `Interrupts` | |
| `Interrupts_proofs` | theorems about `Interrupts` | |
| `Rings` | `ring.c`, handles and rings of `area.c`, `bulk_ring.c`, the pipes of `console.c`, the ring calls of `process.c` | `ring` (`KernelRing`), `area` (`KernelArea`), `header` and `data` (the shared memory), `view` (`AstraBulkRing`), `thread` (how far a library call is), `holds` (handles of the ends), `faulty` (history: who damaged the ring) |
| `Rings_proofs` | theorems about `Rings`: the kernel's records, who sleeps, how long the backing lasts | |
| `Rings_order` | theorems about `Rings`: order, faults, the end of the stream | |

`Scheduling` EXTENDS `Threads` and composes its operators inside one action,
because the code does: a handler calls several functions, each on what the last
one left. A function that reports corruption sets `corrupt`, and the handler
then only records it in `panic`: the machine has stopped. `ReplyCalls` has
the same calls at another grain. It leaves the scheduler out and has instead
what `Scheduling` leaves out: handle tables, capabilities that are stale,
call numbers, and process slots that are freed and used again.
`Pthreads` EXTENDS `Futexes`; each of its steps is one system call or one
access to shared memory, since a user thread is preempted between any two. The
read-write lock is a program of the mutex and the conditions, and runs on
their steps: its mutex can be contended, interrupted, and left locked by the flaw
of section 5. What it does with its own fields while it holds the mutex is one
step; the one access without the mutex is a step of its own (`GiveUp`), and takes
one instruction of the build.
`Ports` has queues, handle tables and processes together because a message
carries handles, and discarding it when a port closes lets go of them, which may
close the next port; it implements `Channels`. `Interrupts` has steps
of its own grain: a stretch of code that no interrupt enters. An interrupt
handler, with what it does on its way out, is one; a system call from the moment
it masks interrupts to its exit is one; a pass of the worker is several, and
the entry of the ring it dispatches has three. What an exit may do (go to the
worker, to a thread, to the idle loop, or back) is an operator from the kernel's
state to the set of its next states, which every handler uses. `SyncObjects` has events, semaphores and timers together, since one wait set may
name all of them and one closing withdraws a thread from the others; it implements
`Waitables`, which knows nothing of registrations, references or the heap.
`Rings` has system
calls as single steps and the library's calls in several, because what a library
call has read in the header may be damaged before its next step.

Main abstractions, each also stated in its module:

- A process has one port, which lives as long as its threads (`Scheduling`), or
  one handle table and one port (`ReplyCalls`). Messages have no payload beyond
  capabilities.
- A deadline is a number of ticks. The deadline heap is the set of threads
  with a deadline, expiring in the heap's order.
- `Scheduling`: a new thread gets the lowest free slot. That is what the code's
  search from `next_thread_slot` finds, which a freed slot lowers again, until a
  creation fails for want of a leaf of the slot directory. Slots only order the loops over them.
- A wait queue's sequence number is left out where it is read and compared in
  one handler.
- Running out of memory is left out.
- The media budget is charged nondeterministically at the end of a media
  thread's stint and given back nondeterministically at a tick; one tick does
  one of the two.
- An address record belongs to one process, and exec is not modelled for it.
- Condition sequences do not wrap.
- `Ports`: a message is its number, its size and its handles; a free slot is the
  lowest one where the code goes round; wait queues are not ordered (`Threads`
  has their order). A receiver that was woken asks for the message before it
  waits for anything else (`told`), which is the contract of the system's own
  runtime. Handles of other kinds are left out; a slot's generation does
  not wrap within its bound.
- `SyncObjects`: any ready thread makes the next call and waiters of an object have one
  priority (`Scheduling` and `Threads` have the order); handles carry every right
  (`Ports` has the rights); heap positions count from 1. What a thread is told is the
  result and the member of its wait set.
- `Interrupts`: any ready thread may be the one that preempts; a process has one
  thread; an endpoint has one handle; every binding is level-triggered, as
  those of the kernel are. The controller and the device's completion do not
  fail; becoming quiet may. The worker's console, trace and memory classes and
  the internal routes but the timer's are left out. A storm's window passes only
  outside a pass of the worker: it is 125 000 cycles, far longer than one.

- `Rings`: an element is the position it was written at; one ring in one area; a
  process has one thread for each end. A handle passed to another process arrives
  in one step (`Ports` has the messages), with one of the area. A process does not
  unmap the area while it lives, the header's constant fields do not change,
  and memory does not run out.

Definitions marked `mutant` are faulty versions of the definition after them.
They are used only to show that a property notices the fault.

## 3. Runs

`tlc -workers 2 -config <cfg> <module>`. Times are with two workers;
`-coverage` about doubles them.

| Run (module) | What it asks | States |
|---|---|---|
| `Donation` (MCTurns) | calls forwarded, mutexes crossing: `DonationsRight` (what is lent is exactly what waits, to whoever can end the wait), `NoInversion`, `WaitOrder`; in the workload `Turns` liveness: `TakesTurns`, `WaitsEnd` | 90 000, 1.5 min |
| `Scheduling` (MCScheduling) | life cycle, suspension, media budget, and two threads passing a mutex and messages: `QueuesConsistent`, `SchedulingOrder`, `SuspendUniform`, `Fifo`, `NoOtherPanic` | 129 000, 2 min |
| `ReplyCalls` (ReplyCalls) | `CallersAnswerable`, `OwnAnswer`, `NothingLeftBehind`, refinement `KeepsPromise` | 324 000, 1 min |
| `Conditions` (MCPthreads) | three programs, with a mutex and a condition, a read-write lock, or `pthread_once`: `Exclusion` (of mutex and read-write lock), `WaitersHaveOwner`, `Reached`, `OnceOnly`, `NobodyForgotten` | 956 000, 1.5 min |
| `Ports` (MCPorts) | one port, its ends dying: `QueueWellFormed`, `WaitersTold` (of messages, of room, of the end), refinement `KeepsPromise` of `Channels`, liveness `PeerLearns` | 36 000, 1.5 min |
| `Handles` (MCPorts) | handles in messages, copies, fork, launch, close: `HandlesExact` (references at all times, nothing left in the end), `NoAmplification`, `NamesOnce` | 157 000, 2 min |
| `Interrupts` (MCInterrupts) | a driver, its device and the worker: `NoPanic`, `WorkTracked`, `SourceMatches`, `WaiterHeard`, liveness `MaintenanceDone`, `IdleEnds` | 213 000, 2.5 min |
| `SyncObjects` (MCSyncObjects) | units, lives, timers and the heap: `ObjectsSound` (registrations, references, no sleeper beside a unit, no panic), `TimersExact`, refinement `KeepsPromise` of `Waitables` | 75 000, 1.5 min |
| `Rings` (Rings) | two processes with a shared or a copied ring: `InOrder`, `FaultsContained`, `NoStrandedEnd`, `EndOfStream`, `BackingHeld` | 987 000, 1.5 min |
| `RetireBoosted`, `SuspendedTimer`, `MutexCycle` (MCScheduling) | three disagreements with the documentation | small |

`NoOtherPanic` says that no consistency check in
the kernel fails except the five of `KnownPanics`, each of which is one of the
three disagreements (terminate and exec share one; timer and alarm share one).

**Workloads.** A behaviour of `Scheduling` starts with one of the workloads the
`.cfg` names (variable `load`, which never changes). A workload makes one part
of the kernel busy: which operations the processes use, which threads exist at
boot, which wait sets they use. This keeps each behaviour small while a run
covers several scenes.

**Bounds and why they are enough.**

- Three thread slots, three processes. A donation chain needs a donor, a
  receiver that is itself blocked, and its receiver; an inversion needs the
  donor, the lender's target and a third that runs instead; a slot that is
  used again needs one more thread to do it.
- Four priorities, of which 3 is MEDIA and 1 APPLICATION_MAX: idle, one and two
  below MEDIA, and MEDIA. Throttling lowers 3 to 1, past 2.
- Deadlines up to one tick (`maxWait`): expired, due now, or none. Two
  deadlines that pass at one tick are in the runs; a longer chain only repeats
  the tick.
- Two messages at a port in `Calls` (a capability forwarded while another
  waits), one elsewhere, so that a full port happens.
- Two objects and two mutexes: the smallest crossing.
- `ReplyCalls`: two calls, three threads, two processes, `LastNumber` 3. A
  capability carried in another call's reply needs two calls; the proofs below
  lift the bound. The wrap of call numbers does not happen in this run; it is
  covered by the proofs.
- `Conditions`: three threads, one change of the condition: two waiters and
  one that signals, with one of them free to be cancelled, time out or exit. The
  read-write lock: a holder and two who wait for it, readers or writers, or
  one of them that tries; no call is begun after the first notification, but those
  under way go on, so that the lock is passed on up to three times. Threads of this program
  do not exit. `View` leaves out of a state the status, the sequence
  and the depth that no later step reads.
- `Ports`: one port with two slots and three bytes, messages of one or two
  bytes, two threads and one that a fork adds: full by slots and full by bytes
  both happen, a queue has a middle, and two receivers compete.
- `Handles`: two ports, so that one may be in the other's messages; three slots
  of a table, one message at a time, two handles in it, two references: each
  limit is met, and a copy of a table fails half-way.
- `SyncObjects`: `Units` has three threads for a semaphore of two units and an
  event, with wait sets that name one of them twice or both in either order: more
  units than waiters and fewer, and a full semaphore, happen. `Lives` has three
  processes of one thread, two objects, two handles a process: an object is held
  twice by one process, by two processes, closed and still held. `Timers`: two
  threads and two timers with a manual event between them, deadlines of one and two ticks: a
  wait and two timers fall due at one tick. `Heap`: six timers with two deadlines is
  the least heap in which the timer that takes a removed one's place has to move up;
  a page holds four, so it grows with and without memory to be had.
- `Interrupts`: one source and one endpoint slot, a driver and another process,
  so that there is a thread to preempt, to terminate the driver, and none when
  both sleep. Ring of four with a batch of one: an entry can be claimed
  three times before the first is popped (armed by the driver, by noise, and
  recovered), so four overflow only if that reasoning is wrong; the code has 32
  entries for nine sources. Storm after two, one failure to become quiet, one
  burial put off. With two slots or two sources the run takes more than
  five minutes and, as no source is bound again while its old endpoint is held
  (`BindsAgain`), says nothing new; section 4 proves the run's invariants for
  any number of both.
- `Rings`: two processes, so that the ends are in one or in two, and a fork gives
  each end a second holder. Capacity 2 is the smallest the kernel allows, and
  8 positions are four times that (2^32 is a multiple of the capacity too): positions
  wrap several times, since nothing bounds the elements. Pipe reads of 1 or
  2 and writes of 2 (atomic) or 3 (not): an atomic write meets an empty, a half-full
  and a full ring, another is split. One fault in a ring's life, while no
  element has been read, of a position one too far or one back, after which the
  process that did it does nothing else with the ring (it may exit): two faults
  only repeat that the other end checks each time. Section 4 proves the run's
  five invariants for every capacity and number of positions; the bound on faults stays.

**Type invariants.** Each module has one, `TypeOK`. It is part of `QueuesConsistent`,
`QueueWellFormed`, `WorkTracked`, `FaultsContained` and `MutualExclusion` (in `Exclusion`); that of
`ReplyCalls` is a theorem.

**Deadlock** is checked in `Interrupts`. Elsewhere
the system really may stop: every thread may be blocked without a deadline, be
suspended or have exited, every process may have ended, and a machine that has
panicked takes no step.

**Fairness.** `MCTurns`: `scheduler_timer_rearm_at`
(`process.c:1471`) arms the one-shot supervisor timer whenever a quantum or a
deadline is pending, so interrupts with the quantum spent and the clock
advanced keep coming. In the workload `Turns` `beat` turns over at each of these, and the specification
has weak fairness of that alone; no thread is assumed to do anything. That
every path of the code rearms the timer is assumed here (see the plan).
`Ports` has weak fairness of the worker's reaping of dead processes, which
`MaintenanceDone` of `Interrupts` justifies. `Interrupts` has weak fairness of
the timer (every path re-arms it, `process.c:9330`), of the worker and of the
call under way (the processor goes on), and of time; and strong fairness of a
timer that finds neither a call nor the worker at work, since a timer that always
falls into kernel work expires no deadline (`process.c:9328`) by the code as it
is. No device, driver or other thread is assumed to do anything.

## 4. Proofs

All theorems are checked by `tlapm`.

### Reply capabilities

`ReplyCalls_proofs`, for every
set of threads and processes, every highest call number and every number of
calls. The only assumption is `ReplyCallsAssumption` (the first thread and process
exist, `NoProcess` is no process, the numbers are numbers).

- `TypeCorrect`: `Spec => []TypeOK`.
- `NoCallerStranded`: `Spec => []CallersAnswerable`.
- `SlotsReusedClean`: `Spec => []NothingLeftBehind`.
- `OwnAnswerOnly`: `Spec => []OwnAnswer`, assuming `MaxCalls <= LastNumber`.
- `PromiseKept`: `Spec => KeepsPromise`, the specification of `CallOutcomes` under the
  refinement mapping of `ReplyCalls`.

None of these is inductive. `CallersAnswerable` alone does not say that two
blocked threads have different capabilities, that no capability beyond `issued`
is anywhere, or that a table with capabilities belongs to a process
whose handles will be closed; after one step each of these could break it.
`IInv` adds them to `TypeOK` and `NothingLeftBehind`, and `Invariance` proves
it from `Init` and through each action, one lemma per action. `OwnAnswerOnly`
needs another part: as long as numbers have not wrapped, the i-th call has
number i. Without the hypothesis it is false: `next_call` (`thread.c:2581`)
wraps, and a capability kept for 2^32 calls then names whatever call has its
slot and number, although the comment at `thread.c:2563` says it "cannot match
whatever reuses the slot". The other theorems hold through the wrap.

`PromiseKept` is a step simulation on top of `IInv` and of `Unissued`, that a
capability beyond those issued is nowhere. Every action but PORT_CALL makes no
capability and begins no wait, so what it does is a Settle of `CallOutcomes`: the
rights it uses up are those gone from `Rights`, the calls it ends those gone from
`OpenCalls` (`OtherSteps`, `OtherSettles`). What Settle demands, that a call
ends with the right to answer it, is `CallersAnswerable` after the step. PORT_CALL is
Begin, and Refuse when the process's table is full.

### Rings

`Rings_proofs`, for every finite set of processes, every capacity of at least two
and every number of positions that is a multiple of the capacity and at least four
times as large (`RingsAssumption`; the kernel has 2^32 positions and capacities that
are powers of two), with shared and with copied rings.

- `Rings_Invariant`: `Spec => []RingInv`.
- `Rings_NoStrandedEnd`: `Spec => []NoStrandedEnd`.
- `Rings_BackingHeld`: `Spec => []BackingHeld`.

Neither property is inductive. That no sleeper is stranded needs the kernel's
positions never more than a capacity apart, counts of references that equal the
handles there are, and no end without handles behind a pipe that is still open.
`Sound` says this of one record of the kernel and the handles. It does not
depend on what the header says, so it survives a faulty process: each operation
of the kernel keeps it whatever position it is given (one lemma per operation:
`NotifySound`, `FailSound`, `ReleaseEndSound`, ...). The steps of the library are not
atomic with these operations, so `RingInv` adds what a thread in the middle of
a call relies on (`Fits`: it still has the handle it began with, and knows which
form the ring has), that a view's process lives, holds its end and has the area
mapped, that a process not yet forked holds nothing, and that a pipe is
never found closing. Then one lemma per action.

`Rings_order` builds on this for the three other properties.

- `Order_Invariant`: `Spec => [](RingInv /\ OrderInv)`.
- `Order_InOrder`: `Spec => []InOrder`.
- `Order_FaultsContained`: `Spec => []FaultsContained`.
- `Order_EndOfStream`: `Spec => []EndOfStream`.

`InOrder` speaks of five positions: where the kernel has the ends, where the header
has them, and what the consumer has read of the header. What the producer has read
is the sixth, and without it the property is not inductive: whether there is room is
decided by it. `Ordered` says, while all keep to the library, that whoever goes round
the ring from it meets the kernel's position of the consumer before the header's
position of the producer (`Behind`), that the views agree with the
header on their own end, and that a reserved slot is written. `Beliefs` says what
holds with a faulty process as well, since `copy_peek` and `refresh` check what they
read: at most a capacity lies between an end and what it believes of the other.
`KernelPositions` ties a pipe's header to the kernel. Most steps move no position
and are one lemma (`QuietOrder`); each of the others rests on a lemma about
remainders and distances alone (`ProducerCommits`, `ConsumerAsks`, `SlotsWritten`,
...), where it matters that the wrap is a multiple of the capacity.

`EndOfStream` needs `EndInv`: a thread that was told has returned, lives, and holds
the end. Nothing that it could undo by itself is left then, so the others must not:
a reference of the other end never comes back from nothing (a handle is only
copied from a handle), and nobody publishes without one. `Tells` is what each
operation of the kernel may tell the threads it wakes.

### POSIX locks

`Pthreads_proofs`, for every finite set of threads, any number of calls and any
depth, with each of the three programs (`FutexAssumption`, `PthreadAssumption`: the
five words are different, 0 is no thread's ID).

- `WaitersHaveOwnerAlways`: `Spec => []WaitersHaveOwner`.
- `ExclusionAlways`: `~Recursive => (Spec => []Exclusion)`, and
  `RwExclusionAlways` for its half about read-write locks without that hypothesis.
- `OnceOnlyAlways`: `Spec => []OnceOnly`.
- `ReachedAlways`: `Spec => []Reached`.
- `NobodyForgottenAlways`: `Spec => []NobodyForgotten`.

The hypothesis is the code's, not the proof's: with recursive mutexes `Exclusion` is
false, by finding 4 of section 5. The inductive invariant has a part for each
question, each kept by a step given those before it: `ControlInv` (where a thread
can be, doing what, with which kind of grip), `KernelInv` (a thread sleeps at an
address that has a record of the right kind), `OnceInv` (the control word tells
how far the initializer is and who runs it), `HoldInv` (the mutex word names the
one thread that is inside, or has been given the mutex and does not know it yet),
`RwInv` (readers and waiting writers are the numbers of threads doing what counts, so
that a cardinality changes with each), `SeenInv` and `DueInv`. The last two are for
`Reached`: a thread that waits has read a sequence no later than the word; and of
those a notification owes a wake-up to, each that is not asleep yet has read an
older one than the word has by then, so that the kernel will not put it to sleep.
Without this the wait that begins between the store and the wake would look lost.
`NobodyForgotten` needs two more. `TakenInv`: a thread on its way to sleep, whose
sequence has not moved on, has its reason still (the lock is taken, or for a reader
a writer waits or has given up). `ForgotInv`: of a free lock for which a writer waits,
either the signal is still to be made or some writer is awake that will look at it;
and readers sleep for a free lock only while a writer waits or their broadcast is
to be made. A writer that gives up is the exception throughout (`abandoned`), since
the code has no step that would mend it.

### Interrupts

`Interrupts_proofs`, for every set of threads, finite set of sources, set of endpoints
at least as large, and every batch, queue depth and storm budget (`InterruptsAssumption`).

- `NoPanicAlways`, `WorkTrackedAlways`, `SourceMatchesAlways`, `WaiterHeardAlways`:
  `~BindsAgain /\ Depth > 2 * Cardinality(Sources) => (Spec => []P)` for the
  property `P` of the name.

Both hypotheses are the kernel's configuration: 32 entries for nine sources, and no
driver binds a source again while it holds the quiesced endpoint. With `BindsAgain`
and two endpoints, or with a ring of two for one source, TLC finds `NoPanic`
violated. The invariant `Safe` has seven parts that need each other. Its centre is
`RingInv`: how often a source is in the ring. It can be there only while disabled,
but while the worker runs a source is enabled again (by the driver, or for want of
work) before its entry is popped, so that it may be claimed twice behind the entry the
worker is with; a source that can still interrupt waits there once at most. `RouteInv` says which endpoint a source belongs to while endpoints
are revoked and bound, `MaskInv` relates an endpoint's states, records and the
controller, `WorkInv` and `Sound` the worker's flags, `WaitInv` the waiters. The
exits of the kernel are operators from a kernel to its successors, and what they
do with the worker's flags is proved once of each.

### Ports and handles

`Ports_proofs` and `Ports_refinement`, for every finite set of processes, every set of threads, and any
number of ports, messages, handles and generations (`PortsAssumption`).

- `Ports_WaitersTold`, `Ports_HandlesExact`, `Ports_QueueWellFormed`:
  `Spec => []P` for the property `P` of the name.
- `Ports_NamesOnce`: `Spec => NamesOnce`.
- `Ports_NoAmplification`: `Spec => NoAmplification`, an action property.
- `Ports_KeepsPromise`: `Spec => KeepsPromise`, the specification of `Channels` under
  the refinement mapping of `Ports`.

The processes are a finite set because what a port counts is the handles of all
of them; the kernel has a table of processes. The inductive invariant `Inv` has
nine parts that need each other:

- `CountInv` is `HandlesExact` at all times, and that whoever holds the receive end is
  the port's owner. It is kept by `kernel_handle_transfer` and its undoing only since
  `TransitInv` knows that the detached handles of two messages are different ones and
  that those of a free message are none, and by the deaths only since `PortInv` knows
  that a port which is closing has no message.
- `QueueInv` gives each port the sequence `w` its links lead through, with the bytes
  from each message on. A send adds to its end, a receive takes its first, a close
  frees all of it: how far a port's links reach is not stated by the code anywhere,
  so that the fact that the walk of the model meets exactly `w` is shown by its least
  exception.
- `WaitInv` is stronger than `WaitersTold` where a thread waits for messages: the
  one awake that has been told of them belongs to the port's owner, so that a close or a death which takes it
  takes the waiters with it. `ProbeInv` says what a sender that was refused may still
  believe: its handle, if the name is still the latest of its slot, is a send
  handle of that port, and while nothing has left the queue the queue is not empty,
  so that it does not fall asleep for room that was made meanwhile.
- `NameInv` keeps every name a process may know older than what its free slots
  will be called; `ProcessInv` says who runs and that the ended have nothing left.

The same invariant carries the two properties of steps. For `NoAmplification` a
handle that appears in a table or a message is traced back to one there was: a message's
handles to the sender's table, narrowed, and a receiver's to the message. That
needs no new part, since `TransitInv` says which handles are in a
message and `CountInv` that there is one receive end. For the refinement a port's
channel is the sequence of `QueueInv`, seen without its links. Every step either
leaves the messages of a queue and the handles in them as they were, or makes
the sequence one longer, one shorter or empty; that a send to one port leaves the
handles queued at another alone is `TransitInv` again. Both are safety; that a sender
learns of the end (`PeerLearns`) is only model-checked.

TLC checks `Inv` on the instances of the runs `Ports` and `Handles` too; that is how its
parts were found.

### Synchronization objects

`SyncObjects_proofs`, for every set of threads, every finite set of processes, any
number of object slots, references and heap entries to a page, and every workload:
any wait sets, delays, numbers of units and objects at boot
(`SyncAssumption`: every process has a thread, which FORK gives it; somebody runs at
boot; what the workload creates is something `kernel_sync_*_create` accepts).

- `Sync_Invariant`: `Spec => []Inv`, the inductive invariant.
- `Sync_ObjectsSound`: `Spec => []ObjectsSound`.
- `Sync_TimersExact`: `Spec => []TimersExact`.
- `Sync_KeepsPromise`: `Spec => KeepsPromise`, the specification of `Waitables` under the
  refinement mapping of `SyncObjects`.

`Inv` is `Good` of the kernel's state, and that no check but `TIMER_SET: no memory` has
stopped the machine (that one is a finding, see 5). `Good` has parts that need
each other:

- `WaitsIn`: who is registered (`Matched`: exactly the members of the wait sets of blocked
  threads), what a thread record looks like (`Sane`) and that a thread that is not dead
  belongs to a running process (`Housed`). `wake_one` trusts that what it takes from a queue
  is a blocked thread; `Matched` is what makes that so after a wake has withdrawn all the
  registrations of a thread, some of them in the same queue.
- `HeapIn`: the heap and the objects point at each other (`Linked`), no timer is before its
  parent (`Ordered`), an object has a position just when it has a deadline, and the heap
  fits its pages.
- `Shape`: which combinations of state, references, result, deadline and count an object
  may have; a timer is armed only while it is open and not signaled, so that
  `expire_timers` never finds one that is.
- `Quiet`: whoever is registered waits for an open object without units. The free of an
  object relies on it, which requires an empty queue.
- `Owned` and `Counted`: an open object has a maker that runs, and as many references as
  there are handles in all tables.

What each operation does is stated as a relation between the state before and the
state after, and proved once: who is woken with what result (`Woken`), whose registrations
are gone (`Pulled`), that the heap was only rearranged (`Moved`), that one timer was
disarmed or armed (`Disarmed`, `Armed`), that an object was closed or released (`Shut`,
`Released`). The proof of a handler combines those of what it calls. In the middle of
a handler the invariant does not hold: a removal leaves one timer that may be before
its parent or after a child (`UpFrom`, `DownFrom`), and between the two nothing below it is before
what is above it (`Bridged`), which is what makes one pass in one direction enough. That
a pass is long enough is shown by the depth of the timer in the heap, that the wakes
of a queue empty it by its length. The loops go by induction on their rounds
(`Climb`). Retiring a process and reaping it pass through states in which objects
of a dead maker are still open, or handles are gone one object after another
(`Dying` and the relations beside it): there only what has not been reached yet may be so.

`Sync_KeepsPromise` is a step simulation under `Inv`. The relations above are first put
in terms of what can be seen of objects and threads: who listens to an object
(`Listeners`, which `Matched` makes the same as who is registered there), that
exactly these hear of it (`Heard`), that objects are closed or gone and their listeners told
(`Swept`), that timers have rung (`Rang`). These compose, one round of a loop after
another, so a process that dies with many objects, a reaping, and a tick on
which several timers are due are one step of `Waitables` each, although a thread that waits
for two of the objects is told of the first alone (`HeardTwice`, `SweptTwice`,
`RangTwice`). Then each action of `SyncObjects` is an action of `Waitables` (`Promised`),
with two things to mind. A call clears the outcome of its caller's last wait,
which `Waitables` allows a thread at work at any time (`ReturnsBeside`). Counting is the rest: an
automatic event has one unit to give, a semaphore as many as `SharedHeard` finds threads
for, and what is handed out and what is kept add up (`ReleasePromised`).

### What the proofs changed

Some definitions were wrong or unfit, and are as above now. `Account` of `Pthreads` (the
history behind `Reached`) forgot what a signal inside a read-write lock owes at
the step that returns from it, so `Reached` said less there than it seemed to;
the proof failed at that step. `InterruptsAssumption` left the sources possibly
infinite or none. `Launch` of `Ports` gave a new process more handles than its table has
slots, which `grant_bootstrap_capabilities` refuses (`process.c:7643`); the steps
of `HandlesExact` failed there. The loops of `SyncObjects` were recursive operators
and are functions of their round now. `SyncAssumption` left open
that nobody runs at boot, whose objects would then have no maker, and that a process
has no thread. `Waitables` let an automatic event be set only if some workload names the
amount 1, and wrote `UNION S \ T` where TLC and TLAPS read two different things; both
are explicit now.

### Only model-checked

Left to TLC are everything in `Threads` and `Scheduling` (their loops are recursive
operators, as in `Refresh` and `WakeAll`, or folds over slots and queues: tlapm
supports no proof in a module with the first, and what either computes needs an
induction the provers cannot do), and liveness, which is out of the prover's reach.

## 5. What the checks found

The properties hold, with these exceptions (`findings` in `PROJECT.json` has
the lines and the quotations):

1. **Terminating a boosted server stops the machine** (`RetireBoosted`). The
   retired thread is taken out of its ready queue but stays READY while its
   donors are withdrawn; lowering its priority takes it out again.
2. **A timer that wakes only a suspended thread stops the machine**
   (`SuspendedTimer`), the interval timer likewise.
3. **A user deadlock of two mutexes can stop the machine** (`MutexCycle`): the
   donation that would close the cycle is dropped, and the later unlock takes
   its absence for corruption.
4. **`pthread_mutex_unlock` erases the next owner** (`pthread.c:483`): it stores
   `owner` and `depth` after it has given the mutex away. The next owner's
   unlock answers EPERM, and the C library's own locks abort on that
   (`pthread.c:944-948`); `posix/tests/test_pthread.c:175-176` asserts that whoever
   locks can unlock. No run is kept for it: to see it, add `HolderUnlocks` to the
   invariants of `Conditions.cfg`. With a recursive mutex (`Recursive = TRUE`,
   `MaxDepth = 2`) the late store also clears the next owner's `depth`: its nested
   lock then counts from 0, the inner unlock gives the mutex away, and TLC finds two
   threads that hold it. A read-write lock ignores the EPERM
   (`pthread.c:669`, `712`, `759`) and leaves its mutex locked for good.

Not stated as properties but worth a look: an address record outlives its
waiters when they time out or are cancelled, although `sync.h` says it is
returned at once; a lack of memory in `kernel_futex_wait` is reported as
corruption; a lock whose wait is interrupted answers an error that
`__retarget_lock_acquire` aborts on; a writer whose wait for a read-write lock is
interrupted after it was signalled leaves the lock free while others sleep for it
(`pthread.c:703-708` wakes nobody; `NobodyForgotten` has this as its exception
`abandoned`, without which TLC finds it violated); a storm of interrupts without work masks
the endpoint and wakes nobody who waits for it (`irq.c:886`; `WaiterHeard` has it
as its exception); an edge-triggered endpoint without work to capture is never
enabled again (`irq.c:853`; no binding is edge-triggered); binding a source
again while its quiesced endpoint is still held makes the close of the old
handle stop the machine (`irq.c:331`, with `BindsAgain`; only the
qualification's call can); a device that never becomes quiet keeps later
endpoints from being released (`irq.c:1331`); `docs/LOCKING_AND_PREEMPTION.md:61-62`
still says that inheritance and donation are not implemented.
TIMER_SET stops the machine when the heap needs another page
and there is none (`sync.c:1222`, `process.c:14943`; `PoolHealthy` has this as its exception),
although `docs/OS_VISION.md:285-286` says that resource exhaustion "must never be
kernel panic conditions"; a process that holds a handle of an object its maker's death has closed
cannot fork (`sync.c:966`, `process.c:5002` answers RESOURCE_LIMIT).
Of rings: a blocking atomic write of a pipe that finds some room but too little
runs round its loop, since the kernel's wait answers at once while there is any
(`console.c:1197-1222`, `ring.c:687`); `docs/SHARED_AREAS_AND_BULK_RINGS.md:111-116` says
that the creator's death closes an area, revokes all mappings and overrides
handles, where `kernel_area_process_died` (`area.c:1577`) removes only the mappings of
the process that died, and the rings fail at once instead
(`ring.c:963`), so that a consumer with published elements to read is told
PEER_DEAD before it has read them; `EndOfStream` has this as its exception.

## 6. Not modelled, and why

Memory and the paging of areas are on the plan. Block requests, DMA and
device leases are register-level I/O. Boot and diagnostics are straight-line, saving and restoring registers is
assembly; page tables, ELF and file formats are data transformations;
graphics, audio and the network stack are about data rather than order.
Applications are clients. FPGA, emulator, tools and third-party code are
outside.

## 7. Plan

In order; each with the properties it is for.

1. `TimerArming`: every path of `scheduler_timer_rearm_at`; discharges
   the fairness `MCTurns` assumes.
2. `Areas` with commitment, pagers and protection; frames and the object cache.
3. Proofs: the loops of `Threads` and `Scheduling` written as recursive functions of their
   round, as those of `SyncObjects` are, and then `WaitOrder` over them.

New modules follow the pattern of these: constants with named assumptions, one
action per operation, no RECURSIVE operator in a module that theorems are about,
faulty versions beside the definition they replace. Workloads of related modules share a run, as those of
`MCScheduling` and `MCSyncObjects` do.
