---------------------------- MODULE SyncObjects ----------------------------
(***************************************************************************)
(* Events, semaphores and timers of the Axiom kernel (sw/kernel/sync.c),   *)
(* with the system calls of process.c that use them, the handles that      *)
(* refer to them, the threads that wait for one or several of them, and    *)
(* the heap of armed timers.                                               *)
(*                                                                         *)
(* One action is one system call or one timer interrupt, from entry to     *)
(* exit.  A call that is refused without changing an object only makes its *)
(* thread forget the outcome of its last wait, and is left out.            *)
(*                                                                         *)
(* Abstractions.  Every thread may make the next call: whose turn it is,   *)
(* suspension and the order by priority are those of Scheduling, and the   *)
(* waiters of an object here have one priority.  A handle carries every    *)
(* right; those are checked in Ports.  A handle table is the number of     *)
(* its handles to each object.  A deadline is the number of clock ticks it *)
(* is away, or 0.  Positions in the heap count from 1.  next_object_slot   *)
(* is never above the lowest free slot, which is the one that is taken.    *)
(* The loops of the code are recursive functions of their round.           *)
(***************************************************************************)
EXTENDS Integers, Sequences, FiniteSets

CONSTANTS
  Processes, Nobody,
  Threads, ProcessOf,  \* ProcessOf[t]: the process of thread t
  ObjectSlots,         \* KERNEL_SYNC_OBJECT_MAX
  PageEntries,         \* TIMER_HEAP_LEAF_ENTRIES
  MaxReferences,       \* KERNEL_SYNC_REFERENCE_MAX
  Workload             \* by name, what a behaviour does:
                       \*   calls: names of the operations used
                       \*   running: the processes at boot
                       \*   boot: the objects at boot, slot -> [type, count, maximum]
                       \*   creates: the objects made later, in the same form
                       \*   slots: bound, objects there may be at a time
                       \*   tableSize: KERNEL_HANDLE_MAX_ENTRIES
                       \*   waits: the wait sets used, sequences of slots
                       \*   releases: how many units SIGNAL may release
                       \*   delays: how many ticks deadlines are away

Slots == 1..ObjectSlots
Types == {"NONE", "EVENT_AUTO", "EVENT_MANUAL", "SEMAPHORE", "TIMER"}

ASSUME SyncAssumption ==
  /\ Nobody \notin Processes /\ IsFiniteSet(Processes)
  /\ ProcessOf \in [Threads -> Processes]
  /\ \A p \in Processes : \E t \in Threads : ProcessOf[t] = p
  /\ {ObjectSlots, PageEntries, MaxReferences} \subseteq Nat \ {0}
  /\ \A name \in DOMAIN Workload : LET w == Workload[name] IN
       /\ w.running \subseteq Processes /\ w.running # {}
       /\ Cardinality(w.running) <= MaxReferences
       /\ w.slots \in Slots /\ DOMAIN w.boot \subseteq 1..w.slots
       /\ w.tableSize \in Nat /\ Cardinality(DOMAIN w.boot) <= w.tableSize
       /\ \A o \in DOMAIN w.boot :
            /\ w.boot[o].type \in Types \ {"NONE"}
            /\ w.boot[o].maximum \in Nat \ {0} /\ w.boot[o].count \in 0..w.boot[o].maximum
            /\ w.boot[o].type # "SEMAPHORE" => w.boot[o].maximum = 1
       /\ \A x \in w.creates :
            x.type \in Types \ {"NONE"} /\ x.maximum \in Nat \ {0} /\ x.count \in Nat
       /\ w.waits \subseteq Seq(Slots) \ {<<>>}
       /\ w.delays \subseteq Nat \ {0} /\ w.releases \subseteq Nat \ {0}

Unset == 0
None == <<"", 0>>
Healthy == ""

VARIABLES
  load,     \* name of the workload, which never changes
  object,   \* the object table
  heap,     \* timer_heap: slots of the armed timers, heap[i] not after its children
  pages,    \* pages of heap metadata
  queue,    \* queue[o]: registrations <<thread, member>>, first to wake first
  thread,   \* thread[t]: state, members, deadline, and the outcome of its last
            \* wait: a result and the member it came from (0: none of them)
  process,  \* process[p]: "UNBORN", "RUNNING" or "DEAD"
  handles,  \* handles[p][o]: handles of process p to object o
  panic     \* the check that stopped the machine, or Healthy

vars == <<load, object, heap, pages, queue, thread, process, handles, panic>>

Load == Workload[load]

FreeObject ==
  [state |-> "FREE", type |-> "NONE", count |-> 0, maximum |-> 0, owner |-> Nobody,
   references |-> 0, result |-> "", deadline |-> 0, position |-> Unset]

AtWork(state) == [state |-> state, members |-> <<>>, deadline |-> 0, outcome |-> None]

(* What the functions below work on, as one record. *)
K == [object |-> object, heap |-> heap, pages |-> pages, queue |-> queue,
      thread |-> thread, process |-> process, handles |-> handles, panic |-> panic]

Commit(result) ==
  \E k \in {result} :
    /\ UNCHANGED load
    /\ panic' = k.panic
    /\ IF k.panic # Healthy
         THEN UNCHANGED <<object, heap, pages, queue, thread, process, handles>>
         ELSE /\ object' = k.object /\ heap' = k.heap /\ pages' = k.pages
              /\ queue' = k.queue /\ thread' = k.thread
              /\ process' = k.process /\ handles' = k.handles

Check(name, c, k) == IF c \/ k.panic # Healthy THEN k ELSE [k EXCEPT !.panic = name]
Sound(k) == k.panic = Healthy

Live(k, o) == k.object[o].state = "LIVE"

(* n rounds of a loop, the last for i = n. *)
Loop(op(_, _), k, n) ==
  LET after[i \in 0..n] == IF i = 0 THEN k ELSE op(after[i - 1], i) IN after[n]
ForEachSlot(op(_, _), k) == Loop(op, k, ObjectSlots)

(* The sequence s without what is not in S. *)
Only(s, S) ==
  LET upTo[i \in 0..Len(s)] ==
        IF i = 0 THEN <<>>
        ELSE IF s[i] \in S THEN Append(upTo[i - 1], s[i]) ELSE upTo[i - 1]
  IN  upTo[Len(s)]

Lowest(S) == CHOOSE x \in S : \A y \in S : x <= y

----------------------------------------------------------------------------
(* Waking. *)

Withdrawn(k, T) ==
  [k EXCEPT !.queue = [o \in Slots |-> Only(@[o], (Threads \ T) \X Nat)]]

Told(result, member) == [AtWork("READY") EXCEPT !.outcome = <<result, member>>]

(* complete_wait: the one way out of a wait. *)
EndWait(k, t, result, member) ==
  [Withdrawn(k, {t}) EXCEPT !.thread[t] = Told(result, member)]

WakeOne(k, o, result) ==
  IF k.queue[o] = <<>> THEN Check("wake_one", FALSE, k)
  ELSE EndWait(k, k.queue[o][1][1], result, k.queue[o][1][2])

WakeAll(k, o, result) ==
  Loop(LAMBDA acc, i : IF acc.queue[o] = <<>> THEN acc ELSE WakeOne(acc, o, result),
       k, Len(k.queue[o]))

WakeSome(k, o, n) == Loop(LAMBDA acc, i : WakeOne(acc, o, "OK"), k, n)

(* A thread may be registered several times. *)
FaultyWaiterCount(k, o) == Len(k.queue[o])      \* mutant: counts registrations
Waiters(k, o) == {k.queue[o][i][1] : i \in DOMAIN k.queue[o]}
WaiterCount(k, o) == Cardinality(Waiters(k, o))

----------------------------------------------------------------------------
(* The timer heap. *)

Less(k, o, p) ==
  \/ k.object[o].deadline < k.object[p].deadline
  \/ k.object[o].deadline = k.object[p].deadline /\ o < p

(* A slot put into place i of the heap knows its position. *)
Place(k, i, o) == [k EXCEPT !.heap[i] = o, !.object[o].position = i]
Swap(k, i, j) == Place(Place(k, i, k.heap[j]), j, k.heap[i])

(* The timer o changes places with its parent, or with its lesser child,   *)
(* while it is out of order.                                               *)
Raised(k, o) ==
  LET i == k.object[o].position
  IN  IF i # 1 /\ Less(k, o, k.heap[i \div 2]) THEN Swap(k, i, i \div 2) ELSE k
SiftUp(k, o) == Loop(LAMBDA acc, i : Raised(acc, o), k, Len(k.heap))

Smallest(k, i) ==
  CHOOSE j \in {i, 2 * i, 2 * i + 1} \cap DOMAIN k.heap :
    \A l \in ({i, 2 * i, 2 * i + 1} \cap DOMAIN k.heap) \ {j} :
      Less(k, k.heap[j], k.heap[l])

Lowered(k, o) ==
  LET i == k.object[o].position
  IN  IF Smallest(k, i) = i THEN k ELSE Swap(k, i, Smallest(k, i))
SiftDown(k, o) == Loop(LAMBDA acc, i : Lowered(acc, o), k, Len(k.heap))

(* The last timer takes the place of the one removed, from where it may    *)
(* have to move either way.                                                *)
AlwaysDown(k, i) == IF i \in DOMAIN k.heap THEN SiftDown(k, k.heap[i]) ELSE k  \* mutant
Settle(k, i) ==
  CASE i \notin DOMAIN k.heap -> k
    [] i \in DOMAIN k.heap /\ i # 1 /\ Less(k, k.heap[i], k.heap[i \div 2]) -> SiftUp(k, k.heap[i])
    [] OTHER -> SiftDown(k, k.heap[i])

(* Without the last entry of the heap, which o has. *)
Cut(k, o) ==
  [k EXCEPT !.heap = SubSeq(@, 1, Len(@) - 1),
            !.object[o] = [@ EXCEPT !.position = Unset, !.deadline = 0]]

TimerRemove(k, o) ==
  LET i == k.object[o].position
  IN  IF i = Unset THEN k
      ELSE IF i > Len(k.heap) \/ k.heap[i] # o THEN Check("timer_remove", FALSE, k)
      ELSE Settle(Cut(Swap(k, i, Len(k.heap)), o), i)

(* memory: whether a page can be had.  TIMER_SET takes no for an answer    *)
(* that only a corrupt kernel gives.                                       *)
Grown(k, o, deadline, n) ==
  [k EXCEPT !.heap = Append(@, o),
            !.object[o] = [@ EXCEPT !.position = Len(k.heap) + 1, !.deadline = deadline],
            !.pages = n]

TimerInsert(k, o, deadline, memory) ==
  LET need == Len(k.heap) \div PageEntries + 1
  IN  IF need > k.pages /\ ~memory THEN Check("TIMER_SET: no memory", FALSE, k)
      ELSE SiftUp(Grown(k, o, deadline, IF need > k.pages THEN need ELSE k.pages), o)

----------------------------------------------------------------------------
(* Objects and the handles that keep them. *)

(* The metadata goes with the last object. *)
FreeTheObject(k, o) ==
  LET k1 == [k EXCEPT !.object[o] = FreeObject]
  IN  Check("free_object", k.object[o].position = Unset /\ k.queue[o] = <<>>,
            [k1 EXCEPT !.pages =
                IF \A p \in Slots : k1.object[p].state = "FREE" THEN 0 ELSE @])

StaysArmed(k, o, result) ==                 \* mutant: the heap keeps the timer
  IF ~Live(k, o) THEN k
  ELSE WakeAll([k EXCEPT !.object[o].state = "CLOSING", !.object[o].result = result],
               o, result)

CloseObject(k, o, result) ==
  IF ~Live(k, o) THEN k
  ELSE LET k1 == TimerRemove(k, o)
       IN  WakeAll([k1 EXCEPT !.object[o].state = "CLOSING",
                              !.object[o].result = result], o, result)

(* n handles of p to o are closed.  The last one closes and frees o. *)
Release(k, p, o, n) ==
  LET k1 == [k EXCEPT !.handles[p][o] = @ - n]
  IN  IF k.object[o].references > n THEN [k1 EXCEPT !.object[o].references = @ - n]
      ELSE FreeTheObject([CloseObject(k1, o, "CLOSED") EXCEPT !.object[o].references = 0], o)

Numbered(count) == UNION {{x} \X (1..count[x]) : x \in DOMAIN count}
Handles(k, p) == Cardinality(Numbered(k.handles[p]))
Free(k) == {o \in 1..Load.slots : k.object[o].state = "FREE"}

Install(k, p, o, type, count, maximum) ==
  [k EXCEPT !.handles[p][o] = 1,
            !.object[o] = [FreeObject EXCEPT
               !.state = "LIVE", !.type = type, !.count = count,
               !.maximum = maximum, !.owner = p, !.references = 1]]

----------------------------------------------------------------------------
(* System calls.  Thread t makes the call op. *)

Calls(t, op) ==
  /\ panic = Healthy /\ op \in Load.calls
  /\ thread[t].state = "READY"

(* The call writes its own result over that of the last wait. *)
Return(t, k) ==
  Commit(IF k.thread[t].state = "READY" THEN [k EXCEPT !.thread[t].outcome = None] ELSE k)

Holds(t, o) == handles[ProcessOf[t]][o] > 0

(* EVENT_CREATE, SEMAPHORE_CREATE and TIMER_CREATE; with no slot or no     *)
(* handle nothing is left of the object.                                   *)
Create(t, type, count, maximum) ==
  /\ Calls(t, "Create") /\ Free(K) # {}
  /\ Handles(K, ProcessOf[t]) < Load.tableSize
  /\ type # "SEMAPHORE" => maximum = 1
  /\ type = "TIMER" => count = 0
  /\ count <= maximum
  /\ Return(t, Install(K, ProcessOf[t], Lowest(Free(K)), type, count, maximum))

Close(t, o) ==
  /\ Calls(t, "Close") /\ Holds(t, o)
  /\ Return(t, Release(K, ProcessOf[t], o, 1))

(* A closed object is retained by nobody. *)
Retained(k, p, count) ==
  [k EXCEPT !.object = [o \in Slots |-> [k.object[o] EXCEPT !.references = @ + count[o]]],
            !.handles[p] = [o \in Slots |-> k.handles[p][o] + count[o]]]

Duplicate(t, o) ==
  /\ Calls(t, "Duplicate") /\ Holds(t, o) /\ Live(K, o)
  /\ object[o].references < MaxReferences
  /\ Handles(K, ProcessOf[t]) < Load.tableSize
  /\ Return(t, Retained(K, ProcessOf[t], [x \in Slots |-> IF x = o THEN 1 ELSE 0]))

(* The child has one thread and all the handles of its parent, or there is *)
(* no child.                                                               *)
FaultyFork(k, p, q) ==       \* mutant: one reference for several handles
  [Retained(k, q, k.handles[p]) EXCEPT !.object =
     [o \in Slots |-> [k.object[o] EXCEPT
                        !.references = @ + IF k.handles[p][o] > 0 THEN 1 ELSE 0]]]

CloneTable(k, p, q) == Retained(k, q, k.handles[p])

Fork(t, q) ==
  LET p == ProcessOf[t]
      k1 == CloneTable(K, p, q)
  IN  /\ Calls(t, "Fork") /\ process[q] = "UNBORN"
      /\ \A o \in Slots : Holds(t, o) =>
           Live(K, o) /\ object[o].references + handles[p][o] <= MaxReferences
      /\ Return(t, [k1 EXCEPT !.process[q] = "RUNNING",
                              !.thread[CHOOSE u \in Threads : ProcessOf[u] = q] =
                                  AtWork("READY")])

(* retire_process: the threads end, then the objects the process made are  *)
(* closed; its handles stay until the worker reaps it.                     *)
EndThreads(k, p) ==
  LET T == {u \in Threads : ProcessOf[u] = p}
  IN  [Withdrawn(k, T) EXCEPT
         !.process[p] = "DEAD",
         !.thread = [u \in Threads |-> IF u \in T THEN AtWork("DEAD") ELSE @[u]]]

Retire(k, p) ==
  ForEachSlot(LAMBDA acc, o : IF acc.object[o].owner = p
                                THEN CloseObject(acc, o, "PEER_DEAD") ELSE acc,
              EndThreads(k, p))

Exit(t, p) ==
  /\ Calls(t, "Exit") /\ process[p] = "RUNNING"
  /\ Return(t, Retire(K, p))

(* The worker closes the handles of a dead process, whose slot is then     *)
(* free for another.                                                       *)
CloseHandles(k, p) ==
  ForEachSlot(LAMBDA acc, o : IF acc.handles[p][o] = 0 THEN acc
                              ELSE Release(acc, p, o, acc.handles[p][o]), k)

Reap(p) ==
  /\ panic = Healthy /\ process[p] = "DEAD"
  /\ Commit([CloseHandles(K, p) EXCEPT !.process[p] = "UNBORN"])

----------------------------------------------------------------------------
(* Waiting: WAIT_ONE and WAIT_MULTIPLE. *)

Answers(k, o) == ~Live(k, o) \/ k.object[o].count # 0

(* A manual event and a timer stay signaled. *)
FaultyConsumed(x) == [x EXCEPT !.count = 0]      \* mutant: all of them do
Consumed(x) ==
  [x EXCEPT !.count = IF x.type \in {"EVENT_MANUAL", "TIMER"} THEN @ ELSE @ - 1]

(* The first member that answers ends the call; the others are untouched.  *)
Poll(k, t, members) ==
  LET i == Lowest({j \in DOMAIN members : Answers(k, members[j])})
      o == members[i]
  IN  IF Live(k, o)
        THEN [k EXCEPT !.object[o] = Consumed(@), !.thread[t].outcome = <<"OK", i>>]
        ELSE [k EXCEPT !.thread[t].outcome = <<k.object[o].result, i>>]

Registrations(t, members, o) ==
  Only([i \in DOMAIN members |-> <<t, i>>], {t} \X {i \in DOMAIN members : members[i] = o})

Block(k, t, members, deadline) ==
  [k EXCEPT !.queue = [o \in Slots |-> @[o] \o Registrations(t, members, o)],
            !.thread[t] = [AtWork("BLOCKED") EXCEPT !.members = members,
                                                    !.deadline = deadline]]

Wait(t, members, deadline) ==
  /\ Calls(t, "Wait")
  /\ \A i \in DOMAIN members : Holds(t, members[i])
  /\ IF \E i \in DOMAIN members : Answers(K, members[i])
       THEN Commit(Poll(K, t, members))
       ELSE Commit(Block(K, t, members, deadline))

(* A deadline that has passed makes the call a poll. *)
WaitTimedOut(t, members) ==
  /\ Calls(t, "Wait")
  /\ \A i \in DOMAIN members : Holds(t, members[i]) /\ ~Answers(K, members[i])
  /\ Commit([K EXCEPT !.thread[t].outcome = <<"TIMED_OUT", 0>>])

CancelWait(t, u) ==
  /\ Calls(t, "CancelWait") /\ thread[u].state = "BLOCKED"
  /\ Return(t, EndWait(K, u, "CANCELLED", 0))

----------------------------------------------------------------------------
(* SIGNAL, EVENT_RESET and the timer calls. *)

SignalManual(t, o) ==
  /\ Calls(t, "Signal") /\ Holds(t, o) /\ Live(K, o) /\ object[o].type = "EVENT_MANUAL"
  /\ Return(t, WakeAll([K EXCEPT !.object[o].count = 1], o, "OK"))

SignalAuto(t, o) ==
  /\ Calls(t, "Signal") /\ Holds(t, o) /\ Live(K, o) /\ object[o].type = "EVENT_AUTO"
  /\ Return(t, IF queue[o] = <<>> THEN [K EXCEPT !.object[o].count = 1]
               ELSE WakeOne([K EXCEPT !.object[o].count = 0], o, "OK"))

(* All n units are handed out or kept, or the call is refused. *)
SignalSemaphore(t, o, n) ==
  LET handed == Lowest({n, WaiterCount(K, o)})
      kept == n - handed
  IN  /\ Calls(t, "Signal") /\ Holds(t, o) /\ Live(K, o)
      /\ object[o].type = "SEMAPHORE"
      /\ kept <= object[o].maximum - object[o].count
      /\ Return(t, WakeSome([K EXCEPT !.object[o].count = @ + kept], o, handed))

EventReset(t, o) ==
  /\ Calls(t, "Reset") /\ Holds(t, o) /\ Live(K, o)
  /\ object[o].type \in {"EVENT_AUTO", "EVENT_MANUAL"}
  /\ Return(t, [K EXCEPT !.object[o].count = 0])

(* A deadline 0 ticks away has passed: the timer expires at once. *)
TimerSet(t, o, deadline, memory) ==
  LET k1 == TimerRemove(K, o)
      k2 == [k1 EXCEPT !.object[o].count = 0]
  IN  /\ Calls(t, "TimerSet")
      /\ memory \/ Len(heap) = pages * PageEntries
      /\ Holds(t, o) /\ Live(K, o) /\ object[o].type = "TIMER"
      /\ Return(t, IF deadline = 0
                     THEN WakeAll([k2 EXCEPT !.object[o].count = 1], o, "OK")
                     ELSE TimerInsert(k2, o, deadline, memory))

TimerCancel(t, o) ==
  /\ Calls(t, "TimerCancel") /\ Holds(t, o) /\ Live(K, o) /\ object[o].type = "TIMER"
  /\ Return(t, WakeAll([TimerRemove(K, o) EXCEPT !.object[o].count = 0], o, "CANCELLED"))

----------------------------------------------------------------------------
(* scheduler_expire_due: threads whose deadline has come leave their waits *)
(* first, then the timers that are due expire, earliest first.             *)

ExpireDeadlines(k, d) ==
  LET T == {t \in Threads : k.thread[t].deadline \in 1..d}
  IN  [Withdrawn(k, T) EXCEPT
         !.thread = [t \in Threads |-> IF t \in T THEN Told("TIMED_OUT", 0) ELSE @[t]]]

ExpireFirst(k, d) ==
  LET o == k.heap[1]
  IN  IF ~Sound(k) \/ k.heap = <<>> \/ k.object[o].deadline > d THEN k
      ELSE WakeAll([TimerRemove(Check("expire_timers",
                                      Live(k, o) /\ k.object[o].count = 0, k), o)
                      EXCEPT !.object[o].count = 1], o, "OK")

ExpireTimers(k, d) == Loop(LAMBDA acc, i : ExpireFirst(acc, d), k, Len(k.heap))

Nearer(deadline, d) == IF deadline = 0 THEN 0 ELSE deadline - d

Advance(k, d) ==
  [k EXCEPT !.thread = [t \in Threads |-> [k.thread[t] EXCEPT !.deadline = Nearer(@, d)]],
            !.object = [o \in Slots |-> [k.object[o] EXCEPT !.deadline = Nearer(@, d)]]]

Tick(d) ==
  /\ panic = Healthy
  /\ heap # <<>> \/ \E t \in Threads : thread[t].deadline # 0
  /\ Commit(Advance(ExpireTimers(ExpireDeadlines(K, d), d), d))

----------------------------------------------------------------------------

Boot(w) ==
  [o \in Slots |->
     IF o \notin DOMAIN w.boot THEN FreeObject
     ELSE [FreeObject EXCEPT
             !.state = "LIVE", !.type = w.boot[o].type, !.count = w.boot[o].count,
             !.maximum = w.boot[o].maximum, !.owner = CHOOSE p \in w.running : TRUE,
             !.references = Cardinality(w.running)]]

(* The objects of the workload have been made by the first of the running  *)
(* processes, and the others have been forked by it since.                 *)
Init ==
  /\ load \in DOMAIN Workload
  /\ object = Boot(Load)
  /\ heap = <<>> /\ pages = 0
  /\ queue = [o \in Slots |-> <<>>]
  /\ process = [p \in Processes |-> IF p \in Load.running THEN "RUNNING" ELSE "UNBORN"]
  /\ thread = [t \in Threads |->
                 AtWork(IF ProcessOf[t] \in Load.running THEN "READY" ELSE "DEAD")]
  /\ handles = [p \in Processes |-> [o \in Slots |->
                  IF p \in Load.running /\ o \in DOMAIN Load.boot THEN 1 ELSE 0]]
  /\ panic = Healthy

Next ==
  \/ \E t \in Threads, x \in Load.creates : Create(t, x.type, x.count, x.maximum)
  \/ \E t \in Threads, o \in Slots :
       \/ Close(t, o) \/ Duplicate(t, o)
       \/ SignalManual(t, o) \/ SignalAuto(t, o) \/ EventReset(t, o) \/ TimerCancel(t, o)
       \/ \E n \in Load.releases : SignalSemaphore(t, o, n)
       \/ \E deadline \in Load.delays \cup {0}, memory \in BOOLEAN :
            TimerSet(t, o, deadline, memory)
  \/ \E t \in Threads, p \in Processes : Fork(t, p) \/ Exit(t, p)
  \/ \E t \in Threads, members \in Load.waits :
       \/ \E deadline \in Load.delays \cup {0} : Wait(t, members, deadline)
       \/ WaitTimedOut(t, members)
  \/ \E t, u \in Threads : CancelWait(t, u)
  \/ \E p \in Processes : Reap(p)
  \/ \E d \in Load.delays : Tick(d)

Spec == Init /\ [][Next]_vars

----------------------------------------------------------------------------
(* Properties. *)

(* A blocked thread is registered once for each member of its wait set, at *)
(* that member, and nobody else is registered anywhere                     *)
(* (enqueue_wait_registration, withdraw_wait_set).                         *)
Registered ==
  \A o \in Slots : \A t \in Threads :
    {i \in DOMAIN thread[t].members : thread[t].members[i] = o} =
      {queue[o][j][2] : j \in {j \in DOMAIN queue[o] : queue[o][j][1] = t}}

(* An object has as many references as there are handles to it, whatever   *)
(* processes were forked, died and were reaped; it is free when there are  *)
(* none, open only as long as the process that made it lives, and once     *)
(* closed it has no waiter and no armed timer (kernel_sync_retain,         *)
(* kernel_sync_handle_release, kernel_sync_owner_died,                     *)
(* kernel_sync_pool_valid).                                                *)
HandlesCounted ==
  \A o \in Slots : LET x == object[o] IN
    /\ x.references = Cardinality(Numbered([p \in Processes |-> handles[p][o]]))
    /\ x.state = "FREE" <=> x.references = 0
    /\ x.state = "LIVE" => process[x.owner] = "RUNNING" /\ x.result = ""
    /\ x.state # "LIVE" => queue[o] = <<>> /\ x.position = Unset
    /\ x.state = "CLOSING" => x.result # ""

(* Nobody sleeps on an object that has a unit: a waiter registers only     *)
(* when there is none, and one that is there goes to a waiter              *)
(* (kernel_sync_prepare_wait, kernel_sync_signal).                         *)
NobodySleepsOnUnits == \A o \in Slots : queue[o] # <<>> => object[o].count = 0

(* The consistency checks of sync.c hold along every legal sequence of     *)
(* calls, except that TIMER_SET stops the machine when the heap cannot     *)
(* have another page.                                                      *)
PoolHealthy == panic \in {Healthy, "TIMER_SET: no memory"}

ObjectsSound == Registered /\ HandlesCounted /\ NobodySleepsOnUnits /\ PoolHealthy

(* The heap has the armed timers, each once and where its object says, and *)
(* none before its parent, whatever was removed from the middle: so the    *)
(* first is the next to expire, which the timer interrupt relies on        *)
(* (timer_remove, timer_insert, kernel_sync_next_timer_deadline).          *)
TimersExact ==
  /\ {o \in Slots : object[o].deadline # 0} = {heap[i] : i \in DOMAIN heap}
  /\ \A o \in Slots : object[o].position # Unset => heap[object[o].position] = o
  /\ \A i \in DOMAIN heap : object[heap[i]].position = i
  /\ \A i \in DOMAIN heap : object[heap[i]].count = 0 /\ object[heap[i]].state = "LIVE"
  /\ \A i \in DOMAIN heap \ {1} : ~Less(K, heap[i], heap[i \div 2])
  /\ Len(heap) <= pages * PageEntries

(* All wait sets, and all counts and delays, of the workloads. *)
WaitSets == UNION {Workload[name].waits : name \in DOMAIN Workload}
Amounts ==
  UNION {LET w == Workload[name]
         IN  {w.boot[o].maximum : o \in DOMAIN w.boot} \cup {x.maximum : x \in w.creates}
               \cup w.releases \cup w.delays : name \in DOMAIN Workload}

(* What there is to see of an object and of a thread that waits. *)
Shown(x) ==
  [kind |-> x.type, units |-> x.count, limit |-> x.maximum, closed |-> x.result,
   alarm |-> x.deadline]
ShownWait(x) == [on |-> x.members, patience |-> x.deadline, outcome |-> x.outcome]
ShownObjects == [o \in Slots |-> Shown(object[o])]
ShownWaits == [t \in Threads |-> ShownWait(thread[t])]

(* What a waiting thread is told is what Waitables promises, whatever is   *)
(* registered, counted and retained below.                                 *)
Promise == INSTANCE Waitables WITH
  Objects <- Slots, Kinds <- Types, object <- ShownObjects, wait <- ShownWaits
KeepsPromise == Promise!Spec

=============================================================================
