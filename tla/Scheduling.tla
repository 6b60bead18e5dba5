----------------------------- MODULE Scheduling -----------------------------
(***************************************************************************)
(* The Axiom scheduler: the system-call, timer, interrupt and maintenance  *)
(* handlers of sw/kernel/process.c (with the parts of sync.c and port.c    *)
(* they call) over the thread pool of module Threads.                      *)
(*                                                                         *)
(* One action is one handler, from entry to the thread it resumes.  A      *)
(* handler that finds the kernel's state corrupt stops the machine; the    *)
(* action then only records the handler and the check in "panic".          *)
(*                                                                         *)
(* Abstractions.  A process has one port, which exists as long as its      *)
(* threads live, and any process may send to it.  A queued message is the  *)
(* thread whose reply capability it carries, or Plain if it carries none   *)
(* or one whose call has ended.  A synchronization object is its wait      *)
(* queue; a wait or signal that only changes the object's count leaves     *)
(* the state as it is.  A mutex belongs to a process, and its threads      *)
(* change the mutex word only through the kernel.                          *)
(***************************************************************************)
EXTENDS Threads

CONSTANTS
  Workload,      \* by name, what the processes of a behaviour do:
                 \*   calls: names of the operations they use
                 \*   population: the threads at boot, slot -> [process, base]
                 \*   priorities: base priorities they ask for
                 \*   waits[p, t]: the wait sets thread t of process p uses
                 \*   maxWait: bound, ticks a deadline may be away
                 \*   portDepth: bound, messages a port may hold
  ObjectOwner,   \* object -> the process whose death closes it, or NoProcess
  MutexHome      \* mutex -> its process

ASSUME SchedulingAssumption ==
  /\ \A name \in DOMAIN Workload : LET w == Workload[name] IN
       /\ DOMAIN w.population \subseteq Threads /\ DOMAIN w.population # {}
       /\ \A t \in DOMAIN w.population : w.population[t].process \in Processes
       /\ w.priorities \subseteq Priorities
       /\ w.maxWait \in Nat /\ w.portDepth \in Nat
  /\ ObjectOwner \in [Objects -> Processes \cup {NoProcess}]
  /\ MutexHome \in [Mutexes -> Processes]

Plain == 0
Free == 0
Abandoned == -1
Healthy == <<"", OK>>

VARIABLES
  load,     \* name of the workload, which never changes
  inbox,    \* inbox[p]: the messages queued at the port of p
  holder,   \* holder[t]: the process whose handle table has t's reply capability
  word,     \* word[m]: the owning thread, Free, or Abandoned by a dead thread
  timer,    \* timer[o]: ticks until timer object o expires, 0 when disarmed
  media,    \* media_throttled
  stopped,  \* stopped[p]: process p is suspended
  due,      \* teardown waits for the worker, which runs before any thread
  panic     \* <<handler, check>> that stopped the machine, or Healthy

vars == <<load, thread, ready, queue, inbox, holder, word, timer, media, stopped,
          due, panic>>

Load == Workload[load]

(* The processes of the workload: a new one takes the slot of one of these. *)
Used == {Load.population[t].process : t \in DOMAIN Load.population}

(* The kernel's state at the entry of a handler, as one record. *)
K == [thread |-> thread, ready |-> ready, queue |-> queue, inbox |-> inbox,
      holder |-> holder, word |-> word, timer |-> timer, media |-> media,
      stopped |-> stopped, corrupt |-> OK]

(* The handler leaves result behind. *)
Commit(handler, result, due1) ==
  \E k \in {result} :
  LET ended == {t \in Threads : InCall(K, t) /\ ~InCall(k, t)}
  IN  /\ UNCHANGED load
      /\ IF k.corrupt # OK
           THEN /\ panic' = <<handler, k.corrupt>>
                /\ UNCHANGED <<thread, ready, queue, inbox, holder, word, timer,
                               media, stopped, due>>
         ELSE /\ thread' = k.thread /\ ready' = k.ready /\ queue' = k.queue
              /\ inbox' = [p \in Processes |->
                            [i \in DOMAIN k.inbox[p] |->
                               IF k.inbox[p][i] \in ended THEN Plain
                                                          ELSE k.inbox[p][i]]]
              /\ holder' = [t \in Threads |->
                             IF t \in ended THEN NoProcess ELSE k.holder[t]]
              /\ word' = k.word /\ timer' = k.timer /\ media' = k.media
              /\ stopped' = k.stopped /\ due' = due1
              /\ UNCHANGED panic

Alive(k, p) == LiveThreads(k, p) # {}
Open(k, o) == ObjectOwner[o] = NoProcess \/ Alive(k, ObjectOwner[o])
Running(k) == {t \in Threads : k.thread[t].state = "RUNNING"}
Process(t) == thread[t].process

(* kernel_thread_allocate takes the first free slot from next_thread_slot  *)
(* on.  Every slot below that one is in use, for a slot that is given back *)
(* lowers it, so that the slot taken is the lowest free one.               *)
FreeSlots == {t \in Threads : thread[t].state = "UNUSED"}
FreeSlot == Min(FreeSlots)

----------------------------------------------------------------------------
(* Choosing the next thread. *)

SetThrottled(k, b) ==
  IF k.media = b THEN k
  ELSE [ForEachSlot(LAMBDA acc, t :
                      IF Live(acc, t) THEN SetPriority(acc, t, acc.thread[t].base, b)
                                      ELSE acc, k)
          EXCEPT !.media = b]

(* What charging the media budget at the end of t's stint may set          *)
(* media_throttled to: only a media thread's stint uses the budget up.     *)
Charges(k, t) ==
  IF "Media" \in Load.calls /\ k.thread[t].base >= MEDIA THEN BOOLEAN ELSE {k.media}

Outranks(k, t) == AnyReady(k) /\ HighestReady(k) > k.thread[t].effective

TakeIfAny(k) == IF AnyReady(k) THEN TakeNext(k) ELSE k

(* schedule_pending: forced is a pending quantum or deadline preemption.   *)
SchedulePending(k, t, b, forced) ==
  LET k1 == SetThrottled(k, b)
  IN  IF forced \/ Outranks(k1, t) THEN TakeNext(MakeReady(k1, t)) ELSE k1

(* The end of a handler that thread t entered. *)
NeverPreempts(handler, k, t, due1) ==       \* mutant: only a switch reschedules
  IF k.thread[t].state = "RUNNING" THEN Commit(handler, k, due1)
  ELSE \E b \in Charges(k, t) : Commit(handler, TakeIfAny(SetThrottled(k, b)), due1)

Resume(handler, result, t, due1) ==
  \E k \in {result} :
  IF k.thread[t].state # "RUNNING"
    THEN \E b \in Charges(k, t) : Commit(handler, TakeIfAny(SetThrottled(k, b)), due1)
  ELSE IF Outranks(k, t)
    THEN \E b \in Charges(k, t) : Commit(handler, SchedulePending(k, t, b, FALSE), due1)
  ELSE Commit(handler, k, due1)

(* Thread t makes the system call op; no thread runs while teardown is due. *)
Calls(t, op) ==
  /\ panic = Healthy /\ ~due /\ op \in Load.calls
  /\ thread[t].state = "RUNNING"

----------------------------------------------------------------------------
(* Threads come and go. *)

ThreadCreate(t, base) ==
  /\ Calls(t, "ThreadCreate") /\ FreeSlots # {}
  /\ Resume("ThreadCreate", Publish(K, FreeSlot, Process(t), base, media), t, FALSE)

ProcessCreate(t, p, base) ==
  /\ Calls(t, "ProcessCreate") /\ FreeSlots # {}
  /\ \A u \in Threads : thread[u].process # p
  /\ Resume("ProcessCreate", Publish(K, FreeSlot, p, base, media), t, FALSE)

(* The process-death part of retire_process after its threads are retired: *)
(* its objects and its port close, waking their waiters, and the reply     *)
(* capabilities in the port's messages are released.                       *)
ReleaseReply(k, c) ==
  IF c # Plain /\ InCall(k, c) THEN CompleteWait(k, c) ELSE k

CloseProcess(k, p) ==
  LET mine == {o \in Objects : ObjectOwner[o] = p}
      objects == [i \in 1..Cardinality(mine) |-> ObjectQueue(SetToSortSeq(mine, <)[i])]
      k1 == FoldLeft(WakeAll, k, objects \o <<ReadableQueue(p), WritableQueue(p)>>)
      k2 == FoldLeft(ReleaseReply, k1, k.inbox[p])
  IN  WakeAll([k2 EXCEPT !.inbox[p] = <<>>,
                         !.timer = [o \in Objects |-> IF o \in mine THEN 0 ELSE @[o]],
                         !.word = [m \in Mutexes |->
                                     IF MutexHome[m] = p THEN Free ELSE @[m]],
                         !.stopped[p] = FALSE],
              ExitQueue(p))

Retire(k, p) ==
  LET k1 == RetireProcess(k, p, NoThread)
  IN  IF k1.corrupt # OK THEN k1 ELSE CloseProcess(k1, p)

(* EXIT, a fault, or TERMINATE of any process, the caller's included. *)
ProcessTerminate(t, p) ==
  /\ Calls(t, "ProcessTerminate") /\ Alive(K, p)
  /\ Resume("ProcessTerminate", Retire(K, p), t, TRUE)

AbandonMutexes(k, t) ==
  FoldLeft(LAMBDA acc, m :
             [WakeAll(acc, MutexQueue(m)) EXCEPT !.word[m] = Abandoned],
           k, SetToSeq({m \in Mutexes : k.word[m] = t}))

ThreadExit(t) ==
  /\ Calls(t, "ThreadExit")
  /\ Resume("ThreadExit",
            IF LiveThreads(K, Process(t)) = {t} THEN Retire(K, Process(t))
            ELSE Complete(AbandonMutexes(K, t), t),
            t, TRUE)

(* exec: the caller survives its siblings and goes on in a new image,      *)
(* where it holds no mutex.                                                *)
Exec(t) ==
  LET k1 == RetireProcess(K, Process(t), t)
  IN  /\ Calls(t, "Exec")
      /\ Resume("Exec",
                [k1 EXCEPT !.word = [m \in Mutexes |->
                              IF MutexHome[m] = Process(t) THEN Free ELSE @[m]]],
                t, TRUE)

(* The worker's maintenance pass.  It closes the handles of every dead     *)
(* process, which ends the calls whose reply capability they held, and     *)
(* frees the dead thread records, except those of the processes in         *)
(* deferred, whose memory a device still owns.  It runs before any thread  *)
(* when teardown is due, and again for the deferred processes later.       *)
Dead(k, t) == k.thread[t].state = "DEAD"

CloseHandles(k) ==
  ForEachSlot(LAMBDA acc, c :
    IF acc.holder[c] # NoProcess /\ ~Alive(acc, acc.holder[c])
      THEN [ReleaseReply(acc, c) EXCEPT !.holder[c] = NoProcess] ELSE acc, k)

Maintenance(deferred) ==
  LET k1 == CloseHandles(K)
      k2 == ForEachSlot(LAMBDA acc, t :
              IF Dead(acc, t) /\ acc.thread[t].process \notin deferred
                THEN FinishReap(acc, t) ELSE acc, k1)
  IN  /\ panic = Healthy
      /\ due \/ \E t \in Threads : Dead(K, t)
      /\ deferred = {} \/ "Deferral" \in Load.calls
      /\ \A p \in deferred : ~Alive(K, p) /\ \E t \in Threads : Process(t) = p
      /\ IF Running(k2) = {}
           THEN Commit("Maintenance", TakeIfAny(k2), FALSE)
           ELSE \E t \in Running(k2) : Resume("Maintenance", k2, t, FALSE)

----------------------------------------------------------------------------
(* Waiting and waking. *)

Yield(t) ==
  /\ Calls(t, "Yield")
  /\ \E b \in Charges(K, t) : Commit("Yield", SchedulePending(K, t, b, TRUE), FALSE)

(* A member that is ready already ends the wait at once. *)
WouldBlock(k, q) ==
  CASE q[1] = "readable" -> k.inbox[q[2]] = <<>>
    [] q[1] = "writable" -> Alive(k, q[2]) /\ Len(k.inbox[q[2]]) >= Load.portDepth
    [] q[1] = "exit" -> Alive(k, q[2])
    [] q[1] = "death" -> Live(k, q[2])
    [] q[1] = "object" -> Open(k, q[2])

Wait(t, members, deadline) ==
  /\ Calls(t, "Wait")
  /\ \A i \in DOMAIN members : WouldBlock(K, members[i])
  /\ Resume("Wait", BlockWaitSet(K, t, members, deadline), t, FALSE)

(* One signal wakes the first n waiters: one for an automatic event, as    *)
(* many as it releases for a semaphore, all for a manual event.            *)
Signal(t, o, n) ==
  /\ Calls(t, "Signal") /\ Open(K, o)
  /\ n \in DOMAIN queue[ObjectQueue(o)]
  /\ Resume("Signal", Repeat(LAMBDA acc : WakeOne(acc, ObjectQueue(o)), K, n),
            t, FALSE)

(* A device interrupt wakes every waiter of an object.  Under the worker   *)
(* it does no more than that.                                              *)
Interrupt(o) ==
  LET k1 == WakeAll(K, ObjectQueue(o))
  IN  /\ panic = Healthy /\ "Interrupt" \in Load.calls
      /\ queue[ObjectQueue(o)] # <<>>
      /\ CASE due -> Commit("Interrupt", k1, due)
           [] ~due /\ Running(K) = {} -> Commit("Interrupt", TakeIfAny(k1), FALSE)
           [] OTHER -> \E t \in Running(K) : Resume("Interrupt", k1, t, FALSE)

CancelWait(t, target) ==
  /\ Calls(t, "CancelWait") /\ thread[target].state = "BLOCKED"
  /\ Resume("CancelWait", CompleteWait(K, target), t, FALSE)

(* A deadline that is not in the future expires at once. *)
TimerSet(t, o, deadline) ==
  LET k1 == [K EXCEPT !.timer[o] = deadline]
  IN  /\ Calls(t, "TimerSet") /\ Open(K, o)
      /\ Resume("TimerSet", IF deadline = 0 THEN WakeAll(k1, ObjectQueue(o)) ELSE k1,
                t, FALSE)

(* scheduler_expire_due.  s has the fields of ExpireDeadlines.             *)
ExpireTimers(s, d) ==
  LET expired == {o \in Objects : s.k.timer[o] \in 1..d}
      order == SetToSortSeq(expired,
                 LAMBDA m, n : \/ s.k.timer[m] < s.k.timer[n]
                               \/ s.k.timer[m] = s.k.timer[n] /\ m < n)
      k1 == [FoldLeft(LAMBDA acc, o : WakeAll(acc, ObjectQueue(o)), s.k, order)
               EXCEPT !.timer = [o \in Objects |->
                           IF o \in expired THEN 0 ELSE Nearer(@[o], d)]]
  IN  IF \A o \in expired : s.k.queue[ObjectQueue(o)] = <<>> THEN [s EXCEPT !.k = k1]
      ELSE [k |-> Check("timer woke nobody", AnyReady(k1), k1), woke |-> TRUE,
            highest |-> Greatest({s.highest} \cup ReadyPriorities(k1))]

(* The interval timer of target's process signals target, which ends its   *)
(* wait; target is NoThread when no interval timer is due.                 *)
Alarm(s, target) ==
  IF target = NoThread \/ s.k.thread[target].state # "BLOCKED" THEN s
  ELSE LET k1 == CompleteWait(s.k, target)
       IN  [k |-> Check("alarm woke nobody", AnyReady(k1), k1), woke |-> TRUE,
            highest |-> Greatest(ReadyPriorities(k1))]

(* The one outcome of the three passes, each of which works on what the    *)
(* last one left, as a set.                                                *)
ExpireDue(k, d, target) ==
  {Alarm(s2, target) : s2 \in {ExpireTimers(s1, d) : s1 \in {ExpireDeadlines(k, d)}}}

(* The budget period may end at any tick, which gives the budget back. *)
Replenished(k) ==
  IF "Media" \in Load.calls THEN {k.media, FALSE} ELSE {k.media}

(* A timer interrupt d ticks after the last one. *)
Tick(d, quantum, target) ==
  /\ panic = Healthy /\ ~due /\ "Tick" \in Load.calls
  /\ target # NoThread => "Alarm" \in Load.calls /\ Live(K, target)
  /\ IF Running(K) = {}
       THEN \E b \in Replenished(K) : \E s \in ExpireDue(SetThrottled(K, b), d, target) :
              Commit("Tick", TakeIfAny(s.k), FALSE)
       ELSE \E t \in Running(K) : \E b \in Charges(K, t) \cup Replenished(K) :
            \E s \in ExpireDue(SetThrottled(K, b), d, target) :
              LET forced == \/ quantum
                            \/ s.woke /\ s.highest > s.k.thread[t].effective
              IN  Commit("Tick", SchedulePending(s.k, t, b, forced), FALSE)

----------------------------------------------------------------------------
(* Calls and replies. *)

Send(k, p, message) == [k EXCEPT !.inbox[p] = Append(@, message)]

(* PORT_CALL: send the message, wait for the reply, and lend one's         *)
(* priority to the thread the message woke.                                *)
PortCall(t, p, deadline) ==
  LET receiver == IF queue[ReadableQueue(p)] = <<>> THEN NoThread
                  ELSE queue[ReadableQueue(p)][1][1]
      k1 == BlockWaitSet(WakeOne(Send(K, p, t), ReadableQueue(p)), t,
                         <<CallQueue(t)>>, deadline)
  IN  /\ Calls(t, "PortCall") /\ Alive(K, p) /\ Len(inbox[p]) < Load.portDepth
      /\ Resume("PortCall",
                IF receiver = NoThread THEN k1
                ELSE AssignWaitOwner(k1, t, receiver, "CALL"),
                t, FALSE)

(* Exporting the capability ends its donation. *)
FaultyExport(k, c) == [k EXCEPT !.holder[c] = NoProcess]   \* mutant: it does not
Export(k, c) == [AssignWaitOwner(k, c, NoThread, "CALL") EXCEPT !.holder[c] = NoProcess]

(* PORT_SEND of a reply capability the caller's process holds, or of a     *)
(* plain message.                                                          *)
PortSend(t, p, c) ==
  LET k1 == IF c = Plain THEN K ELSE Export(K, c)
  IN  /\ Calls(t, "PortSend") /\ Alive(K, p) /\ Len(inbox[p]) < Load.portDepth
      /\ c # Plain => holder[c] = Process(t)
      /\ Resume("PortSend", WakeOne(Send(k1, p, c), ReadableQueue(p)), t, FALSE)

(* A reply capability arrives in the table of receiver's process. *)
Attach(k, c, receiver) ==
  IF c = Plain THEN k
  ELSE [AssignWaitOwner(k, c, receiver, "CALL")
          EXCEPT !.holder[c] = k.thread[receiver].process]

PortReceive(t) ==
  LET p == Process(t)
      c == Head(inbox[p])
      k1 == WakeAll([K EXCEPT !.inbox[p] = Tail(@)], WritableQueue(p))
      k2 == IF k1.inbox[p] = <<>> THEN k1 ELSE WakeOne(k1, ReadableQueue(p))
  IN  /\ Calls(t, "PortReceive") /\ inbox[p] # <<>>
      /\ Resume("PortReceive", Attach(k2, c, t), t, FALSE)

(* PORT_REPLY, or closing the capability, ends call c.  A reply may hand   *)
(* over another reply capability, extra.                                   *)
Reply(t, c, extra) ==
  LET k1 == IF extra = Plain THEN K
            ELSE Attach(Export(K, extra), extra, c)
  IN  /\ Calls(t, "Reply") /\ holder[c] = Process(t)
      /\ extra # Plain => extra # c /\ holder[extra] = Process(t)
      /\ Resume("Reply", CompleteWait([k1 EXCEPT !.holder[c] = NoProcess], c), t, FALSE)

----------------------------------------------------------------------------
(* Mutexes. *)

MutexWait(t, m) ==
  /\ Calls(t, "MutexWait") /\ MutexHome[m] = Process(t)
  /\ \/ /\ word[m] = Free
        /\ Commit("MutexWait", [K EXCEPT !.word[m] = t], FALSE)
     \/ /\ word[m] \in Threads \ {t}
        /\ Resume("MutexWait",
                  AssignWaitOwner(BlockWaitSet(K, t, <<MutexQueue(m)>>, 0),
                                  t, word[m], "MUTEX"),
                  t, FALSE)

(* The first waiter becomes the owner, and the rest now wait for it. *)
HandOver(k, m, next) ==
  FoldLeft(LAMBDA acc, e : AssignWaitOwner(acc, e[1], next, "MUTEX"),
           k, k.queue[MutexQueue(m)])

MutexUnlock(t, m) ==
  LET waiters == queue[MutexQueue(m)]
      next == waiters[1][1]
      k1 == Check("next_owner", thread[next].owner = t, K)
      k2 == [WakeOne(k1, MutexQueue(m)) EXCEPT !.word[m] = next]
      k3 == HandOver(k2, m, next)
  IN  /\ Calls(t, "MutexUnlock") /\ word[m] = t
      /\ IF waiters = <<>> THEN Commit("MutexUnlock", [K EXCEPT !.word[m] = Free], FALSE)
         ELSE Resume("MutexUnlock", k3, t, FALSE)

----------------------------------------------------------------------------
(* Priorities and suspension. *)

ThreadPriority(t, target, base) ==
  /\ Calls(t, "ThreadPriority") /\ Live(K, target)
  /\ Resume("ThreadPriority", SetPriority(K, target, base, thread[target].throttled),
            t, FALSE)

ProcessPriority(t, p, base) ==
  /\ Calls(t, "ProcessPriority") /\ Alive(K, p)
  /\ Resume("ProcessPriority",
            ForEachSlot(LAMBDA acc, u :
              IF u \in LiveThreads(acc, p) /\ acc.thread[u].base # base
                THEN SetPriority(acc, u, base, acc.thread[u].throttled) ELSE acc, K),
            t, FALSE)

ProcessSuspend(t, p) ==
  /\ Calls(t, "ProcessSuspend") /\ Alive(K, p) /\ ~stopped[p]
  /\ Resume("ProcessSuspend", [SuspendProcess(K, p) EXCEPT !.stopped[p] = TRUE],
            t, FALSE)

ProcessResume(t, p) ==
  /\ Calls(t, "ProcessResume") /\ Alive(K, p) /\ stopped[p]
  /\ Resume("ProcessResume", [ResumeProcess(K, p) EXCEPT !.stopped[p] = FALSE],
            t, FALSE)

----------------------------------------------------------------------------
(* Boot publishes the population in slot order and starts the first thread. *)
Boot ==
  TakeNext(FoldLeft(
    LAMBDA acc, t : LET at == Load.population[t]
                    IN  Publish(acc, t, at.process, at.base, FALSE),
    [thread |-> [t \in Threads |-> UnusedThread],
     ready |-> [p \in Priorities |-> <<>>],
     queue |-> [q \in Queues |-> <<>>],
     corrupt |-> OK],
    SetToSortSeq(DOMAIN Load.population, <)))

Init ==
  /\ load \in DOMAIN Workload
  /\ thread = Boot.thread /\ ready = Boot.ready /\ queue = Boot.queue
  /\ inbox = [p \in Processes |-> <<>>]
  /\ holder = [t \in Threads |-> NoProcess]
  /\ word = [m \in Mutexes |-> Free]
  /\ timer = [o \in Objects |-> 0]
  /\ media = FALSE
  /\ stopped = [p \in Processes |-> FALSE]
  /\ due = FALSE
  /\ panic = Healthy

LifeCycle ==
  \/ \E t \in Threads, base \in Load.priorities : ThreadCreate(t, base)
  \/ \E t \in Threads, p \in Used, base \in Load.priorities : ProcessCreate(t, p, base)
  \/ \E t \in Threads, p \in Processes : ProcessTerminate(t, p)
  \/ \E t \in Threads : ThreadExit(t)
  \/ \E t \in Threads : Exec(t)
  \/ \E deferred \in SUBSET Processes : Maintenance(deferred)

Waiting ==
  \/ \E t \in Threads : Yield(t)
  \/ \E t \in Running(K), d \in 0..Load.maxWait :
       \E members \in Load.waits[Process(t), t] : Wait(t, members, d)
  \/ \E t \in Threads, o \in Objects, n \in 1..ThreadSlots : Signal(t, o, n)
  \/ \E o \in Objects : Interrupt(o)
  \/ \E t, target \in Threads : CancelWait(t, target)
  \/ \E t \in Threads, o \in Objects, d \in 0..Load.maxWait : TimerSet(t, o, d)
  \/ \E d \in 0..Load.maxWait, quantum \in BOOLEAN, target \in Threads \cup {NoThread} :
       Tick(d, quantum, target)

Calling ==
  \/ \E t \in Threads, p \in Processes, d \in 0..Load.maxWait : PortCall(t, p, d)
  \/ \E t \in Threads, p \in Processes, c \in Threads \cup {Plain} : PortSend(t, p, c)
  \/ \E t \in Threads : PortReceive(t)
  \/ \E t, c \in Threads, extra \in Threads \cup {Plain} : Reply(t, c, extra)
  \/ \E t \in Threads, m \in Mutexes : MutexWait(t, m)
  \/ \E t \in Threads, m \in Mutexes : MutexUnlock(t, m)

Administering ==
  \/ \E t, target \in Threads, base \in Load.priorities : ThreadPriority(t, target, base)
  \/ \E t \in Threads, p \in Processes, base \in Load.priorities : ProcessPriority(t, p, base)
  \/ \E t \in Threads, p \in Processes : ProcessSuspend(t, p)
  \/ \E t \in Threads, p \in Processes : ProcessResume(t, p)

Next == LifeCycle \/ Waiting \/ Calling \/ Administering

Spec == Init /\ [][Next]_vars

----------------------------------------------------------------------------
(* Properties.  All but SchedulingOrder describe every state between two   *)
(* handlers.                                                               *)

TypeOK ==
  /\ thread \in [Threads ->
       [state : States, process : Processes \cup {NoProcess}, suspended : BOOLEAN,
        base : Priorities, donated : Priorities, throttled : BOOLEAN,
        effective : Priorities, members : Seq(Queues), deadline : 0..Load.maxWait,
        owner : Threads \cup {NoThread}, donation : Donations]]
  /\ ready \in [Priorities -> Seq(Threads)]
  /\ queue \in [Queues -> Seq(Threads \X (Nat \ {0}))]
  /\ inbox \in [Processes -> Seq(Threads \cup {Plain})]
  /\ holder \in [Threads -> Processes \cup {NoProcess}]
  /\ word \in [Mutexes -> Threads \cup {Free, Abandoned}]
  /\ timer \in [Objects -> 0..Load.maxWait]
  /\ media \in BOOLEAN /\ stopped \in [Processes -> BOOLEAN] /\ due \in BOOLEAN
  /\ load \in DOMAIN Workload
  /\ panic \in STRING \X STRING

(* The ready queues hold exactly the threads that may be dispatched, each  *)
(* once, at its effective priority, through every boost, throttling,       *)
(* suspension and retirement (enqueue_ready, remove_ready, change_priority,*)
(* kernel_thread_suspend_process).                                         *)
ReadyConsistent ==
  \A p \in Priorities :
    /\ IsInjective(ready[p])
    /\ Range(ready[p]) = {t \in Threads : /\ thread[t].state = "READY"
                                          /\ ~thread[t].suspended
                                          /\ thread[t].effective = p}

(* A thread is registered once for each member of its wait set while it is *)
(* blocked and never otherwise, and only then has a deadline: every winner *)
(* (wake, deadline, cancellation, death) withdraws the whole set           *)
(* (complete_wait, withdraw_wait_set, retire_process_threads).             *)
WaitConsistent ==
  /\ \A q \in Queues :
       /\ IsInjective(queue[q])
       /\ Range(queue[q]) =
            {e \in Threads \X (1..Cardinality(Queues)) :
               /\ e[2] \in DOMAIN thread[e[1]].members
               /\ thread[e[1]].members[e[2]] = q}
  /\ \A t \in Threads :
       /\ thread[t].members # <<>> <=> thread[t].state = "BLOCKED"
       /\ thread[t].deadline # 0 => thread[t].state = "BLOCKED"

(* A thread is in the queues its state calls for, and in no other.         *)
QueuesConsistent == TypeOK /\ ReadyConsistent /\ WaitConsistent

(* Every wait queue stays sorted by the current effective priorities of    *)
(* its waiters, although donation and PRIORITY calls change them while     *)
(* they wait (enqueue_wait_registration, change_priority).                 *)
WaitOrder ==
  \A q \in Queues : \A i, j \in DOMAIN queue[q] :
    i < j => thread[queue[q][i][1]].effective >= thread[queue[q][j][1]].effective

(* What a thread has been lent is the highest effective priority among the *)
(* threads that wait for it now: no boost outlives its donor, none is      *)
(* missed along a chain (refresh_wait_owners, drop_wait_owner).            *)
DonationExact ==
  \A t \in Threads : Live(K, t) =>
    /\ thread[t].donated = Greatest({thread[d].effective : d \in Donors(K, t)})
    /\ thread[t].effective =
         PriorityEffective(thread[t].base, thread[t].donated, thread[t].throttled)

(* A donor is blocked on what its receiver can end: a mutex whose word     *)
(* names the receiver, or a call whose reply capability the receiver's     *)
(* process has in its table or at its port.  Donation never forms a cycle  *)
(* and never reaches a dead thread (assign_wait_owner, mutex_release,      *)
(* reply_export_observer, withdraw_wait_donors).                           *)
DonationSound ==
  \A d \in Threads : LET r == thread[d].owner IN r # NoThread =>
    /\ Live(K, r)
    /\ d \notin OwnerChain(K, r)
    /\ \/ \E m \in Mutexes : /\ thread[d].donation = "MUTEX"
                             /\ thread[d].members = <<MutexQueue(m)>>
                             /\ word[m] = r
       \/ /\ thread[d].donation = "CALL" /\ InCall(K, d)
          /\ \/ holder[d] = Process(r)
             \/ Contains(inbox[Process(r)], d)

(* Both: lent is what is waited for, and to whoever can end the wait       *)
(* (assign_wait_owner, drop_wait_owner).                                   *)
DonationsRight == DonationExact /\ DonationSound

(* Whenever user code runs, no ready thread outranks the running one, and  *)
(* the processor idles only when no thread is ready: no handler makes a    *)
(* thread ready, or lowers the running one, without rescheduling           *)
(* (ready_thread_outranks, schedule_pending, schedule_next, resume_idle).  *)
SchedulingOrder ==
  ~due => /\ Cardinality(Running(K)) <= 1
          /\ \A t \in Running(K) : ~Outranks(K, t)
          /\ Running(K) = {} => ~AnyReady(K)

(* A process is suspended as a whole: its threads agree with the process,  *)
(* and none of them runs (kernel_thread_suspend_process,                   *)
(* kernel_thread_resume_process, kernel_thread_publish).                   *)
SuspendUniform ==
  \A t \in Threads : Live(K, t) =>
    /\ thread[t].suspended = stopped[Process(t)]
    /\ thread[t].throttled = media
    /\ thread[t].suspended => thread[t].state # "RUNNING"

(* No priority inversion along a donation chain: when the thread at the    *)
(* end of the chain of a blocked donor could run, whatever runs instead is *)
(* at least as urgent as the donor (refresh_wait_owners against            *)
(* schedule_pending).                                                      *)
NoInversion ==
  \A d \in Threads : \A r \in OwnerChain(K, d) :
    (~due /\ thread[r].state = "READY" /\ ~thread[r].suspended) =>
      \E t \in Running(K) : thread[t].effective >= thread[d].effective

(* Threads of one priority take turns in the order they became ready:      *)
(* a handler never moves a thread that stays ready at its priority past    *)
(* another that does (enqueue_ready appends; change_priority leaves an     *)
(* unchanged effective priority where it is).                              *)
FifoStep ==
  \A p \in Priorities : LET stay == Range(ready[p]) \cap Range(ready'[p])
                            kept(s) == SelectSeq(s, LAMBDA t : t \in stay)
                        IN  kept(ready'[p]) = kept(ready[p])
Fifo == [][FifoStep]_vars

(* The ways a legal sequence of calls does stop the machine: runs of their *)
(* own show each of them.                                                  *)
KnownPanics ==
  {<<"ProcessTerminate", "remove_ready">>, <<"Exec", "remove_ready">>,
   <<"Tick", "timer woke nobody">>, <<"Tick", "alarm woke nobody">>,
   <<"MutexUnlock", "next_owner">>}

(* Apart from those, no handler in a legal sequence of calls finds the     *)
(* kernel's own state corrupt (the KERNEL_PROCESS_CORRUPT results of       *)
(* process.c).                                                             *)
NoOtherPanic == panic = Healthy \/ panic \in KnownPanics

(* Three promises the documentation makes that the code breaks.            *)

(* docs/LOCKING_AND_PREEMPTION.md: "Process death performs the same        *)
(* withdrawal for every sibling before deferred destruction": a process    *)
(* can be retired whatever its threads are doing                           *)
(* (retire_process_threads).                                               *)
DeathWithdrawsSiblings == panic # <<"ProcessTerminate", "remove_ready">>

(* include/astra/syscall.h: PROCESS_SUSPEND "suspends every live thread of *)
(* a process, without disturbing any wait already blocked": a wait of a    *)
(* suspended process can end by a timer (scheduler_expire_due).            *)
SuspendKeepsWaits == panic # <<"Tick", "timer woke nobody">>

(* include/astra/syscall.h: MUTEX_UNLOCK hands the mutex "directly to the  *)
(* highest-priority waiter", whatever waits were cancelled before          *)
(* (kernel_mutex_next_owner).                                              *)
UnlockHandsOver == panic # <<"MutexUnlock", "next_owner">>

=============================================================================
