------------------------------ MODULE Threads ------------------------------
(***************************************************************************)
(* The thread pool of the Axiom kernel, sw/kernel/thread.c: ready queues,  *)
(* wait queues, wait deadlines, priorities and the donation of a blocked   *)
(* thread's priority to the thread it waits for.                           *)
(*                                                                         *)
(* A kernel handler runs to completion on the one processor and calls      *)
(* several thread.c functions in sequence, each working on what the last   *)
(* one left.  The functions are therefore operators from a pool record k   *)
(* to the next pool record; module Scheduling composes them into one       *)
(* action per handler.  k has the fields of the variables below, and corrupt:  *)
(* the name of the first consistency check that failed on the way, or OK.  *)
(*                                                                         *)
(* Abstractions.  A wait queue's linked list of registrations is the       *)
(* sequence of its <<thread, member>> pairs.  A thread's donor list is the *)
(* set of threads whose "owner" it is.  A deadline is the number of clock  *)
(* ticks it is away, 0 standing for KERNEL_THREAD_DEADLINE_NEVER, and the  *)
(* deadline heap is the set of threads with a deadline.  A wait queue's    *)
(* sequence number is read and compared within one handler here, so it is  *)
(* left out.  Running out of memory leaves the pool as it was and is left  *)
(* out too.                                                                *)
(***************************************************************************)
EXTENDS Integers, Sequences, FiniteSets, SequencesExt, FiniteSetsExt

CONSTANTS
  ThreadSlots,      \* number of thread records
  Processes,        \* process slots
  NoProcess,        \* the process of an unused thread record
  PriorityLevels,   \* KERNEL_THREAD_PRIORITY_LEVELS
  MEDIA,            \* KERNEL_THREAD_PRIORITY_MEDIA
  APPLICATION_MAX,  \* KERNEL_THREAD_PRIORITY_APPLICATION_MAX
  Objects,          \* synchronization objects, by slot
  Mutexes           \* user mutex words some thread may wait for

Threads == 1..ThreadSlots
NoThread == 0
Priorities == 0..(PriorityLevels - 1)

ASSUME ThreadSlotsAssumption == ThreadSlots \in Nat \ {0}
ASSUME ProcessAssumption == NoProcess \notin Processes
ASSUME ObjectAssumption == Objects \subseteq Nat
ASSUME PriorityAssumption ==
  /\ PriorityLevels \in Nat \ {0}
  /\ MEDIA \in Priorities
  /\ APPLICATION_MAX \in Priorities
  /\ APPLICATION_MAX < MEDIA

(* The wait queues: one per object and mutex; the readable and writable    *)
(* queues of each process's port and the queue for its death; the call and *)
(* death queues inside each thread record.                                 *)
CallQueue(t) == <<"call", t>>
DeathQueue(t) == <<"death", t>>
ReadableQueue(p) == <<"readable", p>>
WritableQueue(p) == <<"writable", p>>
ExitQueue(p) == <<"exit", p>>
ObjectQueue(o) == <<"object", o>>
MutexQueue(m) == <<"mutex", m>>

Queues == {CallQueue(t) : t \in Threads} \cup {DeathQueue(t) : t \in Threads}
            \cup {ReadableQueue(p) : p \in Processes}
            \cup {WritableQueue(p) : p \in Processes}
            \cup {ExitQueue(p) : p \in Processes}
            \cup {ObjectQueue(o) : o \in Objects}
            \cup {MutexQueue(m) : m \in Mutexes}

VARIABLES
  thread,   \* the thread records
  ready,    \* ready[p]: the ready threads of priority p, first to run first
  queue     \* queue[q]: the registrations of wait queue q, first to wake first

States == {"UNUSED", "READY", "RUNNING", "BLOCKED", "DEAD"}
Donations == {"NONE", "CALL", "MUTEX"}

UnusedThread ==
  [state |-> "UNUSED", process |-> NoProcess, suspended |-> FALSE,
   base |-> 0, donated |-> 0, throttled |-> FALSE, effective |-> 0,
   members |-> <<>>, deadline |-> 0, owner |-> NoThread, donation |-> "NONE"]

Live(k, t) == k.thread[t].state \notin {"UNUSED", "DEAD"}
LiveThreads(k, p) == {t \in Threads : Live(k, t) /\ k.thread[t].process = p}

----------------------------------------------------------------------------
(* Control helpers. *)

OK == "ok"

(* A check that makes its function return KERNEL_THREAD_CORRUPT (or the    *)
(* caller's own corruption status) when c fails.                           *)
Check(name, c, k) ==
  IF c \/ k.corrupt # OK THEN k ELSE [k EXCEPT !.corrupt = name]

(* The loop "for each slot": op applied to every thread in slot order. *)
ForEachSlot(op(_, _), k) == FoldLeft(op, k, [t \in Threads |-> t])

(* At most n rounds of a loop with body op. *)
Repeat(op(_), k, n) == FoldLeft(LAMBDA acc, i : op(acc), k, [i \in 1..n |-> i])

Greatest(S) == IF S = {} THEN 0 ELSE Max(S)

----------------------------------------------------------------------------
(* Ready queues. *)

FaultyEnqueueReady(k, t) ==   \* mutant: goes to the head
  [k EXCEPT !.ready[k.thread[t].effective] = <<t>> \o @]

EnqueueReady(k, t) ==
  [k EXCEPT !.ready[k.thread[t].effective] = Append(@, t)]

RemoveReady(k, t) ==
  LET p == k.thread[t].effective
  IN  Check("remove_ready", Contains(k.ready[p], t),
            [k EXCEPT !.ready[p] = Remove(@, t)])

MakeReady(k, t) == EnqueueReady([k EXCEPT !.thread[t].state = "READY"], t)

ReadyPriorities(k) == {p \in Priorities : k.ready[p] # <<>>}
AnyReady(k) == ReadyPriorities(k) # {}
HighestReady(k) == Max(ReadyPriorities(k))

TakeNext(k) ==
  LET next == Head(k.ready[HighestReady(k)])
  IN  [RemoveReady(k, next) EXCEPT !.thread[next].state = "RUNNING"]

----------------------------------------------------------------------------
(* Wait queues. *)

(* A registration goes in front of the first one of strictly lower         *)
(* effective priority.                                                     *)
FaultyEnqueueWait(k, t, member, q) ==   \* mutant: goes to the tail
  [k EXCEPT !.queue[q] = Append(@, <<t, member>>)]

EnqueueWait(k, t, member, q) ==
  LET lower == {i \in DOMAIN k.queue[q] :
                  k.thread[k.queue[q][i][1]].effective < k.thread[t].effective}
      place == IF lower = {} THEN Len(k.queue[q]) + 1 ELSE Min(lower)
  IN  [k EXCEPT !.queue[q] = InsertAt(@, place, <<t, member>>)]

(* Unlink every registration of t. *)
RemoveWaits(k, t) ==
  [k EXCEPT !.queue = [q \in Queues |-> SelectSeq(@[q], LAMBDA e : e[1] # t)]]

FirstWaitOnly(k, t) ==       \* mutant: the other members are forgotten
  EnqueueWait(k, t, 1, k.thread[t].members[1])

EnqueueWaits(k, t) ==
  LET members == k.thread[t].members
  IN  FoldLeft(LAMBDA acc, m : EnqueueWait(acc, t, m, members[m]),
               k, [m \in DOMAIN members |-> m])

Withdraw(k, t) == [RemoveWaits(k, t) EXCEPT !.thread[t].members = <<>>]

----------------------------------------------------------------------------
(* Priorities and donation. *)

PriorityEffective(base, donated, throttled) ==
  LET own == IF throttled /\ base >= MEDIA THEN APPLICATION_MAX ELSE base
  IN  Greatest({own, donated})

(* Only a changed effective priority moves the thread in its queues. *)
AlwaysMoves(before, after) == TRUE       \* mutant
NeverMoves(before, after) == FALSE       \* mutant
Moves(before, after) == before # after

ChangePriority(k, t, base, donated, throttled) ==
  LET th == k.thread[t]
      effective == PriorityEffective(base, donated, throttled)
      moves == Moves(th.effective, effective)
      set(k1) == [k1 EXCEPT !.thread[t].base = base,
                            !.thread[t].donated = donated,
                            !.thread[t].throttled = throttled,
                            !.thread[t].effective = effective]
  IN  CASE moves /\ th.state = "READY" /\ ~th.suspended ->
             EnqueueReady(set(RemoveReady(k, t)), t)
        [] moves /\ th.state = "BLOCKED" ->
             EnqueueWaits(set(RemoveWaits(k, t)), t)
        [] OTHER -> set(k)

Donors(k, t) == {d \in Threads : k.thread[d].owner = t}

(* What refresh_wait_owners requires of each thread in a donor list. *)
DonorValid(k, d) ==
  /\ k.thread[d].state = "BLOCKED"
  /\ CASE k.thread[d].donation = "CALL" -> k.queue[CallQueue(d)] # <<>>
       [] k.thread[d].donation = "MUTEX" ->
            /\ Len(k.thread[d].members) = 1
            /\ \E i \in DOMAIN k.queue[k.thread[d].members[1]] :
                 k.queue[k.thread[d].members[1]][i] = <<d, 1>>
       [] OTHER -> FALSE

(* t is lent the highest effective priority among its donors. *)
Inherit(k, t) ==
  ChangePriority(k, t, k.thread[t].base,
                 Greatest({k.thread[d].effective : d \in Donors(k, t)}),
                 k.thread[t].throttled)

(* The receiver inherits from its donors and, if that changes its          *)
(* effective priority, the thread it waits for itself does, and so on, for *)
(* at most the given number of rounds.                                     *)
RECURSIVE Refresh(_, _, _)
Refresh(k, receiver, rounds) ==
  IF receiver = NoThread \/ k.corrupt # OK THEN k
  ELSE LET k1 == Check("refresh_wait_owners",
                       /\ rounds > 0 /\ Live(k, receiver)
                       /\ \A d \in Donors(k, receiver) : DonorValid(k, d),
                       Inherit(k, receiver))
       IN  IF k1.thread[receiver].effective = k.thread[receiver].effective THEN k1
           ELSE Refresh(k1, k.thread[receiver].owner, rounds - 1)

FaultyRefreshWaitOwners(k, receiver) ==   \* mutant: stops at the first receiver
  IF receiver = NoThread THEN k ELSE Inherit(k, receiver)

RefreshWaitOwners(k, receiver) == Refresh(k, receiver, ThreadSlots)

DropWaitOwner(k, t) ==
  IF k.thread[t].owner = NoThread THEN k
  ELSE RefreshWaitOwners([k EXCEPT !.thread[t].owner = NoThread,
                                   !.thread[t].donation = "NONE"],
                         k.thread[t].owner)

(* The donors leave in some order: a receiver that is not in a queue ends   *)
(* the same whichever goes first.                                          *)
RECURSIVE WithdrawWaitDonors(_, _)
WithdrawWaitDonors(k, t) ==
  IF Donors(k, t) = {} THEN k
  ELSE WithdrawWaitDonors(DropWaitOwner(k, Min(Donors(k, t))), t)

(* t, the thread t waits for, the thread that one waits for, ... *)
OwnerChain(k, t) ==
  Repeat(LAMBDA S : S \cup ({k.thread[x].owner : x \in S} \ {NoThread}),
         {t} \ {NoThread}, ThreadSlots)

(* A donation that would close a cycle is dropped instead. *)
FaultyTarget(k, caller, receiver) == receiver    \* mutant: no cycle check
Target(k, caller, receiver) ==
  IF caller \in OwnerChain(k, receiver) THEN NoThread ELSE receiver

AssignWaitOwner(k, caller, receiver, donation) ==
  LET target == Target(k, caller, receiver)
      k1 == DropWaitOwner(k, caller)
  IN  CASE /\ k.thread[caller].owner = receiver
           /\ k.thread[caller].donation = donation -> k
        [] target = NoThread -> k1
        [] OTHER -> RefreshWaitOwners([k1 EXCEPT !.thread[caller].owner = target,
                                                 !.thread[caller].donation = donation],
                                      target)

(* kernel_thread_set_priority and kernel_thread_set_budget_throttled. *)
SetPriority(k, t, base, throttled) ==
  LET k1 == ChangePriority(k, t, base, k.thread[t].donated, throttled)
  IN  IF k1.thread[t].effective = k.thread[t].effective THEN k1
      ELSE RefreshWaitOwners(k1, k.thread[t].owner)

----------------------------------------------------------------------------
(* Blocking and waking. *)

InCall(k, t) == k.thread[t].state = "BLOCKED" /\ k.thread[t].members = <<CallQueue(t)>>

BlockWaitSet(k, t, members, deadline) ==
  EnqueueWaits([k EXCEPT !.thread[t].state = "BLOCKED",
                         !.thread[t].members = members,
                         !.thread[t].deadline = deadline], t)

(* A suspended thread becomes READY but is not dispatched. *)
ReadyAgain(k, t) == IF k.thread[t].suspended THEN k ELSE EnqueueReady(k, t)

(* The one way out of a wait, whoever ends it. *)
WaitEnded(k, t) == Withdraw([k EXCEPT !.thread[t].deadline = 0], t)

CompleteWait(k, t) ==
  Check("complete_wait", k.thread[t].state = "BLOCKED",
        ReadyAgain([DropWaitOwner(WaitEnded(k, t), t)
                      EXCEPT !.thread[t].state = "READY"], t))

WakeOne(k, q) ==
  IF k.queue[q] = <<>> THEN k ELSE CompleteWait(k, k.queue[q][1][1])

RECURSIVE WakeAll(_, _)
WakeAll(k, q) == IF k.queue[q] = <<>> THEN k ELSE WakeAll(WakeOne(k, q), q)

(* Deadlines due within d ticks expire in the heap's order: earliest       *)
(* first, then lowest slot; the others come d ticks nearer.  s is the pool *)
(* with woke and highest, which tell the scheduler whether a thread woke,  *)
(* and how urgent the most urgent one was.                                 *)
FaultyDue(k, d) == {t \in Threads : k.thread[t].deadline \in 1..(d - 1)}   \* mutant
Due(k, d) == {t \in Threads : k.thread[t].deadline \in 1..d}

RECURSIVE ExpireEach(_, _)
ExpireEach(s, d) ==
  IF Due(s.k, d) = {} THEN s
  ELSE LET at(t) == s.k.thread[t].deadline
           first == CHOOSE t \in Due(s.k, d) : \A u \in Due(s.k, d) :
                      at(t) < at(u) \/ (at(t) = at(u) /\ t <= u)
           k1 == CompleteWait(s.k, first)
       IN  ExpireEach([k |-> k1, woke |-> TRUE,
                       highest |-> Greatest({s.highest, k1.thread[first].effective})],
                      d)

Nearer(deadline, d) == IF deadline = 0 THEN 0 ELSE deadline - d

ExpireDeadlines(k, d) ==
  [ExpireEach([k |-> k, woke |-> FALSE, highest |-> 0], d) EXCEPT
     !.k.thread = [t \in Threads |-> [@[t] EXCEPT !.deadline = Nearer(@, d)]]]

----------------------------------------------------------------------------
(* Thread and process life cycle. *)

Publish(k, t, p, base, throttled) ==
  LET th == [UnusedThread EXCEPT
               !.state = "READY", !.process = p, !.base = base,
               !.throttled = throttled,
               !.effective = PriorityEffective(base, 0, throttled)]
  IN  EnqueueReady([k EXCEPT !.thread[t] = th], t)

(* The running thread ends itself. *)
Complete(k, t) ==
  WakeAll([WithdrawWaitDonors(k, t) EXCEPT !.thread[t].state = "DEAD"],
          DeathQueue(t))

(* One sibling's share of retire_process_threads. *)
RetireThread(k, t) ==
  LET th == k.thread[t]
      k1 == CASE th.state = "READY" /\ ~th.suspended -> RemoveReady(k, t)
              [] th.state = "BLOCKED" -> WaitEnded(k, t)
              [] OTHER -> k
      k2 == WithdrawWaitDonors(DropWaitOwner(k1, t), t)
      k3 == [k2 EXCEPT !.thread[t].state = "DEAD", !.thread[t].suspended = FALSE]
  IN  IF k2.corrupt # OK THEN k2 ELSE WakeAll(k3, DeathQueue(t))

(* survivor is the thread that calls exec, or NoThread. *)
RetireProcess(k, p, survivor) ==
  ForEachSlot(LAMBDA acc, t : IF t \in LiveThreads(acc, p) \ {survivor}
                                THEN RetireThread(acc, t) ELSE acc, k)

StillReady(k, t) == k        \* mutant: a suspended thread keeps its place
NotReady(k, t) == IF k.thread[t].state = "READY" THEN RemoveReady(k, t) ELSE k

SuspendProcess(k, p) ==
  ForEachSlot(LAMBDA acc, t :
    IF t \notin LiveThreads(acc, p) THEN acc
    ELSE [NotReady(acc, t) EXCEPT
            !.thread[t].suspended = TRUE,
            !.thread[t].state = IF @ = "RUNNING" THEN "READY" ELSE @], k)

FaultyResumed(k, t) ==       \* mutant: a blocked thread stays suspended
  [k EXCEPT !.thread[t].suspended = k.thread[t].state = "BLOCKED"]
Resumed(k, t) == [k EXCEPT !.thread[t].suspended = FALSE]

ResumeProcess(k, p) ==
  ForEachSlot(LAMBDA acc, t :
    IF t \notin LiveThreads(acc, p) THEN acc
    ELSE IF acc.thread[t].state = "READY" THEN EnqueueReady(Resumed(acc, t), t)
    ELSE Resumed(acc, t), k)

(* kernel_thread_finish_reap with no handle left: the record is free. *)
FinishReap(k, t) == [k EXCEPT !.thread[t] = UnusedThread]

=============================================================================
