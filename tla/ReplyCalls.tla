----------------------------- MODULE ReplyCalls -----------------------------
(***************************************************************************)
(* PORT_CALL and the reply capability (sw/kernel/process.c, thread.c): how *)
(* a call finds its one answer while its capability is forwarded, replied  *)
(* on, closed or lost with a process, and while callers time out, die and  *)
(* have their thread slots reused.                                         *)
(*                                                                         *)
(* A reply capability is two numbers and no object: the caller's thread    *)
(* slot and the call number, 0 once it is spent.  It names a wait as long  *)
(* as that thread waits in the call of that number, and nothing otherwise. *)
(*                                                                         *)
(* Abstractions.  A thread that waits for something other than a call is   *)
(* "running" here.  A process has one port; the message a capability at    *)
(* the port is in, and whether the port is full, are left out.  Priorities *)
(* and scheduling are in module Scheduling.                                *)
(***************************************************************************)
EXTENDS Naturals, FiniteSets

CONSTANTS
  Threads,     \* thread slots
  Processes,   \* process slots, each with a handle table and a port
  NoProcess,   \* the process of a free thread slot
  First,       \* the thread and the process the system starts with
  Home,
  LastNumber,  \* the highest call number, UINT32_MAX; 1 comes after it
  MaxCalls     \* bound: calls made

Calls == 1..MaxCalls

ASSUME ReplyCallsAssumption ==
  /\ NoProcess \notin Processes
  /\ First \in Threads /\ Home \in Processes
  /\ LastNumber \in Nat \ {0}
  /\ MaxCalls \in Nat

VARIABLES
  thread,    \* the thread records
  process,   \* process states
  open,      \* open[p]: the port of p accepts messages
  issued,    \* number of capabilities made so far
  cap,       \* cap[i]: the i-th of them
  number     \* next_call, the last call number given out

vars == <<thread, process, open, issued, cap, number>>

Table(p) == <<"table", p>>
Port(p) == <<"port", p>>
Nowhere == <<"nowhere", NoProcess>>
Places == {Table(p) : p \in Processes} \cup {Port(p) : p \in Processes} \cup {Nowhere}

(* made is history: which capability was made for the call it waits in.    *)
FreeThread == [state |-> "free", process |-> NoProcess, call |-> 0, timed |-> FALSE,
               made |-> 0]
RunningThread(p) == [FreeThread EXCEPT !.state = "running", !.process = p]
NoCapability == [at |-> Nowhere, slot |-> First, call |-> 0]

Init ==
  /\ thread = [t \in Threads |-> IF t = First THEN RunningThread(Home) ELSE FreeThread]
  /\ process = [p \in Processes |-> IF p = Home THEN "alive" ELSE "free"]
  /\ open = [p \in Processes |-> p = Home]
  /\ issued = 0
  /\ cap = [i \in Calls |-> NoCapability]
  /\ number = 0

----------------------------------------------------------------------------

(* kernel_thread_call_waiting: capability i names a wait. *)
Answerable(i) ==
  /\ cap[i].call # 0
  /\ thread[cap[i].slot].state = "blocked"
  /\ thread[cap[i].slot].call = cap[i].call

Callers(R) == {cap[i].slot : i \in {j \in R : Answerable(j)}}

(* The callers in T return from their calls, and the threads in D die. *)
Return(T, D) ==
  [t \in Threads |->
     IF t \in D THEN [thread[t] EXCEPT !.state = "dead"]
     ELSE IF t \in T
       THEN [thread[t] EXCEPT !.state = "running", !.call = 0, !.timed = FALSE, !.made = 0]
     ELSE thread[t]]

Move(R, place) == [i \in Calls |-> IF i \in R THEN [cap[i] EXCEPT !.at = place] ELSE cap[i]]

(* The capabilities in R are closed, which ends the calls they name, and   *)
(* the threads in D die; dying comes first.                                *)
LosesCallers(R, D) ==                       \* mutant: nobody tells the callers
  /\ thread' = Return({}, D)
  /\ cap' = Move(R, Nowhere)

Release(R, D) ==
  /\ thread' = Return(Callers(R), D)
  /\ cap' = Move(R, Nowhere)

Held(p) == {i \in Calls : cap[i].at = Table(p)}
Queued(p) == {i \in Calls : cap[i].at = Port(p)}
Process(t) == thread[t].process
Live(p) == {t \in Threads : Process(t) = p /\ thread[t].state \in {"running", "blocked"}}

(* No thread runs and no deadline expires before the worker has closed the *)
(* handles of every process that exited.                                   *)
Settled == \A p \in Processes : process[p] # "exiting"
Able(t) == thread[t].state = "running" /\ Settled

----------------------------------------------------------------------------
(* Calls. *)

SameNumber(n) == 1                          \* mutant: calls are not told apart
NextNumber(n) == IF n = LastNumber THEN 1 ELSE n + 1

(* PORT_CALL of p's port, with the other capabilities in S attached. *)
PortCall(t, p, S, timed) ==
  LET n == NextNumber(number)
  IN  /\ Able(t) /\ open[p] /\ issued < MaxCalls
      /\ S \subseteq Held(Process(t))
      /\ issued' = issued + 1
      /\ number' = n
      /\ cap' = [i \in Calls |->
                   IF i = issued + 1 THEN [at |-> Port(p), slot |-> t, call |-> n]
                   ELSE IF i \in S THEN [cap[i] EXCEPT !.at = Port(p)] ELSE cap[i]]
      /\ thread' = [thread EXCEPT ![t] = [@ EXCEPT !.state = "blocked", !.call = n,
                                             !.timed = timed, !.made = issued + 1]]
      /\ UNCHANGED <<process, open>>

(* The port is closed or full: the capability is closed again and the call *)
(* aborted, but its number is gone.                                        *)
PortCallRefused(t) ==
  /\ Able(t) /\ issued < MaxCalls
  /\ issued' = issued + 1
  /\ number' = NextNumber(number)
  /\ cap' = [cap EXCEPT ![issued + 1] =
               [at |-> Nowhere, slot |-> t, call |-> NextNumber(number)]]
  /\ UNCHANGED <<thread, process, open>>

SendAnyway(t, p, S) ==                      \* mutant: to a closed port
  /\ Able(t)
  /\ S # {} /\ S \subseteq Held(Process(t))
  /\ cap' = Move(S, Port(p))
  /\ UNCHANGED <<thread, process, open, issued, number>>

PortSend(t, p, S) ==
  /\ Able(t) /\ open[p]
  /\ S # {} /\ S \subseteq Held(Process(t))
  /\ cap' = Move(S, Port(p))
  /\ UNCHANGED <<thread, process, open, issued, number>>

PortReceive(t, S) ==
  /\ Able(t) /\ open[Process(t)]
  /\ S # {} /\ S \subseteq Queued(Process(t))
  /\ cap' = Move(S, Table(Process(t)))
  /\ UNCHANGED <<thread, process, open, issued, number>>

(* A reply spends the capability and hands over those in S, or drops them  *)
(* if the caller has no room.  A capability that names nothing is left as  *)
(* it is.                                                                  *)
OnlyTheCaller(i, S, room) == {cap[i].slot}  \* mutant: dropped calls hang
Answered(i, S, room) == {cap[i].slot} \cup (IF room THEN {} ELSE Callers(S))

Reply(t, i, S, room) ==
  LET place == IF room THEN Table(Process(cap[i].slot)) ELSE Nowhere
  IN  /\ Able(t) /\ i \in Held(Process(t)) /\ Answerable(i)
      /\ S \subseteq Held(Process(t)) \ {i}
      /\ cap' = [Move(S, place) EXCEPT ![i] = [@ EXCEPT !.call = 0]]
      /\ thread' = Return(Answered(i, S, room), {})
      /\ UNCHANGED <<process, open, issued, number>>

HandleClose(t, i) ==
  /\ Able(t) /\ i \in Held(Process(t))
  /\ Release({i}, {})
  /\ UNCHANGED <<process, open, issued, number>>

(* Closing the receive handle closes the port with its messages. *)
PortClose(t) ==
  /\ Able(t) /\ open[Process(t)]
  /\ Release(Queued(Process(t)), {})
  /\ open' = [open EXCEPT ![Process(t)] = FALSE]
  /\ UNCHANGED <<process, issued, number>>

(* The deadline of a call passes, or another thread cancels it. *)
TimedOut(t) ==
  /\ thread[t].state = "blocked" /\ thread[t].timed /\ Settled
  /\ thread' = Return({t}, {})
  /\ UNCHANGED <<process, open, issued, cap, number>>

CancelWait(u, t) ==
  /\ Able(u) /\ thread[t].state = "blocked"
  /\ thread' = Return({t}, {})
  /\ UNCHANGED <<process, open, issued, cap, number>>

----------------------------------------------------------------------------
(* Threads and processes. *)

ThreadCreate(u, t) ==
  /\ Able(u) /\ thread[t].state = "free"
  /\ thread' = [thread EXCEPT ![t] = RunningThread(Process(u))]
  /\ UNCHANGED <<process, open, issued, cap, number>>

ProcessCreate(u, t, p) ==
  /\ Able(u) /\ thread[t].state = "free" /\ process[p] = "free"
  /\ thread' = [thread EXCEPT ![t] = RunningThread(p)]
  /\ process' = [process EXCEPT ![p] = "alive"]
  /\ open' = [open EXCEPT ![p] = TRUE]
  /\ UNCHANGED <<issued, cap, number>>

ThreadExit(t) ==
  /\ Able(t) /\ Live(Process(t)) # {t}
  /\ thread' = Return({}, {t})
  /\ UNCHANGED <<process, open, issued, cap, number>>

(* The last thread exits, a fault, or PROCESS_TERMINATE: the threads die,  *)
(* and then the port closes.                                               *)
ProcessTerminate(u, p) ==
  /\ Able(u) /\ process[p] = "alive"
  /\ Release(Queued(p), Live(p))
  /\ process' = [process EXCEPT ![p] = "exiting"]
  /\ open' = [open EXCEPT ![p] = FALSE]
  /\ UNCHANGED <<issued, number>>

(* Exec kills the caller's siblings and keeps the handle table. *)
Exec(t) ==
  /\ Able(t)
  /\ thread' = Return({}, Live(Process(t)) \ {t})
  /\ UNCHANGED <<process, open, issued, cap, number>>

(* The worker closes the handles of a process that exited, and frees its   *)
(* records later.                                                          *)
CloseHandles(p) ==
  /\ process[p] = "exiting"
  /\ Release(Held(p), {})
  /\ process' = [process EXCEPT ![p] = "closed"]
  /\ UNCHANGED <<open, issued, number>>

ReapThread(t) ==
  /\ thread[t].state = "dead" /\ process[Process(t)] = "alive"
  /\ thread' = [thread EXCEPT ![t] = FreeThread]
  /\ UNCHANGED <<process, open, issued, cap, number>>

ReapProcess(p) ==
  /\ process[p] = "closed"
  /\ thread' = [t \in Threads |-> IF Process(t) = p THEN FreeThread ELSE thread[t]]
  /\ process' = [process EXCEPT ![p] = "free"]
  /\ UNCHANGED <<open, issued, cap, number>>

Calling ==
  \/ \E t \in Threads, p \in Processes, S \in SUBSET Calls, timed \in BOOLEAN :
       PortCall(t, p, S, timed)
  \/ \E t \in Threads : PortCallRefused(t)
  \/ \E t \in Threads, p \in Processes, S \in SUBSET Calls : PortSend(t, p, S)
  \/ \E t \in Threads, S \in SUBSET Calls : PortReceive(t, S)
  \/ \E t \in Threads, i \in Calls, S \in SUBSET Calls, room \in BOOLEAN :
       Reply(t, i, S, room)
  \/ \E t \in Threads, i \in Calls : HandleClose(t, i)
  \/ \E t \in Threads : PortClose(t)
  \/ \E t \in Threads : TimedOut(t)
  \/ \E u, t \in Threads : CancelWait(u, t)

LifeCycle ==
  \/ \E u, t \in Threads : ThreadCreate(u, t)
  \/ \E u, t \in Threads, p \in Processes : ProcessCreate(u, t, p)
  \/ \E t \in Threads : ThreadExit(t)
  \/ \E u \in Threads, p \in Processes : ProcessTerminate(u, p)
  \/ \E t \in Threads : Exec(t)
  \/ \E p \in Processes : CloseHandles(p)
  \/ \E t \in Threads : ReapThread(t)
  \/ \E p \in Processes : ReapProcess(p)

Next == Calling \/ LifeCycle

Spec == Init /\ [][Next]_vars

----------------------------------------------------------------------------
(* Properties. *)

ThreadRecord ==
  [state : {"free", "running", "blocked", "dead"}, process : Processes \cup {NoProcess},
   call : 0..LastNumber, timed : BOOLEAN, made : 0..MaxCalls]
Capability == [at : Places, slot : Threads, call : 0..LastNumber]

TypeOK ==
  /\ thread \in [Threads -> ThreadRecord]
  /\ process \in [Processes -> {"free", "alive", "exiting", "closed"}]
  /\ open \in [Processes -> BOOLEAN]
  /\ issued \in 0..MaxCalls
  /\ cap \in [Calls -> Capability]
  /\ number \in 0..LastNumber

(* The caller of every call in progress can still be answered: its         *)
(* capability is unspent, names this wait, and is in a table or at a port  *)
(* whose closing will release it (deliver_reply, reply_release,            *)
(* discard_messages, finish_reap).                                         *)
Reachable(i) ==
  \/ \E p \in Processes : cap[i].at = Table(p) /\ process[p] \in {"alive", "exiting"}
  \/ \E p \in Processes : cap[i].at = Port(p) /\ open[p]

CallerAnswerable(t) ==
  /\ thread[t].made \in 1..issued
  /\ cap[thread[t].made].slot = t
  /\ Answerable(thread[t].made)
  /\ Reachable(thread[t].made)
CallersAnswerable ==
  \A t \in Threads : thread[t].state = "blocked" => CallerAnswerable(t)

(* A capability only ever answers the call it was made for, however long   *)
(* it outlives that call and whoever has the thread slot now               *)
(* (kernel_thread_call_begin, kernel_thread_call_waiting).                 *)
OwnAnswer == \A i \in Calls : Answerable(i) => thread[cap[i].slot].made = i

(* A process slot is handed out again without a capability left behind in  *)
(* its table or at its port, and every live thread has a live process.     *)
NothingLeftBehind ==
  /\ \A p \in Processes :
       /\ process[p] \in {"free", "closed"} => Held(p) = {}
       /\ ~open[p] => Queued(p) = {}
       /\ open[p] => process[p] = "alive"
  /\ \A t \in Threads : thread[t].state \in {"running", "blocked"} =>
       Process(t) \in Processes /\ process[Process(t)] = "alive"

(* PORT_CALL's promise. *)
OpenCalls == {thread[t].made : t \in {u \in Threads : thread[u].state = "blocked"}}
Rights == {i \in Calls : cap[i].call # 0 /\ cap[i].at # Nowhere}
Promise == INSTANCE CallOutcomes WITH begun <- 1..issued, open <- OpenCalls, rights <- Rights

(* Every call is answerable until it ends, and ends at the latest when its *)
(* capability is used or dropped: the protocol implements CallOutcomes     *)
(* (port_call_syscall, deliver_reply, reply_release).                      *)
KeepsPromise == Promise!Spec

=============================================================================
