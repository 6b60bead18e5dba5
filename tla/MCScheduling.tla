---------------------------- MODULE MCScheduling ----------------------------
(***************************************************************************)
(* Small instances of the scheduler for TLC: three thread slots, three     *)
(* processes, four priorities of which the highest is MEDIA.  A behaviour  *)
(* has one of the workloads a .cfg names, each of which makes one part of  *)
(* the kernel busy and leaves the others out.                              *)
(***************************************************************************)
EXTENDS Scheduling

CONSTANTS p1, p2, p3, Loads

At(p, base) == [process |-> p, base |-> base]

(* One thread in each of three processes, of rising priority. *)
ClientsAndServer == <<At(p1, 1), At(p2, 2), At(p3, 3)>>
(* Three threads of one process. *)
OneProcess == <<At(p1, 1), At(p1, 2), At(p1, 3)>>
(* Two threads of one process and one of another. *)
TwoProcesses == <<At(p1, 1), At(p1, 2), At(p2, 3)>>
(* The same with nobody ahead of the others. *)
Equals == <<At(p1, 1), At(p1, 1), At(p2, 1)>>

NoObjectOwner == [o \in Objects |-> NoProcess]
HomeFirst == [m \in Mutexes |-> p1]

OwnPort == [p \in Processes, t \in Threads |-> {<<ReadableQueue(p)>>}]
ForObjects(objects) ==
  [p \in Processes, t \in Threads |-> {<<ObjectQueue(o)>> : o \in objects}]
(* The wait sets that end by a death, alone or with a message. *)
ForDeath ==
  [p \in Processes, t \in Threads |->
     OwnPort[p, t] \cup {<<ReadableQueue(p), DeathQueue(u)>> : u \in Threads \ {t}}
       \cup {<<ExitQueue(q)>> : q \in {p1, p2} \ {p}}]

Use(calls, population, priorities, waits, maxWait, portDepth) ==
  [calls |-> calls, population |-> population, priorities |-> priorities,
   waits |-> waits, maxWait |-> maxWait, portDepth |-> portDepth]

AllLoads == [
  (* Requests forwarded and answered in every order, and cancelled. *)
  Calls |-> Use({"PortCall", "PortReceive", "PortSend", "Reply", "Wait", "Tick",
                 "CancelWait"}, ClientsAndServer, {1, 2, 3}, OwnPort, 1, 2),
  (* Two mutexes taken in both orders by threads that die and change priority. *)
  Mutexes |-> Use({"MutexWait", "MutexUnlock", "Wait", "Tick", "CancelWait",
                   "ThreadPriority", "ThreadExit", "ThreadCreate"},
                  OneProcess, {1, 3}, ForObjects({1}), 1, 1),
  (* Threads and processes come and go while calls are under way. *)
  LifeCycle |-> Use({"PortCall", "PortReceive", "Reply", "Tick", "Wait", "ThreadCreate",
                     "ThreadExit", "Exec", "ProcessCreate", "ProcessTerminate",
                     "Deferral"}, TwoProcesses, {2}, ForDeath, 0, 1),
  (* Processes are suspended while signals, timers and interrupts wake them. *)
  Suspension |-> Use({"Wait", "Signal", "Interrupt", "TimerSet", "Tick", "Alarm",
                      "Yield", "ProcessSuspend", "ProcessResume", "ProcessPriority"},
                     TwoProcesses, {1, 2}, ForObjects({1, 2}), 1, 1),
  (* A media thread is throttled and released while calls lend priority. *)
  Media |-> Use({"Media", "Tick", "Yield", "ThreadPriority", "PortCall", "PortReceive",
                 "Reply", "Wait"}, TwoProcesses, {1, 3}, OwnPort, 1, 1),
  (* Two threads of a process pass a mutex and messages to each other. *)
  Locks |-> Use({"MutexWait", "MutexUnlock", "PortSend", "PortReceive", "Wait", "Tick",
                 "CancelWait"}, <<At(p1, 1), At(p1, 2)>>, {1, 2}, OwnPort, 1, 1),
  (* Everybody waits for messages and nobody has precedence. *)
  Turns |-> Use({"PortCall", "PortReceive", "Reply", "Wait", "Tick"},
                Equals, {1, 2, 3}, OwnPort, 1, 1),
  (* A caller is boosted when its process is terminated. *)
  RetireBoosted |-> Use({"PortCall", "PortReceive", "Wait", "ProcessTerminate", "Tick"},
                        ClientsAndServer, {1, 2, 3}, OwnPort, 1, 1),
  (* The only thread a timer wakes is suspended. *)
  SuspendedTimer |-> Use({"Wait", "TimerSet", "Tick", "ProcessSuspend", "ProcessResume"},
                         TwoProcesses, {1, 2, 3}, ForObjects({1}), 1, 1),
  (* Two threads wait for each other's mutex, and one gives up. *)
  MutexCycle |-> Use({"MutexWait", "MutexUnlock", "CancelWait", "Tick", "Wait"},
                     OneProcess, {1, 2, 3}, ForObjects({1}), 1, 1)]

Chosen == [name \in Loads |-> AllLoads[name]]

=============================================================================
