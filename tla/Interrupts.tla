----------------------------- MODULE Interrupts -----------------------------
(***************************************************************************)
(* Interrupts, the maintenance worker and the endpoints of user drivers    *)
(* (sw/kernel/interrupt.c, worker.c, irq.c, the entries of dispatch.c and  *)
(* the worker's side of process.c).                                        *)
(*                                                                         *)
(* There is one processor.  A device interrupt only claims its source,     *)
(* which disables it, notes it in a ring and signals the worker.  The      *)
(* worker runs with interrupts enabled: it buries processes, quiesces the  *)
(* sources of revoked endpoints, and dispatches the ring to endpoints,     *)
(* where drivers wait.  A class of work it cannot finish is put off to the *)
(* next timer.  It runs when an entry to the kernel leaves with work       *)
(* recorded, and it waits itself when no thread is ready.                  *)
(*                                                                         *)
(* A step is a stretch of code no interrupt enters: an interrupt with its  *)
(* exit, a system call from the moment it masks interrupts to its exit,    *)
(* one class of the worker (three stretches for a ring entry).  The exits  *)
(* are operators from the kernel's state to the set of its next states.    *)
(*                                                                         *)
(* Abstractions.  Priorities: any ready thread may be the one that         *)
(* preempts.  A process has one thread, and an endpoint one handle, in its *)
(* owner's table; waits name one endpoint and have no deadline.  Endpoints *)
(* are level-triggered, as every device's binding is; the controller and   *)
(* the device's complete function do not fail, quiescing may.  Internal    *)
(* routes but the timer's, and the worker's console, trace and memory      *)
(* classes, are left out.                                                  *)
(***************************************************************************)
EXTENDS Integers, Sequences, FiniteSets

CONSTANTS
  Threads, NoThread,
  Sources,          \* device interrupt sources
  Slots,            \* the endpoint pool, 1 .. n
  Depth,            \* KERNEL_INTERRUPT_DEFERRED_DEPTH
  Batch,            \* KERNEL_WORKER_IRQ_DISPATCH_BATCH
  RecordDepth,      \* KERNEL_IRQ_RECORD_DEPTH
  StormBudget,      \* KERNEL_IRQ_STORM_BUDGET
  Granted,          \* Granted[s]: the thread that has s at boot, or NoThread
  BindsAgain,       \* whether a source is bound while its old endpoint is held
  MaxFailures,      \* bound: times a device fails to become quiet
  MaxDeferrals      \* bound: times a process cannot be buried yet

ASSUME InterruptsAssumption ==
  /\ NoThread \notin Threads
  /\ IsFiniteSet(Sources) /\ Sources # {}
  /\ Slots \subseteq Nat \ {0} /\ Cardinality(Slots) >= Cardinality(Sources)
  /\ {Depth, Batch, RecordDepth, StormBudget} \subseteq Nat \ {0}
  /\ Granted \in [Sources -> Threads \cup {NoThread}]
  /\ BindsAgain \in BOOLEAN
  /\ MaxFailures \in Nat /\ MaxDeferrals \in Nat

VARIABLES
  kernel,       \* the processor, the worker and the threads
  ring,         \* deferred_interrupts: the sources from read to write sequence
  dispatching,  \* how far the worker is with the first of them
  enabled,      \* enabled[s]: the controller lets s interrupt
  device,       \* device[s]: what asserts the line of s
  endpoint,     \* endpoint[e]: the endpoint pool
  route,        \* route[s]: the endpoint bound to s, or 0
  failures,     \* history: quiescing failed this often
  deferrals     \* history: burials were put off this often

vars == <<kernel, ring, dispatching, enabled, device, endpoint, route,
          failures, deferrals>>

Classes == {"reap", "reset", "irq"}
Modes == {"user", "kernel", "fault", "idle", "worker", "wait", "awake", "panic"}

FreeEndpoint == [state |-> "free", owner |-> NoThread, source |-> CHOOSE s \in Sources : TRUE,
                 held |-> FALSE, masked |-> FALSE, admin |-> FALSE,
                 events |-> {}, quiesced |-> FALSE, records |-> 0, noise |-> 0]
Bound(s, t) == [FreeEndpoint EXCEPT !.state = "masked", !.owner = t,
                  !.source = s, !.held = TRUE, !.masked = TRUE, !.admin = TRUE]

Active(e) == endpoint[e].state \in {"masked", "armed", "pending"}
Unquiesced(E) == {e \in Slots : E[e].state = "revoking" /\ ~E[e].quiesced}

TypeOK ==
  /\ kernel.cpu \in Modes /\ kernel.worker \in {"blocked", "ready", "running"}
  /\ kernel.active \in BOOLEAN /\ kernel.again \in BOOLEAN
  /\ \A S \in {kernel.pending, kernel.retry, kernel.serving} : S \subseteq Classes
  /\ kernel.served \in 0 .. Batch
  /\ kernel.current \in Threads \cup {NoThread}
  /\ kernel.thread \in [Threads -> {"running", "ready", "asleep", "due",
                                    "waiting", "exiting", "gone"}]
  /\ kernel.waits \in [Threads -> Slots \cup {0}]
  /\ ring \in Seq(Sources) /\ Len(ring) <= Depth
  /\ dispatching \in {"no", "noise", "pop"}
  /\ enabled \in [Sources -> BOOLEAN]
  /\ device \in [Sources -> {"quiet", "work", "noise"}]
  /\ route \in [Sources -> Slots \cup {0}]
  /\ \A e \in Slots :
       /\ endpoint[e].state \in {"free", "masked", "armed", "pending", "revoking"}
       /\ endpoint[e].owner \in Threads \cup {NoThread}
       /\ endpoint[e].source \in Sources
       /\ endpoint[e].events \subseteq {"overflow", "storm"}
       /\ endpoint[e].records \in 0 .. RecordDepth
       /\ endpoint[e].noise \in 0 .. StormBudget
  /\ failures \in 0 .. MaxFailures /\ deferrals \in 0 .. MaxDeferrals

Init ==
  LET bound == {s \in Sources : Granted[s] # NoThread} IN
  \E first \in Threads, slot \in [Sources -> Slots] :
    /\ \A s, r \in Sources : slot[s] = slot[r] => s = r
    /\ kernel = [cpu |-> "user", worker |-> "blocked", active |-> FALSE,
                 pending |-> {}, retry |-> {}, serving |-> {}, again |-> FALSE,
                 served |-> 0, current |-> first, waits |-> [t \in Threads |-> 0],
                 thread |-> [t \in Threads |->
                               IF t = first THEN "running" ELSE "ready"]]
    /\ ring = <<>> /\ dispatching = "no"
    /\ enabled = [s \in Sources |-> FALSE] /\ device = [s \in Sources |-> "quiet"]
    /\ route = [s \in Sources |-> IF s \in bound THEN slot[s] ELSE 0]
    /\ endpoint = [e \in Slots |->
         IF \E s \in bound : slot[s] = e
         THEN LET s == CHOOSE s \in bound : slot[s] = e IN Bound(s, Granted[s])
         ELSE FreeEndpoint]
    /\ failures = 0 /\ deferrals = 0

-----------------------------------------------------------------------------
(* The kernel's state, k, and what its functions make of it.               *)

Panic(k) == [k EXCEPT !.cpu = "panic"]
Ready(k) == {t \in Threads : k.thread[t] = "ready"}

(* activate: t runs, and the thread that ran, if it still does, is ready.  *)
Activate(k, t) ==
  [k EXCEPT !.current = t,
     !.thread = [u \in Threads |-> IF u = t THEN "running"
                                   ELSE IF k.thread[u] = "running" THEN "ready"
                                   ELSE k.thread[u]]]
(* schedule_pending, if there is reason: a ready thread may take over.     *)
Preempted(k) == {k} \cup {Activate(k, t) : t \in Ready(k)}
(* schedule_next, after the running thread stopped: whoever is ready.      *)
NextThread(k) == IF Ready(k) = {} THEN {[k EXCEPT !.current = NoThread]}
            ELSE {Activate(k, t) : t \in Ready(k)}
Stops(k, t, why) == [k EXCEPT !.thread[t] = why]

(* kernel_worker_signal, from an interrupt or from the worker itself. *)
Signal(k, class) ==
  [k EXCEPT !.pending = @ \cup {class},
            !.worker = IF @ = "blocked" THEN "ready" ELSE @]
NeverRetries(k) == k
(* kernel_worker_on_timer: what was put off is work again. *)
Promoted(k) ==
  IF k.retry = {} THEN k
  ELSE [k EXCEPT !.pending = @ \cup k.retry, !.retry = {},
                 !.worker = IF @ = "blocked" THEN "ready" ELSE @]

(* service_once begins: it takes all the work there is. *)
Pass(k) == [k EXCEPT !.cpu = "worker", !.worker = "running", !.active = TRUE,
                     !.serving = k.pending, !.pending = {}, !.again = FALSE,
                     !.served = 0]
(* kernel_worker_try_select: an exit goes by the worker if it is ready. *)
Selectable(k) == k.worker = "ready" /\ k.pending # {} /\ ~k.active
User(k) == [k EXCEPT !.cpu = "user"]
Select(k) == IF Selectable(k) THEN Pass(k) ELSE User(k)

(* kernel_process_resume_idle, and the idle loop if nobody is ready. *)
Idle(k) == IF Ready(k) = {} \/ k.active THEN {[k EXCEPT !.cpu = "idle"]}
           ELSE {User(n) : n \in NextThread(k)}

(* kernel_worker_schedule, on the exit of a call that left a burial or a   *)
(* revocation to do.                                                       *)
Schedule(k) == IF k.worker = "running" \/ k.active THEN Panic(k)
               ELSE Pass([k EXCEPT !.pending = @ \cup {"reap"}])

(* kernel_process_maintenance_pending. *)
Maintenance(k, E) ==
  Unquiesced(E) # {} \/ \E t \in Threads : k.thread[t] = "exiting"

(* The exit of a system call. *)
CallExit(k, E) ==
  IF Maintenance(k, E) THEN {Schedule(k)}
  ELSE IF Selectable(k) THEN {Pass(k)}
  ELSE IF k.current = NoThread THEN Idle(k) ELSE {User(k)}
(* The exit of a fault: unlike the others it leaves a ready worker for     *)
(* later if the thread goes on.                                            *)
FaultExit(k, E) ==
  IF Maintenance(k, E) THEN {Schedule(k)}
  ELSE IF k.current # NoThread THEN {User(k)}
  ELSE IF Selectable(k) THEN {Pass(k)} ELSE Idle(k)

(* The exit of an interrupt from kernel state k. *)
InterruptExit(k) ==
  CASE k.cpu = "user" -> {Select(n) : n \in Preempted(k)}
    [] k.cpu = "idle" -> IF Selectable(k) THEN {Pass(k)}
                         ELSE IF k.current # NoThread THEN {User(k)} ELSE Idle(k)
    [] k.cpu = "wait" -> {[k EXCEPT !.cpu = "awake"]}
    [] OTHER -> {k}

(* scheduler_expire_due, and the first thread to run if there was none. *)
Expired(k) == [k EXCEPT !.thread = [t \in Threads |->
                 IF k.thread[t] = "due" THEN "ready" ELSE k.thread[t]]]
NeverIdle(k) == k.cpu = "user"
(* A timer that finds the kernel at work only re-arms itself: the queues   *)
(* may be between two stores.                                              *)
Undisturbed(k) == k.cpu = "user" \/ (k.current = NoThread /\ k.worker # "running")
Ticked(k) == IF ~Undisturbed(k) THEN {k}
             ELSE IF k.current # NoThread THEN {Expired(k)} ELSE NextThread(Expired(k))

-----------------------------------------------------------------------------
(* Endpoints. *)

WakesNobody(k, E) == k
(* wake_all of the endpoint's wait queue. *)
Wake(k, E) == [k EXCEPT
  !.thread = [t \in Threads |-> IF k.waits[t] \in E THEN "ready" ELSE k.thread[t]],
  !.waits = [t \in Threads |-> IF k.waits[t] \in E THEN 0 ELSE k.waits[t]]]

Revoked(r) == [r EXCEPT !.state = "revoking", !.records = 0, !.masked = TRUE]

(* note_storm_delivery counts to the budget, which is all that matters. *)
Noted(r) == IF r.noise = StormBudget THEN r.noise ELSE r.noise + 1
Stormy(r) == [r EXCEPT !.noise = Noted(r),
                !.events = @ \cup (IF Noted(r) = StormBudget THEN {"storm"} ELSE {}),
                !.masked = @ \/ Noted(r) = StormBudget]

(* A captured interrupt: a record, or the overflow of the records. *)
Delivered(r) ==
  IF r.records = RecordDepth
  THEN [r EXCEPT !.masked = TRUE, !.state = "pending",
                 !.events = @ \cup {"overflow"}]
  ELSE [Stormy(r) EXCEPT !.masked = TRUE, !.state = "pending", !.records = @ + 1]

(* kernel_irq_ack of the oldest record, the last one or not. *)
Acknowledged(r) ==
  LET left == [r EXCEPT !.records = @ - 1, !.noise = 0] IN
  IF left.records # 0 THEN [left EXCEPT !.state = "pending"]
  ELSE IF left.events # {} THEN [left EXCEPT !.state = "masked", !.masked = TRUE]
  ELSE IF left.admin THEN [left EXCEPT !.state = "masked"]
  ELSE [left EXCEPT !.state = "armed", !.masked = FALSE]

(* The last handle of a quiesced endpoint frees it. *)
Released(r) == IF r.quiesced THEN FreeEndpoint ELSE [r EXCEPT !.held = FALSE]
(* release_endpoint finds the source bound to another endpoint: the pool   *)
(* is marked corrupt, and the next check of its health stops the machine.  *)
Clash(e) == endpoint[e].quiesced /\ route[endpoint[e].source] # 0

-----------------------------------------------------------------------------
(* System calls: the thread enters, may be interrupted before the entry    *)
(* masks interrupts, and does the call and the exit in one stretch.        *)

Enter == /\ kernel.cpu = "user"
         /\ \E mode \in {"kernel", "fault"} : kernel' = [kernel EXCEPT !.cpu = mode]
         /\ UNCHANGED <<ring, dispatching, enabled, device, endpoint, route,
                        failures, deferrals>>

Calling(t) == kernel.cpu = "kernel" /\ kernel.current = t
Holds(t, e) == endpoint[e].owner = t /\ endpoint[e].held

(* The exit after a call, and after one that ends the thread's turn. *)
Return(k) == kernel' \in UNION {CallExit(n, endpoint') : n \in Preempted(k)}
Leave(k) == kernel' \in UNION {CallExit(n, endpoint') : n \in NextThread(k)}

Rest == UNCHANGED <<ring, dispatching, route, failures, deferrals>>

(* A call that touches nothing here; it may give the turn away. *)
OtherCall(t) == /\ Calling(t)
                /\ UNCHANGED <<enabled, device, endpoint>> /\ Rest
                /\ Return(kernel)

Sleep(t) == /\ Calling(t)
            /\ UNCHANGED <<enabled, device, endpoint>> /\ Rest
            /\ Leave(Stops(kernel, t, "asleep"))

Arm(t, e) ==
  /\ Calling(t) /\ Holds(t, e)
  /\ endpoint[e].state = "masked" /\ endpoint[e].records = 0
  /\ endpoint[e].events = {}
  /\ endpoint' = [endpoint EXCEPT ![e].masked = FALSE, ![e].admin = FALSE,
                                  ![e].state = "armed"]
  /\ enabled' = [enabled EXCEPT ![endpoint[e].source] = TRUE]
  /\ UNCHANGED device /\ Rest
  /\ Return(kernel)

Mask(t, e) ==
  /\ Calling(t) /\ Holds(t, e) /\ Active(e)
  /\ endpoint' = [endpoint EXCEPT ![e].masked = TRUE, ![e].admin = TRUE,
                    ![e].state = IF endpoint[e].records = 0 THEN "masked"
                                 ELSE "pending"]
  /\ enabled' = [enabled EXCEPT ![endpoint[e].source] = FALSE]
  /\ UNCHANGED device /\ Rest
  /\ Return(kernel)

(* Recover clears what stopped the endpoint, and arms it. *)
Recover(t, e) ==
  /\ Calling(t) /\ Holds(t, e) /\ Active(e) /\ endpoint[e].records = 0
  /\ endpoint' = [endpoint EXCEPT ![e].events = {}, ![e].noise = 0,
                    ![e].masked = FALSE, ![e].admin = FALSE, ![e].state = "armed"]
  /\ enabled' = [enabled EXCEPT ![endpoint[e].source] = TRUE]
  /\ UNCHANGED device /\ Rest
  /\ Return(kernel)

Ack(t, e) ==
  /\ Calling(t) /\ Holds(t, e) /\ Active(e) /\ endpoint[e].records # 0
  /\ LET s == endpoint[e].source
         next == Acknowledged(endpoint[e]) IN
       /\ device' = [device EXCEPT ![s] = "quiet"]
       /\ endpoint' = [endpoint EXCEPT ![e] = next]
       /\ enabled' = [enabled EXCEPT ![s] = @ \/ next.state = "armed"]
  /\ Rest
  /\ Return(kernel)

(* A wait blocks only if the endpoint has nothing to tell. *)
Quiet(r) == r.records = 0 /\ r.events = {}
WaitFor(t, e) ==
  /\ Calling(t) /\ Holds(t, e) /\ Active(e) /\ Quiet(endpoint[e])
  /\ UNCHANGED <<enabled, device, endpoint>> /\ Rest
  /\ Leave([Stops(kernel, t, "waiting") EXCEPT !.waits[t] = e])

Revoke(t, e) ==
  /\ Calling(t) /\ Holds(t, e) /\ Active(e)
  /\ endpoint' = [endpoint EXCEPT ![e] = Revoked(@)]
  /\ enabled' = [enabled EXCEPT ![endpoint[e].source] = FALSE]
  /\ UNCHANGED device /\ Rest
  /\ Return(Wake(kernel, {e}))

(* Closing the only handle revokes the endpoint, unless it is revoked. *)
Close(t, e) ==
  /\ Calling(t) /\ Holds(t, e)
  /\ LET r == IF Active(e) THEN Revoked(endpoint[e]) ELSE endpoint[e] IN
       endpoint' = [endpoint EXCEPT ![e] = Released(r)]
  /\ enabled' = IF Active(e) THEN [enabled EXCEPT ![endpoint[e].source] = FALSE]
                ELSE enabled
  /\ UNCHANGED device /\ Rest
  /\ IF Clash(e) THEN kernel' = Panic(kernel) ELSE Return(Wake(kernel, {e}))

(* kernel_process_grant_irq, at run time by the qualification's call. *)
Bind(t, s) ==
  /\ Calling(t) /\ route[s] = 0
  /\ BindsAgain \/ \A e \in Slots :
       endpoint[e].state = "revoking" => endpoint[e].source # s
  /\ \E e \in Slots :
       /\ endpoint[e].state = "free"
       /\ endpoint' = [endpoint EXCEPT ![e] = Bound(s, t)]
       /\ route' = [route EXCEPT ![s] = e]
  /\ enabled' = [enabled EXCEPT ![s] = FALSE]
  /\ UNCHANGED <<ring, dispatching, device, failures, deferrals>>
  /\ Return(kernel)

(* A process ends: its thread is retired, its endpoints are revoked, and   *)
(* the rest is the worker's.                                               *)
Retire(v) ==
  LET E == {e \in Slots : Active(e) /\ endpoint[e].owner = v} IN
  /\ endpoint' = [e \in Slots |-> IF e \in E THEN Revoked(endpoint[e])
                                  ELSE endpoint[e]]
  /\ enabled' = [s \in Sources |-> enabled[s] /\ route[s] \notin E]
  /\ UNCHANGED device /\ Rest
Buried(k, v) == [Stops(k, v, "exiting") EXCEPT !.waits[v] = 0]
Exit(t) == Calling(t) /\ Retire(t) /\ Leave(Buried(kernel, t))
Terminate(t, v) == /\ Calling(t) /\ v # t
                   /\ kernel.thread[v] \notin {"exiting", "gone"}
                   /\ Retire(v) /\ Return(Buried(kernel, v))

(* A fault grows the stack, or ends the process. *)
Faulting(t) == kernel.cpu = "fault" /\ kernel.current = t
Grow(t) == /\ Faulting(t)
           /\ UNCHANGED <<enabled, device, endpoint>> /\ Rest
           /\ kernel' \in FaultExit(kernel, endpoint)
FaultDies(t) ==
  /\ Faulting(t) /\ Retire(t)
  /\ kernel' \in UNION {FaultExit(n, endpoint') : n \in NextThread(Buried(kernel, t))}

-----------------------------------------------------------------------------
LeavesEnabled(s) ==
  /\ kernel.cpu # "panic" /\ enabled[s] /\ device[s] # "quiet"
  /\ IF Len(ring) >= Depth
     THEN kernel' = Panic(kernel) /\ UNCHANGED ring
     ELSE /\ kernel' \in InterruptExit(Signal(kernel, "irq"))
          /\ ring' = Append(ring, s)
  /\ UNCHANGED <<dispatching, enabled, device, endpoint, route, failures, deferrals>>

(* Interrupts.  They come in every state below but the one the code masks  *)
(* them in, which are inside the steps.                                    *)

DeviceInterrupt(s) ==
  /\ kernel.cpu # "panic" /\ enabled[s] /\ device[s] # "quiet"
  /\ enabled' = [enabled EXCEPT ![s] = FALSE]
  /\ IF Len(ring) >= Depth
     THEN kernel' = Panic(kernel) /\ UNCHANGED ring
     ELSE /\ kernel' \in InterruptExit(Signal(kernel, "irq"))
          /\ ring' = Append(ring, s)
  /\ UNCHANGED <<dispatching, device, endpoint, route, failures, deferrals>>

Timer == /\ kernel.cpu # "panic"
         /\ kernel' \in UNION {InterruptExit(k) : k \in Ticked(Promoted(kernel))}
         /\ UNCHANGED <<ring, dispatching, enabled, device, endpoint, route,
                        failures, deferrals>>

(* The outside: time, the devices, and a driver that looks at its device   *)
(* without waiting for the interrupt.  The clock passes a sleeping         *)
(* thread's deadline; only a timer interrupt makes the kernel notice.      *)
TimePasses(t) == /\ kernel.thread[t] = "asleep"
                 /\ kernel' = [kernel EXCEPT !.thread[t] = "due"]
                 /\ UNCHANGED <<ring, dispatching, enabled, device, endpoint,
                                route, failures, deferrals>>
(* The window in which interrupts without work are counted goes by: it is  *)
(* far longer than a pass of the worker.                                   *)
WindowPasses(e) ==
  /\ kernel.cpu # "worker" /\ endpoint[e].noise # 0
  /\ endpoint' = [endpoint EXCEPT ![e].noise = 0]
  /\ UNCHANGED <<kernel, ring, dispatching, enabled, device, route,
                 failures, deferrals>>
DeviceChanges(s, what) ==
  /\ device' = [device EXCEPT ![s] = what]
  /\ UNCHANGED <<kernel, ring, dispatching, enabled, endpoint, route,
                 failures, deferrals>>
Raise(s) == device[s] # "work" /\ \E what \in {"work", "noise"} : DeviceChanges(s, what)
Calm(s) == device[s] = "noise" /\ DeviceChanges(s, "quiet")
Poll(s) == device[s] = "work" /\ kernel.cpu = "user" /\ DeviceChanges(s, "quiet")

-----------------------------------------------------------------------------
(* The worker. *)

Serving(class) == /\ kernel.cpu = "worker" /\ class \in kernel.serving
                  /\ class = "reap" \/ "reap" \notin kernel.serving
                  /\ class # "irq" \/ kernel.serving = {"irq"}
Served(k, class) == [k EXCEPT !.serving = @ \ {class}]

(* A class is put off by a read and a write of retry_work with interrupts  *)
(* enabled: a timer in between leaves what it promoted in both sets.       *)
PutOff(k, class) ==
  {[k EXCEPT !.retry = @ \cup {class}],
   [k EXCEPT !.retry = @ \cup {class}, !.pending = @ \cup k.retry]}

(* kernel_process_maintenance: processes are buried, their handles closed, *)
(* and revocations passed on.                                              *)
ServeReap ==
  LET dying == {t \in Threads : kernel.thread[t] = "exiting"}
      closed == {e \in Slots : endpoint[e].held /\ endpoint[e].owner \in dying}
      told == IF Unquiesced(endpoint) # {} THEN Signal(kernel, "reset") ELSE kernel
  IN
  /\ Serving("reap")
  /\ endpoint' = [e \in Slots |-> IF e \in closed THEN Released(endpoint[e])
                                  ELSE endpoint[e]]
  /\ \E late \in SUBSET dying :
       /\ late # {} => deferrals < MaxDeferrals
       /\ deferrals' = IF late = {} THEN deferrals ELSE deferrals + 1
       /\ kernel' = IF \E e \in closed : Clash(e) THEN Panic(kernel)
                    ELSE [Served(told, "reap") EXCEPT !.again = (late # {}),
                            !.thread = [t \in Threads |->
                              IF t \in dying \ late THEN "gone"
                              ELSE kernel.thread[t]]]
  /\ UNCHANGED <<ring, dispatching, enabled, device, route, failures>>

(* service_device_reset: one revoked endpoint, the first, at a time. *)
Quiesce(e) ==
  LET s == endpoint[e].source
      done == [endpoint[e] EXCEPT !.quiesced = TRUE, !.masked = TRUE] IN
  /\ endpoint' = [endpoint EXCEPT
                    ![e] = IF done.held THEN done ELSE FreeEndpoint]
  /\ route' = [route EXCEPT ![s] = 0]
  /\ enabled' = [enabled EXCEPT ![s] = FALSE]
  /\ device' = [device EXCEPT ![s] = "quiet"]
  /\ kernel' \in IF Unquiesced(endpoint') # {}
                 THEN PutOff(Served(kernel, "reset"), "reset")
                 ELSE {Served(kernel, "reset")}
  /\ UNCHANGED <<ring, dispatching, failures, deferrals>>
QuiesceFails(e) ==
  /\ failures < MaxFailures /\ failures' = failures + 1
  /\ enabled' = [enabled EXCEPT ![endpoint[e].source] = FALSE]
  /\ kernel' \in PutOff(Served(kernel, "reset"), "reset")
  /\ UNCHANGED <<ring, dispatching, device, endpoint, route, deferrals>>
NothingToReset ==
  /\ Unquiesced(endpoint) = {}
  /\ kernel' = Served(kernel, "reset")
  /\ UNCHANGED <<ring, dispatching, enabled, device, endpoint, route,
                 failures, deferrals>>
ServeReset ==
  /\ Serving("reset")
  /\ \/ NothingToReset
     \/ \E e \in Unquiesced(endpoint) :
          /\ \A f \in Unquiesced(endpoint) : e <= f
          /\ Quiesce(e) \/ QuiesceFails(e)

(* service_deferred_interrupts takes the entries one by one. *)
Taking == Serving("irq") /\ kernel.served < Batch /\ ring # <<>>
(* Whether the entry of s has an endpoint to go to. *)
Open(s) == /\ route[s] # 0
           /\ endpoint[route[s]].state \in {"armed", "pending"}
           /\ ~endpoint[route[s]].masked

(* Nobody hears it, or its endpoint is masked: the source is masked too. *)
Quarantine(s) == /\ ~Open(s)
                 /\ enabled' = [enabled EXCEPT ![s] = FALSE]
                 /\ dispatching' = "pop"
                 /\ UNCHANGED <<kernel, endpoint>>
Deliver(s) == /\ Open(s) /\ device[s] = "work"
              /\ endpoint' = [endpoint EXCEPT ![route[s]] = Delivered(@)]
              /\ kernel' = Wake(kernel, {route[s]})
              /\ dispatching' = "pop"
              /\ UNCHANGED enabled
StaysMasked(s) ==
  /\ Open(s) /\ device[s] # "work"
  /\ UNCHANGED <<kernel, enabled, endpoint>>
  /\ dispatching' = "noise"
(* There was no work: the source is enabled again, and then counted. *)
Spurious(s) == /\ Open(s) /\ device[s] # "work"
               /\ enabled' = [enabled EXCEPT ![s] = TRUE]
               /\ dispatching' = "noise"
               /\ UNCHANGED <<kernel, endpoint>>
Dispatch ==
  /\ Taking /\ dispatching = "no"
  /\ LET s == Head(ring) IN Quarantine(s) \/ Deliver(s) \/ Spurious(s)
  /\ UNCHANGED <<ring, device, route, failures, deferrals>>

(* Too much noise masks the source.  Nobody is woken. *)
CountNoise ==
  /\ Taking /\ dispatching = "noise"
  /\ LET s == Head(ring)
         e == route[s] IN
       /\ endpoint' = [endpoint EXCEPT ![e] = Stormy(@)]
       /\ enabled' = [enabled EXCEPT ![s] = @ /\ Noted(endpoint[e]) < StormBudget]
  /\ dispatching' = "pop"
  /\ UNCHANGED <<kernel, ring, device, route, failures, deferrals>>

(* The read sequence moves on only now. *)
Pop == /\ Taking /\ dispatching = "pop"
       /\ ring' = Tail(ring) /\ dispatching' = "no"
       /\ kernel' = [kernel EXCEPT !.served = @ + 1]
       /\ UNCHANGED <<enabled, device, endpoint, route, failures, deferrals>>

EndBatch ==
  /\ Serving("irq") /\ dispatching = "no"
  /\ kernel.served = Batch \/ ring = <<>>
  /\ kernel' = IF ring = <<>> THEN Served(kernel, "irq")
               ELSE Signal(Served(kernel, "irq"), "irq")
  /\ UNCHANGED <<ring, dispatching, enabled, device, endpoint, route,
                 failures, deferrals>>

(* kernel_process_worker_resume: the thread that runs, or a ready one, or  *)
(* the worker waits for an interrupt.                                      *)
Resume(k) ==
  LET over == [k EXCEPT !.active = FALSE] IN
  IF k.current # NoThread THEN {User(n) : n \in Preempted(over)}
  ELSE IF Ready(k) # {} THEN {User(n) : n \in NextThread(over)}
  ELSE {[k EXCEPT !.cpu = "wait"]}

ForgetsLate(k) == k
(* The end of a pass, with interrupts masked: more work, or back. *)
Ended(k) == IF k.again THEN [k EXCEPT !.retry = @ \cup {"reap"}] ELSE k
EndPass ==
  /\ kernel.cpu = "worker" /\ kernel.serving = {}
  /\ kernel' \in LET k == Ended(kernel) IN
                 IF k.pending # {} THEN {Pass(k)}
                 ELSE Resume([k EXCEPT !.worker = "blocked"])
  /\ UNCHANGED <<ring, dispatching, enabled, device, endpoint, route,
                 failures, deferrals>>

(* After an interrupt ended the wait. *)
Awake ==
  /\ kernel.cpu = "awake"
  /\ kernel' \in IF kernel.worker = "ready" /\ kernel.pending # {}
                 THEN {Pass(kernel)}
                 ELSE {IF k.cpu = "wait" /\ k.worker # "blocked" THEN Panic(k) ELSE k :
                         k \in Resume(kernel)}
  /\ UNCHANGED <<ring, dispatching, enabled, device, endpoint, route,
                 failures, deferrals>>

-----------------------------------------------------------------------------
Call(t) ==
  \/ OtherCall(t) \/ Sleep(t) \/ Exit(t) \/ Grow(t) \/ FaultDies(t)
  \/ \E v \in Threads : Terminate(t, v)
  \/ \E s \in Sources : Bind(t, s)
  \/ \E e \in Slots : \/ Arm(t, e) \/ Mask(t, e) \/ Recover(t, e) \/ Ack(t, e)
                      \/ WaitFor(t, e) \/ Revoke(t, e) \/ Close(t, e)
Worker == ServeReap \/ ServeReset \/ Dispatch \/ CountNoise \/ Pop
          \/ EndBatch \/ EndPass \/ Awake
Outside == \/ \E t \in Threads : TimePasses(t)
           \/ \E e \in Slots : WindowPasses(e)
           \/ \E s \in Sources : Raise(s) \/ Calm(s) \/ Poll(s)
Next == \/ Enter \/ Timer \/ Worker \/ Outside
        \/ \E t \in Threads : Call(t)
        \/ \E s \in Sources : DeviceInterrupt(s)

Spec == Init /\ [][Next]_vars

(* The processor goes on with a call and with the worker; every exit       *)
(* leaves the timer armed, and it does not fall into the worker's or a     *)
(* call's work every time; time passes.                                    *)
UndisturbedTimer == Undisturbed(kernel) /\ Timer
Fairness == /\ WF_vars(Timer) /\ SF_vars(UndisturbedTimer) /\ WF_vars(Worker)
            /\ WF_vars(\E t \in Threads : Call(t))
            /\ \A t \in Threads : WF_vars(TimePasses(t))
FairSpec == Spec /\ Fairness

-----------------------------------------------------------------------------
(* The kernel never finds its worker, ring or endpoint pool in a state it  *)
(* stops the machine for: no burial is scheduled while the worker is       *)
(* under way, the ring never overflows although a source may be claimed    *)
(* again while an entry of it is still there, and the worker wakes only    *)
(* as it should.                                                           *)
NoPanic == kernel.cpu # "panic"

(* Work is recorded where the worker will look for it, from the moment it  *)
(* arises until it is done: ring entries, revoked endpoints and processes  *)
(* to bury; and the worker is never blocked with work pending.  The types  *)
(* are part of it: the ring, records and counters within their limits.     *)
WorkTracked ==
  LET recorded == kernel.pending \cup kernel.retry \cup kernel.serving
                  \cup (IF kernel.again THEN {"reap"} ELSE {})
  IN /\ TypeOK
     /\ kernel.cpu # "panic" =>
          /\ ring # <<>> => "irq" \in kernel.pending \cup kernel.serving
          /\ Unquiesced(endpoint) # {} => recorded \cap {"reap", "reset"} # {}
          /\ (\E t \in Threads : kernel.thread[t] = "exiting") => "reap" \in recorded
          /\ kernel.worker = "blocked" <=> kernel.pending = {} /\ kernel.cpu # "worker"

(* The controller and the endpoints agree: a source interrupts only for    *)
(* an endpoint in use that its driver has not masked, an endpoint that     *)
(* thinks itself armed does get its next interrupt, and none ever queues a *)
(* second record.                                                          *)
InRing(s) == \E i \in 1 .. Len(ring) : ring[i] = s
SourceMatches ==
  /\ \A s \in Sources : enabled[s] =>
       route[s] # 0 /\ Active(route[s]) /\ ~endpoint[route[s]].admin
  /\ \A e \in Slots : LET r == endpoint[e] IN
       /\ r.records <= 1
       /\ r.state = "armed" /\ ~r.masked => enabled[r.source] \/ InRing(r.source)

(* A driver asleep for its device is heard when the device speaks: the     *)
(* source can interrupt or its entry is on the way, unless the driver      *)
(* masked it itself.  The code's exception is a storm of interrupts        *)
(* without work, which masks the source and wakes nobody.                  *)
WaiterHeard ==
  \A t \in Threads : kernel.waits[t] # 0 =>
    LET r == endpoint[kernel.waits[t]] IN
    /\ Active(kernel.waits[t]) /\ r.records = 0
    /\ \/ r.events = {"storm"}
       \/ r.events = {} /\ (r.admin \/ enabled[r.source] \/ InRing(r.source))

(* Whatever interrupts come, an ended process is buried and a revoked      *)
(* endpoint gives its source back.                                         *)
MaintenanceDone ==
  /\ \A t \in Threads :
       kernel.thread[t] = "exiting" ~> kernel.thread[t] = "gone"
  /\ \A e \in Slots : e \in Unquiesced(endpoint) ~> e \notin Unquiesced(endpoint)

(* With nothing to run, a thread whose deadline has passed, or that an     *)
(* interrupt made ready, gets the processor: neither the idle loop nor the *)
(* waiting worker sleeps on.                                               *)
IdleEnds ==
  (kernel.current = NoThread
   /\ \E t \in Threads : kernel.thread[t] \in {"ready", "asleep", "due"})
  ~> kernel.current # NoThread
=============================================================================
