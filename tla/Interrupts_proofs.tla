-------------------------- MODULE Interrupts_proofs --------------------------
(***************************************************************************)
(* Interrupts, the worker and the endpoints of drivers, for any number of  *)
(* threads, sources and endpoints.                                         *)
(*                                                                         *)
(*   Typed     what the fields may be                                      *)
(*   Sound     the worker's flags: when it is blocked, running and active  *)
(*   WorkInv   burials and revocations are recorded as work                *)
(*   RingInv   how often a source may be in the ring, and who looks at it  *)
(*   RouteInv  which endpoint a source belongs to                          *)
(*   MaskInv   what an endpoint's fields say of each other and its source  *)
(*   WaitInv   whom a waiter waits for                                     *)
(*                                                                         *)
(* Their conjunction, Safe, is inductive; the parts need each other.  The  *)
(* exits of the kernel are operators, and what they do to the worker's     *)
(* flags is proved of them first.                                          *)
(*                                                                         *)
(* Two conditions on the constants.  With BindsAgain and two endpoints the *)
(* pool does find itself corrupt, as TLC shows.  The ring must             *)
(* be longer than two entries for each source: a source without work is    *)
(* enabled again before its entry is off the ring, so it can be there      *)
(* twice besides the entry the worker is with.  With fewer, it overflows.  *)
(***************************************************************************)
EXTENDS Interrupts, FiniteSetTheorems, FunctionTheorems, TLAPS

States == {"running", "ready", "asleep", "due", "waiting", "exiting", "gone"}

Kernels ==
  [cpu : Modes, worker : {"blocked", "ready", "running"}, active : BOOLEAN,
   pending : SUBSET Classes, retry : SUBSET Classes, serving : SUBSET Classes,
   again : BOOLEAN, served : 0 .. Batch, current : Threads \cup {NoThread},
   waits : [Threads -> Slots \cup {0}], thread : [Threads -> States]]

Endpoints ==
  [state : {"free", "masked", "armed", "pending", "revoking"},
   owner : Threads \cup {NoThread}, source : Sources,
   held : BOOLEAN, masked : BOOLEAN, admin : BOOLEAN,
   events : SUBSET {"overflow", "storm"}, quiesced : BOOLEAN,
   records : 0 .. RecordDepth, noise : 0 .. StormBudget]

Typed ==
  /\ kernel \in Kernels
  /\ ring \in Seq(Sources)
  /\ dispatching \in {"no", "noise", "pop"}
  /\ enabled \in [Sources -> BOOLEAN]
  /\ device \in [Sources -> {"quiet", "work", "noise"}]
  /\ route \in [Sources -> Slots \cup {0}]
  /\ endpoint \in [Slots -> Endpoints]
  /\ failures \in 0 .. MaxFailures /\ deferrals \in 0 .. MaxDeferrals

(* The worker, as the kernel's state k has it. *)
Sound(k) ==
  /\ k \in Kernels
  /\ k.cpu # "panic"
  /\ k.active <=> k.cpu \in {"worker", "wait", "awake"}
  /\ k.worker = "running" <=> k.cpu = "worker"
  /\ k.worker = "blocked" <=> k.pending = {} /\ k.cpu # "worker"
  /\ k.cpu # "worker" => k.serving = {}
  /\ k.cpu # "worker" /\ k.again => "reap" \in k.pending \cup k.retry

(* What is left to do is recorded. *)
Recorded(k) == k.pending \cup k.retry \cup k.serving \cup (IF k.again THEN {"reap"} ELSE {})
Exiting(k) == \E t \in Threads : k.thread[t] = "exiting"
WorkInv ==
  /\ Unquiesced(endpoint) # {} => "reap" \in Recorded(kernel) \/ "reset" \in Recorded(kernel)
  /\ Exiting(kernel) => "reap" \in Recorded(kernel)

(* The entries of the ring that the worker has yet to look at. *)
Waiting == {i \in 1 .. Len(ring) : dispatching = "no" \/ i # 1}
Awaits(s) == \E i \in Waiting : ring[i] = s

(* A source that can interrupt has at most one entry, another at most two, *)
(* and while the worker does not run each has at most one.                 *)
RingInv ==
  /\ ring # <<>> => "irq" \in kernel.pending \cup kernel.serving
  /\ dispatching # "no" =>
       /\ kernel.cpu = "worker" /\ kernel.serving = {"irq"}
       /\ kernel.served < Batch /\ ring # <<>>
  /\ \A i \in Waiting : enabled[ring[i]] => kernel.cpu = "worker"
  /\ \A i, j \in Waiting : i < j /\ ring[i] = ring[j] =>
       kernel.cpu = "worker" /\ ~enabled[ring[i]]
  /\ \A i, j, l \in Waiting : i < j /\ j < l => ~(ring[i] = ring[j] /\ ring[j] = ring[l])

(* An endpoint in use, and one that is not yet quiet, has its source. *)
Owns(e) == Active(e) \/ (endpoint[e].state = "revoking" /\ ~endpoint[e].quiesced)
RouteInv ==
  /\ \A e \in Slots : Owns(e) => route[endpoint[e].source] = e
  /\ \A s \in Sources : route[s] # 0 => Owns(route[s]) /\ endpoint[route[s]].source = s
  /\ \A e \in Slots : LET r == endpoint[e] IN
       /\ r.quiesced => r.state = "revoking" /\ (~BindsAgain => route[r.source] = 0)
       /\ r.held => r.state # "free"

(* What the fields of an endpoint tell of each other and of its source. *)
MaskInv ==
  /\ \A s \in Sources : enabled[s] =>
       route[s] # 0 /\ Active(route[s]) /\ ~endpoint[route[s]].admin
  /\ \A e \in Slots : Active(e) => LET r == endpoint[e] IN
       /\ r.records <= 1 /\ r.events \subseteq {"storm"}
       /\ r.records # 0 => r.masked
       /\ r.state = "pending" => r.records # 0
       /\ r.state = "masked" => r.masked
       /\ r.state = "masked" /\ r.events = {} => r.admin
       /\ r.state = "armed" => (r.masked <=> r.events # {}) /\ ~r.admin
       /\ r.state = "armed" /\ ~r.masked => enabled[r.source] \/ Awaits(r.source)
  /\ \A e \in Slots : endpoint[e].records <= 1
  /\ dispatching = "noise" => Open(Head(ring))

(* A thread waits for an endpoint of its own that has nothing to tell. *)
WaitInv == \A t \in Threads : kernel.waits[t] # 0 =>
  /\ Active(kernel.waits[t])
  /\ endpoint[kernel.waits[t]].owner = t /\ endpoint[kernel.waits[t]].records = 0

Safe == Typed /\ Sound(kernel) /\ WorkInv /\ RingInv /\ RouteInv /\ MaskInv /\ WaitInv

-----------------------------------------------------------------------------
(* Only who runs and who is ready differs between k and n. *)
Scheduled(k, n) ==
  /\ n \in Kernels
  /\ n.cpu = k.cpu /\ n.worker = k.worker /\ n.active = k.active
  /\ n.pending = k.pending /\ n.retry = k.retry /\ n.serving = k.serving
  /\ n.again = k.again /\ n.served = k.served /\ n.waits = k.waits
  /\ Exiting(n) <=> Exiting(k)

(* A thread that is made to run, and the thread that ran, were not ending. *)
LEMMA ActivateScheduled ==
  ASSUME NEW k \in Kernels, NEW t \in Ready(k)
  PROVE  Scheduled(k, Activate(k, t))
<1> DEFINE after == [u \in Threads |-> IF u = t THEN "running"
                                       ELSE IF k.thread[u] = "running" THEN "ready"
                                       ELSE k.thread[u]]
<1>1. after \in [Threads -> States]
  BY DEF Kernels, States
<1>2. \A u \in Threads : after[u] = "exiting" <=> k.thread[u] = "exiting"
  BY DEF Ready
<1>3. Activate(k, t) = [k EXCEPT !.current = t, !.thread = after]
  BY DEF Activate
<1> HIDE DEF after
<1>4. t \in Threads
  BY DEF Ready
<1>5. Activate(k, t) \in Kernels
  BY <1>1, <1>3, <1>4 DEF Kernels
<1>6. Activate(k, t).thread = after
  BY <1>3 DEF Kernels
<1>7. /\ Activate(k, t).cpu = k.cpu /\ Activate(k, t).worker = k.worker
      /\ Activate(k, t).active = k.active /\ Activate(k, t).pending = k.pending
  BY <1>3 DEF Kernels
<1>8. /\ Activate(k, t).retry = k.retry /\ Activate(k, t).serving = k.serving
      /\ Activate(k, t).again = k.again /\ Activate(k, t).served = k.served
      /\ Activate(k, t).waits = k.waits
  BY <1>3 DEF Kernels
<1> QED BY <1>2, <1>5, <1>6, <1>7, <1>8 DEF Scheduled, Exiting

(* schedule_pending only changes who runs and who is ready.                *)
LEMMA PreemptedScheduled ==
  ASSUME NEW k \in Kernels, NEW n \in Preempted(k)
  PROVE  Scheduled(k, n)
BY ActivateScheduled DEF Preempted, Scheduled

(* ... and so does schedule_next.                                          *)
LEMMA NextThreadScheduled ==
  ASSUME NEW k \in Kernels, NEW n \in NextThread(k)
  PROVE  Scheduled(k, n)
<1>1. CASE n = [k EXCEPT !.current = NoThread]
  BY <1>1 DEF Kernels, Scheduled, Exiting
<1> QED BY <1>1, ActivateScheduled DEF NextThread

(* ... and so does the timer's scheduler_expire_due.                       *)
LEMMA TickedScheduled ==
  ASSUME NEW k \in Kernels, NEW n \in Ticked(k)
  PROVE  Scheduled(k, n)
<1> DEFINE after == [t \in Threads |-> IF k.thread[t] = "due" THEN "ready" ELSE k.thread[t]]
<1>1. after \in [Threads -> States]
  BY DEF Kernels, States
<1>2. \A u \in Threads : after[u] = "exiting" <=> k.thread[u] = "exiting"
  OBVIOUS
<1>3. Expired(k) = [k EXCEPT !.thread = after]
  BY DEF Expired
<1> HIDE DEF after
<1>4. Scheduled(k, Expired(k))
  BY <1>1, <1>2, <1>3 DEF Kernels, Scheduled, Exiting
<1>5. \A m \in NextThread(Expired(k)) : Scheduled(Expired(k), m)
  BY <1>4, NextThreadScheduled DEF Scheduled
<1>6. n = k \/ n = Expired(k) \/ n \in NextThread(Expired(k))
  BY DEF Ticked
<1> QED BY <1>4, <1>5, <1>6 DEF Scheduled

(* Who runs is nothing to the worker: it stays sound, with the same work   *)
(* recorded.                                                               *)
LEMMA ScheduledSound ==
  ASSUME NEW k, Sound(k), NEW n, Scheduled(k, n)
  PROVE  Sound(n) /\ Recorded(n) = Recorded(k)
BY DEF Sound, Scheduled, Recorded

(* What service_once takes over when it begins, and what it leaves.        *)
LEMMA PassFields ==
  ASSUME NEW k \in Kernels
  PROVE  /\ Pass(k) \in Kernels
         /\ Pass(k).cpu = "worker" /\ Pass(k).worker = "running" /\ Pass(k).active
         /\ Pass(k).pending = {} /\ Pass(k).serving = k.pending /\ Pass(k).retry = k.retry
         /\ ~Pass(k).again /\ Pass(k).served = 0 /\ Pass(k).waits = k.waits
         /\ Pass(k).thread = k.thread
<1>1. 0 \in 0 .. Batch /\ "worker" \in Modes
  BY InterruptsAssumption DEF Modes
<1> DEFINE a == [k EXCEPT !.cpu = "worker", !.worker = "running", !.active = TRUE]
           b == [a EXCEPT !.serving = k.pending, !.pending = {}, !.again = FALSE]
           c == [b EXCEPT !.served = 0]
<1>2. a \in Kernels /\ a.cpu = "worker" /\ a.worker = "running" /\ a.active
  BY <1>1 DEF Kernels
<1>3. /\ a.retry = k.retry /\ a.waits = k.waits /\ a.thread = k.thread
      /\ a.pending = k.pending
  BY DEF Kernels
<1>4. Pass(k) = c
  BY DEF Pass
<1> HIDE DEF a
<1>5. b \in Kernels
  BY <1>2, <1>3 DEF Kernels
<1>6. /\ b.cpu = a.cpu /\ b.worker = a.worker /\ b.active = a.active
      /\ b.retry = a.retry /\ b.waits = a.waits /\ b.thread = a.thread
  BY <1>2 DEF Kernels
<1>7. b.serving = k.pending /\ b.pending = {} /\ ~b.again
  BY <1>2 DEF Kernels
<1> HIDE DEF b
<1>8. c \in Kernels /\ c.served = 0
  BY <1>1, <1>5 DEF Kernels
<1>9. /\ c.cpu = b.cpu /\ c.worker = b.worker /\ c.active = b.active
      /\ c.retry = b.retry /\ c.waits = b.waits /\ c.thread = b.thread
      /\ c.serving = b.serving /\ c.pending = b.pending /\ c.again = b.again
  BY <1>5 DEF Kernels
<1> HIDE DEF c
<1> QED BY <1>2, <1>3, <1>4, <1>6, <1>7, <1>8, <1>9

(* What is not the mode of the processor. *)
Tables(k) == <<k.worker, k.active, k.pending, k.retry, k.serving, k.again, k.served,
               k.current, k.waits, k.thread>>

(* A change of the processor's mode changes nothing else.                  *)
LEMMA ModeFields ==
  ASSUME NEW k \in Kernels, NEW mode \in Modes
  PROVE  /\ [k EXCEPT !.cpu = mode] \in Kernels
         /\ [k EXCEPT !.cpu = mode].cpu = mode
         /\ Tables([k EXCEPT !.cpu = mode]) = Tables(k)
<1> DEFINE n == [k EXCEPT !.cpu = mode]
<1>1. n \in Kernels /\ n.cpu = mode
  BY DEF Kernels
<1>2. n.worker = k.worker /\ n.active = k.active /\ n.pending = k.pending /\ n.retry = k.retry
  BY DEF Kernels
<1>3. n.serving = k.serving /\ n.again = k.again /\ n.served = k.served
  BY DEF Kernels
<1>4. n.current = k.current /\ n.waits = k.waits /\ n.thread = k.thread
  BY DEF Kernels
<1> HIDE DEF n
<1>5. Tables(n) = Tables(k)
  BY <1>2, <1>3, <1>4 DEF Tables
<1> QED BY <1>1, <1>5 DEF n

(* kernel_worker_signal and kernel_worker_on_timer record work, and make a *)
(* worker ready that was blocked.                                          *)
Signalled(k, n, classes) ==
  /\ n \in Kernels /\ n.cpu = k.cpu /\ n.active = k.active
  /\ n.pending = k.pending \cup classes
  /\ n.worker = (IF k.worker = "blocked" THEN "ready" ELSE k.worker)
  /\ n.serving = k.serving /\ n.again = k.again /\ n.served = k.served
  /\ n.waits = k.waits /\ n.thread = k.thread /\ n.current = k.current

(* kernel_worker_signal records the class and makes a blocked worker       *)
(* ready.                                                                  *)
LEMMA SignalFields ==
  ASSUME NEW k \in Kernels, NEW class \in Classes
  PROVE  Signalled(k, Signal(k, class), {class}) /\ Signal(k, class).retry = k.retry
<1> DEFINE w == IF k.worker = "blocked" THEN "ready" ELSE k.worker
           p == k.pending \cup {class}
           n == [k EXCEPT !.pending = p, !.worker = w]
<1>1. w \in {"blocked", "ready", "running"} /\ p \in SUBSET Classes
  BY DEF Kernels
<1>2. Signal(k, class) = n
  BY DEF Signal
<1>a. w = (IF k.worker = "blocked" THEN "ready" ELSE k.worker) /\ p = k.pending \cup {class}
  OBVIOUS
<1> HIDE DEF w, p
<1>3. n \in Kernels /\ n.pending = p /\ n.worker = w
  BY <1>1 DEF Kernels
<1>4. n.cpu = k.cpu /\ n.active = k.active /\ n.serving = k.serving /\ n.retry = k.retry
  BY DEF Kernels
<1>5. n.again = k.again /\ n.served = k.served /\ n.waits = k.waits /\ n.thread = k.thread
      /\ n.current = k.current
  BY DEF Kernels
<1> HIDE DEF n
<1> QED BY <1>2, <1>3, <1>4, <1>5, <1>a DEF Signalled

(* kernel_worker_on_timer makes all that was put off pending, and nothing  *)
(* else.                                                                   *)
LEMMA PromotedFields ==
  ASSUME NEW k \in Kernels, k.retry # {}
  PROVE  Signalled(k, Promoted(k), k.retry) /\ Promoted(k).retry = {}
<1> DEFINE w == IF k.worker = "blocked" THEN "ready" ELSE k.worker
           p == k.pending \cup k.retry
           m == [k EXCEPT !.pending = p, !.retry = {}]
           n == [m EXCEPT !.worker = w]
<1>1. w \in {"blocked", "ready", "running"} /\ p \in SUBSET Classes
  BY DEF Kernels
<1>2. Promoted(k) = n
  BY DEF Promoted, Kernels
<1>a. w = (IF k.worker = "blocked" THEN "ready" ELSE k.worker) /\ p = k.pending \cup k.retry
  OBVIOUS
<1> HIDE DEF w, p
<1>3. m \in Kernels /\ m.pending = p /\ m.retry = {}
  BY <1>1 DEF Kernels
<1>4. m.cpu = k.cpu /\ m.active = k.active /\ m.serving = k.serving /\ m.again = k.again
  BY DEF Kernels
<1>5. m.served = k.served /\ m.waits = k.waits /\ m.thread = k.thread /\ m.current = k.current
  BY DEF Kernels
<1> HIDE DEF m
<1>6. n \in Kernels /\ n.worker = w /\ n.pending = m.pending /\ n.retry = m.retry
  BY <1>1, <1>3 DEF Kernels
<1>7. n.cpu = m.cpu /\ n.active = m.active /\ n.serving = m.serving /\ n.again = m.again
  BY <1>3 DEF Kernels
<1>8. n.served = m.served /\ n.waits = m.waits /\ n.thread = m.thread /\ n.current = m.current
  BY <1>3 DEF Kernels
<1> HIDE DEF n
<1> QED BY <1>2, <1>3, <1>4, <1>5, <1>6, <1>7, <1>8, <1>a DEF Signalled

(* From k to n nothing is forgotten that was recorded, and nobody stops    *)
(* waiting or ends.                                                        *)
Moves(k, n) ==
  /\ Sound(n)
  /\ k.pending \cup k.serving \subseteq n.pending \cup n.serving
  /\ \A class \in Classes : class \in Recorded(k) => class \in Recorded(n)
  /\ n.waits = k.waits
  /\ Exiting(n) <=> Exiting(k)

(* Scheduling is a move.                                                   *)
LEMMA ScheduledMoves ==
  ASSUME NEW k, Sound(k), NEW n, Scheduled(k, n)
  PROVE  Moves(k, n)
BY ScheduledSound DEF Moves, Scheduled

(* A move after a move is a move.                                          *)
LEMMA MovesOn ==
  ASSUME NEW k, NEW m, NEW n, Moves(k, m), Moves(m, n)
  PROVE  Moves(k, n)
BY DEF Moves

(* kernel_worker_signal forgets nothing.                                   *)
LEMMA SignalMoves ==
  ASSUME NEW k, Sound(k), NEW class \in Classes
  PROVE  Moves(k, Signal(k, class))
<1>1. k \in Kernels /\ Signalled(k, Signal(k, class), {class}) /\ Signal(k, class).retry = k.retry
  BY SignalFields DEF Sound
<1> DEFINE n == Signal(k, class)
<1> HIDE DEF n
<1>2. n \in Kernels /\ Signalled(k, n, {class}) /\ n.retry = k.retry
  BY <1>1 DEF n, Signalled
<1>3. Sound(n)
  BY <1>2 DEF Sound, Signalled, Kernels
<1> QED BY <1>2, <1>3 DEF Moves, Signalled, Recorded, Exiting, n

(* kernel_worker_on_timer forgets nothing, and leaves a worker under way   *)
(* alone.                                                                  *)
LEMMA PromotedMoves ==
  ASSUME NEW k, Sound(k)
  PROVE  Moves(k, Promoted(k)) /\ Promoted(k).cpu = k.cpu /\ Promoted(k).served = k.served
         /\ Promoted(k).serving = k.serving
<1> DEFINE n == Promoted(k)
<1>1. CASE k.retry = {}
  BY <1>1 DEF Promoted, Moves
<1>2. CASE k.retry # {}
  <2>1. Signalled(k, n, k.retry) /\ n.retry = {}
    BY <1>2, PromotedFields DEF Sound
  <2> HIDE DEF n
  <2>2. Sound(n)
    BY <2>1, <1>2 DEF Sound, Signalled, Kernels
  <2> QED BY <2>1, <2>2 DEF Moves, Signalled, Recorded, Exiting, n
<1> QED BY <1>1, <1>2

(* service_once begins with everything that was recorded.                  *)
LEMMA PassMoves ==
  ASSUME NEW k \in Kernels, k.serving = {}, k.again => "reap" \in k.pending \cup k.retry
  PROVE  Moves(k, Pass(k)) /\ Pass(k).cpu = "worker" /\ Pass(k).serving = k.pending
<1> DEFINE n == Pass(k)
<1>1. /\ n \in Kernels /\ n.cpu = "worker" /\ n.worker = "running" /\ n.active
      /\ n.pending = {} /\ n.serving = k.pending /\ n.retry = k.retry
      /\ ~n.again /\ n.served = 0 /\ n.waits = k.waits /\ n.thread = k.thread
  BY PassFields
<1> HIDE DEF n
<1>2. Sound(n)
  BY <1>1 DEF Sound
<1> QED BY <1>1, <1>2 DEF Moves, Recorded, Exiting, n

(* An exit that leaves the worker for later may do so: it is ready if      *)
(* there is work.                                                          *)
LEMMA ModeMoves ==
  ASSUME NEW k \in Kernels, NEW mode \in {"user", "idle", "awake", "wait", "kernel", "fault"},
         k.worker = "blocked" <=> k.pending = {}, k.worker # "running", k.serving = {},
         k.again => "reap" \in k.pending \cup k.retry,
         k.active <=> mode \in {"wait", "awake"}
  PROVE  Moves(k, [k EXCEPT !.cpu = mode]) /\ [k EXCEPT !.cpu = mode].cpu = mode
<1> DEFINE n == [k EXCEPT !.cpu = mode]
<1>a. mode \in Modes
  BY DEF Modes
<1>1. n \in Kernels /\ n.cpu = mode /\ Tables(n) = Tables(k)
  BY <1>a, ModeFields
<1> HIDE DEF n
<1>2. Sound(n)
  BY <1>1 DEF Sound, Tables
<1> QED BY <1>1, <1>2 DEF Moves, Recorded, Exiting, n, Tables

-----------------------------------------------------------------------------
(* The exits from the kernel. *)

(* kernel_worker_try_select, from user or kernel code.                     *)
LEMMA SelectMoves ==
  ASSUME NEW k, Sound(k), k.cpu \in {"user", "kernel", "fault", "idle"}
  PROVE  /\ Moves(k, Select(k)) /\ Moves(k, Pass(k)) /\ Moves(k, User(k))
         /\ Pass(k).cpu = "worker" /\ Pass(k).serving = k.pending /\ User(k).cpu = "user"
<1>1. /\ k \in Kernels /\ k.serving = {} /\ (k.again => "reap" \in k.pending \cup k.retry)
      /\ ~k.active /\ k.worker # "running" /\ (k.worker = "blocked" <=> k.pending = {})
  BY DEF Sound
<1>2. Moves(k, Pass(k)) /\ Pass(k).cpu = "worker" /\ Pass(k).serving = k.pending
  BY <1>1, PassMoves
<1>3. Moves(k, User(k)) /\ User(k).cpu = "user"
  BY <1>1, ModeMoves DEF User
<1> QED BY <1>2, <1>3 DEF Select

(* kernel_process_resume_idle.                                             *)
LEMMA IdleMoves ==
  ASSUME NEW k, Sound(k), k.cpu \in {"kernel", "fault", "idle"}, NEW n \in Idle(k)
  PROVE  Moves(k, n)
<1>1. /\ k \in Kernels /\ k.serving = {} /\ (k.again => "reap" \in k.pending \cup k.retry)
      /\ ~k.active /\ k.worker # "running" /\ (k.worker = "blocked" <=> k.pending = {})
  BY DEF Sound
<1>2. CASE n = [k EXCEPT !.cpu = "idle"]
  BY <1>1, <1>2, ModeMoves
<1>3. ASSUME NEW m \in NextThread(k), n = User(m) PROVE Moves(k, n)
  <2>1. Scheduled(k, m) /\ Moves(k, m)
    BY <1>1, <1>3, NextThreadScheduled, ScheduledMoves
  <2>2. Sound(m) /\ m.cpu \in {"kernel", "fault", "idle"}
    BY <2>1 DEF Scheduled, Moves
  <2> QED BY <1>3, <2>1, <2>2, SelectMoves, MovesOn
<1> QED BY <1>2, <1>3 DEF Idle

(* The exit of an interrupt forgets nothing, whatever it interrupted; the  *)
(* worker it interrupts goes on as if nothing had been.                    *)
LEMMA InterruptExitMoves ==
  ASSUME NEW k, Sound(k), NEW n \in InterruptExit(k)
  PROVE  Moves(k, n) /\ (k.cpu = "worker" => n = k)
<1>1. k \in Kernels
  BY DEF Sound
<1>2. CASE k.cpu = "user"
  <2>1. PICK m \in Preempted(k) : n = Select(m)
    BY <1>2 DEF InterruptExit
  <2>2. Scheduled(k, m) /\ Moves(k, m)
    BY <1>1, <2>1, PreemptedScheduled, ScheduledMoves
  <2>3. Sound(m) /\ m.cpu = "user"
    BY <1>2, <2>2 DEF Scheduled, Moves
  <2> QED BY <1>2, <2>1, <2>2, <2>3, SelectMoves, MovesOn
<1>3. CASE k.cpu = "idle"
  <2>1. n = Pass(k) \/ n = User(k) \/ n \in Idle(k)
    BY <1>3 DEF InterruptExit
  <2> QED BY <1>3, <2>1, SelectMoves, IdleMoves
<1>4. CASE k.cpu = "wait"
  <2>1. n = [k EXCEPT !.cpu = "awake"]
    BY <1>4 DEF InterruptExit
  <2> QED BY <1>4, <2>1, ModeMoves DEF Sound
<1>5. CASE k.cpu \notin {"user", "idle", "wait"}
  <2>1. n = k
    BY <1>5 DEF InterruptExit
  <2> QED BY <2>1, <1>5 DEF Moves
<1> QED BY <1>2, <1>3, <1>4, <1>5

(* kernel_worker_schedule, from a call or a fault, finds the worker        *)
(* neither running nor active, so it does not stop the machine, and the    *)
(* burial is taken up.                                                     *)
LEMMA ScheduleMoves ==
  ASSUME NEW k, Sound(k), k.cpu \in {"kernel", "fault"}
  PROVE  Moves(k, Schedule(k)) /\ Schedule(k).cpu = "worker" /\ "reap" \in Schedule(k).serving
<1> DEFINE p == k.pending \cup {"reap"}
           m == [k EXCEPT !.pending = p]
<1>1. /\ k \in Kernels /\ k.serving = {} /\ (k.again => "reap" \in k.pending \cup k.retry)
      /\ ~k.active /\ k.worker # "running"
  BY DEF Sound
<1>2. Schedule(k) = Pass(m)
  BY <1>1 DEF Schedule
<1>3. p \in SUBSET Classes /\ "reap" \in p /\ k.pending \subseteq p
  BY <1>1 DEF Kernels, Classes
<1> HIDE DEF p
<1>4. m \in Kernels /\ m.pending = p
  BY <1>1, <1>3 DEF Kernels
<1>5. /\ m.serving = k.serving /\ m.again = k.again /\ m.retry = k.retry
      /\ m.waits = k.waits /\ m.thread = k.thread
  BY <1>1 DEF Kernels
<1> HIDE DEF m
<1>6. Moves(m, Pass(m)) /\ Pass(m).cpu = "worker" /\ Pass(m).serving = p
  <2>1. m.again => "reap" \in m.pending \cup m.retry
    BY <1>3, <1>4
  <2> QED BY <1>1, <1>4, <1>5, <2>1, PassMoves
<1>7. Moves(k, Pass(m))
  BY <1>1, <1>3, <1>4, <1>5, <1>6 DEF Moves, Recorded, Exiting
<1> QED BY <1>2, <1>3, <1>6, <1>7

(* The exit of a call forgets nothing; a burial or a revocation the call   *)
(* left behind is taken up at once.                                        *)
LEMMA CallExitMoves ==
  ASSUME NEW k, Sound(k), k.cpu = "kernel", NEW E, NEW n \in CallExit(k, E)
  PROVE  /\ Moves(k, n) /\ (k.pending # {} => n.cpu = "worker")
         /\ Unquiesced(E) # {} \/ Exiting(k) => "reap" \in n.serving
<1>1. CASE Maintenance(k, E)
  <2>1. n = Schedule(k)
    BY <1>1 DEF CallExit
  <2> QED BY <2>1, ScheduleMoves
<1>2. CASE ~Maintenance(k, E)
  <2>1. k.pending # {} => Selectable(k)
    BY DEF Selectable, Sound, Kernels
  <2>2. IF Selectable(k) THEN n = Pass(k) ELSE n \in Idle(k) \/ n = User(k)
    BY <1>2 DEF CallExit
  <2>3. Moves(k, n) /\ (k.pending # {} => n.cpu = "worker")
    BY <2>1, <2>2, SelectMoves, IdleMoves
  <2>4. Unquiesced(E) = {} /\ ~Exiting(k)
    BY <1>2 DEF Maintenance, Exiting
  <2> QED BY <2>3, <2>4
<1> QED BY <1>1, <1>2

(* ... and so is one that a fault left behind.                             *)
LEMMA FaultExitMoves ==
  ASSUME NEW k, Sound(k), k.cpu = "fault", NEW E, NEW n \in FaultExit(k, E)
  PROVE  /\ Moves(k, n)
         /\ Unquiesced(E) # {} \/ Exiting(k) => "reap" \in n.serving
<1>1. CASE Maintenance(k, E)
  <2>1. n = Schedule(k)
    BY <1>1 DEF FaultExit
  <2> QED BY <2>1, ScheduleMoves
<1>2. CASE ~Maintenance(k, E)
  <2>1. n = Pass(k) \/ n = User(k) \/ n \in Idle(k)
    BY <1>2 DEF FaultExit
  <2>2. Moves(k, n)
    BY <2>1, SelectMoves, IdleMoves
  <2>3. Unquiesced(E) = {} /\ ~Exiting(k)
    BY <1>2 DEF Maintenance, Exiting
  <2> QED BY <2>2, <2>3
<1> QED BY <1>1, <1>2

(* The worker goes back to the thread that runs, to a ready one, or waits. *)
(* kernel_process_worker_resume, when the worker has nothing left to do.   *)
LEMMA ResumeMoves ==
  ASSUME NEW k \in Kernels, k.active, k.worker = "blocked", k.pending = {}, k.serving = {},
         k.again => "reap" \in k.retry, NEW n \in Resume(k)
  PROVE  Moves(k, n) /\ n.cpu # "worker" /\ (n.cpu = "wait" => n.worker = "blocked")
<1> DEFINE over == [k EXCEPT !.active = FALSE]
<1>1. over \in Kernels /\ ~over.active
  BY DEF Kernels
<1>2. /\ over.cpu = k.cpu /\ over.worker = k.worker /\ over.pending = k.pending
      /\ over.retry = k.retry /\ over.serving = k.serving
  BY DEF Kernels
<1>3. over.again = k.again /\ over.waits = k.waits /\ over.thread = k.thread
  BY DEF Kernels
<1>4. n = [k EXCEPT !.cpu = "wait"] \/ \E m \in Preempted(over) \cup NextThread(over) : n = User(m)
  BY DEF Resume
<1> HIDE DEF over
<1>5. CASE n = [k EXCEPT !.cpu = "wait"]
  <2>1. Moves(k, n) /\ n.cpu = "wait"
    BY <1>5, ModeMoves
  <2>2. n.worker = "blocked"
    BY <1>5 DEF Kernels
  <2> QED BY <2>1, <2>2
<1>6. ASSUME NEW m \in Preempted(over) \cup NextThread(over), n = User(m)
      PROVE  Moves(k, n) /\ n.cpu = "user"
  <2>1. Scheduled(over, m)
    BY <1>1, <1>6, PreemptedScheduled, NextThreadScheduled
  <2>2. /\ m \in Kernels /\ ~m.active /\ m.worker = "blocked" /\ m.pending = {}
        /\ m.serving = {} /\ m.retry = k.retry /\ m.again = k.again
        /\ m.waits = k.waits /\ (Exiting(m) <=> Exiting(k))
    BY <1>1, <1>2, <1>3, <2>1 DEF Scheduled, Exiting
  <2>3. Moves(m, User(m)) /\ User(m).cpu = "user"
    BY <2>2, ModeMoves DEF User
  <2> QED BY <1>6, <2>2, <2>3 DEF Moves, Recorded
<1> QED BY <1>4, <1>5, <1>6

(* A call has threads stop, wake or end: nothing else differs between k    *)
(* and n.                                                                  *)
Turned(k, n) ==
  /\ n \in Kernels
  /\ n.cpu = k.cpu /\ n.worker = k.worker /\ n.active = k.active
  /\ n.pending = k.pending /\ n.retry = k.retry /\ n.serving = k.serving
  /\ n.again = k.again /\ n.served = k.served /\ n.current = k.current

(* A call that has threads stop, wake or end is nothing to the worker.     *)
LEMMA TurnedSound ==
  ASSUME NEW k, Sound(k), NEW n, Turned(k, n)
  PROVE  Sound(n) /\ Recorded(n) = Recorded(k)
BY DEF Sound, Turned, Recorded

(* wake_all ends the waits for the endpoints of E, and no other.           *)
LEMMA WakeTurned ==
  ASSUME NEW k \in Kernels, NEW E
  PROVE  /\ Turned(k, Wake(k, E))
         /\ \A t \in Threads :
              Wake(k, E).waits[t] = (IF k.waits[t] \in E THEN 0 ELSE k.waits[t])
<1> DEFINE threads == [t \in Threads |-> IF k.waits[t] \in E THEN "ready" ELSE k.thread[t]]
           waits == [t \in Threads |-> IF k.waits[t] \in E THEN 0 ELSE k.waits[t]]
<1>1. threads \in [Threads -> States] /\ waits \in [Threads -> Slots \cup {0}]
  BY DEF Kernels, States
<1>2. k.waits = [k EXCEPT !.thread = threads].waits
  BY DEF Kernels
<1>3. Wake(k, E) = [k EXCEPT !.thread = threads, !.waits = waits]
  BY <1>2 DEF Wake
<1>4. \A t \in Threads : waits[t] = (IF k.waits[t] \in E THEN 0 ELSE k.waits[t])
  OBVIOUS
<1> DEFINE n == Wake(k, E)
<1>6. n = [k EXCEPT !.thread = threads, !.waits = waits]
  BY <1>3
<1> HIDE DEF threads, waits
<1>7. n \in Kernels
  BY <1>1, <1>6 DEF Kernels
<1>8. n.waits = waits
  BY <1>6 DEF Kernels
<1>9. n.cpu = k.cpu /\ n.worker = k.worker /\ n.active = k.active /\ n.pending = k.pending
  BY <1>6 DEF Kernels
<1>10. /\ n.retry = k.retry /\ n.serving = k.serving /\ n.again = k.again
       /\ n.served = k.served /\ n.current = k.current
  BY <1>6 DEF Kernels
<1> HIDE DEF n
<1> QED BY <1>4, <1>7, <1>8, <1>9, <1>10 DEF Turned, n

(* The running thread stops.                                               *)
LEMMA StopsTurned ==
  ASSUME NEW k \in Kernels, NEW t \in Threads, NEW why \in States
  PROVE  /\ Turned(k, Stops(k, t, why)) /\ Stops(k, t, why).waits = k.waits
         /\ Stops(k, t, why).thread = [k.thread EXCEPT ![t] = why]
<1> DEFINE n == Stops(k, t, why)
<1>1. n \in Kernels
  BY DEF Kernels, Stops
<1>2. n.thread = [k.thread EXCEPT ![t] = why] /\ n.waits = k.waits
  BY DEF Kernels, Stops
<1>3. n.cpu = k.cpu /\ n.worker = k.worker /\ n.active = k.active /\ n.pending = k.pending
  BY DEF Kernels, Stops
<1>4. /\ n.retry = k.retry /\ n.serving = k.serving /\ n.again = k.again
      /\ n.served = k.served /\ n.current = k.current
  BY DEF Kernels, Stops
<1> HIDE DEF n
<1> QED BY <1>1, <1>2, <1>3, <1>4 DEF n, Turned

(* One that stops to wait for e, or for nothing. *)
StopsFor(k, t, why, e) == [Stops(k, t, why) EXCEPT !.waits[t] = e]

(* A thread stops, and what it waits for is set.                           *)
LEMMA WaitsTurned ==
  ASSUME NEW k \in Kernels, NEW t \in Threads, NEW why \in States, NEW e \in Slots \cup {0}
  PROVE  /\ Turned(k, StopsFor(k, t, why, e))
         /\ \A u \in Threads :
              /\ StopsFor(k, t, why, e).waits[u] = (IF u = t THEN e ELSE k.waits[u])
              /\ StopsFor(k, t, why, e).thread[u] = (IF u = t THEN why ELSE k.thread[u])
<1> DEFINE m == Stops(k, t, why)
           n == [m EXCEPT !.waits[t] = e]
<1>1. Turned(k, m) /\ m.waits = k.waits /\ m.thread = [k.thread EXCEPT ![t] = why]
  BY StopsTurned
<1> HIDE DEF m
<1>a. m \in Kernels
  BY <1>1 DEF Turned
<1>2. n \in Kernels
  BY <1>a DEF Kernels
<1>3. n.waits = [m.waits EXCEPT ![t] = e] /\ n.thread = m.thread
  BY <1>a DEF Kernels
<1>4. n.cpu = m.cpu /\ n.worker = m.worker /\ n.active = m.active /\ n.pending = m.pending
  BY <1>a DEF Kernels
<1>5. /\ n.retry = m.retry /\ n.serving = m.serving /\ n.again = m.again
      /\ n.served = m.served /\ n.current = m.current
  BY <1>a DEF Kernels
<1> HIDE DEF n
<1>6. Turned(k, n)
  BY <1>1, <1>2, <1>4, <1>5 DEF Turned
<1>7. StopsFor(k, t, why, e) = n
  BY DEF StopsFor, n, m
<1>8. ASSUME NEW u \in Threads
      PROVE  /\ n.waits[u] = (IF u = t THEN e ELSE k.waits[u])
             /\ n.thread[u] = (IF u = t THEN why ELSE k.thread[u])
  <2>1. k.waits \in [Threads -> Slots \cup {0}] /\ k.thread \in [Threads -> States]
    BY DEF Kernels
  <2> QED BY <1>1, <1>3, <2>1
<1> QED BY <1>6, <1>7, <1>8

(* How a call that leaves k ends. *)
LEMMA ReturnMoves ==
  ASSUME NEW k, Sound(k), k.cpu = "kernel", Return(k) \/ Leave(k)
  PROVE  /\ Moves(k, kernel') /\ (k.pending # {} => kernel'.cpu = "worker")
         /\ Unquiesced(endpoint') # {} \/ Exiting(k) => "reap" \in kernel'.serving
<1>1. PICK n \in Preempted(k) \cup NextThread(k) : kernel' \in CallExit(n, endpoint')
  BY DEF Return, Leave
<1>2. Scheduled(k, n)
  BY <1>1, PreemptedScheduled, NextThreadScheduled DEF Sound
<1>3. Moves(k, n) /\ Sound(n) /\ n.cpu = "kernel" /\ n.pending = k.pending
      /\ (Exiting(n) <=> Exiting(k))
  BY <1>2, ScheduledMoves, ScheduledSound DEF Scheduled
<1>4. /\ Moves(n, kernel') /\ (n.pending # {} => kernel'.cpu = "worker")
      /\ Unquiesced(endpoint') # {} \/ Exiting(n) => "reap" \in kernel'.serving
  BY <1>1, <1>3, CallExitMoves
<1> QED BY <1>3, <1>4, MovesOn

-----------------------------------------------------------------------------
(* What a step on the endpoints keeps.                                     *)

Endpoint(r) == r.state \in {"masked", "armed", "pending"}

(* The fields of an endpoint in use agree. *)
Consistent(r) ==
  /\ r.records <= 1 /\ r.events \subseteq {"storm"}
  /\ r.records # 0 => r.masked
  /\ r.state = "pending" => r.records # 0
  /\ r.state = "masked" => r.masked
  /\ r.state = "masked" /\ r.events = {} => r.admin
  /\ r.state = "armed" => (r.masked <=> r.events # {}) /\ ~r.admin

(* The fields of an endpoint in use agree.                                 *)
LEMMA ConsistentSlots ==
  ASSUME MaskInv, NEW e \in Slots, Active(e)
  PROVE  Consistent(endpoint[e])
BY DEF MaskInv, Consistent

(* An endpoint keeps its source while it needs it. *)
LEMMA RouteKeep ==
  ASSUME RouteInv, route' = route,
         \A e \in Slots :
           /\ Owns(e)' <=> Owns(e)
           /\ Owns(e) => endpoint'[e].source = endpoint[e].source
           /\ endpoint'[e].quiesced =>
                /\ endpoint[e].quiesced /\ endpoint'[e].state = "revoking"
                /\ endpoint'[e].source = endpoint[e].source
           /\ endpoint'[e].held => endpoint'[e].state # "free",
         Typed
  PROVE  RouteInv'
<1>a. \A e \in Slots : Owns(e) =>
        \/ endpoint'[e].state \in {"masked", "armed", "pending"}
        \/ endpoint'[e].state = "revoking" /\ ~endpoint'[e].quiesced
  BY DEF Owns, Active
<1>1. ASSUME NEW e \in Slots, Owns(e)' PROVE route'[endpoint'[e].source] = e
  BY <1>1 DEF RouteInv
<1>2. ASSUME NEW s \in Sources, route'[s] # 0
      PROVE  Owns(route[s])' /\ endpoint'[route'[s]].source = s
  <2>1. route[s] \in Slots /\ Owns(route[s]) /\ endpoint[route[s]].source = s
    BY <1>2 DEF RouteInv, Typed
  <2> DEFINE e == route[s]
  <2>2. e \in Slots /\ Owns(e) /\ endpoint'[e].source = s
    BY <2>1
  <2>3. (endpoint'[route[s]].state \in {"masked", "armed", "pending"}
         \/ (endpoint'[route[s]].state = "revoking" /\ ~endpoint'[route[s]].quiesced))
    BY <2>1, <1>a
  <2> QED BY <2>2, <2>3 DEF Owns, Active
<1>3. ASSUME NEW e \in Slots
      PROVE  /\ endpoint'[e].quiesced => endpoint'[e].state = "revoking"
                  /\ (~BindsAgain => route'[endpoint'[e].source] = 0)
             /\ endpoint'[e].held => endpoint'[e].state # "free"
  BY DEF RouteInv
<1> QED BY <1>1, <1>2, <1>3 DEF RouteInv

(* A call changes one endpoint, and whether its source can interrupt. *)
LEMMA MaskCall ==
  ASSUME Typed, RouteInv, MaskInv, dispatching = "no",
         UNCHANGED <<ring, dispatching, route>>,
         NEW e \in Slots, Owns(e), NEW r \in Endpoints, NEW b \in BOOLEAN,
         endpoint' = [endpoint EXCEPT ![e] = r],
         enabled' = [enabled EXCEPT ![endpoint[e].source] = b],
         r.source = endpoint[e].source, r.records <= 1,
         Endpoint(r) => Consistent(r),
         b => Endpoint(r) /\ ~r.admin,
         r.state = "armed" /\ ~r.masked => b
  PROVE  MaskInv'
<1>1. route[r.source] = e /\ r.source \in Sources /\ endpoint'[e] = r /\ enabled'[r.source] = b
      /\ e # 0
  BY InterruptsAssumption DEF RouteInv, Typed, Endpoints
<1>2. ASSUME NEW f \in Slots, f # e
      PROVE  endpoint'[f] = endpoint[f] /\ (Active(f) => enabled'[endpoint[f].source] = enabled[endpoint[f].source])
  <2>1. Active(f) => endpoint[f].source # r.source
    BY <1>1, <1>2 DEF RouteInv, Owns
  <2> QED BY <1>2, <2>1 DEF Typed, Endpoints
<1>3. ASSUME NEW s \in Sources, enabled'[s]
      PROVE  route'[s] # 0 /\ Active(route[s])' /\ ~endpoint'[route'[s]].admin
  <2>1. CASE s = r.source
    BY <1>1, <1>3, <2>1 DEF Active, Endpoint
  <2>2. CASE s # r.source
    <3>1. enabled[s]
      BY <1>3, <2>2 DEF Typed
    <3>2. route[s] \in Slots /\ route[s] # 0 /\ Active(route[s]) /\ ~endpoint[route[s]].admin
      BY <3>1 DEF MaskInv, Typed
    <3>3. endpoint[route[s]].source = s
      BY <3>2 DEF RouteInv
    <3>4. route[s] # e
      BY <3>3, <2>2
    <3> QED BY <1>2, <3>2, <3>4 DEF Active
  <2> QED BY <2>1, <2>2
<1>4. ASSUME NEW f \in Slots, Active(f)'
      PROVE  /\ Consistent(endpoint'[f])
             /\ endpoint'[f].state = "armed" /\ ~endpoint'[f].masked =>
                  enabled'[endpoint'[f].source] \/ Awaits(endpoint[f].source)'
  <2>1. CASE f = e
    BY <1>1, <1>4, <2>1 DEF Active, Endpoint
  <2>2. CASE f # e
    <3>1. endpoint'[f] = endpoint[f] /\ Active(f)
      BY <1>2, <1>4, <2>2 DEF Active
    <3>2. Consistent(endpoint[f])
      BY <3>1, ConsistentSlots
    <3>3. Awaits(endpoint[f].source) => Awaits(endpoint[f].source)'
      BY <3>1 DEF Awaits, Waiting
    <3>4. endpoint[f].state = "armed" /\ ~endpoint[f].masked =>
            enabled[endpoint[f].source] \/ Awaits(endpoint[f].source)
      BY <3>1 DEF MaskInv
    <3> QED BY <1>2, <2>2, <3>1, <3>2, <3>3, <3>4
  <2> QED BY <2>1, <2>2
<1>5. \A f \in Slots : endpoint'[f].records <= 1
  BY <1>1, <1>2 DEF MaskInv
<1> QED BY <1>3, <1>4, <1>5 DEF MaskInv, Consistent

(* A step that touches no endpoint in use. *)
Alike(r, q) ==
  /\ r.state = q.state /\ r.source = q.source /\ r.masked = q.masked /\ r.admin = q.admin
  /\ r.events = q.events /\ r.records = q.records

(* A step that leaves the endpoints in use alike, and the sources as they  *)
(* are, keeps what the masks say.                                          *)
LEMMA MaskKeep ==
  ASSUME Typed, RouteInv, MaskInv, dispatching = "no",
         UNCHANGED <<ring, dispatching, route, enabled>>,
         \A f \in Slots : /\ Active(f)' => Active(f)
                          /\ Active(f) => Alike(endpoint'[f], endpoint[f])
                          /\ endpoint'[f].records <= 1
  PROVE  MaskInv'
<1>1. ASSUME NEW s \in Sources, enabled'[s]
      PROVE  route'[s] # 0 /\ Active(route[s])' /\ ~endpoint'[route'[s]].admin
  <2>1. route[s] \in Slots /\ route[s] # 0 /\ Active(route[s]) /\ ~endpoint[route[s]].admin
    BY <1>1 DEF MaskInv, Typed
  <2> QED BY <2>1 DEF Active, Alike
<1>2. ASSUME NEW f \in Slots, Active(f)'
      PROVE  /\ Consistent(endpoint'[f])
             /\ endpoint'[f].state = "armed" /\ ~endpoint'[f].masked =>
                  enabled'[endpoint'[f].source] \/ Awaits(endpoint[f].source)'
  <2>1. Active(f) /\ Alike(endpoint'[f], endpoint[f])
    BY <1>2
  <2>2. Consistent(endpoint[f])
    BY <2>1, ConsistentSlots
  <2>3. Awaits(endpoint[f].source) => Awaits(endpoint[f].source)'
    BY <2>1 DEF Awaits, Waiting, Alike
  <2>4. endpoint[f].state = "armed" /\ ~endpoint[f].masked =>
          enabled[endpoint[f].source] \/ Awaits(endpoint[f].source)
    BY <2>1 DEF MaskInv
  <2> QED BY <2>1, <2>2, <2>3, <2>4 DEF Alike, Consistent
<1> QED BY <1>1, <1>2 DEF MaskInv, Consistent

(* A step that leaves the ring alone and forgets nothing leaves it right,  *)
(* if the worker comes to look at a source that can interrupt again.       *)
LEMMA RingKeep ==
  ASSUME RingInv, UNCHANGED <<ring, dispatching>>,
         kernel.pending \cup kernel.serving \subseteq kernel'.pending \cup kernel'.serving,
         dispatching # "no" =>
           kernel'.cpu = kernel.cpu /\ kernel'.serving = kernel.serving /\ kernel'.served = kernel.served,
         kernel.cpu = "worker" => kernel'.cpu = "worker" \/ ring = <<>>,
         \A s \in Sources : enabled'[s] =>
           enabled[s] \/ (kernel.cpu # "worker" /\ (kernel'.cpu = "worker" \/ ring = <<>>)),
         ring \in Seq(Sources)
  PROVE  RingInv'
<1>1. Waiting' = Waiting
  BY DEF Waiting
<1>2. \A i \in Waiting : ring[i] \in Sources /\ ring # <<>>
  BY DEF Waiting
<1>3. /\ ring' # <<>> => "irq" \in kernel'.pending \cup kernel'.serving
      /\ dispatching' # "no" =>
           /\ kernel'.cpu = "worker" /\ kernel'.serving = {"irq"}
           /\ kernel'.served < Batch /\ ring' # <<>>
  BY DEF RingInv
<1>4. \A i \in Waiting : enabled'[ring[i]] => kernel'.cpu = "worker"
  BY <1>2 DEF RingInv
<1>5. ASSUME NEW i \in Waiting, NEW j \in Waiting, i < j, ring[i] = ring[j]
      PROVE  kernel'.cpu = "worker" /\ ~enabled'[ring[i]]
  BY <1>2, <1>5 DEF RingInv
<1>6. \A i, j, l \in Waiting : i < j /\ j < l => ~(ring[i] = ring[j] /\ ring[j] = ring[l])
  BY DEF RingInv
<1> QED BY <1>1, <1>3, <1>4, <1>5, <1>6 DEF RingInv

(* Waits only end, and the endpoints waited for stay as the waiters found  *)
(* them.                                                                   *)
LEMMA WaitKeep ==
  ASSUME WaitInv, Typed, kernel' \in Kernels,
         \A t \in Threads : kernel'.waits[t] # 0 =>
           LET e == kernel.waits[t] IN
           /\ kernel'.waits[t] = e
           /\ e \in Slots /\ Active(e) => endpoint'[e].state \in {"masked", "armed", "pending"}
           /\ endpoint'[e].owner = endpoint[e].owner
           /\ endpoint[e].records = 0 => endpoint'[e].records = 0
  PROVE  WaitInv'
<1> SUFFICES ASSUME NEW t \in Threads, kernel'.waits[t] # 0
             PROVE  /\ endpoint'[kernel'.waits[t]].state \in {"masked", "armed", "pending"}
                    /\ endpoint'[kernel'.waits[t]].owner = t
                    /\ endpoint'[kernel'.waits[t]].records = 0
  BY DEF WaitInv, Active
<1>1. kernel.waits[t] \in Slots
  BY DEF Typed, Kernels
<1> QED BY <1>1 DEF WaitInv

(* How a call leaves the worker and the ring. *)
LEMMA CallSafe ==
  ASSUME Safe, kernel.cpu = "kernel", NEW k, Turned(kernel, k), Return(k) \/ Leave(k),
         UNCHANGED <<ring, dispatching>>
  PROVE  Sound(kernel') /\ WorkInv' /\ RingInv' /\ kernel'.waits = k.waits /\ dispatching = "no"
<1>1. Sound(k) /\ k.cpu = "kernel" /\ k.serving = {} /\ kernel.serving = {}
  BY TurnedSound DEF Safe, Turned, Sound
<1>2. /\ Moves(k, kernel') /\ (k.pending # {} => kernel'.cpu = "worker")
      /\ Unquiesced(endpoint') # {} \/ Exiting(k) => "reap" \in kernel'.serving
  BY <1>1, ReturnMoves
<1>3. Sound(kernel') /\ kernel'.waits = k.waits
  BY <1>2 DEF Moves
<1>4. WorkInv'
  BY <1>2 DEF WorkInv, Moves, Recorded
<1>5. RingInv'
  <2>1. RingInv /\ ring \in Seq(Sources) /\ kernel.cpu # "worker"
    BY DEF Safe, Typed
  <2>2. ring # <<>> => kernel.pending # {}
    BY <2>1, <1>1 DEF RingInv
  <2>3. dispatching = "no"
    BY <2>1 DEF RingInv
  <2>4. kernel.pending \cup kernel.serving \subseteq kernel'.pending \cup kernel'.serving
    BY <1>2 DEF Moves, Turned
  <2>5. kernel.pending # {} => kernel'.cpu = "worker"
    BY <1>2 DEF Turned
  <2> QED BY <2>1, <2>2, <2>3, <2>4, <2>5, RingKeep
<1>6. dispatching = "no"
  BY DEF Safe, RingInv
<1> QED BY <1>3, <1>4, <1>5, <1>6

(* A fault, which disables sources at most: the worker, the work and the   *)
(* ring.                                                                   *)
LEMMA FaultSafe ==
  ASSUME Safe, kernel.cpu = "fault", NEW k, Turned(kernel, k),
         NEW n \in {k} \cup NextThread(k), kernel' \in FaultExit(n, endpoint'),
         UNCHANGED <<ring, dispatching>>, \A s \in Sources : enabled'[s] => enabled[s]
  PROVE  Sound(kernel') /\ WorkInv' /\ RingInv' /\ kernel'.waits = k.waits /\ dispatching = "no"
<1>1. Sound(k) /\ k.cpu = "fault" /\ kernel.serving = {}
  BY TurnedSound DEF Safe, Turned, Sound
<1>2. Moves(k, n) /\ Sound(n) /\ n.cpu = "fault"
  <2>1. CASE n = k
    BY <2>1, <1>1 DEF Moves
  <2>2. CASE n \in NextThread(k)
    <3>1. Scheduled(k, n)
      BY <2>2, <1>1, NextThreadScheduled DEF Sound
    <3> QED BY <3>1, <1>1, ScheduledMoves DEF Scheduled, Moves
  <2> QED BY <2>1, <2>2
<1>3. /\ Moves(n, kernel')
      /\ Unquiesced(endpoint') # {} \/ Exiting(n) => "reap" \in kernel'.serving
  BY <1>2, FaultExitMoves
<1>4. Moves(k, kernel')
  BY <1>2, <1>3, MovesOn
<1>5. Sound(kernel') /\ kernel'.waits = k.waits
  BY <1>4 DEF Moves
<1>6. WorkInv'
  BY <1>3 DEF WorkInv, Moves, Recorded
<1>7. RingInv'
  <2>1. RingInv /\ ring \in Seq(Sources) /\ kernel.cpu # "worker"
    BY DEF Safe, Typed
  <2>2. dispatching = "no"
    BY <2>1 DEF RingInv
  <2>3. kernel.pending \cup kernel.serving \subseteq kernel'.pending \cup kernel'.serving
    BY <1>4 DEF Moves, Turned
  <2> QED BY <2>1, <2>2, <2>3, RingKeep
<1>8. dispatching = "no"
  BY DEF Safe, RingInv
<1> QED BY <1>5, <1>6, <1>7, <1>8

-----------------------------------------------------------------------------
(* The calls, one by one. *)

(* A call that leaves endpoint e, which is in use, in use. *)
LEMMA OneEndpoint ==
  ASSUME Safe, kernel.cpu = "kernel", Return(kernel),
         UNCHANGED <<ring, dispatching, route, failures, deferrals>>,
         NEW e \in Slots, Active(e), NEW r \in Endpoints, NEW b \in BOOLEAN,
         endpoint' = [endpoint EXCEPT ![e] = r],
         enabled' = [enabled EXCEPT ![endpoint[e].source] = b],
         device' \in [Sources -> {"quiet", "work", "noise"}],
         r.source = endpoint[e].source, r.owner = endpoint[e].owner,
         r.quiesced = endpoint[e].quiesced,
         Endpoint(r), Consistent(r),
         b => ~r.admin, r.state = "armed" /\ ~r.masked => b,
         endpoint[e].records = 0 => r.records = 0
  PROVE  Safe'
<1>1. /\ Sound(kernel') /\ WorkInv' /\ RingInv' /\ kernel'.waits = kernel.waits
      /\ dispatching = "no"
  BY CallSafe DEF Turned, Safe, Sound
<1>2. Typed /\ RouteInv /\ MaskInv /\ WaitInv /\ endpoint'[e] = r
      /\ \A f \in Slots : f # e => endpoint'[f] = endpoint[f]
  BY DEF Safe, Typed
<1>3. ~endpoint[e].quiesced /\ Owns(e)
  BY <1>2 DEF RouteInv, Active, Owns
<1>4. Typed'
  BY <1>1, <1>2 DEF Typed, Sound, Endpoints
<1>5. RouteInv'
  <2>1. \A f \in Slots :
           /\ Owns(f)' <=> Owns(f)
           /\ Owns(f) => endpoint'[f].source = endpoint[f].source
           /\ endpoint'[f].quiesced =>
                /\ endpoint[f].quiesced /\ endpoint'[f].state = "revoking"
                /\ endpoint'[f].source = endpoint[f].source
           /\ endpoint'[f].held => endpoint'[f].state # "free"
    <3> TAKE f \in Slots
    <3>1. CASE f = e
      BY <3>1, <1>2, <1>3 DEF Owns, Active, Endpoint
    <3>2. CASE f # e
      BY <3>2, <1>2 DEF Owns, Active, RouteInv
    <3> QED BY <3>1, <3>2
  <2> QED BY <1>2, <2>1, RouteKeep
<1>6. MaskInv'
  BY <1>1, <1>2, <1>3, MaskCall DEF Consistent
<1>7. WaitInv'
  <2>1. kernel' \in Kernels
    BY <1>1 DEF Sound
  <2>2. ASSUME NEW t \in Threads, kernel'.waits[t] # 0
        PROVE LET f == kernel.waits[t] IN
           /\ kernel'.waits[t] = f
           /\ f \in Slots /\ Active(f) => endpoint'[f].state \in {"masked", "armed", "pending"}
           /\ endpoint'[f].owner = endpoint[f].owner
           /\ endpoint[f].records = 0 => endpoint'[f].records = 0
    <3>1. kernel.waits[t] \in Slots
      BY <1>1, <1>2, <2>2 DEF Typed, Kernels
    <3> QED BY <1>1, <1>2, <3>1 DEF Active, Endpoint
  <2> QED BY <1>2, <2>1, <2>2, WaitKeep
<1> QED BY <1>1, <1>4, <1>5, <1>6, <1>7 DEF Safe

(* A call or a fault that touches no endpoint.                             *)
LEMMA OtherStep ==
  ASSUME Safe, kernel.cpu \in {"kernel", "fault"}, NEW k, Turned(kernel, k),
         \/ kernel.cpu = "kernel" /\ (Return(k) \/ Leave(k))
         \/ kernel.cpu = "fault" /\ kernel' \in FaultExit(k, endpoint'),
         \A t \in Threads : k.waits[t] # 0 =>
           \/ k.waits[t] = kernel.waits[t]
           \/ /\ k.waits[t] \in Slots /\ Active(k.waits[t])
              /\ endpoint[k.waits[t]].owner = t /\ endpoint[k.waits[t]].records = 0,
         UNCHANGED <<enabled, device, endpoint>>, Rest
  PROVE  Safe'
<1>1. /\ Sound(kernel') /\ WorkInv' /\ RingInv' /\ kernel'.waits = k.waits
      /\ dispatching = "no"
  BY CallSafe, FaultSafe DEF Rest
<1>2. Typed /\ RouteInv /\ MaskInv /\ WaitInv
  BY DEF Safe
<1>3. Typed'
  BY <1>1, <1>2 DEF Typed, Sound, Rest
<1>4. RouteInv'
  BY <1>2 DEF RouteInv, Owns, Active, Rest
<1>5. MaskInv'
  BY <1>1, <1>2 DEF MaskInv, Active, Awaits, Waiting, Rest
<1>6. WaitInv'
  BY <1>1, <1>2 DEF WaitInv, Active
<1> QED BY <1>1, <1>3, <1>4, <1>5, <1>6 DEF Safe

(* A call that may give the turn away.                                     *)
LEMMA OtherCallSafe ==
  ASSUME Safe, NEW t \in Threads, OtherCall(t) PROVE Safe'
<1>1. Turned(kernel, kernel)
  BY DEF Turned, Safe, Sound
<1> QED BY <1>1, OtherStep DEF OtherCall, Calling

(* A call that puts the caller to sleep.                                   *)
LEMMA SleepSafe ==
  ASSUME Safe, NEW t \in Threads, Sleep(t) PROVE Safe'
<1>1. Turned(kernel, Stops(kernel, t, "asleep")) /\ Stops(kernel, t, "asleep").waits = kernel.waits
  BY StopsTurned DEF States, Safe, Sound
<1> QED BY <1>1, OtherStep DEF Sleep, Calling

(* A fault that grows the stack.                                           *)
LEMMA GrowSafe ==
  ASSUME Safe, NEW t \in Threads, Grow(t) PROVE Safe'
<1>1. Turned(kernel, kernel)
  BY DEF Turned, Safe, Sound
<1> QED BY <1>1, OtherStep DEF Grow, Faulting

(* kernel_irq_wait sleeps only while the endpoint has nothing captured and *)
(* is in use.                                                              *)
LEMMA WaitForSafe ==
  ASSUME Safe, NEW t \in Threads, NEW e \in Slots, WaitFor(t, e) PROVE Safe'
<1> DEFINE k == StopsFor(kernel, t, "waiting", e)
<1>1. Turned(kernel, k) /\ \A u \in Threads : k.waits[u] = kernel.waits[u] \/ (u = t /\ k.waits[u] = e)
  <2>1. kernel \in Kernels /\ "waiting" \in States /\ e \in Slots \cup {0}
    BY DEF States, Safe, Sound
  <2> QED BY <2>1, WaitsTurned
<1>2. kernel.cpu = "kernel" /\ Leave(k) /\ UNCHANGED <<enabled, device, endpoint>> /\ Rest
      /\ Active(e) /\ endpoint[e].owner = t /\ endpoint[e].records = 0
  BY DEF WaitFor, Calling, Holds, Quiet, StopsFor
<1> HIDE DEF k
<1>3. \A u \in Threads : k.waits[u] # 0 =>
        \/ k.waits[u] = kernel.waits[u]
        \/ /\ k.waits[u] \in Slots /\ Active(k.waits[u])
           /\ endpoint[k.waits[u]].owner = u /\ endpoint[k.waits[u]].records = 0
  BY <1>1, <1>2
<1> QED BY <1>1, <1>2, <1>3, OtherStep

(* kernel_irq_arm: an endpoint without records or events gets its source   *)
(* enabled.                                                                *)
LEMMA ArmSafe ==
  ASSUME Safe, NEW t \in Threads, NEW e \in Slots, Arm(t, e) PROVE Safe'
<1> DEFINE r == [endpoint[e] EXCEPT !.masked = FALSE, !.admin = FALSE, !.state = "armed"]
           q == endpoint[e]
<1>1. /\ kernel.cpu = "kernel" /\ Return(kernel) /\ Rest /\ device' = device
      /\ q.state = "masked" /\ q.records = 0 /\ q.events = {}
      /\ enabled' = [enabled EXCEPT ![q.source] = TRUE]
  BY DEF Arm, Calling
<1>2. q \in Endpoints /\ device \in [Sources -> {"quiet", "work", "noise"}]
  BY DEF Safe, Typed
<1>3. endpoint' = [endpoint EXCEPT ![e] = r]
  BY DEF Arm, Safe, Typed
<1>4. r \in Endpoints
  BY <1>2 DEF Endpoints
<1>5. r.source = q.source /\ r.owner = q.owner /\ r.quiesced = q.quiesced
  BY <1>2 DEF Endpoints
<1>6. r.state = "armed" /\ ~r.masked /\ ~r.admin /\ r.records = q.records /\ r.events = q.events
  BY <1>2 DEF Endpoints
<1> HIDE DEF r
<1>7. Endpoint(r) /\ Consistent(r) /\ Active(e)
  BY <1>1, <1>6 DEF Endpoint, Consistent, Active
<1> QED BY <1>1, <1>2, <1>3, <1>4, <1>5, <1>6, <1>7, OneEndpoint DEF Rest

(* kernel_irq_recover: the events are gone; the endpoint is armed, masked  *)
(* or pending as what it still holds says.                                 *)
LEMMA RecoverSafe ==
  ASSUME Safe, NEW t \in Threads, NEW e \in Slots, Recover(t, e) PROVE Safe'
<1> DEFINE q == endpoint[e]
           a == [q EXCEPT !.events = {}, !.noise = 0]
           r == [a EXCEPT !.masked = FALSE, !.admin = FALSE, !.state = "armed"]
<1>1. /\ kernel.cpu = "kernel" /\ Return(kernel) /\ Rest /\ device' = device
      /\ Active(e) /\ q.records = 0
      /\ enabled' = [enabled EXCEPT ![q.source] = TRUE]
  BY DEF Recover, Calling
<1>2. q \in Endpoints /\ device \in [Sources -> {"quiet", "work", "noise"}]
      /\ 0 \in 0 .. StormBudget
  BY InterruptsAssumption DEF Safe, Typed
<1>3. endpoint' = [endpoint EXCEPT ![e] = r]
  BY DEF Recover, Safe, Typed
<1>4. a \in Endpoints
  BY <1>2 DEF Endpoints
<1>5. a.source = q.source /\ a.owner = q.owner /\ a.quiesced = q.quiesced /\ a.records = q.records
  BY <1>2 DEF Endpoints
<1>6. a.events = {}
  BY <1>2 DEF Endpoints
<1> HIDE DEF a
<1>7. r \in Endpoints
  BY <1>4 DEF Endpoints
<1>8. r.source = a.source /\ r.owner = a.owner /\ r.quiesced = a.quiesced /\ r.records = a.records
  BY <1>4 DEF Endpoints
<1>9. r.state = "armed" /\ ~r.masked /\ ~r.admin /\ r.events = a.events
  BY <1>4 DEF Endpoints
<1> HIDE DEF r
<1>10. Endpoint(r) /\ Consistent(r)
  BY <1>1, <1>5, <1>6, <1>8, <1>9 DEF Endpoint, Consistent
<1> QED BY <1>1, <1>2, <1>3, <1>5, <1>7, <1>8, <1>9, <1>10, OneEndpoint DEF Rest

(* kernel_irq_mask: the source is disabled with it.                        *)
LEMMA MaskSafe ==
  ASSUME Safe, NEW t \in Threads, NEW e \in Slots, Mask(t, e) PROVE Safe'
<1> DEFINE q == endpoint[e]
           state == IF q.records = 0 THEN "masked" ELSE "pending"
           r == [q EXCEPT !.masked = TRUE, !.admin = TRUE, !.state = state]
<1>1. /\ kernel.cpu = "kernel" /\ Return(kernel) /\ Rest /\ device' = device
      /\ Active(e) /\ enabled' = [enabled EXCEPT ![q.source] = FALSE]
  BY DEF Mask, Calling
<1>2. q \in Endpoints /\ device \in [Sources -> {"quiet", "work", "noise"}]
  BY DEF Safe, Typed
<1>3. endpoint' = [endpoint EXCEPT ![e] = r]
  BY DEF Mask, Safe, Typed
<1>4. IF q.records = 0 THEN state = "masked" ELSE state = "pending"
  OBVIOUS
<1>5. Consistent(q)
  BY <1>1, ConsistentSlots DEF Safe
<1> HIDE DEF state
<1>6. r \in Endpoints
  BY <1>2, <1>4 DEF Endpoints
<1>7. r.source = q.source /\ r.owner = q.owner /\ r.quiesced = q.quiesced
  BY <1>2 DEF Endpoints
<1>8. r.state = state /\ r.masked /\ r.admin /\ r.events = q.events /\ r.records = q.records
  BY <1>2 DEF Endpoints
<1> HIDE DEF r
<1>9. Endpoint(r) /\ Consistent(r)
  BY <1>4, <1>5, <1>8 DEF Endpoint, Consistent
<1> QED BY <1>1, <1>2, <1>3, <1>6, <1>7, <1>8, <1>9, OneEndpoint DEF Rest

(* The endpoint after its record was acknowledged: armed again if nothing  *)
(* keeps it.                                                               *)
LEMMA AckFields ==
  ASSUME NEW q \in Endpoints, q.records = 1, Consistent(q), Endpoint(q)
  PROVE  LET r == Acknowledged(q) IN
         /\ r \in Endpoints /\ r.source = q.source /\ r.owner = q.owner
         /\ r.quiesced = q.quiesced /\ r.admin = q.admin
         /\ Endpoint(r) /\ Consistent(r) /\ (r.state = "armed" => ~r.admin)
<1> DEFINE left == [q EXCEPT !.records = q.records - 1, !.noise = 0]
           r == Acknowledged(q)
<1>1. 0 \in 0 .. StormBudget /\ q.records - 1 = 0 /\ 0 \in 0 .. RecordDepth
  BY InterruptsAssumption
<1>2. left = [q EXCEPT !.records = 0, !.noise = 0]
  BY <1>1
<1>3. left \in Endpoints /\ left.records = 0
  BY <1>1, <1>2 DEF Endpoints
<1>4. /\ left.source = q.source /\ left.owner = q.owner /\ left.quiesced = q.quiesced
      /\ left.admin = q.admin /\ left.events = q.events
  BY <1>2 DEF Endpoints
<1>5. r = IF left.records # 0 THEN [left EXCEPT !.state = "pending"]
          ELSE IF left.events # {} THEN [left EXCEPT !.state = "masked", !.masked = TRUE]
          ELSE IF left.admin THEN [left EXCEPT !.state = "masked"]
          ELSE [left EXCEPT !.state = "armed", !.masked = FALSE]
  BY DEF Acknowledged
<1>a. left.masked
  <2>1. left.masked = q.masked
    BY <1>2 DEF Endpoints
  <2> QED BY <2>1 DEF Consistent
<1> HIDE DEF left
<1>6. CASE left.events # {}
  <2>1. r = [left EXCEPT !.state = "masked", !.masked = TRUE]
    BY <1>3, <1>5, <1>6
  <2> HIDE DEF r
  <2>2. r \in Endpoints /\ r.records = 0 /\ r.state = "masked" /\ r.masked
    BY <1>3, <2>1 DEF Endpoints
  <2>3. r.source = left.source /\ r.owner = left.owner /\ r.quiesced = left.quiesced
        /\ r.admin = left.admin /\ r.events = left.events
    BY <1>3, <2>1 DEF Endpoints
  <2> QED BY <1>4, <1>6, <2>2, <2>3 DEF r, Endpoint, Consistent
<1>7. CASE left.events = {} /\ left.admin
  <2>1. r = [left EXCEPT !.state = "masked"]
    BY <1>3, <1>5, <1>7
  <2> HIDE DEF r
  <2>2. r \in Endpoints /\ r.records = 0 /\ r.state = "masked" /\ r.masked
    BY <1>3, <1>a, <2>1 DEF Endpoints
  <2>3. r.source = left.source /\ r.owner = left.owner /\ r.quiesced = left.quiesced
        /\ r.admin = left.admin /\ r.events = left.events
    BY <1>3, <2>1 DEF Endpoints
  <2> QED BY <1>4, <1>7, <2>2, <2>3 DEF r, Endpoint, Consistent
<1>8. CASE left.events = {} /\ ~left.admin
  <2>1. r = [left EXCEPT !.state = "armed", !.masked = FALSE]
    BY <1>3, <1>5, <1>8
  <2> HIDE DEF r
  <2>2. r \in Endpoints /\ r.records = 0 /\ r.state = "armed" /\ ~r.masked
    BY <1>3, <2>1 DEF Endpoints
  <2>3. r.source = left.source /\ r.owner = left.owner /\ r.quiesced = left.quiesced
        /\ r.admin = left.admin /\ r.events = left.events
    BY <1>3, <2>1 DEF Endpoints
  <2> QED BY <1>4, <1>8, <2>2, <2>3 DEF r, Endpoint, Consistent
<1> QED BY <1>6, <1>7, <1>8 DEF r

(* kernel_irq_ack enables the source exactly if it arms the endpoint.      *)
LEMMA AckSafe ==
  ASSUME Safe, NEW t \in Threads, NEW e \in Slots, Ack(t, e) PROVE Safe'
<1> DEFINE q == endpoint[e]
           r == Acknowledged(q)
           b == enabled[q.source] \/ r.state = "armed"
<1>1. /\ kernel.cpu = "kernel" /\ Return(kernel) /\ Rest /\ Active(e) /\ q.records # 0
      /\ device' = [device EXCEPT ![q.source] = "quiet"]
      /\ endpoint' = [endpoint EXCEPT ![e] = r]
      /\ enabled' = [enabled EXCEPT ![q.source] = b]
  BY DEF Ack, Calling
<1>2. q \in Endpoints /\ device' \in [Sources -> {"quiet", "work", "noise"}]
      /\ q.source \in Sources /\ enabled[q.source] \in BOOLEAN
  BY <1>1 DEF Safe, Typed, Endpoints
<1>3. Consistent(q) /\ Endpoint(q)
  BY <1>1, ConsistentSlots DEF Safe, Active, Endpoint
<1>4. q.records = 1
  BY <1>1, <1>2, <1>3 DEF Consistent, Endpoints
<1>5. /\ r \in Endpoints /\ r.source = q.source /\ r.owner = q.owner
      /\ r.quiesced = q.quiesced /\ r.admin = q.admin
      /\ Endpoint(r) /\ Consistent(r) /\ (r.state = "armed" => ~r.admin)
  BY <1>2, <1>3, <1>4, AckFields
<1>6. enabled[q.source] => ~q.admin
  <2>1. route[q.source] = e
    BY <1>1 DEF Safe, RouteInv, Owns
  <2> QED BY <2>1, <1>2 DEF Safe, MaskInv
<1>7. b \in BOOLEAN /\ (b => ~r.admin) /\ (r.state = "armed" /\ ~r.masked => b)
  BY <1>2, <1>5, <1>6
<1> HIDE DEF r, b
<1> QED BY <1>1, <1>2, <1>4, <1>5, <1>7, OneEndpoint DEF Rest

(* Endpoints that a call takes out of use, or that are out of use. *)
LEMMA RevokedFields ==
  ASSUME NEW q \in Endpoints
  PROVE  /\ Revoked(q) \in Endpoints /\ Revoked(q).state = "revoking"
         /\ Revoked(q).source = q.source /\ Revoked(q).quiesced = q.quiesced
         /\ Revoked(q).records = 0 /\ Revoked(q).held = q.held
<1>1. 0 \in 0 .. RecordDepth
  BY InterruptsAssumption
<1>2. Revoked(q) \in Endpoints
  BY <1>1 DEF Revoked, Endpoints
<1>3. Revoked(q).state = "revoking" /\ Revoked(q).source = q.source /\ Revoked(q).records = 0
  BY DEF Revoked, Endpoints
<1>4. Revoked(q).quiesced = q.quiesced /\ Revoked(q).held = q.held
  BY DEF Revoked, Endpoints
<1> QED BY <1>2, <1>3, <1>4

(* A free endpoint is held by nobody and has captured nothing.             *)
LEMMA FreeFields ==
  /\ FreeEndpoint \in Endpoints /\ FreeEndpoint.state = "free" /\ FreeEndpoint.records = 0
  /\ ~FreeEndpoint.quiesced /\ ~FreeEndpoint.held
<1>1. 0 \in 0 .. RecordDepth /\ 0 \in 0 .. StormBudget /\ (CHOOSE s \in Sources : TRUE) \in Sources
  BY InterruptsAssumption
<1> QED BY <1>1 DEF FreeEndpoint, Endpoints

(* Giving up the handle: the endpoint is free if it was quiet, and else as *)
(* it was.                                                                 *)
LEMMA ReleasedFields ==
  ASSUME NEW q \in Endpoints
  PROVE  /\ Released(q) \in Endpoints /\ ~Released(q).held
         /\ q.quiesced => Released(q) = FreeEndpoint
         /\ ~q.quiesced =>
              /\ Alike(Released(q), q) /\ ~Released(q).quiesced /\ Released(q).owner = q.owner
<1> DEFINE r == [q EXCEPT !.held = FALSE]
<1>1. CASE q.quiesced
  BY <1>1, FreeFields DEF Released
<1>2. CASE ~q.quiesced
  <2>1. Released(q) = r
    BY <1>2 DEF Released
  <2>2. r \in Endpoints /\ ~r.held /\ r.state = q.state /\ r.source = q.source
    BY DEF Endpoints
  <2>3. r.masked = q.masked /\ r.admin = q.admin /\ r.events = q.events
    BY DEF Endpoints
  <2>4. r.quiesced = q.quiesced /\ r.owner = q.owner /\ r.records = q.records
    BY DEF Endpoints
  <2> HIDE DEF r
  <2> QED BY <1>2, <2>1, <2>2, <2>3, <2>4 DEF Alike
<1> QED BY <1>1, <1>2

(* Endpoint e leaves use: its source is disabled and whoever waits wakes.  *)
LEMMA LeaveUse ==
  ASSUME Safe, kernel.cpu = "kernel", NEW e \in Slots, Return(Wake(kernel, {e})),
         UNCHANGED device, Rest, Active(e), NEW r \in Endpoints,
         endpoint' = [endpoint EXCEPT ![e] = r],
         enabled' = [enabled EXCEPT ![endpoint[e].source] = FALSE],
         r.state = "revoking", r.source = endpoint[e].source, ~r.quiesced, r.records = 0
  PROVE  Safe'
<1>1. Turned(kernel, Wake(kernel, {e})) /\ \A t \in Threads :
        Wake(kernel, {e}).waits[t] = (IF kernel.waits[t] \in {e} THEN 0 ELSE kernel.waits[t])
  BY WakeTurned DEF Safe, Sound
<1>2. /\ Sound(kernel') /\ WorkInv' /\ RingInv' /\ kernel'.waits = Wake(kernel, {e}).waits
      /\ dispatching = "no"
  BY <1>1, CallSafe DEF Rest
<1>3. Typed /\ RouteInv /\ MaskInv /\ WaitInv /\ endpoint'[e] = r
      /\ \A f \in Slots : f # e => endpoint'[f] = endpoint[f]
  BY DEF Safe, Typed
<1>4. ~endpoint[e].quiesced /\ Owns(e)
  BY <1>3 DEF RouteInv, Active, Owns
<1>5. Typed'
  BY <1>2, <1>3 DEF Typed, Sound, Endpoints, Rest
<1>6. RouteInv'
  <2>1. \A f \in Slots :
           /\ Owns(f)' <=> Owns(f)
           /\ Owns(f) => endpoint'[f].source = endpoint[f].source
           /\ endpoint'[f].quiesced =>
                /\ endpoint[f].quiesced /\ endpoint'[f].state = "revoking"
                /\ endpoint'[f].source = endpoint[f].source
           /\ endpoint'[f].held => endpoint'[f].state # "free"
    <3> TAKE f \in Slots
    <3>1. CASE f = e
      BY <3>1, <1>3, <1>4 DEF Owns, Active
    <3>2. CASE f # e
      BY <3>2, <1>3 DEF Owns, Active, RouteInv
    <3> QED BY <3>1, <3>2
  <2>2. route' = route
    BY DEF Rest
  <2> QED BY <1>3, <2>1, <2>2, RouteKeep
<1>7. MaskInv'
  <2> DEFINE b == FALSE
  <2>1. enabled' = [enabled EXCEPT ![endpoint[e].source] = b] /\ b \in BOOLEAN /\ ~b
    OBVIOUS
  <2>2. ~Endpoint(r) /\ r.state # "armed" /\ r.records <= 1
    BY DEF Endpoint
  <2>3. UNCHANGED <<ring, dispatching, route>>
    BY DEF Rest
  <2> HIDE DEF b
  <2> QED BY <1>2, <1>3, <1>4, <2>1, <2>2, <2>3, MaskCall
<1>8. WaitInv'
  <2>1. kernel' \in Kernels
    BY <1>2 DEF Sound
  <2>2. ASSUME NEW t \in Threads, kernel'.waits[t] # 0
        PROVE LET f == kernel.waits[t] IN
           /\ kernel'.waits[t] = f
           /\ f \in Slots /\ Active(f) => endpoint'[f].state \in {"masked", "armed", "pending"}
           /\ endpoint'[f].owner = endpoint[f].owner
           /\ endpoint[f].records = 0 => endpoint'[f].records = 0
    <3>1. kernel.waits[t] # e /\ kernel'.waits[t] = kernel.waits[t]
      BY <1>1, <1>2, <2>2
    <3>2. kernel.waits[t] \in Slots
      BY <1>3, <2>2, <3>1 DEF Typed, Kernels
    <3> QED BY <1>3, <3>1, <3>2 DEF Active
  <2> QED BY <1>3, <2>1, <2>2, WaitKeep
<1> QED BY <1>2, <1>5, <1>6, <1>7, <1>8 DEF Safe

(* kernel_irq_revoke: whoever waits is woken, and the source disabled.     *)
LEMMA RevokeSafe ==
  ASSUME Safe, NEW t \in Threads, NEW e \in Slots, Revoke(t, e) PROVE Safe'
<1>1. /\ kernel.cpu = "kernel" /\ Return(Wake(kernel, {e})) /\ Rest /\ device' = device
      /\ Active(e) /\ endpoint' = [endpoint EXCEPT ![e] = Revoked(endpoint[e])]
      /\ enabled' = [enabled EXCEPT ![endpoint[e].source] = FALSE]
  BY DEF Revoke, Calling
<1>2. endpoint[e] \in Endpoints /\ ~endpoint[e].quiesced
  BY <1>1 DEF Safe, Typed, RouteInv, Active
<1> QED BY <1>1, <1>2, RevokedFields, LeaveUse

(* kernel_handle_close: the last handle frees a quiesced endpoint; one in  *)
(* use is revoked first. No source is bound twice, so the release finds no *)
(* other endpoint at it.                                                   *)
LEMMA CloseSafe ==
  ASSUME Safe, ~BindsAgain, NEW t \in Threads, NEW e \in Slots, Close(t, e) PROVE Safe'
<1> DEFINE q == endpoint[e]
<1>1. /\ kernel.cpu = "kernel" /\ Rest /\ device' = device /\ q.held
      /\ Active(e) => /\ endpoint' = [endpoint EXCEPT ![e] = Released(Revoked(q))]
                      /\ enabled' = [enabled EXCEPT ![q.source] = FALSE]
      /\ ~Active(e) => endpoint' = [endpoint EXCEPT ![e] = Released(q)] /\ enabled' = enabled
  BY DEF Close, Calling, Holds
<1>2. q \in Endpoints /\ (Active(e) => ~q.quiesced) /\ q.state # "free"
  BY <1>1 DEF Safe, Typed, RouteInv, Active
<1>3. ~Clash(e)
  <2>1. q.quiesced => route[q.source] = 0
    BY DEF Safe, RouteInv
  <2> QED BY <2>1 DEF Clash
<1>4. Return(Wake(kernel, {e}))
  BY <1>3 DEF Close
<1>5. CASE Active(e)
  <2>1. /\ Revoked(q) \in Endpoints /\ Revoked(q).state = "revoking" /\ Revoked(q).records = 0
        /\ Revoked(q).source = q.source /\ ~Revoked(q).quiesced
    BY <1>2, <1>5, RevokedFields
  <2>2. /\ Released(Revoked(q)) \in Endpoints /\ ~Released(Revoked(q)).quiesced
        /\ Alike(Released(Revoked(q)), Revoked(q))
    BY <2>1, ReleasedFields
  <2> QED BY <1>1, <1>4, <1>5, <2>1, <2>2, LeaveUse DEF Alike
<1>6. CASE ~Active(e)
  <2> DEFINE r == Released(q)
  <2>1. /\ r \in Endpoints /\ ~r.held
        /\ q.quiesced => r = FreeEndpoint
        /\ ~q.quiesced => Alike(r, q) /\ ~r.quiesced
    BY <1>2, ReleasedFields
  <2> HIDE DEF r
  <2>2. Typed /\ RouteInv /\ MaskInv /\ WaitInv /\ endpoint'[e] = r
        /\ \A f \in Slots : f # e => endpoint'[f] = endpoint[f]
    BY <1>1, <1>6 DEF Safe, Typed, r
  <2>3. q.state = "revoking"
    BY <1>2, <1>6 DEF Active, Endpoints
  <2>4. Turned(kernel, Wake(kernel, {e})) /\ \A u \in Threads :
          Wake(kernel, {e}).waits[u] = (IF kernel.waits[u] \in {e} THEN 0 ELSE kernel.waits[u])
    BY WakeTurned DEF Safe, Sound
  <2>5. /\ Sound(kernel') /\ WorkInv' /\ RingInv' /\ kernel'.waits = Wake(kernel, {e}).waits
        /\ dispatching = "no"
    BY <1>1, <1>4, <2>4, CallSafe DEF Rest
  <2>6. Typed'
    <3>1. endpoint' \in [Slots -> Endpoints]
      BY <1>1, <1>6, <2>1, <2>2 DEF Typed, r
    <3> QED BY <1>1, <1>6, <2>2, <2>5, <3>1 DEF Typed, Sound, Rest
  <2>7. /\ r.records <= 1 /\ ~(r.state \in {"masked", "armed", "pending"}) /\ ~r.quiesced
        /\ r.state = "revoking" <=> ~q.quiesced
        /\ ~q.quiesced => r.source = q.source
    BY <2>1, <2>2, <2>3, FreeFields DEF Alike, MaskInv
  <2>8. RouteInv'
    <3>1. \A f \in Slots :
             /\ Owns(f)' <=> Owns(f)
             /\ Owns(f) => endpoint'[f].source = endpoint[f].source
             /\ endpoint'[f].quiesced =>
                  /\ endpoint[f].quiesced /\ endpoint'[f].state = "revoking"
                  /\ endpoint'[f].source = endpoint[f].source
             /\ endpoint'[f].held => endpoint'[f].state # "free"
      <4> TAKE f \in Slots
      <4>1. CASE f = e
        BY <4>1, <2>1, <2>2, <2>3, <2>7 DEF Owns, Active
      <4>2. CASE f # e
        BY <4>2, <2>2 DEF Owns, Active, RouteInv
      <4> QED BY <4>1, <4>2
    <3>2. route' = route
      BY <1>1 DEF Rest
    <3> QED BY <2>2, <3>1, <3>2, RouteKeep
  <2>9. MaskInv'
    <3>1. \A f \in Slots : /\ Active(f)' => Active(f)
                           /\ Active(f) => Alike(endpoint'[f], endpoint[f])
                           /\ endpoint'[f].records <= 1
      <4> TAKE f \in Slots
      <4>1. CASE f = e
        BY <4>1, <1>6, <2>2, <2>7 DEF Active
      <4>2. CASE f # e
        BY <4>2, <2>2 DEF Active, Alike, MaskInv
      <4> QED BY <4>1, <4>2
    <3>2. UNCHANGED <<ring, dispatching, route, enabled>>
      BY <1>1, <1>6 DEF Rest
    <3> QED BY <2>2, <2>5, <3>1, <3>2, MaskKeep
  <2>10. WaitInv'
    <3>1. kernel' \in Kernels
      BY <2>5 DEF Sound
    <3>2. ASSUME NEW u \in Threads, kernel'.waits[u] # 0
          PROVE LET f == kernel.waits[u] IN
             /\ kernel'.waits[u] = f
             /\ f \in Slots /\ Active(f) => endpoint'[f].state \in {"masked", "armed", "pending"}
             /\ endpoint'[f].owner = endpoint[f].owner
             /\ endpoint[f].records = 0 => endpoint'[f].records = 0
      <4>1. kernel.waits[u] # e /\ kernel'.waits[u] = kernel.waits[u]
        BY <2>4, <2>5, <3>2
      <4>2. kernel.waits[u] \in Slots
        BY <2>2, <3>2, <4>1 DEF Typed, Kernels
      <4> QED BY <2>2, <4>1, <4>2 DEF Active
    <3> QED BY <2>2, <3>1, <3>2, WaitKeep
  <2> QED BY <2>5, <2>6, <2>8, <2>9, <2>10 DEF Safe
<1> QED BY <1>5, <1>6

(* An endpoint as kernel_process_grant_irq makes it.                       *)
LEMMA BoundFields ==
  ASSUME NEW s \in Sources, NEW t \in Threads
  PROVE  /\ Bound(s, t) \in Endpoints /\ Bound(s, t).state = "masked" /\ Bound(s, t).source = s
         /\ Bound(s, t).owner = t /\ Bound(s, t).held /\ Bound(s, t).masked /\ Bound(s, t).admin
         /\ Bound(s, t).events = {} /\ Bound(s, t).records = 0 /\ ~Bound(s, t).quiesced
<1> DEFINE a == [FreeEndpoint EXCEPT !.state = "masked", !.owner = t, !.source = s]
           b == [a EXCEPT !.held = TRUE, !.masked = TRUE, !.admin = TRUE]
<1>1. Bound(s, t) = b
  BY DEF Bound
<1>2. FreeEndpoint \in Endpoints /\ FreeEndpoint.events = {} /\ FreeEndpoint.records = 0
      /\ ~FreeEndpoint.quiesced
  BY FreeFields DEF FreeEndpoint
<1>3. a \in Endpoints /\ a.state = "masked" /\ a.source = s /\ a.owner = t
  BY <1>2 DEF Endpoints
<1>4. a.events = FreeEndpoint.events /\ a.records = FreeEndpoint.records
      /\ a.quiesced = FreeEndpoint.quiesced
  BY <1>2 DEF Endpoints
<1> HIDE DEF a
<1>5. b \in Endpoints /\ b.held /\ b.masked /\ b.admin
  BY <1>3 DEF Endpoints
<1>6. b.state = a.state /\ b.source = a.source /\ b.owner = a.owner
  BY <1>3 DEF Endpoints
<1>7. b.events = a.events /\ b.records = a.records /\ b.quiesced = a.quiesced
  BY <1>3 DEF Endpoints
<1> HIDE DEF b
<1> QED BY <1>1, <1>2, <1>3, <1>4, <1>5, <1>6, <1>7

(* kernel_process_grant_irq takes a free endpoint for a source that has    *)
(* none and that no revoked endpoint still names.                          *)
LEMMA BindSafe ==
  ASSUME Safe, ~BindsAgain, NEW t \in Threads, NEW s \in Sources, Bind(t, s) PROVE Safe'
<1> DEFINE r == Bound(s, t)
<1>1. PICK e \in Slots :
        /\ endpoint[e].state = "free" /\ endpoint' = [endpoint EXCEPT ![e] = r]
        /\ route' = [route EXCEPT ![s] = e]
  BY DEF Bind
<1>2. /\ kernel.cpu = "kernel" /\ Return(kernel) /\ route[s] = 0
      /\ \A f \in Slots : endpoint[f].state = "revoking" => endpoint[f].source # s
      /\ enabled' = [enabled EXCEPT ![s] = FALSE]
      /\ UNCHANGED <<ring, dispatching, device, failures, deferrals>>
  BY DEF Bind, Calling
<1>3. /\ r \in Endpoints /\ r.state = "masked" /\ r.source = s
      /\ r.owner = t /\ r.held /\ r.masked /\ r.admin
      /\ r.events = {} /\ r.records = 0 /\ ~r.quiesced
  BY BoundFields
<1> HIDE DEF r
<1>4. /\ Typed /\ RouteInv /\ MaskInv /\ WaitInv /\ endpoint'[e] = r
      /\ \A f \in Slots : f # e => endpoint'[f] = endpoint[f]
      /\ e # 0 /\ route'[s] = e /\ ~enabled'[s]
      /\ \A z \in Sources : z # s => route'[z] = route[z] /\ enabled'[z] = enabled[z]
  BY <1>1, <1>2, InterruptsAssumption DEF Safe, Typed
<1>5. /\ Sound(kernel') /\ WorkInv' /\ RingInv' /\ kernel'.waits = kernel.waits
      /\ dispatching = "no"
  <2>1. Turned(kernel, kernel)
    BY DEF Turned, Safe, Sound
  <2> QED BY <1>2, <2>1, CallSafe
<1>6. Typed'
  BY <1>1, <1>2, <1>3, <1>4, <1>5 DEF Typed, Sound
<1>7. \A z \in Sources : z # s /\ route[z] # 0 => route[z] # e
  BY <1>1, <1>4 DEF RouteInv, Owns, Active
<1>8. RouteInv'
  <2>1. ASSUME NEW f \in Slots, Owns(f)' PROVE route'[endpoint'[f].source] = f
    <3>1. CASE f = e
      BY <3>1, <1>3, <1>4
    <3>2. CASE f # e
      <4>1. Owns(f) /\ endpoint'[f] = endpoint[f] /\ endpoint[f].source \in Sources /\ f # 0
        BY <2>1, <3>2, <1>4, InterruptsAssumption DEF Owns, Active, Typed, Endpoints
      <4>2. route[endpoint[f].source] = f
        BY <4>1, <1>4 DEF RouteInv
      <4>3. endpoint[f].source # s
        BY <4>1, <4>2, <1>2
      <4> QED BY <4>1, <4>2, <4>3, <1>4
    <3> QED BY <3>1, <3>2
  <2>2. ASSUME NEW z \in Sources, route'[z] # 0
        PROVE  Owns(route[z])' /\ endpoint'[route'[z]].source = z
    <3>1. CASE z = s
      BY <3>1, <1>3, <1>4 DEF Owns, Active
    <3>2. CASE z # s
      <4>1. route'[z] = route[z] /\ route[z] # e /\ route[z] \in Slots
        BY <2>2, <3>2, <1>4, <1>7 DEF Typed
      <4>2. Owns(route[z]) /\ endpoint[route[z]].source = z
        BY <4>1, <2>2, <1>4 DEF RouteInv
      <4> QED BY <4>1, <4>2, <1>4 DEF Owns, Active
    <3> QED BY <3>1, <3>2
  <2>3. ASSUME NEW f \in Slots
        PROVE  /\ endpoint'[f].quiesced => endpoint'[f].state = "revoking"
                    /\ (~BindsAgain => route'[endpoint'[f].source] = 0)
               /\ endpoint'[f].held => endpoint'[f].state # "free"
    <3>1. CASE f = e
      BY <3>1, <1>3, <1>4
    <3>2. CASE f # e
      <4>1. endpoint'[f] = endpoint[f] /\ endpoint[f].source \in Sources
        BY <3>2, <1>4 DEF Typed, Endpoints
      <4>2. endpoint[f].quiesced => endpoint[f].state = "revoking" /\ route[endpoint[f].source] = 0
        BY <1>4 DEF RouteInv
      <4>3. endpoint[f].held => endpoint[f].state # "free"
        BY <1>4 DEF RouteInv
      <4> QED BY <4>1, <4>2, <4>3, <1>2, <1>4
    <3> QED BY <3>1, <3>2
  <2> QED BY <2>1, <2>2, <2>3 DEF RouteInv
<1>9. MaskInv'
  <2>1. ASSUME NEW z \in Sources, enabled'[z]
        PROVE  route'[z] # 0 /\ Active(route[z])' /\ ~endpoint'[route'[z]].admin
    <3>1. z # s /\ enabled[z]
      BY <2>1, <1>4
    <3>2. route[z] # 0 /\ Active(route[z]) /\ ~endpoint[route[z]].admin
      BY <3>1, <1>4 DEF MaskInv
    <3>3. route[z] # e /\ route[z] \in Slots
      BY <3>1, <3>2, <1>4, <1>7 DEF Typed
    <3> QED BY <3>1, <3>2, <3>3, <1>4 DEF Active
  <2>2. ASSUME NEW f \in Slots, Active(f)'
        PROVE  /\ Consistent(endpoint'[f])
               /\ endpoint'[f].state = "armed" /\ ~endpoint'[f].masked =>
                    enabled'[endpoint'[f].source] \/ Awaits(endpoint[f].source)'
    <3>1. CASE f = e
      BY <3>1, <1>3, <1>4 DEF Consistent
    <3>2. CASE f # e
      <4>1. Active(f) /\ endpoint'[f] = endpoint[f] /\ endpoint[f].source \in Sources /\ f # 0
        BY <2>2, <3>2, <1>4, InterruptsAssumption DEF Active, Typed, Endpoints
      <4>2. route[endpoint[f].source] = f
        BY <4>1, <1>4 DEF RouteInv, Owns
      <4>3. enabled'[endpoint[f].source] = enabled[endpoint[f].source]
        BY <4>1, <4>2, <1>2, <1>4
      <4>4. Awaits(endpoint[f].source) => Awaits(endpoint[f].source)'
        BY <4>1, <1>2 DEF Awaits, Waiting
      <4>5. Consistent(endpoint[f])
        BY <4>1, <1>4, ConsistentSlots
      <4>6. endpoint[f].state = "armed" /\ ~endpoint[f].masked =>
              enabled[endpoint[f].source] \/ Awaits(endpoint[f].source)
        BY <4>1, <1>4 DEF MaskInv
      <4> QED BY <4>1, <4>3, <4>4, <4>5, <4>6
    <3> QED BY <3>1, <3>2
  <2>3. \A f \in Slots : endpoint'[f].records <= 1
    BY <1>3, <1>4 DEF MaskInv
  <2>4. dispatching' # "noise"
    BY <1>2, <1>5
  <2> QED BY <2>1, <2>2, <2>3, <2>4 DEF MaskInv, Consistent
<1>10. WaitInv'
  <2> SUFFICES ASSUME NEW u \in Threads, kernel.waits[u] # 0
               PROVE  /\ endpoint'[kernel.waits[u]].state \in {"masked", "armed", "pending"}
                      /\ endpoint'[kernel.waits[u]].owner = u
                      /\ endpoint'[kernel.waits[u]].records = 0
    BY <1>5 DEF WaitInv, Active
  <2>1. kernel.waits[u] \in Slots /\ kernel.waits[u] # e
    BY <1>1, <1>4 DEF Typed, Kernels, WaitInv, Active
  <2> QED BY <2>1, <1>4 DEF WaitInv, Active
<1> QED BY <1>5, <1>6, <1>8, <1>9, <1>10 DEF Safe

(* A process ends, and all its endpoints leave use. *)
LEMMA RetireSafe ==
  ASSUME Safe, NEW v \in Threads, Retire(v), Sound(kernel'), WorkInv', RingInv', dispatching = "no",
         \A t \in Threads : kernel'.waits[t] = IF t = v THEN 0 ELSE kernel.waits[t]
  PROVE  Safe'
<1> DEFINE E == {e \in Slots : Active(e) /\ endpoint[e].owner = v}
<1>1. /\ \A e \in Slots : endpoint'[e] = IF e \in E THEN Revoked(endpoint[e]) ELSE endpoint[e]
      /\ endpoint' = [e \in Slots |-> IF e \in E THEN Revoked(endpoint[e]) ELSE endpoint[e]]
      /\ enabled' = [s \in Sources |-> enabled[s] /\ route[s] \notin E]
      /\ device' = device /\ Rest
  BY DEF Retire
<1>2. Typed /\ RouteInv /\ MaskInv /\ WaitInv
  BY DEF Safe
<1>3. \A e \in E : e \in Slots /\ Active(e) /\ endpoint[e].owner = v
  OBVIOUS
<1>a. \A e \in Slots : Active(e) /\ endpoint[e].owner = v => e \in E
  OBVIOUS
<1> HIDE DEF E
<1>4. ASSUME NEW e \in E
      PROVE  /\ endpoint'[e] \in Endpoints /\ endpoint'[e].state = "revoking" /\ endpoint'[e].records = 0
             /\ endpoint'[e].source = endpoint[e].source /\ ~endpoint'[e].quiesced
             /\ Owns(e) /\ Owns(e)' /\ ~Active(e)'
  <2>1. endpoint[e] \in Endpoints /\ endpoint'[e] = Revoked(endpoint[e]) /\ ~endpoint[e].quiesced
    BY <1>1, <1>2, <1>3 DEF Typed, RouteInv, Active
  <2> QED BY <1>3, <2>1, RevokedFields DEF Owns, Active
<1>5. ASSUME NEW e \in Slots, e \notin E
      PROVE  endpoint'[e] = endpoint[e]
  BY <1>1, <1>5
<1>6. Typed'
  <2>1. endpoint' \in [Slots -> Endpoints]
    BY <1>1, <1>2, <1>4, <1>5 DEF Typed
  <2>2. enabled' \in [Sources -> BOOLEAN]
    BY <1>1
  <2> QED BY <1>1, <1>2, <2>1, <2>2 DEF Typed, Sound, Rest
<1>7. RouteInv'
  <2>1. \A f \in Slots :
           /\ Owns(f)' <=> Owns(f)
           /\ Owns(f) => endpoint'[f].source = endpoint[f].source
           /\ endpoint'[f].quiesced =>
                /\ endpoint[f].quiesced /\ endpoint'[f].state = "revoking"
                /\ endpoint'[f].source = endpoint[f].source
           /\ endpoint'[f].held => endpoint'[f].state # "free"
    <3> TAKE f \in Slots
    <3>1. CASE f \in E
      BY <3>1, <1>4
    <3>2. CASE f \notin E
      BY <3>2, <1>2, <1>5 DEF Owns, Active, RouteInv
    <3> QED BY <3>1, <3>2
  <2>2. route' = route
    BY <1>1 DEF Rest
  <2> QED BY <1>2, <2>1, <2>2, RouteKeep
<1>8. MaskInv'
  <2>1. ASSUME NEW s \in Sources, enabled'[s]
        PROVE  route'[s] # 0 /\ Active(route[s])' /\ ~endpoint'[route'[s]].admin
    <3>1. enabled[s] /\ route[s] \notin E
      BY <1>1, <2>1
    <3>2. route[s] # 0 /\ Active(route[s]) /\ ~endpoint[route[s]].admin /\ route[s] \in Slots
      BY <3>1, <1>2 DEF MaskInv, Typed
    <3> QED BY <3>1, <3>2, <1>1, <1>5 DEF Active, Rest
  <2>2. ASSUME NEW f \in Slots, Active(f)'
        PROVE  /\ Consistent(endpoint'[f])
               /\ endpoint'[f].state = "armed" /\ ~endpoint'[f].masked =>
                    enabled'[endpoint'[f].source] \/ Awaits(endpoint[f].source)'
    <3>1. f \notin E
      BY <2>2, <1>4
    <3>2. Active(f) /\ endpoint'[f] = endpoint[f] /\ endpoint[f].source \in Sources
      BY <2>2, <3>1, <1>2, <1>5 DEF Active, Typed, Endpoints
    <3>3. route[endpoint[f].source] = f
      BY <3>2, <1>2 DEF RouteInv, Owns
    <3>4. enabled'[endpoint[f].source] <=> enabled[endpoint[f].source]
      BY <1>1, <3>1, <3>2, <3>3
    <3>5. Awaits(endpoint[f].source) => Awaits(endpoint[f].source)'
      BY <3>2, <1>1 DEF Awaits, Waiting, Rest
    <3>6. Consistent(endpoint[f])
      BY <3>2, <1>2, ConsistentSlots
    <3>7. endpoint[f].state = "armed" /\ ~endpoint[f].masked =>
            enabled[endpoint[f].source] \/ Awaits(endpoint[f].source)
      BY <3>2, <1>2 DEF MaskInv
    <3> QED BY <3>2, <3>4, <3>5, <3>6, <3>7
  <2>3. \A f \in Slots : endpoint'[f].records <= 1
    BY <1>2, <1>4, <1>5 DEF MaskInv
  <2>4. dispatching' # "noise"
    BY <1>1 DEF Rest
  <2> QED BY <2>1, <2>2, <2>3, <2>4 DEF MaskInv, Consistent
<1>9. WaitInv'
  <2>1. kernel' \in Kernels
    BY DEF Sound
  <2>2. ASSUME NEW u \in Threads, kernel'.waits[u] # 0
        PROVE LET f == kernel.waits[u] IN
           /\ kernel'.waits[u] = f
           /\ f \in Slots /\ Active(f) => endpoint'[f].state \in {"masked", "armed", "pending"}
           /\ endpoint'[f].owner = endpoint[f].owner
           /\ endpoint[f].records = 0 => endpoint'[f].records = 0
    <3>1. u # v /\ kernel'.waits[u] = kernel.waits[u]
      BY <2>2
    <3>2. kernel.waits[u] \in Slots /\ endpoint[kernel.waits[u]].owner = u
      BY <1>2, <2>2, <3>1 DEF Typed, Kernels, WaitInv
    <3>3. kernel.waits[u] \notin E
      BY <1>3, <3>1, <3>2
    <3> QED BY <1>5, <3>1, <3>2, <3>3 DEF Active
  <2> QED BY <1>2, <2>1, <2>2, WaitKeep
<1> QED BY <1>6, <1>7, <1>8, <1>9 DEF Safe

(* A process ends by its own call, another's, or a fault.                  *)
LEMMA EndSafe ==
  ASSUME Safe, NEW t \in Threads,
         Exit(t) \/ FaultDies(t) \/ \E v \in Threads : Terminate(t, v)
  PROVE  Safe'
<1>1. ASSUME NEW v \in Threads
      PROVE  /\ Turned(kernel, Buried(kernel, v))
             /\ \A u \in Threads : Buried(kernel, v).waits[u] = IF u = v THEN 0 ELSE kernel.waits[u]
  <2>1. kernel \in Kernels /\ "exiting" \in States /\ 0 \in Slots \cup {0}
        /\ Buried(kernel, v) = StopsFor(kernel, v, "exiting", 0)
    BY DEF Safe, Sound, States, Buried, StopsFor
  <2> QED BY <2>1, WaitsTurned
<1>2. ASSUME NEW v \in Threads, Retire(v), kernel.cpu = "kernel",
             Return(Buried(kernel, v)) \/ Leave(Buried(kernel, v))
      PROVE  Safe'
  <2>1. UNCHANGED <<ring, dispatching>>
    BY <1>2 DEF Retire, Rest
  <2>2. /\ Sound(kernel') /\ WorkInv' /\ RingInv' /\ kernel'.waits = Buried(kernel, v).waits
        /\ dispatching = "no"
    BY <1>1, <1>2, <2>1, CallSafe
  <2> QED BY <1>1, <1>2, <2>2, RetireSafe
<1>3. ASSUME FaultDies(t) PROVE Safe'
  <2>1. PICK n \in NextThread(Buried(kernel, t)) : kernel' \in FaultExit(n, endpoint')
    BY <1>3 DEF FaultDies
  <2>2. /\ Retire(t) /\ kernel.cpu = "fault" /\ UNCHANGED <<ring, dispatching>>
        /\ \A s \in Sources : enabled'[s] => enabled[s]
    BY <1>3 DEF FaultDies, Faulting, Retire, Rest
  <2>3. /\ Sound(kernel') /\ WorkInv' /\ RingInv' /\ kernel'.waits = Buried(kernel, t).waits
        /\ dispatching = "no"
    BY <1>1, <2>1, <2>2, FaultSafe
  <2> QED BY <1>1, <2>2, <2>3, RetireSafe
<1> QED BY <1>2, <1>3 DEF Exit, Terminate, Calling

-----------------------------------------------------------------------------
(* Interrupts. *)

(* How full the ring is: no source has three entries that the worker has   *)
(* yet to look at, so numbering them puts each at a place of its own.      *)
Place(i) == <<ring[i], IF \E j \in Waiting : j < i /\ ring[j] = ring[i] THEN 2 ELSE 1>>

(* The entries the worker has yet to look at have different places, so the *)
(* ring is no fuller than there are places, but for the entry the worker   *)
(* is with.                                                                *)
LEMMA RingPlaces ==
  ASSUME Typed, RingInv, NEW Places, IsFiniteSet(Places), \A i \in Waiting : Place(i) \in Places
  PROVE  Len(ring) <= Cardinality(Places) + 1
<1> DEFINE Before(i) == \E j \in Waiting : j < i /\ ring[j] = ring[i]
           f == [i \in Waiting |-> Place(i)]
<1>1. /\ Len(ring) \in Nat /\ Waiting \subseteq 1 .. Len(ring) /\ 2 .. Len(ring) \subseteq Waiting
      /\ \A i \in Waiting : ring[i] \in Sources /\ i \in Nat
  BY DEF Waiting, Typed
<1>2. f \in [Waiting -> Places]
  OBVIOUS
<1>3. ASSUME NEW i \in Waiting, NEW l \in Waiting, f[i] = f[l] PROVE i = l
  <2>1. ASSUME NEW a \in Waiting, NEW b \in Waiting, f[a] = f[b], a < b PROVE FALSE
    <3>1. ring[a] = ring[b] /\ (Before(a) <=> Before(b))
      BY <2>1 DEF Place
    <3>2. Before(b)
      BY <2>1, <3>1
    <3>3. PICK c \in Waiting : c < a /\ ring[c] = ring[a]
      BY <3>1, <3>2
    <3> QED BY <2>1, <3>1, <3>3 DEF RingInv
  <2> HIDE DEF f
  <2>2. i \in Nat /\ l \in Nat /\ ~(i < l) /\ ~(l < i)
    BY <1>1, <1>3, <2>1
  <2> QED BY <2>2
<1> HIDE DEF f
<1>4. f \in Injection(Waiting, Places)
  BY <1>2, <1>3, Fun_IsInj
<1>5. IsFiniteSet(Waiting) /\ Cardinality(Waiting) <= Cardinality(Places)
  BY <1>4, FS_Injection
<1>6. Cardinality(2 .. Len(ring)) <= Cardinality(Waiting)
  BY <1>1, <1>5, FS_Subset
<1>7. Cardinality(2 .. Len(ring)) = IF 2 > Len(ring) THEN 0 ELSE Len(ring) - 2 + 1
  BY <1>1, FS_Interval
<1>8. Cardinality(Waiting) \in Nat /\ Cardinality(Places) \in Nat
  BY <1>5, FS_CardinalityType
<1> QED BY <1>1, <1>5, <1>6, <1>7, <1>8

(* Two places for each source.                                             *)
LEMMA TwoEach ==
  /\ IsFiniteSet(Sources \X (1 .. 2))
  /\ Cardinality(Sources \X (1 .. 2)) = 2 * Cardinality(Sources)
  /\ Cardinality(Sources) \in Nat
<1>1. 1 \in Int /\ 2 \in Int
  OBVIOUS
<1>2. IsFiniteSet(1 .. 2) /\ Cardinality(1 .. 2) = IF 1 > 2 THEN 0 ELSE 2 - 1 + 1
  BY <1>1, FS_Interval
<1>3. IsFiniteSet(1 .. 2) /\ Cardinality(1 .. 2) = 2
  BY <1>2
<1>4. Cardinality(Sources) \in Nat
  BY FS_CardinalityType, InterruptsAssumption
<1> DEFINE Two == 1 .. 2
<1>5. IsFiniteSet(Two) /\ Cardinality(Two) = 2 /\ IsFiniteSet(Sources)
  BY <1>3, InterruptsAssumption
<1> HIDE DEF Two
<1>6. /\ IsFiniteSet(Sources \X Two)
      /\ Cardinality(Sources \X Two) = Cardinality(Sources) * Cardinality(Two)
  BY <1>5, FS_Product
<1>7. Cardinality(Sources \X Two) = 2 * Cardinality(Sources)
  BY <1>4, <1>5, <1>6
<1> QED BY <1>4, <1>6, <1>7 DEF Two

(* The ring with the entry the worker is with.                             *)
LEMMA RingFull ==
  ASSUME Typed, RingInv
  PROVE  Len(ring) <= 2 * Cardinality(Sources) + 1
<1>1. \A i \in Waiting : Place(i) \in Sources \X (1 .. 2)
  BY DEF Place, Waiting, Typed
<1> QED BY <1>1, TwoEach, RingPlaces

(* While a source can interrupt it has no second entry.                    *)
LEMMA RingBound ==
  ASSUME Typed, RingInv, NEW s \in Sources, enabled[s]
  PROVE  Len(ring) <= 2 * Cardinality(Sources)
<1> DEFINE All == Sources \X (1 .. 2)
           x == <<s, 2>>
           Places == All \ {x}
<1>1. x \in All
  OBVIOUS
<1>2. \A i \in Waiting : Place(i) \in All
  BY DEF Place, Waiting, Typed
<1>3. ASSUME NEW i \in Waiting PROVE Place(i) # x
  <2>1. ASSUME ring[i] = s PROVE ~\E j \in Waiting : j < i /\ ring[j] = ring[i]
    BY <2>1 DEF RingInv
  <2> QED BY <2>1 DEF Place
<1>4. IsFiniteSet(All) /\ Cardinality(All) = 2 * Cardinality(Sources) /\ Cardinality(Sources) \in Nat
  BY TwoEach
<1> HIDE DEF All, x
<1>5. IsFiniteSet(Places) /\ Cardinality(Places) = Cardinality(All) - 1
  BY <1>1, <1>4, FS_RemoveElement
<1>6. \A i \in Waiting : Place(i) \in Places
  BY <1>2, <1>3
<1> HIDE DEF Places
<1>7. Len(ring) <= Cardinality(Places) + 1
  BY <1>5, <1>6, RingPlaces
<1>8. Len(ring) \in Nat
  BY DEF Typed
<1> QED BY <1>4, <1>5, <1>7, <1>8

(* A step of the kernel alone. *)
LEMMA KernelAlone ==
  ASSUME Safe, Moves(kernel, kernel'), RingInv',
         UNCHANGED <<ring, dispatching, enabled, route, endpoint, failures, deferrals>>,
         device' \in [Sources -> {"quiet", "work", "noise"}]
  PROVE  Safe'
<1>1. Sound(kernel') /\ kernel'.waits = kernel.waits
  BY DEF Moves
<1>2. Typed'
  BY <1>1 DEF Safe, Typed, Sound
<1>3. WorkInv'
  BY DEF Moves, Safe, WorkInv, Classes
<1>4. RouteInv' /\ MaskInv' /\ WaitInv'
  <2>1. RouteInv'
    BY DEF Safe, RouteInv, Owns, Active
  <2>2. MaskInv'
    BY DEF Safe, MaskInv, Active, Awaits, Waiting, Open
  <2>3. WaitInv'
    BY <1>1 DEF Safe, WaitInv, Active
  <2> QED BY <2>1, <2>2, <2>3
<1> QED BY <1>1, <1>2, <1>3, <1>4 DEF Safe

(* An entry to the kernel is nothing to the worker.                        *)
LEMMA EnterSafe ==
  ASSUME Safe, Enter PROVE Safe'
<1>1. PICK mode \in {"kernel", "fault"} : kernel' = [kernel EXCEPT !.cpu = mode]
  BY DEF Enter
<1>2. kernel.cpu = "user" /\ UNCHANGED <<ring, dispatching, enabled, device, endpoint, route, failures, deferrals>>
  BY DEF Enter
<1>3. Moves(kernel, kernel')
  BY <1>1, <1>2, ModeMoves DEF Safe, Sound
<1>4. RingInv'
  <2>1. RingInv /\ ring \in Seq(Sources) /\ dispatching = "no"
    BY <1>2 DEF Safe, RingInv, Typed
  <2>2. kernel.pending \cup kernel.serving \subseteq kernel'.pending \cup kernel'.serving
    BY <1>3 DEF Moves
  <2> QED BY <1>2, <2>1, <2>2, RingKeep
<1> QED BY <1>2, <1>3, <1>4, KernelAlone DEF Safe, Typed

(* A timer promotes, expires and exits; the worker it interrupts goes on.  *)
LEMMA TimerSafe ==
  ASSUME Safe, Timer PROVE Safe'
<1> DEFINE p == Promoted(kernel)
<1>1. PICK k \in Ticked(p) : kernel' \in InterruptExit(k)
  BY DEF Timer
<1>2. UNCHANGED <<ring, dispatching, enabled, device, endpoint, route, failures, deferrals>>
  BY DEF Timer
<1>3. /\ Moves(kernel, p) /\ p.cpu = kernel.cpu /\ p.served = kernel.served
      /\ p.serving = kernel.serving /\ Sound(p) /\ p \in Kernels
  BY PromotedMoves DEF Safe, Moves, Sound
<1>4. kernel.cpu = "worker" => k = p
  BY <1>1, <1>3 DEF Ticked, Undisturbed, Sound
<1> HIDE DEF p
<1>5. Scheduled(p, k) /\ Moves(p, k) /\ Sound(k)
  BY <1>1, <1>3, TickedScheduled, ScheduledMoves DEF Moves
<1>6. Moves(k, kernel') /\ (k.cpu = "worker" => kernel' = k)
  BY <1>1, <1>5, InterruptExitMoves
<1>7. Moves(kernel, kernel')
  <2>1. Moves(kernel, k)
    BY <1>3, <1>5, MovesOn
  <2> QED BY <1>6, <2>1, MovesOn
<1>8. kernel.cpu = "worker" =>
        kernel'.cpu = "worker" /\ kernel'.serving = kernel.serving /\ kernel'.served = kernel.served
  BY <1>3, <1>4, <1>6
<1>9. RingInv'
  <2>1. RingInv /\ ring \in Seq(Sources) /\ (dispatching # "no" => kernel.cpu = "worker")
    BY DEF Safe, RingInv, Typed
  <2>2. kernel.pending \cup kernel.serving \subseteq kernel'.pending \cup kernel'.serving
    BY <1>7 DEF Moves
  <2> QED BY <1>2, <1>8, <2>1, <2>2, RingKeep
<1> QED BY <1>2, <1>7, <1>9, KernelAlone DEF Safe, Typed

(* A deadline passes.                                                      *)
LEMMA TimePassesSafe ==
  ASSUME Safe, NEW t \in Threads, TimePasses(t) PROVE Safe'
<1>1. /\ kernel.thread[t] = "asleep" /\ kernel' = Stops(kernel, t, "due")
      /\ UNCHANGED <<ring, dispatching, enabled, device, endpoint, route, failures, deferrals>>
  BY DEF TimePasses, Stops
<1>2. /\ Turned(kernel, kernel') /\ kernel'.waits = kernel.waits
      /\ kernel'.thread = [kernel.thread EXCEPT ![t] = "due"]
  BY <1>1, StopsTurned DEF States, Safe, Sound
<1>3. Exiting(kernel') <=> Exiting(kernel)
  BY <1>1, <1>2 DEF Exiting, Safe, Typed, Kernels
<1>4. Moves(kernel, kernel')
  BY <1>2, <1>3, TurnedSound DEF Moves, Safe, Turned
<1>5. RingInv'
  BY <1>1, <1>2, RingKeep DEF Safe, Typed, Turned
<1> QED BY <1>1, <1>4, <1>5, KernelAlone DEF Safe, Typed

(* The window in which noise is counted goes by.                           *)
LEMMA WindowPassesSafe ==
  ASSUME Safe, NEW e \in Slots, WindowPasses(e) PROVE Safe'
<1> DEFINE q == endpoint[e]
           r == [q EXCEPT !.noise = 0]
<1>1. /\ kernel.cpu # "worker" /\ endpoint' = [endpoint EXCEPT ![e] = r]
      /\ UNCHANGED <<kernel, ring, dispatching, enabled, device, route, failures, deferrals>>
  BY DEF WindowPasses, Safe, Typed
<1>2. q \in Endpoints /\ 0 \in 0 .. StormBudget
  BY InterruptsAssumption DEF Safe, Typed
<1>3. r \in Endpoints /\ Alike(r, q) /\ r.owner = q.owner /\ r.quiesced = q.quiesced /\ r.held = q.held
  <2>1. r \in Endpoints /\ r.state = q.state /\ r.source = q.source /\ r.masked = q.masked
    BY <1>2 DEF Endpoints
  <2>2. r.admin = q.admin /\ r.events = q.events /\ r.records = q.records
    BY <1>2 DEF Endpoints
  <2>3. r.owner = q.owner /\ r.quiesced = q.quiesced /\ r.held = q.held
    BY <1>2 DEF Endpoints
  <2> QED BY <2>1, <2>2, <2>3 DEF Alike
<1> HIDE DEF r
<1>4. \A f \in Slots :
        /\ endpoint'[f] \in Endpoints /\ Alike(endpoint'[f], endpoint[f])
        /\ endpoint'[f].owner = endpoint[f].owner /\ endpoint'[f].quiesced = endpoint[f].quiesced
        /\ endpoint'[f].held = endpoint[f].held
  BY <1>1, <1>2, <1>3 DEF Safe, Typed, Alike
<1>5. Typed'
  <2>1. endpoint' \in [Slots -> Endpoints]
    BY <1>1, <1>3 DEF Safe, Typed
  <2> QED BY <1>1, <2>1 DEF Safe, Typed
<1>6. Sound(kernel')
  BY <1>1 DEF Safe
<1>7. WorkInv'
  <2>1. Unquiesced(endpoint') = Unquiesced(endpoint)
    BY <1>4 DEF Unquiesced, Alike
  <2> QED BY <1>1, <2>1 DEF Safe, WorkInv
<1>8. RingInv'
  BY <1>1 DEF Safe, RingInv, Waiting
<1>9. RouteInv'
  <2>1. \A f \in Slots :
           /\ Owns(f)' <=> Owns(f)
           /\ Owns(f) => endpoint'[f].source = endpoint[f].source
           /\ endpoint'[f].quiesced =>
                /\ endpoint[f].quiesced /\ endpoint'[f].state = "revoking"
                /\ endpoint'[f].source = endpoint[f].source
           /\ endpoint'[f].held => endpoint'[f].state # "free"
    BY <1>4 DEF Owns, Active, Alike, Safe, RouteInv
  <2> QED BY <1>1, <2>1, RouteKeep DEF Safe
<1>10. MaskInv'
  <2>1. \A f \in Slots : /\ Active(f)' => Active(f)
                         /\ Active(f) => Alike(endpoint'[f], endpoint[f])
                         /\ endpoint'[f].records <= 1
    BY <1>4 DEF Active, Alike, Safe, MaskInv
  <2>2. dispatching = "no"
    BY <1>1 DEF Safe, RingInv
  <2> QED BY <1>1, <2>1, <2>2, MaskKeep DEF Safe
<1>11. WaitInv'
  <2> SUFFICES ASSUME NEW u \in Threads, kernel.waits[u] # 0
               PROVE  /\ endpoint'[kernel.waits[u]].state \in {"masked", "armed", "pending"}
                      /\ endpoint'[kernel.waits[u]].owner = u
                      /\ endpoint'[kernel.waits[u]].records = 0
    BY <1>1 DEF WaitInv, Active
  <2>1. kernel.waits[u] \in Slots
    BY DEF Safe, Typed, Kernels
  <2> QED BY <1>4, <2>1 DEF Safe, WaitInv, Active, Alike
<1> QED BY <1>5, <1>6, <1>7, <1>8, <1>9, <1>10, <1>11 DEF Safe

(* A device raises or drops its line.                                      *)
LEMMA DeviceChangesSafe ==
  ASSUME Safe, NEW s \in Sources, NEW what \in {"quiet", "work", "noise"}, DeviceChanges(s, what)
  PROVE  Safe'
<1>1. /\ UNCHANGED <<kernel, ring, dispatching, enabled, endpoint, route, failures, deferrals>>
      /\ device' \in [Sources -> {"quiet", "work", "noise"}]
  BY DEF DeviceChanges, Safe, Typed
<1>2. Moves(kernel, kernel') /\ RingInv'
  BY <1>1 DEF Moves, Safe, RingInv, Waiting
<1> QED BY <1>1, <1>2, KernelAlone

(* kernel_interrupt_dispatch: the source that interrupts had at most one   *)
(* entry in the ring, so there is room for another.                        *)
LEMMA DeviceInterruptSafe ==
  ASSUME Safe, Depth > 2 * Cardinality(Sources), NEW s \in Sources, DeviceInterrupt(s)
  PROVE  Safe'
<1> DEFINE k == Signal(kernel, "irq")
           n == Len(ring) + 1
<1>1. /\ enabled[s] /\ enabled' = [enabled EXCEPT ![s] = FALSE]
      /\ UNCHANGED <<dispatching, device, endpoint, route, failures, deferrals>>
  BY DEF DeviceInterrupt
<1>2. Typed /\ Sound(kernel) /\ RingInv /\ RouteInv /\ MaskInv /\ Len(ring) \in Nat /\ ring \in Seq(Sources)
  BY DEF Safe, Typed
<1>3. Len(ring) <= 2 * Cardinality(Sources)
  BY <1>1, <1>2, RingBound
<1>4. Len(ring) < Depth
  BY <1>2, <1>3, FS_CardinalityType, InterruptsAssumption
<1>5. kernel' \in InterruptExit(k) /\ ring' = Append(ring, s)
  BY <1>2, <1>4, InterruptsAssumption DEF DeviceInterrupt
<1>6. Moves(kernel, k) /\ Signalled(kernel, k, {"irq"}) /\ Sound(k)
  BY <1>2, SignalMoves, SignalFields DEF Sound, Classes, Moves
<1> HIDE DEF k
<1>7. Moves(k, kernel') /\ (k.cpu = "worker" => kernel' = k)
  BY <1>5, <1>6, InterruptExitMoves
<1>8. Moves(kernel, kernel') /\ Sound(kernel') /\ kernel'.waits = kernel.waits
  BY <1>6, <1>7, MovesOn DEF Moves
<1>9. kernel.cpu = "worker" =>
        kernel'.cpu = "worker" /\ kernel'.serving = kernel.serving /\ kernel'.served = kernel.served
  BY <1>6, <1>7 DEF Signalled
<1>10. /\ ring' \in Seq(Sources) /\ Len(ring') = n /\ ring'[n] = s /\ ring' # <<>>
       /\ \A i \in 1 .. Len(ring) : ring'[i] = ring[i]
  BY <1>2, <1>5
<1>11. /\ dispatching # "no" => ring # <<>> /\ n # 1 /\ Head(ring') = Head(ring)
       /\ \A i \in Waiting' : i = n \/ (i \in Waiting /\ i < n)
       /\ \A i \in Waiting : i \in Waiting' /\ i \in 1 .. Len(ring) /\ ring'[i] = ring[i] /\ ring[i] \in Sources
       /\ n \in Waiting'
  <2>1. dispatching # "no" => ring # <<>>
    BY <1>2 DEF RingInv
  <2>2. ring # <<>> => n # 1 /\ Head(ring') = Head(ring)
    BY <1>2, <1>5, <1>10
  <2> QED BY <1>1, <1>2, <1>10, <2>1, <2>2 DEF Waiting
<1>12. \A z \in Sources : enabled'[z] => enabled[z] /\ z # s
  BY <1>1, <1>2 DEF Typed
<1>13. RingInv'
  <2>1. "irq" \in kernel'.pending \cup kernel'.serving
    BY <1>6, <1>7 DEF Signalled, Moves
  <2>2. dispatching' # "no" =>
          /\ kernel'.cpu = "worker" /\ kernel'.serving = {"irq"}
          /\ kernel'.served < Batch /\ ring' # <<>>
    BY <1>1, <1>2, <1>9, <1>10 DEF RingInv
  <2>3. ASSUME NEW i \in Waiting', enabled'[ring'[i]] PROVE kernel'.cpu = "worker"
    <3>1. i \in Waiting /\ enabled[ring[i]]
      BY <2>3, <1>10, <1>11, <1>12
    <3> QED BY <3>1, <1>2, <1>9 DEF RingInv
  <2>4. ASSUME NEW i \in Waiting', NEW j \in Waiting', i < j, ring'[i] = ring'[j]
        PROVE  kernel'.cpu = "worker" /\ ~enabled'[ring'[i]]
    <3>1. i \in Waiting
      BY <2>4, <1>11
    <3>2. CASE j = n
      BY <1>2, <1>9, <1>10, <1>11, <1>12, <1>1, <2>4, <3>1, <3>2 DEF RingInv
    <3>3. CASE j \in Waiting
      BY <1>2, <1>9, <1>11, <1>12, <2>4, <3>1, <3>3 DEF RingInv
    <3> QED BY <1>11, <3>2, <3>3
  <2>5. ASSUME NEW i \in Waiting', NEW j \in Waiting', NEW l \in Waiting', i < j, j < l,
               ring'[i] = ring'[j], ring'[j] = ring'[l]
        PROVE  FALSE
    <3>1. i \in Waiting /\ j \in Waiting
      BY <2>5, <1>11
    <3>2. CASE l = n
      BY <1>1, <1>2, <1>10, <1>11, <2>5, <3>1, <3>2 DEF RingInv
    <3>3. CASE l \in Waiting
      BY <1>2, <1>11, <2>5, <3>1, <3>3 DEF RingInv
    <3> QED BY <1>11, <3>2, <3>3
  <2> QED BY <2>1, <2>2, <2>3, <2>4, <2>5 DEF RingInv
<1>14. MaskInv'
  <2>1. \A z \in Sources : enabled'[z] =>
           route'[z] # 0 /\ Active(route[z])' /\ ~endpoint'[route'[z]].admin
    BY <1>1, <1>2, <1>12 DEF MaskInv, Active
  <2>2. \A z \in Sources : enabled[z] \/ Awaits(z) => enabled'[z] \/ Awaits(z)'
    <3> TAKE z \in Sources
    <3>1. CASE z = s
      BY <3>1, <1>10, <1>11 DEF Awaits
    <3>2. CASE z # s /\ enabled[z]
      BY <3>2, <1>1
    <3>3. CASE Awaits(z)
      BY <3>3, <1>11 DEF Awaits
    <3> QED BY <3>1, <3>2, <3>3
  <2>3. \A e \in Slots : endpoint[e].source \in Sources
    BY <1>2 DEF Typed, Endpoints
  <2>4. dispatching' = "noise" => Open(Head(ring))'
    BY <1>1, <1>2, <1>11 DEF MaskInv, Open
  <2> QED BY <1>1, <1>2, <2>1, <2>2, <2>3, <2>4 DEF MaskInv, Active
<1>15. Typed'
  BY <1>1, <1>2, <1>8, <1>10 DEF Typed, Sound
<1>16. WorkInv' /\ RouteInv' /\ WaitInv'
  <2>1. WorkInv'
    BY <1>1, <1>8 DEF Moves, Safe, WorkInv, Classes
  <2>2. RouteInv'
    BY <1>1, <1>2 DEF RouteInv, Owns, Active
  <2>3. WaitInv'
    BY <1>1, <1>8 DEF Safe, WaitInv, Active
  <2> QED BY <2>1, <2>2, <2>3
<1> QED BY <1>8, <1>13, <1>14, <1>15, <1>16 DEF Safe

-----------------------------------------------------------------------------
(* The worker. *)

(* A class is done, or put off; the rest of what there is to do stays.     *)
Does(k, n, class) ==
  /\ n \in Kernels /\ n.cpu = k.cpu /\ n.worker = k.worker /\ n.active = k.active
  /\ n.again = k.again /\ n.served = k.served /\ n.waits = k.waits /\ n.thread = k.thread
  /\ n.current = k.current
  /\ n.serving = k.serving \ {class}
  /\ k.pending \subseteq n.pending /\ k.retry \subseteq n.retry

(* A class that is done.                                                   *)
LEMMA ServedFields ==
  ASSUME NEW k \in Kernels, NEW class \in Classes
  PROVE  Does(k, Served(k, class), class) /\ Served(k, class).pending = k.pending
         /\ Served(k, class).retry = k.retry
<1> DEFINE p == k.serving \ {class}
           n == [k EXCEPT !.serving = p]
<1>1. p \in SUBSET Classes
  BY DEF Kernels
<1>2. Served(k, class) = n
  BY DEF Served
<1>3. p = k.serving \ {class}
  OBVIOUS
<1> HIDE DEF p
<1>4. n \in Kernels /\ n.serving = p
  BY <1>1 DEF Kernels
<1>5. n.cpu = k.cpu /\ n.worker = k.worker /\ n.active = k.active /\ n.again = k.again
  BY DEF Kernels
<1>6. n.served = k.served /\ n.waits = k.waits /\ n.thread = k.thread /\ n.current = k.current
  BY DEF Kernels
<1>7. n.pending = k.pending /\ n.retry = k.retry
  BY DEF Kernels
<1> HIDE DEF n
<1> QED BY <1>2, <1>3, <1>4, <1>5, <1>6, <1>7 DEF Does

(* A class that is put off is in retry_work, whatever a timer does in      *)
(* between.                                                                *)
LEMMA PutOffFields ==
  ASSUME NEW k \in Kernels, NEW class \in Classes, NEW n \in PutOff(k, class)
  PROVE  /\ n \in Kernels /\ n.cpu = k.cpu /\ n.worker = k.worker /\ n.active = k.active
         /\ n.again = k.again /\ n.served = k.served /\ n.waits = k.waits /\ n.thread = k.thread
         /\ n.current = k.current /\ n.serving = k.serving
         /\ k.pending \subseteq n.pending /\ k.retry \subseteq n.retry /\ class \in n.retry
<1> DEFINE late == k.retry \cup {class}
           p == k.pending \cup k.retry
           a == [k EXCEPT !.retry = late]
           b == [a EXCEPT !.pending = p]
<1>1. n = a \/ n = b
  BY DEF PutOff, Kernels
<1>2. late \in SUBSET Classes /\ p \in SUBSET Classes /\ k.retry \subseteq late /\ class \in late
      /\ k.pending \subseteq p
  BY DEF Kernels
<1> HIDE DEF late, p
<1>3. a \in Kernels /\ a.retry = late
  BY <1>2 DEF Kernels
<1>4. a.cpu = k.cpu /\ a.worker = k.worker /\ a.active = k.active /\ a.again = k.again
  BY DEF Kernels
<1>5. a.served = k.served /\ a.waits = k.waits /\ a.thread = k.thread /\ a.current = k.current
  BY DEF Kernels
<1>6. a.pending = k.pending /\ a.serving = k.serving
  BY DEF Kernels
<1> HIDE DEF a
<1>7. b \in Kernels /\ b.pending = p /\ b.retry = a.retry
  BY <1>2, <1>3 DEF Kernels
<1>8. b.cpu = a.cpu /\ b.worker = a.worker /\ b.active = a.active /\ b.again = a.again
  BY <1>3 DEF Kernels
<1>9. b.served = a.served /\ b.waits = a.waits /\ b.thread = a.thread /\ b.current = a.current
  BY <1>3 DEF Kernels
<1>10. b.serving = a.serving
  BY <1>3 DEF Kernels
<1> HIDE DEF b
<1> QED BY <1>1, <1>2, <1>3, <1>4, <1>5, <1>6, <1>7, <1>8, <1>9, <1>10

(* The worker at a class other than the interrupts: it stays at work, and  *)
(* nothing else it has to do is forgotten.                                 *)
LEMMA ServeSound ==
  ASSUME Safe, NEW class \in {"reap", "reset"}, Serving(class), kernel' \in Kernels,
         kernel'.cpu = "worker", kernel'.worker = "running", kernel'.active,
         kernel.pending \subseteq kernel'.pending, kernel'.serving = kernel.serving \ {class},
         UNCHANGED <<ring, dispatching>>, \A s \in Sources : enabled'[s] => enabled[s]
  PROVE  Sound(kernel') /\ RingInv' /\ dispatching = "no"
<1>1. dispatching = "no" /\ kernel.cpu = "worker"
  BY DEF Safe, RingInv, Serving
<1>2. Sound(kernel')
  BY DEF Sound
<1>3. RingInv'
  <2>1. RingInv /\ ring \in Seq(Sources)
    BY DEF Safe, Typed
  <2>2. Waiting' = Waiting /\ \A i \in Waiting : ring[i] \in Sources
    BY <2>1 DEF Waiting
  <2>3. ring # <<>> => "irq" \in kernel'.pending \cup kernel'.serving
    BY <2>1 DEF RingInv
  <2> QED BY <1>1, <2>1, <2>2, <2>3 DEF RingInv
<1> QED BY <1>1, <1>2, <1>3

(* kernel_process_maintenance: the burials that are late are remembered in *)
(* again, and revocations are passed on to the next class.                 *)
LEMMA ServeReapSafe ==
  ASSUME Safe, ~BindsAgain, ServeReap PROVE Safe'
<1> DEFINE dying == {t \in Threads : kernel.thread[t] = "exiting"}
           closed == {e \in Slots : endpoint[e].held /\ endpoint[e].owner \in dying}
           told == IF Unquiesced(endpoint) # {} THEN Signal(kernel, "reset") ELSE kernel
<1>1. /\ Serving("reap")
      /\ endpoint' = [e \in Slots |-> IF e \in closed THEN Released(endpoint[e]) ELSE endpoint[e]]
      /\ UNCHANGED <<ring, dispatching, enabled, device, route, failures>>
  BY DEF ServeReap
<1>2. PICK late \in SUBSET dying :
        /\ late # {} => deferrals < MaxDeferrals
        /\ deferrals' = IF late = {} THEN deferrals ELSE deferrals + 1
        /\ kernel' = IF \E e \in closed : Clash(e) THEN Panic(kernel)
                     ELSE [Served(told, "reap") EXCEPT !.again = (late # {}),
                             !.thread = [t \in Threads |->
                               IF t \in dying \ late THEN "gone" ELSE kernel.thread[t]]]
  BY DEF ServeReap
<1>3. \A e \in closed : e \in Slots
  OBVIOUS
<1>4. Typed /\ Sound(kernel) /\ RouteInv /\ MaskInv /\ WaitInv /\ kernel.cpu = "worker"
      /\ kernel \in Kernels
  BY <1>1 DEF Safe, Typed, Serving
<1>5. ~\E e \in closed : Clash(e)
  BY <1>3, <1>4 DEF RouteInv, Clash
<1>6. /\ told \in Kernels /\ told.cpu = kernel.cpu /\ told.worker = "running" /\ told.active
      /\ kernel.pending \subseteq told.pending /\ told.serving = kernel.serving
      /\ told.waits = kernel.waits
      /\ Unquiesced(endpoint) # {} => "reset" \in told.pending
  <2>1. kernel.worker = "running" /\ kernel.active
    BY <1>4 DEF Sound
  <2>2. CASE Unquiesced(endpoint) = {}
    BY <1>4, <2>1, <2>2
  <2>3. CASE Unquiesced(endpoint) # {}
    <3>1. Signalled(kernel, Signal(kernel, "reset"), {"reset"})
      BY <1>4, SignalFields DEF Classes
    <3> QED BY <2>1, <2>3, <3>1 DEF Signalled
  <2> QED BY <2>2, <2>3
<1> HIDE DEF told, closed
<1> DEFINE k == Served(told, "reap")
           left == [t \in Threads |-> IF t \in dying \ late THEN "gone" ELSE kernel.thread[t]]
           again == (late # {})
           n == [k EXCEPT !.again = again, !.thread = left]
<1>7. Does(told, k, "reap") /\ k.pending = told.pending
  BY <1>6, ServedFields DEF Classes
<1>8. kernel' = n
  BY <1>2, <1>5
<1>9. left \in [Threads -> States] /\ (again <=> late # {}) /\ again \in BOOLEAN
      /\ \A t \in Threads : left[t] = "exiting" => t \in late
  BY <1>4 DEF Kernels, States
<1> HIDE DEF k, left, again
<1>10. k \in Kernels
  BY <1>7 DEF Does
<1>11. n \in Kernels /\ n.again = again /\ n.thread = left
  BY <1>9, <1>10 DEF Kernels
<1>12. n.cpu = k.cpu /\ n.worker = k.worker /\ n.active = k.active /\ n.pending = k.pending
  BY <1>10 DEF Kernels
<1>13. n.serving = k.serving /\ n.waits = k.waits
  BY <1>10 DEF Kernels
<1> HIDE DEF n
<1>14. Sound(kernel') /\ RingInv' /\ dispatching = "no"
  <2>1. /\ kernel' \in Kernels /\ kernel'.cpu = "worker" /\ kernel'.worker = "running"
        /\ kernel'.active /\ kernel.pending \subseteq kernel'.pending
        /\ kernel'.serving = kernel.serving \ {"reap"}
    BY <1>4, <1>6, <1>7, <1>8, <1>11, <1>12, <1>13 DEF Does
  <2> QED BY <1>1, <2>1, ServeSound
<1>15. \A e \in Slots :
         /\ endpoint'[e] \in Endpoints
         /\ \/ endpoint'[e] = endpoint[e]
            \/ endpoint[e].quiesced /\ endpoint'[e] = FreeEndpoint
            \/ /\ ~endpoint[e].quiesced /\ Alike(endpoint'[e], endpoint[e]) /\ ~endpoint'[e].quiesced
               /\ endpoint'[e].owner = endpoint[e].owner /\ ~endpoint'[e].held
  <2> TAKE e \in Slots
  <2>1. endpoint[e] \in Endpoints
    BY <1>4 DEF Typed
  <2> QED BY <1>1, <2>1, ReleasedFields, FreeFields
<1>16. WorkInv'
  <2>1. Unquiesced(endpoint') # {} => Unquiesced(endpoint) # {}
    BY <1>15, FreeFields DEF Unquiesced, Alike
  <2>2. Unquiesced(endpoint') # {} => "reset" \in kernel'.pending
    BY <2>1, <1>6, <1>7, <1>8, <1>12
  <2>3. Exiting(kernel') => kernel'.again
    BY <1>8, <1>9, <1>11 DEF Exiting
  <2> QED BY <2>2, <2>3 DEF WorkInv, Recorded
<1>17. Typed'
  <2>1. endpoint' \in [Slots -> Endpoints]
    BY <1>1, <1>15
  <2>2. deferrals' \in 0 .. MaxDeferrals
    BY <1>2, <1>4, InterruptsAssumption DEF Typed
  <2> QED BY <1>1, <1>4, <1>14, <2>1, <2>2 DEF Typed, Sound
<1>18. RouteInv'
  <2>1. \A f \in Slots :
           /\ Owns(f)' <=> Owns(f)
           /\ Owns(f) => endpoint'[f].source = endpoint[f].source
           /\ endpoint'[f].quiesced =>
                /\ endpoint[f].quiesced /\ endpoint'[f].state = "revoking"
                /\ endpoint'[f].source = endpoint[f].source
           /\ endpoint'[f].held => endpoint'[f].state # "free"
    <3> TAKE f \in Slots
    <3>1. CASE endpoint'[f] = endpoint[f]
      BY <3>1, <1>4 DEF Owns, Active, RouteInv
    <3>2. CASE endpoint[f].quiesced /\ endpoint'[f] = FreeEndpoint
      BY <3>2, <1>4, FreeFields DEF Owns, Active, RouteInv
    <3>3. CASE /\ ~endpoint[f].quiesced /\ Alike(endpoint'[f], endpoint[f]) /\ ~endpoint'[f].quiesced
               /\ ~endpoint'[f].held
      BY <3>3 DEF Owns, Active, Alike
    <3> QED BY <1>15, <3>1, <3>2, <3>3
  <2> QED BY <1>1, <1>4, <2>1, RouteKeep
<1>19. MaskInv'
  <2>1. \A f \in Slots : /\ Active(f)' => Active(f)
                         /\ Active(f) => Alike(endpoint'[f], endpoint[f])
                         /\ endpoint'[f].records <= 1
    <3> TAKE f \in Slots
    <3>1. CASE endpoint'[f] = endpoint[f]
      BY <3>1, <1>4 DEF Active, Alike, MaskInv
    <3>2. CASE endpoint[f].quiesced /\ endpoint'[f] = FreeEndpoint
      BY <3>2, <1>4, FreeFields DEF Active, RouteInv
    <3>3. CASE Alike(endpoint'[f], endpoint[f])
      BY <3>3, <1>4 DEF Active, Alike, MaskInv
    <3> QED BY <1>15, <3>1, <3>2, <3>3
  <2> QED BY <1>1, <1>4, <1>14, <2>1, MaskKeep
<1>20. WaitInv'
  <2> SUFFICES ASSUME NEW u \in Threads, kernel.waits[u] # 0
               PROVE  /\ endpoint'[kernel.waits[u]].state \in {"masked", "armed", "pending"}
                      /\ endpoint'[kernel.waits[u]].owner = u
                      /\ endpoint'[kernel.waits[u]].records = 0
    BY <1>6, <1>7, <1>8, <1>13 DEF WaitInv, Active, Does
  <2>1. kernel.waits[u] \in Slots /\ Active(kernel.waits[u]) /\ ~endpoint[kernel.waits[u]].quiesced
    BY <1>4 DEF Typed, Kernels, WaitInv, RouteInv, Active
  <2> QED BY <1>4, <1>15, <2>1 DEF WaitInv, Active, Alike
<1> QED BY <1>14, <1>16, <1>17, <1>18, <1>19, <1>20 DEF Safe

(* A revoked endpoint whose device fails to become quiet, or none.         *)
LEMMA ResetFailsSafe ==
  ASSUME Safe, Serving("reset"),
         UNCHANGED <<ring, dispatching, device, endpoint, route, deferrals>>,
         failures' \in 0 .. MaxFailures,
         \/ NothingToReset
         \/ \E e \in Unquiesced(endpoint) : QuiesceFails(e)
  PROVE  Safe'
<1>1. Typed /\ Sound(kernel) /\ RouteInv /\ MaskInv /\ WaitInv /\ WorkInv /\ kernel \in Kernels
      /\ kernel.cpu = "worker" /\ kernel.worker = "running" /\ kernel.active
  BY DEF Safe, Typed, Serving, Sound
<1>2. /\ kernel' \in Kernels /\ kernel'.cpu = "worker" /\ kernel'.worker = "running" /\ kernel'.active
      /\ kernel.pending \subseteq kernel'.pending /\ kernel.retry \subseteq kernel'.retry
      /\ kernel'.serving = kernel.serving \ {"reset"} /\ kernel'.again = kernel.again
      /\ kernel'.waits = kernel.waits /\ kernel'.thread = kernel.thread
      /\ Unquiesced(endpoint) # {} => "reset" \in kernel'.retry
  <2> DEFINE k == Served(kernel, "reset")
  <2>1. Does(kernel, k, "reset") /\ k \in Kernels
    BY <1>1, ServedFields DEF Classes, Does
  <2>2. CASE NothingToReset
    BY <1>1, <2>1, <2>2 DEF NothingToReset, Does
  <2>3. CASE \E e \in Unquiesced(endpoint) : QuiesceFails(e)
    <3>1. kernel' \in PutOff(k, "reset")
      BY <2>3 DEF QuiesceFails
    <3> HIDE DEF k
    <3>2. "reset" \in Classes
      BY DEF Classes
    <3>3. /\ kernel' \in Kernels /\ kernel'.cpu = k.cpu /\ kernel'.worker = k.worker
          /\ kernel'.active = k.active /\ kernel'.again = k.again /\ kernel'.waits = k.waits
          /\ kernel'.thread = k.thread /\ kernel'.serving = k.serving
          /\ k.pending \subseteq kernel'.pending /\ k.retry \subseteq kernel'.retry
          /\ "reset" \in kernel'.retry
      BY <2>1, <3>1, <3>2, PutOffFields
    <3> QED BY <1>1, <2>1, <3>3 DEF Does
  <2> QED BY <2>2, <2>3
<1>3. \/ enabled' = enabled
      \/ \E e \in Slots : Owns(e) /\ enabled' = [enabled EXCEPT ![endpoint[e].source] = FALSE]
  BY DEF NothingToReset, QuiesceFails, Unquiesced, Owns
<1>4. \A s \in Sources : enabled'[s] => enabled[s]
  BY <1>1, <1>3 DEF Typed, Endpoints
<1>5. Sound(kernel') /\ RingInv' /\ dispatching = "no"
  BY <1>2, <1>4, ServeSound
<1>6. WorkInv'
  <2>1. Unquiesced(endpoint') # {} => "reset" \in kernel'.retry
    BY <1>2
  <2>2. Exiting(kernel') => Exiting(kernel)
    BY <1>2 DEF Exiting
  <2>3. "reap" \in Recorded(kernel) => "reap" \in Recorded(kernel')
    BY <1>2 DEF Recorded
  <2> QED BY <1>1, <2>1, <2>2, <2>3 DEF WorkInv, Recorded
<1>7. Typed'
  <2>1. enabled' \in [Sources -> BOOLEAN]
    BY <1>1, <1>3 DEF Typed
  <2> QED BY <1>1, <1>2, <2>1 DEF Typed
<1>8. RouteInv'
  BY <1>1 DEF RouteInv, Owns, Active
<1>9. MaskInv'
  <2>1. CASE enabled' = enabled
    BY <1>1, <1>5, <2>1 DEF MaskInv, Active, Awaits, Waiting
  <2>2. ASSUME NEW e \in Slots, Owns(e), enabled' = [enabled EXCEPT ![endpoint[e].source] = FALSE],
               endpoint[e].state = "revoking"
        PROVE  MaskInv'
    <3> DEFINE b == FALSE
               r == endpoint[e]
    <3>1. enabled' = [enabled EXCEPT ![endpoint[e].source] = b] /\ b \in BOOLEAN /\ ~b
      BY <2>2
    <3>2. r \in Endpoints /\ ~Endpoint(r) /\ r.state # "armed" /\ r.records <= 1 /\ r.source = endpoint[e].source
      BY <1>1, <2>2 DEF Endpoint, Typed, MaskInv
    <3>3. UNCHANGED <<ring, dispatching, route>> /\ endpoint' = [endpoint EXCEPT ![e] = r]
      BY <1>1 DEF Typed
    <3> HIDE DEF b, r
    <3> QED BY <1>1, <1>5, <2>2, <3>1, <3>2, <3>3, MaskCall
  <2>3. \/ enabled' = enabled
        \/ \E e \in Slots : Owns(e) /\ enabled' = [enabled EXCEPT ![endpoint[e].source] = FALSE]
                            /\ endpoint[e].state = "revoking"
    BY DEF NothingToReset, QuiesceFails, Unquiesced, Owns
  <2> QED BY <2>1, <2>2, <2>3
<1>10. WaitInv'
  BY <1>1, <1>2 DEF WaitInv, Active
<1> QED BY <1>5, <1>6, <1>7, <1>8, <1>9, <1>10 DEF Safe

(* service_device_reset of an endpoint whose device became quiet: its      *)
(* source is bound to nothing now, and no other endpoint had that source.  *)
LEMMA QuiesceSafe ==
  ASSUME Safe, Serving("reset"), NEW e \in Unquiesced(endpoint), Quiesce(e) PROVE Safe'
<1> DEFINE q == endpoint[e]
           s == q.source
           masked == [q EXCEPT !.quiesced = TRUE, !.masked = TRUE]
           r == IF masked.held THEN masked ELSE FreeEndpoint
<1>1. Typed /\ Sound(kernel) /\ RouteInv /\ MaskInv /\ WaitInv /\ WorkInv /\ RingInv
      /\ kernel \in Kernels
      /\ kernel.cpu = "worker" /\ kernel.worker = "running" /\ kernel.active
  BY DEF Safe, Typed, Serving, Sound
<1>2. /\ e \in Slots /\ q \in Endpoints /\ q.state = "revoking" /\ ~q.quiesced /\ s \in Sources
      /\ route[s] = e /\ Owns(e) /\ ~Active(e) /\ q.records <= 1
  BY <1>1 DEF Unquiesced, Typed, Endpoints, Owns, RouteInv, Active, MaskInv
<1>3. /\ endpoint' = [endpoint EXCEPT ![e] = r] /\ route' = [route EXCEPT ![s] = 0]
      /\ enabled' = [enabled EXCEPT ![s] = FALSE] /\ device' = [device EXCEPT ![s] = "quiet"]
      /\ UNCHANGED <<ring, dispatching, failures, deferrals>>
  BY DEF Quiesce
<1>4. /\ r \in Endpoints /\ r.records <= 1 /\ (r.held => r.state # "free")
      /\ (r.state = "free" /\ ~r.quiesced) \/ (r.state = "revoking" /\ r.quiesced /\ r.source = s)
  <2>1. /\ masked \in Endpoints /\ masked.quiesced /\ masked.state = q.state
        /\ masked.source = q.source
    BY <1>2 DEF Endpoints
  <2>2. masked.records = q.records /\ masked.held = q.held
    BY <1>2 DEF Endpoints
  <2> HIDE DEF masked
  <2> QED BY <1>2, <2>1, <2>2, FreeFields
<1> HIDE DEF r
<1>5. /\ kernel' \in Kernels /\ kernel'.cpu = "worker" /\ kernel'.worker = "running" /\ kernel'.active
      /\ kernel.pending \subseteq kernel'.pending /\ kernel.retry \subseteq kernel'.retry
      /\ kernel'.serving = kernel.serving \ {"reset"} /\ kernel'.again = kernel.again
      /\ kernel'.waits = kernel.waits /\ kernel'.thread = kernel.thread
      /\ Unquiesced(endpoint') # {} => "reset" \in kernel'.retry
  <2> DEFINE k == Served(kernel, "reset")
  <2>1. Does(kernel, k, "reset") /\ k \in Kernels
    BY <1>1, ServedFields DEF Classes, Does
  <2>2. CASE Unquiesced(endpoint') # {}
    <3>1. kernel' \in PutOff(k, "reset")
      BY <2>2 DEF Quiesce
    <3> HIDE DEF k
    <3>2. "reset" \in Classes
      BY DEF Classes
    <3>3. /\ kernel' \in Kernels /\ kernel'.cpu = k.cpu /\ kernel'.worker = k.worker
          /\ kernel'.active = k.active /\ kernel'.again = k.again /\ kernel'.waits = k.waits
          /\ kernel'.thread = k.thread /\ kernel'.serving = k.serving
          /\ k.pending \subseteq kernel'.pending /\ k.retry \subseteq kernel'.retry
          /\ "reset" \in kernel'.retry
      BY <2>1, <3>1, <3>2, PutOffFields
    <3> QED BY <1>1, <2>1, <3>3 DEF Does
  <2>3. CASE Unquiesced(endpoint') = {}
    <3>1. kernel' = k
      BY <2>3 DEF Quiesce
    <3> QED BY <1>1, <2>1, <2>3, <3>1 DEF Does
  <2> QED BY <2>2, <2>3
<1>6. /\ endpoint'[e] = r /\ \A f \in Slots \ {e} : endpoint'[f] = endpoint[f]
      /\ route'[s] = 0 /\ \A z \in Sources \ {s} : route'[z] = route[z]
      /\ ~enabled'[s] /\ \A z \in Sources \ {s} : enabled'[z] <=> enabled[z]
  BY <1>1, <1>2, <1>3 DEF Typed
<1>7. Sound(kernel') /\ RingInv' /\ dispatching = "no"
  BY <1>3, <1>5, <1>6, ServeSound
<1>8. WorkInv'
  <2>1. Exiting(kernel') => Exiting(kernel)
    BY <1>5 DEF Exiting
  <2>2. "reap" \in Recorded(kernel) => "reap" \in Recorded(kernel')
    BY <1>5 DEF Recorded
  <2> QED BY <1>1, <1>5, <2>1, <2>2 DEF WorkInv, Recorded
<1>9. Typed'
  <2>1. endpoint' \in [Slots -> Endpoints]
    BY <1>1, <1>2, <1>3, <1>4 DEF Typed
  <2>2. route' \in [Sources -> Slots \cup {0}] /\ enabled' \in [Sources -> BOOLEAN]
        /\ device' \in [Sources -> {"quiet", "work", "noise"}]
    BY <1>1, <1>2, <1>3 DEF Typed
  <2> QED BY <1>1, <1>3, <1>5, <2>1, <2>2 DEF Typed
<1>10. \A f \in Slots : f # e /\ Owns(f) => endpoint[f].source # s
  BY <1>1, <1>2 DEF RouteInv
<1>11. ~(r.state \in {"masked", "armed", "pending"}) /\ ~(r.state = "revoking" /\ ~r.quiesced)
  BY <1>4
<1>12. RouteInv'
  <2>1. ASSUME NEW f \in Slots, Owns(f)' PROVE route'[endpoint'[f].source] = f
    <3>1. f # e
      BY <1>6, <1>11, <2>1 DEF Owns, Active
    <3>2. endpoint'[f] = endpoint[f] /\ Owns(f)
      BY <1>6, <2>1, <3>1 DEF Owns, Active
    <3>3. endpoint[f].source # s /\ endpoint[f].source \in Sources /\ route[endpoint[f].source] = f
      BY <1>1, <1>10, <3>1, <3>2 DEF RouteInv, Typed, Endpoints
    <3> QED BY <1>6, <3>2, <3>3
  <2>2. ASSUME NEW z \in Sources, route'[z] # 0
        PROVE  Owns(route[z])' /\ endpoint'[route'[z]].source = z
    <3>1. z # s /\ route'[z] = route[z]
      BY <1>6, <2>2
    <3>2. route[z] \in Slots /\ Owns(route[z]) /\ endpoint[route[z]].source = z
      BY <1>1, <2>2, <3>1 DEF RouteInv, Typed
    <3>3. route[z] # e
      BY <1>2, <3>1, <3>2
    <3>4. endpoint'[route[z]] = endpoint[route[z]]
      BY <1>6, <3>2, <3>3
    <3> QED BY <3>1, <3>2, <3>4 DEF Owns, Active
  <2>3. ASSUME NEW f \in Slots
        PROVE  /\ endpoint'[f].quiesced => endpoint'[f].state = "revoking"
                    /\ (~BindsAgain => route'[endpoint'[f].source] = 0)
               /\ endpoint'[f].held => endpoint'[f].state # "free"
    <3>1. CASE f = e
      BY <1>4, <1>6, <3>1
    <3>2. CASE f # e
      <4>1. endpoint'[f] = endpoint[f] /\ endpoint[f].source \in Sources
        BY <1>1, <1>6, <3>2 DEF Typed, Endpoints
      <4> QED BY <1>1, <1>6, <4>1 DEF RouteInv
    <3> QED BY <3>1, <3>2
  <2> QED BY <2>1, <2>2, <2>3 DEF RouteInv
<1>13. MaskInv'
  <2>1. ASSUME NEW z \in Sources, enabled'[z]
        PROVE  route'[z] # 0 /\ Active(route[z])' /\ ~endpoint'[route'[z]].admin
    <3>1. z # s /\ enabled[z] /\ route'[z] = route[z]
      BY <1>6, <2>1
    <3>2. route[z] \in Slots /\ route[z] # 0 /\ Active(route[z]) /\ ~endpoint[route[z]].admin
      BY <1>1, <3>1 DEF MaskInv, Typed
    <3>3. endpoint'[route[z]] = endpoint[route[z]]
      BY <1>2, <1>6, <3>2
    <3> QED BY <3>1, <3>2, <3>3 DEF Active
  <2>2. ASSUME NEW f \in Slots, Active(f)'
        PROVE  /\ Consistent(endpoint'[f])
               /\ endpoint'[f].state = "armed" /\ ~endpoint'[f].masked =>
                    enabled'[endpoint'[f].source] \/ Awaits(endpoint[f].source)'
    <3>1. f # e
      BY <1>6, <1>11, <2>2 DEF Active
    <3>2. endpoint'[f] = endpoint[f] /\ Active(f) /\ Owns(f)
      BY <1>6, <2>2, <3>1 DEF Active, Owns
    <3>3. Consistent(endpoint[f])
      BY <1>1, <3>2, ConsistentSlots
    <3>4. endpoint[f].source # s /\ endpoint[f].source \in Sources
      BY <1>1, <1>10, <3>1, <3>2 DEF Typed, Endpoints
    <3>5. Awaits(endpoint[f].source) => Awaits(endpoint[f].source)'
      BY <1>3, <3>2 DEF Awaits, Waiting
    <3>6. endpoint[f].state = "armed" /\ ~endpoint[f].masked =>
            enabled[endpoint[f].source] \/ Awaits(endpoint[f].source)
      BY <1>1, <3>2 DEF MaskInv
    <3> QED BY <1>6, <3>2, <3>3, <3>4, <3>5, <3>6
  <2>a. \A f \in Slots : Active(f)' => (endpoint'[f].state = "armed" /\ ~endpoint'[f].masked =>
                    enabled'[endpoint'[f].source] \/ Awaits(endpoint[f].source)')
    BY <2>2
  <2>b. \A f \in Slots : Active(f)' => endpoint'[f].source = endpoint[f].source
    BY <1>6, <1>11 DEF Active
  <2>3. \A f \in Slots : endpoint'[f].records <= 1
    BY <1>1, <1>4, <1>6 DEF MaskInv
  <2>4. dispatching' # "noise"
    BY <1>3, <1>7
  <2>5. \A f \in Slots : Active(f)' => Consistent(endpoint'[f])
    BY <2>2
  <2> QED BY <2>1, <2>3, <2>4, <2>5, <2>a, <2>b DEF MaskInv, Consistent
<1>14. WaitInv'
  <2> SUFFICES ASSUME NEW u \in Threads, kernel.waits[u] # 0
               PROVE  /\ endpoint'[kernel.waits[u]].state \in {"masked", "armed", "pending"}
                      /\ endpoint'[kernel.waits[u]].owner = u
                      /\ endpoint'[kernel.waits[u]].records = 0
    BY <1>5 DEF WaitInv, Active
  <2>1. kernel.waits[u] \in Slots /\ Active(kernel.waits[u]) /\ kernel.waits[u] # e
    BY <1>1, <1>2 DEF Typed, Kernels, WaitInv
  <2> QED BY <1>1, <1>6, <2>1 DEF WaitInv, Active
<1> QED BY <1>7, <1>8, <1>9, <1>12, <1>13, <1>14 DEF Safe

(* service_device_reset, whatever it finds.                                *)
LEMMA ServeResetSafe ==
  ASSUME Safe, ServeReset PROVE Safe'
<1>1. Serving("reset")
  BY DEF ServeReset
<1>2. CASE NothingToReset
  <2>1. UNCHANGED <<ring, dispatching, device, endpoint, route, deferrals>>
        /\ failures' \in 0 .. MaxFailures
    BY <1>2 DEF NothingToReset, Safe, Typed
  <2> QED BY <1>1, <1>2, <2>1, ResetFailsSafe
<1>3. ASSUME NEW e \in Unquiesced(endpoint), QuiesceFails(e) PROVE Safe'
  <2>1. UNCHANGED <<ring, dispatching, device, endpoint, route, deferrals>>
        /\ failures' \in 0 .. MaxFailures
    BY <1>3, InterruptsAssumption DEF QuiesceFails, Safe, Typed
  <2> QED BY <1>1, <1>3, <2>1, ResetFailsSafe
<1>4. ASSUME NEW e \in Unquiesced(endpoint), Quiesce(e) PROVE Safe'
  BY <1>1, <1>4, QuiesceSafe
<1> QED BY <1>2, <1>3, <1>4 DEF ServeReset

(* The worker at an entry of the ring.                                     *)

(* note_storm_delivery: the endpoint is masked and told of the storm when  *)
(* the budget is reached.                                                  *)
LEMMA StormyFields ==
  ASSUME NEW q \in Endpoints
  PROVE  /\ Noted(q) \in 0 .. StormBudget
         /\ Stormy(q) \in Endpoints /\ Stormy(q).state = q.state /\ Stormy(q).source = q.source
         /\ Stormy(q).owner = q.owner /\ Stormy(q).quiesced = q.quiesced
         /\ Stormy(q).held = q.held /\ Stormy(q).admin = q.admin /\ Stormy(q).records = q.records
         /\ Stormy(q).events = q.events \cup (IF Noted(q) = StormBudget THEN {"storm"} ELSE {})
         /\ Stormy(q).masked <=> q.masked \/ Noted(q) = StormBudget
<1> DEFINE noise == Noted(q)
           events == q.events \cup (IF Noted(q) = StormBudget THEN {"storm"} ELSE {})
           masked == (q.masked \/ Noted(q) = StormBudget)
           a == [q EXCEPT !.noise = noise]
           b == [a EXCEPT !.events = events]
           c == [b EXCEPT !.masked = masked]
<1>1. noise \in 0 .. StormBudget
  BY InterruptsAssumption DEF Noted, Endpoints
<1>2. events \in SUBSET {"overflow", "storm"} /\ masked \in BOOLEAN
  BY DEF Endpoints
<1>3. Stormy(q) = c
  BY DEF Stormy, Endpoints
<1>4. /\ events = q.events \cup (IF Noted(q) = StormBudget THEN {"storm"} ELSE {})
      /\ masked <=> q.masked \/ Noted(q) = StormBudget
      /\ noise = Noted(q)
  OBVIOUS
<1> HIDE DEF noise, events, masked
<1>5. a \in Endpoints /\ a.state = q.state /\ a.source = q.source /\ a.owner = q.owner
  BY <1>1 DEF Endpoints
<1>6. a.quiesced = q.quiesced /\ a.held = q.held /\ a.admin = q.admin /\ a.records = q.records
  BY DEF Endpoints
<1> HIDE DEF a
<1>7. b \in Endpoints /\ b.state = a.state /\ b.source = a.source /\ b.owner = a.owner
  BY <1>2, <1>5 DEF Endpoints
<1>8. b.quiesced = a.quiesced /\ b.held = a.held /\ b.admin = a.admin /\ b.records = a.records
  BY <1>5 DEF Endpoints
<1>9. b.events = events
  BY <1>5 DEF Endpoints
<1> HIDE DEF b
<1>10. c \in Endpoints /\ c.state = b.state /\ c.source = b.source /\ c.owner = b.owner
  BY <1>2, <1>7 DEF Endpoints
<1>11. c.quiesced = b.quiesced /\ c.held = b.held /\ c.admin = b.admin /\ c.records = b.records
  BY <1>7 DEF Endpoints
<1>12. c.events = b.events /\ (c.masked <=> masked)
  BY <1>7 DEF Endpoints
<1> HIDE DEF c
<1> QED BY <1>1, <1>3, <1>4, <1>5, <1>6, <1>7, <1>8, <1>9, <1>10, <1>11, <1>12

(* A capture by an endpoint without records fills the first one and masks  *)
(* it.                                                                     *)
LEMMA DeliveredFields ==
  ASSUME NEW q \in Endpoints, q.records = 0, q.events = {}
  PROVE  LET r == Delivered(q) IN
         /\ r \in Endpoints /\ r.state = "pending" /\ r.masked /\ r.records = 1
         /\ r.source = q.source /\ r.owner = q.owner /\ r.quiesced = q.quiesced
         /\ r.held = q.held /\ r.admin = q.admin /\ r.events \subseteq {"storm"}
<1> DEFINE yes == TRUE
           one == q.records + 1
           a == Stormy(q)
           b == [a EXCEPT !.masked = yes, !.state = "pending"]
           c == [b EXCEPT !.records = one]
<1>1. /\ a \in Endpoints /\ a.source = q.source /\ a.owner = q.owner /\ a.quiesced = q.quiesced
      /\ a.held = q.held /\ a.admin = q.admin /\ a.records = q.records /\ a.events \subseteq {"storm"}
  BY StormyFields
<1>2. one = 1 /\ 1 \in 0 .. RecordDepth /\ q.records # RecordDepth /\ yes \in BOOLEAN /\ yes
  BY InterruptsAssumption DEF Endpoints
<1>3. Delivered(q) = [Stormy(q) EXCEPT !.masked = TRUE, !.state = "pending", !.records = @ + 1]
  BY <1>2 DEF Delivered
<1>4. Stormy(q).records = q.records
  BY <1>1
<1> HIDE DEF a
<1>5. [a EXCEPT !.masked = TRUE, !.state = "pending", !.records = a.records + 1] = c
  BY <1>1 DEF Endpoints
<1>6. Delivered(q) = c
  BY <1>3, <1>5 DEF a
<1> HIDE DEF yes, one
<1>7. b \in Endpoints /\ b.masked = yes /\ b.state = "pending" /\ b.source = a.source
  BY <1>1, <1>2 DEF Endpoints
<1>8. b.owner = a.owner /\ b.quiesced = a.quiesced /\ b.held = a.held /\ b.admin = a.admin
  BY <1>1 DEF Endpoints
<1>9. b.events = a.events
  BY <1>1 DEF Endpoints
<1> HIDE DEF b
<1>10. c \in Endpoints /\ c.records = one /\ c.masked = b.masked /\ c.state = b.state
  BY <1>2, <1>7 DEF Endpoints
<1>11. c.owner = b.owner /\ c.quiesced = b.quiesced /\ c.held = b.held /\ c.admin = b.admin
  BY <1>7 DEF Endpoints
<1>12. c.events = b.events /\ c.source = b.source
  BY <1>7 DEF Endpoints
<1> HIDE DEF c
<1> QED BY <1>1, <1>2, <1>6, <1>7, <1>8, <1>9, <1>10, <1>11, <1>12

(* What an entry that has somewhere to go finds there: an armed endpoint   *)
(* with nothing captured.                                                  *)
LEMMA OpenEndpoint ==
  ASSUME Typed, RouteInv, MaskInv, NEW s \in Sources, Open(s)
  PROVE  /\ route[s] \in Slots /\ Active(route[s]) /\ endpoint[route[s]] \in Endpoints
         /\ endpoint[route[s]].source = s /\ ~endpoint[route[s]].quiesced
         /\ endpoint[route[s]].state = "armed" /\ ~endpoint[route[s]].masked
         /\ endpoint[route[s]].records = 0 /\ endpoint[route[s]].events = {}
         /\ ~endpoint[route[s]].admin
         /\ \A f \in Slots : Owns(f) /\ endpoint[f].source = s => f = route[s]
<1>1. route[s] \in Slots /\ Active(route[s]) /\ endpoint[route[s]] \in Endpoints
      /\ endpoint[route[s]].source = s /\ ~endpoint[route[s]].masked /\ route[s] # 0
  BY DEF Typed, RouteInv, Open, Active
<1> DEFINE e == route[s]
           q == endpoint[e]
<1>2. e \in Slots /\ Active(e) /\ q \in Endpoints /\ ~q.masked /\ q.state \in {"armed", "pending"}
  BY <1>1 DEF Open
<1> HIDE DEF e
<1>3. q.state = "armed" /\ q.records = 0 /\ q.events = {} /\ ~q.admin /\ ~q.quiesced
  BY <1>2 DEF MaskInv, RouteInv, Active
<1>4. \A f \in Slots : Owns(f) /\ endpoint[f].source = s => f = route[s]
  BY DEF RouteInv
<1> QED BY <1>1, <1>3, <1>4 DEF e

(* The worker takes up the first entry of the ring.                        *)
LEMMA HeadTaken ==
  ASSUME Safe, Taking, dispatching = "no", dispatching' \in {"noise", "pop"}, UNCHANGED ring,
         Turned(kernel, kernel'), Exiting(kernel') => Exiting(kernel),
         Unquiesced(endpoint') # {} => Unquiesced(endpoint) # {},
         \A z \in Sources : enabled'[z] => enabled[z] \/ z = Head(ring)
  PROVE  /\ Head(ring) \in Sources /\ Sound(kernel') /\ WorkInv' /\ RingInv'
         /\ \A z \in Sources : z # Head(ring) /\ Awaits(z) => Awaits(z)'
<1>1. Typed /\ RingInv /\ Sound(kernel) /\ WorkInv /\ ring # <<>> /\ ring \in Seq(Sources)
      /\ kernel.cpu = "worker" /\ kernel.serving = {"irq"} /\ kernel.served < Batch
  BY DEF Safe, Typed, Taking, Serving
<1>2. Head(ring) = ring[1] /\ ring[1] \in Sources /\ 1 \in Waiting
  BY <1>1 DEF Waiting
<1>3. /\ \A i \in Waiting' : i \in Waiting /\ i # 1 /\ i > 1 /\ ring[i] \in Sources
      /\ \A i \in Waiting : i # 1 => i \in Waiting'
  BY <1>1 DEF Waiting
<1>4. Sound(kernel') /\ Recorded(kernel') = Recorded(kernel)
  BY <1>1, TurnedSound
<1>5. WorkInv'
  BY <1>1, <1>4 DEF WorkInv
<1>6. kernel'.cpu = "worker" /\ kernel'.serving = {"irq"} /\ kernel'.served < Batch
  BY <1>1 DEF Turned
<1>7. RingInv'
  <2>1. \A i, j \in Waiting' : i < j /\ ring[i] = ring[j] => ~enabled'[ring[i]]
    <3> SUFFICES ASSUME NEW i \in Waiting', NEW j \in Waiting', i < j, ring[i] = ring[j]
                 PROVE  ~enabled'[ring[i]]
      OBVIOUS
    <3>1. ~enabled[ring[i]] /\ ring[i] \in Sources
      BY <1>1, <1>3 DEF RingInv
    <3>2. ring[i] # ring[1]
      BY <1>1, <1>2, <1>3 DEF RingInv
    <3> QED BY <1>2, <3>1, <3>2
  <2>2. \A i, j, l \in Waiting' : i < j /\ j < l => ~(ring[i] = ring[j] /\ ring[j] = ring[l])
    BY <1>1, <1>3 DEF RingInv
  <2> QED BY <1>1, <1>6, <2>1, <2>2 DEF RingInv
<1>8. ASSUME NEW z \in Sources, z # Head(ring), Awaits(z) PROVE Awaits(z)'
  <2>1. PICK i \in Waiting : ring[i] = z
    BY <1>8 DEF Awaits
  <2>2. i \in Waiting'
    BY <1>2, <1>3, <1>8, <2>1
  <2> QED BY <2>1, <2>2 DEF Awaits
<1> QED BY <1>2, <1>4, <1>5, <1>7, <1>8

(* The endpoint of the first entry changes, and perhaps whether its source *)
(* is enabled.                                                             *)
LEMMA MaskHead ==
  ASSUME Typed, RouteInv, MaskInv, UNCHANGED <<ring, route>>,
         NEW s \in Sources, NEW e \in Slots, route[s] = e, Active(e), endpoint[e].source = s,
         NEW r, endpoint' = [endpoint EXCEPT ![e] = r],
         \A z \in Sources \ {s} : enabled'[z] <=> enabled[z],
         Endpoint(r), Consistent(r), r.source = s, enabled'[s] => ~r.admin,
         r.state = "armed" /\ ~r.masked => enabled'[s] \/ Awaits(s)',
         \A z \in Sources : z # s /\ Awaits(z) => Awaits(z)',
         dispatching' = "noise" => Open(Head(ring))'
  PROVE  MaskInv'
<1>1. endpoint'[e] = r /\ \A f \in Slots \ {e} : endpoint'[f] = endpoint[f]
  BY DEF Typed
<1>2. ASSUME NEW z \in Sources, enabled'[z]
      PROVE  route'[z] # 0 /\ Active(route[z])' /\ ~endpoint'[route'[z]].admin
  <2>1. CASE z = s
    <3>1. route'[z] = e /\ e # 0
      BY <2>1, InterruptsAssumption
    <3>2. endpoint'[route'[z]] = r
      BY <1>1, <3>1
    <3> QED BY <1>2, <2>1, <3>1, <3>2 DEF Active, Endpoint
  <2>2. CASE z # s
    <3>1. route[z] # 0 /\ Active(route[z]) /\ ~endpoint[route[z]].admin /\ route[z] \in Slots
      BY <1>2, <2>2 DEF MaskInv, Typed
    <3>2. route[z] # e
      BY <2>2, <3>1 DEF RouteInv
    <3>3. endpoint'[route[z]] = endpoint[route[z]]
      BY <1>1, <3>1, <3>2
    <3> QED BY <3>1, <3>3 DEF Active
  <2> QED BY <2>1, <2>2
<1>3. ASSUME NEW f \in Slots, Active(f)'
      PROVE  /\ Consistent(endpoint'[f])
             /\ endpoint'[f].state = "armed" /\ ~endpoint'[f].masked =>
                  enabled'[endpoint'[f].source] \/ (\E i \in Waiting' : ring'[i] = endpoint'[f].source)
  <2>1. CASE f = e
    <3>1. endpoint'[f] = r
      BY <1>1, <2>1
    <3> QED BY <3>1 DEF Awaits
  <2>2. CASE f # e
    <3>1. endpoint'[f] = endpoint[f] /\ Active(f) /\ Owns(f)
      BY <1>1, <1>3, <2>2 DEF Active, Owns
    <3>2. endpoint[f].source \in Sources /\ endpoint[f].source # s
      BY <2>2, <3>1 DEF RouteInv, Typed, Endpoints
    <3>3. Consistent(endpoint[f])
      BY <3>1, ConsistentSlots
    <3>4. endpoint[f].state = "armed" /\ ~endpoint[f].masked =>
            enabled[endpoint[f].source] \/ Awaits(endpoint[f].source)
      BY <3>1 DEF MaskInv
    <3> DEFINE z == endpoint[f].source
    <3>5. z \in Sources /\ z # s
      BY <3>2
    <3> HIDE DEF z
    <3>6. (Awaits(z) => \E i \in Waiting' : ring'[i] = z) /\ (enabled[z] <=> enabled'[z])
      BY <3>5 DEF Awaits
    <3> QED BY <3>1, <3>3, <3>4, <3>6 DEF z
  <2> QED BY <2>1, <2>2
<1>4. \A f \in Slots : endpoint'[f].records <= 1
  BY <1>1 DEF MaskInv, Consistent
<1>5. \A f \in Slots : Active(f)' => Consistent(endpoint'[f])
  BY <1>3
<1>6. \A f \in Slots : Active(f)' => (endpoint'[f].state = "armed" /\ ~endpoint'[f].masked =>
                  enabled'[endpoint'[f].source] \/ (\E i \in Waiting' : ring'[i] = endpoint'[f].source))
  BY <1>3
<1> QED BY <1>2, <1>4, <1>5, <1>6 DEF MaskInv, Consistent, Awaits

(* An entry without an endpoint to go to, or with a masked one: its source *)
(* is disabled, and no armed endpoint had relied on it.                    *)
LEMMA QuarantineSafe ==
  ASSUME Safe, Taking, dispatching = "no", Quarantine(Head(ring)),
         UNCHANGED <<ring, device, route, failures, deferrals>>
  PROVE  Safe'
<1> DEFINE s == Head(ring)
<1>1. ~Open(s) /\ enabled' = [enabled EXCEPT ![s] = FALSE] /\ dispatching' = "pop"
      /\ UNCHANGED <<kernel, endpoint>>
  BY DEF Quarantine
<1>2. Typed /\ RouteInv /\ MaskInv /\ WaitInv /\ Sound(kernel)
  BY DEF Safe
<1>3. Turned(kernel, kernel')
  BY <1>1, <1>2 DEF Turned, Sound
<1>4. \A z \in Sources : enabled'[z] => enabled[z]
  BY <1>1, <1>2 DEF Typed
<1>5. /\ s \in Sources /\ Sound(kernel') /\ WorkInv' /\ RingInv'
      /\ \A z \in Sources : z # s /\ Awaits(z) => Awaits(z)'
  BY <1>1, <1>3, <1>4, HeadTaken
<1> HIDE DEF s
<1>6. ~enabled'[s] /\ \A z \in Sources \ {s} : enabled'[z] <=> enabled[z]
  BY <1>1, <1>2, <1>5 DEF Typed
<1>7. Typed'
  BY <1>1, <1>2 DEF Typed
<1>8. RouteInv' /\ WaitInv'
  BY <1>1, <1>2 DEF RouteInv, WaitInv, Owns, Active
<1>9. MaskInv'
  <2>1. \A z \in Sources : enabled'[z] =>
           route'[z] # 0 /\ Active(route[z])' /\ ~endpoint'[route'[z]].admin
    BY <1>1, <1>2, <1>4 DEF MaskInv, Active
  <2>2. ASSUME NEW f \in Slots, Active(f), endpoint[f].state = "armed", ~endpoint[f].masked
        PROVE  enabled'[endpoint[f].source] \/ (\E i \in Waiting' : ring'[i] = endpoint[f].source)
    <3>1. route[endpoint[f].source] = f /\ f # 0 /\ endpoint[f].source \in Sources
      BY <1>2, <2>2, InterruptsAssumption DEF RouteInv, Owns, Typed, Endpoints
    <3>2. endpoint[f].source # s
      BY <1>1, <2>2, <3>1 DEF Open
    <3>3. enabled[endpoint[f].source] \/ Awaits(endpoint[f].source)
      BY <1>2, <2>2 DEF MaskInv
    <3> DEFINE z == endpoint[f].source
    <3>4. z \in Sources /\ z # s /\ (enabled[z] \/ Awaits(z))
      BY <3>1, <3>2, <3>3
    <3> HIDE DEF z
    <3>5. enabled'[z] \/ (\E i \in Waiting' : ring'[i] = z)
      BY <1>5, <1>6, <3>4 DEF Awaits
    <3> QED BY <3>5 DEF z
  <2>3. dispatching' # "noise"
    BY <1>1
  <2>4. \A f \in Slots : Active(f)' <=> Active(f)
    BY <1>1 DEF Active
  <2>5. \A f \in Slots : Active(f) => Consistent(endpoint[f])
    BY <1>2, ConsistentSlots
  <2>6. \A f \in Slots : endpoint[f].records <= 1
    BY <1>2 DEF MaskInv
  <2> QED BY <1>1, <2>1, <2>2, <2>3, <2>4, <2>5, <2>6 DEF MaskInv, Consistent, Awaits
<1> QED BY <1>5, <1>7, <1>8, <1>9 DEF Safe

(* An entry whose device has work: the endpoint captures it and its        *)
(* waiters wake.                                                           *)
LEMMA DeliverSafe ==
  ASSUME Safe, Taking, dispatching = "no", Deliver(Head(ring)),
         UNCHANGED <<ring, device, route, failures, deferrals>>
  PROVE  Safe'
<1> DEFINE s == Head(ring)
           e == route[s]
           q == endpoint[e]
           r == Delivered(q)
<1>1. Open(s) /\ endpoint' = [endpoint EXCEPT ![e] = r] /\ kernel' = Wake(kernel, {e})
      /\ dispatching' = "pop" /\ UNCHANGED enabled
  BY DEF Deliver, Safe, Typed
<1>2. Typed /\ RouteInv /\ MaskInv /\ WaitInv /\ Sound(kernel) /\ kernel \in Kernels /\ RingInv
  BY DEF Safe, Typed
<1>3. s \in Sources
  BY <1>2 DEF Taking, Typed
<1>4. /\ e \in Slots /\ Active(e) /\ q \in Endpoints /\ q.source = s /\ ~q.quiesced
      /\ q.state = "armed" /\ q.records = 0 /\ q.events = {} /\ ~q.admin
  BY <1>1, <1>2, <1>3, OpenEndpoint
<1>5. /\ r \in Endpoints /\ r.state = "pending" /\ r.masked /\ r.records = 1
      /\ r.source = q.source /\ r.owner = q.owner /\ r.quiesced = q.quiesced
      /\ r.held = q.held /\ r.admin = q.admin /\ r.events \subseteq {"storm"}
  BY <1>4, DeliveredFields
<1> HIDE DEF r
<1>6. /\ Turned(kernel, kernel')
      /\ \A t \in Threads : kernel'.waits[t] = (IF kernel.waits[t] \in {e} THEN 0 ELSE kernel.waits[t])
  BY <1>1, <1>2, WakeTurned
<1>7. Exiting(kernel') => Exiting(kernel)
  <2> SUFFICES ASSUME NEW t \in Threads, kernel'.thread[t] = "exiting"
               PROVE  kernel.thread[t] = "exiting"
    BY DEF Exiting
  <2> QED BY <1>1, <1>2 DEF Wake, Kernels
<1>8. endpoint'[e] = r /\ \A f \in Slots \ {e} : endpoint'[f] = endpoint[f]
  BY <1>1, <1>2, <1>4 DEF Typed
<1>9. Unquiesced(endpoint') # {} => Unquiesced(endpoint) # {}
  BY <1>4, <1>5, <1>8 DEF Unquiesced
<1>10. /\ Sound(kernel') /\ WorkInv' /\ RingInv'
       /\ \A z \in Sources : z # s /\ Awaits(z) => Awaits(z)'
  BY <1>1, <1>6, <1>7, <1>9, HeadTaken
<1>11. Typed'
  <2>1. endpoint' \in [Slots -> Endpoints]
    BY <1>1, <1>2, <1>4, <1>5 DEF Typed
  <2> QED BY <1>1, <1>2, <1>10, <2>1 DEF Typed, Sound
<1>12. RouteInv'
  <2>1. \A f \in Slots :
           /\ Owns(f)' <=> Owns(f)
           /\ Owns(f) => endpoint'[f].source = endpoint[f].source
           /\ endpoint'[f].quiesced =>
                /\ endpoint[f].quiesced /\ endpoint'[f].state = "revoking"
                /\ endpoint'[f].source = endpoint[f].source
           /\ endpoint'[f].held => endpoint'[f].state # "free"
    <3> TAKE f \in Slots
    <3>1. CASE f = e
      BY <3>1, <1>4, <1>5, <1>8 DEF Owns, Active
    <3>2. CASE f # e
      BY <3>2, <1>2, <1>8 DEF Owns, Active, RouteInv
    <3> QED BY <3>1, <3>2
  <2> QED BY <1>2, <2>1, RouteKeep
<1>13. MaskInv'
  <2>1. Endpoint(r) /\ Consistent(r) /\ r.source = s /\ ~r.admin /\ r.state # "armed"
    BY <1>4, <1>5 DEF Endpoint, Consistent
  <2>2. route[s] = e /\ dispatching' # "noise"
    BY <1>1
  <2>3. endpoint[e].source = s
    BY <1>4
  <2> HIDE DEF s, e
  <2> QED BY <1>1, <1>2, <1>3, <1>4, <1>10, <2>1, <2>2, <2>3, MaskHead
<1>14. WaitInv'
  <2> SUFFICES ASSUME NEW u \in Threads, kernel'.waits[u] # 0
               PROVE  /\ endpoint'[kernel'.waits[u]].state \in {"masked", "armed", "pending"}
                      /\ endpoint'[kernel'.waits[u]].owner = u
                      /\ endpoint'[kernel'.waits[u]].records = 0
    BY DEF WaitInv, Active
  <2>1. kernel'.waits[u] = kernel.waits[u] /\ kernel.waits[u] # e /\ kernel.waits[u] # 0
    BY <1>6
  <2>2. kernel.waits[u] \in Slots
    BY <1>2, <2>1 DEF Kernels
  <2>3. endpoint'[kernel.waits[u]] = endpoint[kernel.waits[u]]
    BY <1>8, <2>1, <2>2
  <2> QED BY <1>2, <2>1, <2>3 DEF WaitInv, Active
<1> QED BY <1>10, <1>11, <1>12, <1>13, <1>14 DEF Safe

(* What the worker does to an endpoint that stays armed.                   *)
LEMMA HeadArmed ==
  ASSUME Safe, UNCHANGED <<kernel, ring, device, route, failures, deferrals>>,
         NEW s \in Sources, NEW e \in Slots, route[s] = e, Active(e), endpoint[e].source = s,
         endpoint[e].state = "armed", ~endpoint[e].admin, endpoint[e].records = 0,
         ~endpoint[e].quiesced,
         NEW r \in Endpoints, endpoint' = [endpoint EXCEPT ![e] = r],
         r.state = "armed", r.source = s, r.owner = endpoint[e].owner, r.held = endpoint[e].held,
         ~r.admin, r.records = 0, ~r.quiesced, r.events \subseteq {"storm"},
         r.masked <=> r.events # {}, ~r.masked => enabled'[s] \/ Awaits(s)',
         enabled' \in [Sources -> BOOLEAN], \A z \in Sources \ {s} : enabled'[z] <=> enabled[z],
         dispatching' \in {"noise", "pop"}, dispatching' = "noise" => Open(Head(ring))',
         \A z \in Sources : z # s /\ Awaits(z) => Awaits(z)',
         RingInv'
  PROVE  Safe'
<1>1. Typed /\ RouteInv /\ MaskInv /\ WaitInv /\ Sound(kernel) /\ kernel \in Kernels /\ WorkInv
  BY DEF Safe, Typed
<1>2. endpoint'[e] = r /\ \A f \in Slots \ {e} : endpoint'[f] = endpoint[f]
  BY <1>1 DEF Typed
<1>3. Typed'
  <2>1. endpoint' \in [Slots -> Endpoints]
    BY <1>1 DEF Typed
  <2> QED BY <1>1, <2>1 DEF Typed
<1>4. Unquiesced(endpoint') # {} => Unquiesced(endpoint) # {}
  BY <1>2 DEF Unquiesced
<1>5. WorkInv' /\ Sound(kernel')
  BY <1>1, <1>4 DEF WorkInv
<1>6. RouteInv'
  <2>1. \A f \in Slots :
           /\ Owns(f)' <=> Owns(f)
           /\ Owns(f) => endpoint'[f].source = endpoint[f].source
           /\ endpoint'[f].quiesced =>
                /\ endpoint[f].quiesced /\ endpoint'[f].state = "revoking"
                /\ endpoint'[f].source = endpoint[f].source
           /\ endpoint'[f].held => endpoint'[f].state # "free"
    <3> TAKE f \in Slots
    <3>1. CASE f = e
      BY <3>1, <1>2 DEF Owns, Active
    <3>2. CASE f # e
      BY <3>2, <1>1, <1>2 DEF Owns, Active, RouteInv
    <3> QED BY <3>1, <3>2
  <2> QED BY <1>1, <2>1, RouteKeep
<1>7. MaskInv'
  <2>1. Endpoint(r) /\ Consistent(r)
    BY DEF Endpoint, Consistent
  <2> QED BY <1>1, <2>1, MaskHead
<1>8. WaitInv'
  <2> SUFFICES ASSUME NEW u \in Threads, kernel.waits[u] # 0
               PROVE  /\ endpoint'[kernel.waits[u]].state \in {"masked", "armed", "pending"}
                      /\ endpoint'[kernel.waits[u]].owner = u
                      /\ endpoint'[kernel.waits[u]].records = 0
    BY DEF WaitInv, Active
  <2>1. kernel.waits[u] \in Slots
    BY <1>1 DEF Kernels
  <2>2. CASE kernel.waits[u] = e
    BY <1>1, <1>2, <2>2 DEF WaitInv
  <2>3. CASE kernel.waits[u] # e
    <3>1. endpoint'[kernel.waits[u]] = endpoint[kernel.waits[u]]
      BY <1>2, <2>1, <2>3
    <3> QED BY <1>1, <3>1 DEF WaitInv, Active
  <2> QED BY <2>2, <2>3
<1> QED BY <1>3, <1>5, <1>6, <1>7, <1>8 DEF Safe

(* An entry whose device has none: the source is enabled again before the  *)
(* entry is off the ring, and has at most one other entry there.           *)
LEMMA SpuriousSafe ==
  ASSUME Safe, Taking, dispatching = "no", Spurious(Head(ring)),
         UNCHANGED <<ring, device, route, failures, deferrals>>
  PROVE  Safe'
<1> DEFINE s == Head(ring)
           e == route[s]
           r == endpoint[e]
<1>1. Open(s) /\ enabled' = [enabled EXCEPT ![s] = TRUE] /\ dispatching' = "noise"
      /\ UNCHANGED <<kernel, endpoint>>
  BY DEF Spurious
<1>2. Typed /\ RouteInv /\ MaskInv /\ Sound(kernel) /\ kernel \in Kernels /\ RingInv
  BY DEF Safe, Typed
<1>3. s \in Sources
  BY <1>2 DEF Taking, Typed
<1>4. /\ e \in Slots /\ Active(e) /\ r \in Endpoints /\ r.source = s /\ ~r.quiesced
      /\ r.state = "armed" /\ r.records = 0 /\ r.events = {} /\ ~r.admin /\ ~r.masked
  BY <1>1, <1>2, <1>3, OpenEndpoint
<1>5. Turned(kernel, kernel') /\ (Exiting(kernel') => Exiting(kernel))
      /\ (Unquiesced(endpoint') # {} => Unquiesced(endpoint) # {})
  BY <1>1, <1>2 DEF Turned
<1>6. enabled'[s] /\ enabled' \in [Sources -> BOOLEAN]
      /\ \A z \in Sources \ {s} : enabled'[z] <=> enabled[z]
  BY <1>1, <1>2, <1>3 DEF Typed
<1>7. RingInv' /\ \A z \in Sources : z # s /\ Awaits(z) => Awaits(z)'
  <2>1. \A z \in Sources : enabled'[z] => enabled[z] \/ z = Head(ring)
    BY <1>6
  <2> QED BY <1>1, <1>5, <2>1, HeadTaken
<1>8. Open(Head(ring))'
  BY <1>1 DEF Open
<1>9. route[s] = e /\ endpoint[e] = r
  OBVIOUS
<1> HIDE DEF s, e, r
<1>10. endpoint' = [endpoint EXCEPT ![e] = r]
  BY <1>1, <1>2, <1>4, <1>9 DEF Typed
<1>11. /\ UNCHANGED <<kernel, ring, device, route, failures, deferrals>>
       /\ r.owner = endpoint[e].owner /\ r.held = endpoint[e].held /\ endpoint[e].source = s
       /\ endpoint[e].state = "armed" /\ ~endpoint[e].admin /\ endpoint[e].records = 0
       /\ ~endpoint[e].quiesced /\ r.events \subseteq {"storm"} /\ (r.masked <=> r.events # {})
       /\ dispatching' \in {"noise", "pop"}
  BY <1>1, <1>4, <1>9
<1>12. ~r.masked => enabled'[s] \/ Awaits(s)'
  BY <1>6
<1> QED BY <1>3, <1>4, <1>6, <1>7, <1>8, <1>9, <1>10, <1>11, <1>12, HeadArmed

(* What the worker does with the first entry.                              *)
LEMMA DispatchSafe ==
  ASSUME Safe, Dispatch PROVE Safe'
BY QuarantineSafe, DeliverSafe, SpuriousSafe DEF Dispatch

(* The entry without work is counted: the source stays enabled, or is      *)
(* disabled with the endpoint masked.                                      *)
LEMMA CountNoiseSafe ==
  ASSUME Safe, CountNoise PROVE Safe'
<1>0. PICK s \in Sources : s = Head(ring)
  BY DEF CountNoise, Taking, Safe, Typed
<1> DEFINE e == route[s]
           q == endpoint[e]
           r == Stormy(q)
<1>1. /\ Taking /\ dispatching = "noise" /\ dispatching' = "pop"
      /\ endpoint' = [endpoint EXCEPT ![e] = r]
      /\ enabled' = [enabled EXCEPT ![s] = enabled[s] /\ Noted(q) < StormBudget]
      /\ UNCHANGED <<kernel, ring, device, route, failures, deferrals>>
  BY <1>0 DEF CountNoise, Safe, Typed
<1>2. Typed /\ RouteInv /\ MaskInv /\ Sound(kernel) /\ kernel \in Kernels /\ RingInv
  BY DEF Safe, Typed
<1>3. s \in Sources /\ Open(s)
  BY <1>0, <1>1, <1>2 DEF MaskInv
<1>4. /\ e \in Slots /\ Active(e) /\ q \in Endpoints /\ q.source = s /\ ~q.quiesced
      /\ q.state = "armed" /\ q.records = 0 /\ q.events = {} /\ ~q.admin /\ ~q.masked
  BY <1>2, <1>3, OpenEndpoint
<1>5. /\ Noted(q) \in 0 .. StormBudget
      /\ r \in Endpoints /\ r.state = q.state /\ r.source = q.source
      /\ r.owner = q.owner /\ r.quiesced = q.quiesced
      /\ r.held = q.held /\ r.admin = q.admin /\ r.records = q.records
      /\ r.events = q.events \cup (IF Noted(q) = StormBudget THEN {"storm"} ELSE {})
      /\ r.masked <=> q.masked \/ Noted(q) = StormBudget
  BY <1>4, StormyFields
<1>6. r.events \subseteq {"storm"} /\ (r.masked <=> r.events # {})
      /\ (~r.masked => Noted(q) < StormBudget)
  BY <1>4, <1>5, InterruptsAssumption
<1>7. /\ enabled' \in [Sources -> BOOLEAN]
      /\ \A z \in Sources \ {s} : enabled'[z] <=> enabled[z]
      /\ enabled'[s] <=> enabled[s] /\ Noted(q) < StormBudget
  BY <1>1, <1>2, <1>3 DEF Typed
<1>8. Waiting' = Waiting
  BY <1>1 DEF Waiting
<1>9. \A z \in Sources : Awaits(z) => Awaits(z)'
  BY <1>1, <1>8 DEF Awaits
<1>10. ~r.masked => enabled'[s] \/ Awaits(s)'
  <2>1. enabled[s] \/ Awaits(s)
    BY <1>2, <1>4 DEF MaskInv
  <2>2. Awaits(s) => Awaits(s)'
    BY <1>3, <1>9
  <2> HIDE DEF r, q
  <2> QED BY <1>6, <1>7, <2>1, <2>2
<1>11. RingInv'
  <2>1. \A i \in Waiting : ring[i] \in Sources /\ (enabled'[ring[i]] => enabled[ring[i]])
    BY <1>2, <1>3, <1>7 DEF Waiting, Typed
  <2> QED BY <1>1, <1>2, <1>8, <2>1 DEF RingInv
<1>12. route[s] = e /\ endpoint[e] = q
  OBVIOUS
<1> HIDE DEF e, q, r
<1>13. /\ UNCHANGED <<kernel, ring, device, route, failures, deferrals>>
       /\ r.owner = endpoint[e].owner /\ r.held = endpoint[e].held /\ endpoint[e].source = s
       /\ endpoint[e].state = "armed" /\ ~endpoint[e].admin /\ endpoint[e].records = 0
       /\ ~endpoint[e].quiesced /\ r.state = "armed" /\ r.source = s /\ ~r.admin /\ r.records = 0
       /\ ~r.quiesced /\ Active(e) /\ e \in Slots /\ r \in Endpoints
  BY <1>1, <1>4, <1>5, <1>12
<1>14. /\ dispatching' \in {"noise", "pop"} /\ dispatching' # "noise"
       /\ endpoint' = [endpoint EXCEPT ![e] = r]
       /\ \A z \in Sources : z # s /\ Awaits(z) => Awaits(z)'
  BY <1>1, <1>9
<1> QED BY <1>3, <1>6, <1>7, <1>10, <1>11, <1>12, <1>13, <1>14, HeadArmed

(* The read sequence moves on: the entry had been looked at, so nobody     *)
(* relied on it.                                                           *)
LEMMA PopSafe ==
  ASSUME Safe, Pop PROVE Safe'
<1> DEFINE n == kernel.served + 1
           k == [kernel EXCEPT !.served = n]
<1>1. /\ Taking /\ dispatching = "pop" /\ ring' = Tail(ring) /\ dispatching' = "no"
      /\ kernel' = k /\ UNCHANGED <<enabled, device, endpoint, route, failures, deferrals>>
  BY DEF Pop
<1>2. Typed /\ RouteInv /\ MaskInv /\ WaitInv /\ WorkInv /\ Sound(kernel) /\ kernel \in Kernels /\ RingInv
      /\ kernel.cpu = "worker" /\ kernel.serving = {"irq"} /\ ring # <<>> /\ ring \in Seq(Sources)
  BY <1>1 DEF Safe, Typed, Taking, Serving
<1>3. n \in 0 .. Batch
  BY <1>1, <1>2, InterruptsAssumption DEF Taking, Kernels
<1> HIDE DEF n
<1>4. k \in Kernels /\ k.cpu = kernel.cpu /\ k.worker = kernel.worker /\ k.active = kernel.active
  BY <1>2, <1>3 DEF Kernels
<1>5. k.pending = kernel.pending /\ k.retry = kernel.retry /\ k.serving = kernel.serving
      /\ k.again = kernel.again
  BY <1>2 DEF Kernels
<1>6. k.waits = kernel.waits /\ k.thread = kernel.thread
  BY <1>2 DEF Kernels
<1> HIDE DEF k
<1>7. Sound(kernel')
  BY <1>1, <1>2, <1>4, <1>5 DEF Sound
<1>8. WorkInv'
  BY <1>1, <1>2, <1>5, <1>6 DEF WorkInv, Recorded, Exiting
<1>9. /\ ring' \in Seq(Sources) /\ Len(ring') = Len(ring) - 1 /\ Len(ring) \in Nat
      /\ \A i \in 1 .. Len(ring') : ring'[i] = ring[i + 1]
  BY <1>1, <1>2
<1>10. /\ \A i \in Waiting' : i \in Nat /\ i + 1 \in Waiting /\ ring'[i] = ring[i + 1]
       /\ \A i \in Waiting : i - 1 \in Waiting' /\ ring'[i - 1] = ring[i]
  BY <1>1, <1>9 DEF Waiting
<1>11. Typed'
  BY <1>1, <1>2, <1>4, <1>9 DEF Typed
<1>12. RingInv'
  <2>1. \A i, j \in Waiting' : i < j /\ ring'[i] = ring'[j] =>
          kernel.cpu = "worker" /\ ~enabled[ring'[i]]
    <3> SUFFICES ASSUME NEW i \in Waiting', NEW j \in Waiting', i < j, ring'[i] = ring'[j]
                 PROVE  ~enabled[ring'[i]]
      BY <1>2
    <3>1. i + 1 < j + 1 /\ i + 1 \in Waiting /\ j + 1 \in Waiting /\ ring[i + 1] = ring[j + 1]
          /\ ring'[i] = ring[i + 1]
      BY <1>10
    <3> QED BY <1>2, <3>1 DEF RingInv
  <2>2. \A i, j, l \in Waiting' : i < j /\ j < l => ~(ring'[i] = ring'[j] /\ ring'[j] = ring'[l])
    <3> SUFFICES ASSUME NEW i \in Waiting', NEW j \in Waiting', NEW l \in Waiting', i < j, j < l,
                        ring'[i] = ring'[j], ring'[j] = ring'[l]
                 PROVE  FALSE
      OBVIOUS
    <3>1. /\ i + 1 < j + 1 /\ j + 1 < l + 1
          /\ i + 1 \in Waiting /\ j + 1 \in Waiting /\ l + 1 \in Waiting
          /\ ring[i + 1] = ring[j + 1] /\ ring[j + 1] = ring[l + 1]
      BY <1>10
    <3> QED BY <1>2, <3>1 DEF RingInv
  <2> QED BY <1>1, <1>2, <1>4, <1>5, <2>1, <2>2 DEF RingInv
<1>13. RouteInv' /\ WaitInv'
  BY <1>1, <1>2, <1>6 DEF RouteInv, WaitInv, Owns, Active
<1>14. MaskInv'
  <2>1. \A z \in Sources : Awaits(z) => \E i \in Waiting' : ring'[i] = z
    BY <1>10 DEF Awaits
  <2>2. \A f \in Slots : endpoint[f].source \in Sources
    BY <1>2 DEF Typed, Endpoints
  <2>3. \A f \in Slots : Awaits(endpoint[f].source) => \E i \in Waiting' : ring'[i] = endpoint[f].source
    BY <2>1, <2>2
  <2>4. dispatching' # "noise"
    BY <1>1
  <2>5. \A z \in Sources : enabled'[z] =>
           route'[z] # 0 /\ Active(route[z])' /\ ~endpoint'[route'[z]].admin
    BY <1>1, <1>2 DEF MaskInv, Active
  <2>6. \A f \in Slots : Active(f) => Consistent(endpoint[f])
    BY <1>2, ConsistentSlots
  <2>7. \A f \in Slots : Active(f) /\ endpoint[f].state = "armed" /\ ~endpoint[f].masked =>
          enabled[endpoint[f].source] \/ Awaits(endpoint[f].source)
    BY <1>2 DEF MaskInv
  <2>8. \A f \in Slots : (Active(f)' <=> Active(f)) /\ endpoint[f].records <= 1
    BY <1>1, <1>2 DEF Active, MaskInv
  <2> HIDE DEF Safe
  <2> QED BY <1>1, <2>3, <2>4, <2>5, <2>6, <2>7, <2>8 DEF MaskInv, Consistent, Awaits
<1> QED BY <1>7, <1>8, <1>11, <1>12, <1>13, <1>14 DEF Safe

(* The batch ends: what is left in the ring is work again.                 *)
LEMMA EndBatchSafe ==
  ASSUME Safe, EndBatch PROVE Safe'
<1> DEFINE k == Served(kernel, "irq")
<1>1. /\ kernel.cpu = "worker" /\ kernel.serving = {"irq"} /\ dispatching = "no"
      /\ kernel' = IF ring = <<>> THEN k ELSE Signal(k, "irq")
      /\ UNCHANGED <<ring, dispatching, enabled, device, endpoint, route, failures, deferrals>>
  BY DEF EndBatch, Serving
<1>2. Typed /\ RouteInv /\ MaskInv /\ WaitInv /\ WorkInv /\ Sound(kernel) /\ kernel \in Kernels /\ RingInv
  BY DEF Safe, Typed
<1>3. Does(kernel, k, "irq") /\ k \in Kernels /\ k.worker = "running" /\ k.serving = {}
      /\ k.pending = kernel.pending /\ k.retry = kernel.retry
  BY <1>1, <1>2, ServedFields DEF Classes, Does, Sound
<1> HIDE DEF k
<1>4. Signalled(k, Signal(k, "irq"), {"irq"}) /\ Signal(k, "irq").retry = k.retry
  BY <1>3, SignalFields DEF Classes
<1>5. /\ kernel' \in Kernels /\ kernel'.cpu = "worker" /\ kernel'.worker = "running"
      /\ kernel'.active /\ kernel'.again = kernel.again /\ kernel'.waits = kernel.waits
      /\ kernel'.thread = kernel.thread /\ kernel.pending \subseteq kernel'.pending
      /\ kernel'.retry = kernel.retry /\ (ring # <<>> => "irq" \in kernel'.pending)
  <2>1. CASE ring = <<>>
    BY <1>1, <1>2, <1>3, <2>1 DEF Does, Sound
  <2>2. CASE ring # <<>>
    BY <1>1, <1>2, <1>3, <1>4, <2>2 DEF Does, Sound, Signalled
  <2> QED BY <2>1, <2>2
<1>6. Sound(kernel')
  BY <1>5 DEF Sound
<1>7. WorkInv'
  <2>1. Exiting(kernel') => Exiting(kernel)
    BY <1>5 DEF Exiting
  <2>2. /\ "reap" \in Recorded(kernel) => "reap" \in Recorded(kernel')
        /\ "reset" \in Recorded(kernel) => "reset" \in Recorded(kernel')
    BY <1>1, <1>5 DEF Recorded
  <2> QED BY <1>1, <1>2, <2>1, <2>2 DEF WorkInv
<1>8. RingInv'
  BY <1>1, <1>2, <1>5 DEF RingInv, Waiting
<1>9. Typed' /\ RouteInv'
  BY <1>1, <1>2, <1>5 DEF Typed, RouteInv, Owns, Active
<1>10. MaskInv'
  BY <1>1, <1>2 DEF MaskInv, Active, Awaits, Waiting, Open
<1>11. WaitInv'
  BY <1>1, <1>2, <1>5 DEF WaitInv, Active
<1> QED BY <1>6, <1>7, <1>8, <1>9, <1>10, <1>11 DEF Safe

(* service_once ends: late burials are put off, and the worker blocks only *)
(* if nothing is pending.                                                  *)
LEMMA EndPassSafe ==
  ASSUME Safe, EndPass PROVE Safe'
<1> DEFINE k == Ended(kernel)
           done == [k EXCEPT !.worker = "blocked"]
<1>1. /\ kernel.cpu = "worker" /\ kernel.serving = {}
      /\ kernel' \in IF k.pending # {} THEN {Pass(k)} ELSE Resume(done)
      /\ UNCHANGED <<ring, dispatching, enabled, device, endpoint, route, failures, deferrals>>
  BY DEF EndPass
<1>2. Typed /\ Sound(kernel) /\ kernel \in Kernels /\ RingInv /\ dispatching = "no"
      /\ kernel.active
  BY <1>1 DEF Safe, Typed, RingInv, Sound
<1>3. /\ k \in Kernels /\ k.cpu = kernel.cpu /\ k.worker = kernel.worker /\ k.active = kernel.active
      /\ k.pending = kernel.pending /\ k.serving = kernel.serving /\ k.again = kernel.again
      /\ k.waits = kernel.waits /\ k.thread = kernel.thread
      /\ kernel.retry \subseteq k.retry /\ (k.again => "reap" \in k.retry)
  <2>1. CASE ~kernel.again
    BY <1>2, <2>1 DEF Ended
  <2>2. CASE kernel.again
    <3> DEFINE late == kernel.retry \cup {"reap"}
               m == [kernel EXCEPT !.retry = late]
    <3>1. late \in SUBSET Classes /\ kernel.retry \subseteq late /\ "reap" \in late
      BY <1>2 DEF Kernels, Classes
    <3>2. k = m
      BY <2>2 DEF Ended
    <3> HIDE DEF late, k
    <3>3. m \in Kernels /\ m.retry = late /\ m.cpu = kernel.cpu /\ m.worker = kernel.worker
      BY <1>2, <3>1 DEF Kernels
    <3>4. m.active = kernel.active /\ m.pending = kernel.pending /\ m.serving = kernel.serving
      BY <1>2 DEF Kernels
    <3>5. m.again = kernel.again /\ m.waits = kernel.waits /\ m.thread = kernel.thread
      BY <1>2 DEF Kernels
    <3> HIDE DEF m
    <3> QED BY <3>1, <3>2, <3>3, <3>4, <3>5
  <2> QED BY <2>1, <2>2
<1> HIDE DEF k
<1>4. Moves(kernel, kernel') /\ (ring # <<>> => kernel'.cpu = "worker")
  <2>1. CASE k.pending # {}
    <3>1. Moves(k, kernel') /\ kernel'.cpu = "worker"
      BY <1>1, <1>3, <2>1, PassMoves
    <3> QED BY <1>3, <3>1 DEF Moves, Exiting, Recorded
  <2>2. CASE k.pending = {}
    <3>1. done \in Kernels /\ done.worker = "blocked" /\ done.active = k.active /\ done.pending = k.pending
      BY <1>3 DEF Kernels
    <3>2. done.serving = k.serving /\ done.again = k.again /\ done.retry = k.retry
      BY <1>3 DEF Kernels
    <3>3. done.waits = k.waits /\ done.thread = k.thread
      BY <1>3 DEF Kernels
    <3>4. kernel' \in Resume(done)
      BY <1>1, <2>2
    <3> HIDE DEF done
    <3>5. Moves(done, kernel')
      BY <1>1, <1>2, <1>3, <2>2, <3>1, <3>2, <3>4, ResumeMoves
    <3>6. ring = <<>>
      BY <1>1, <1>2, <1>3, <2>2 DEF RingInv
    <3> QED BY <1>3, <3>1, <3>2, <3>3, <3>5, <3>6 DEF Moves, Exiting, Recorded
  <2> QED BY <2>1, <2>2
<1>5. RingInv'
  <2>1. kernel.pending \cup kernel.serving \subseteq kernel'.pending \cup kernel'.serving
    BY <1>4 DEF Moves
  <2>2. \A s \in Sources : enabled'[s] => enabled[s]
    BY <1>1
  <2> QED BY <1>1, <1>2, <1>4, <2>1, <2>2, RingKeep DEF Typed
<1> QED BY <1>1, <1>2, <1>4, <1>5, KernelAlone DEF Typed

(* The worker that waited finds itself ready with work pending, or blocked *)
(* without.                                                                *)
LEMMA AwakeSafe ==
  ASSUME Safe, Awake PROVE Safe'
<1>1. /\ kernel.cpu = "awake"
      /\ UNCHANGED <<ring, dispatching, enabled, device, endpoint, route, failures, deferrals>>
  BY DEF Awake
<1>2. Typed /\ Sound(kernel) /\ kernel \in Kernels /\ RingInv /\ dispatching = "no"
      /\ kernel.active /\ kernel.serving = {} /\ kernel.worker # "running"
      /\ (kernel.again => "reap" \in kernel.pending \cup kernel.retry)
      /\ (kernel.worker = "blocked" <=> kernel.pending = {})
  BY <1>1 DEF Safe, Typed, RingInv, Sound
<1>3. Moves(kernel, kernel') /\ (ring # <<>> => kernel'.cpu = "worker")
  <2>1. CASE kernel.worker = "ready" /\ kernel.pending # {}
    <3>1. kernel' = Pass(kernel)
      BY <2>1 DEF Awake
    <3> QED BY <1>2, <3>1, PassMoves
  <2>2. CASE ~(kernel.worker = "ready" /\ kernel.pending # {})
    <3>1. kernel.worker = "blocked" /\ kernel.pending = {}
      BY <1>2, <2>2 DEF Kernels
    <3>2. PICK n \in Resume(kernel) :
            kernel' = IF n.cpu = "wait" /\ n.worker # "blocked" THEN Panic(n) ELSE n
      BY <2>2 DEF Awake
    <3>3. Moves(kernel, n) /\ (n.cpu = "wait" => n.worker = "blocked")
      BY <1>2, <3>1, ResumeMoves
    <3>4. ring = <<>>
      BY <1>2, <3>1 DEF RingInv
    <3> QED BY <3>2, <3>3, <3>4
  <2> QED BY <2>1, <2>2
<1>4. RingInv'
  <2>1. kernel.pending \cup kernel.serving \subseteq kernel'.pending \cup kernel'.serving
    BY <1>3 DEF Moves
  <2>2. \A s \in Sources : enabled'[s] => enabled[s]
    BY <1>1
  <2> QED BY <1>1, <1>2, <1>3, <2>1, <2>2, RingKeep DEF Typed
<1> QED BY <1>1, <1>2, <1>3, <1>4, KernelAlone DEF Typed

(* At boot every granted source has an endpoint of its own, masked.        *)
LEMMA InitSafe ==
  Init => Safe
<1> SUFFICES ASSUME Init PROVE Safe
  OBVIOUS
<1> DEFINE bound == {s \in Sources : Granted[s] # NoThread}
<1>1. PICK first \in Threads, slot \in [Sources -> Slots] :
    /\ \A s, r \in Sources : slot[s] = slot[r] => s = r
    /\ kernel = [cpu |-> "user", worker |-> "blocked", active |-> FALSE,
                 pending |-> {}, retry |-> {}, serving |-> {}, again |-> FALSE,
                 served |-> 0, current |-> first, waits |-> [t \in Threads |-> 0],
                 thread |-> [t \in Threads |->
                               IF t = first THEN "running" ELSE "ready"]]
    /\ ring = <<>> /\ dispatching = "no"
    /\ enabled = [s \in Sources |-> FALSE] /\ device = [s \in Sources |-> "quiet"]
    /\ route = [s \in Sources |-> IF s \in bound THEN slot[s] ELSE 0]
    /\ endpoint = [e \in Slots |->
         IF \E s \in bound : slot[s] = e
         THEN LET s == CHOOSE s \in bound : slot[s] = e IN Bound(s, Granted[s])
         ELSE FreeEndpoint]
    /\ failures = 0 /\ deferrals = 0
  BY DEF Init
<1>2. kernel \in Kernels /\ Sound(kernel)
  <2>1. kernel \in Kernels
    BY <1>1, InterruptsAssumption DEF Kernels, Modes, Classes, States
  <2> QED BY <1>1, <2>1 DEF Sound
<1>3. \A s \in bound : /\ s \in Sources /\ Granted[s] \in Threads /\ slot[s] \in Slots
                       /\ endpoint[slot[s]] = Bound(s, Granted[s])
  <2> SUFFICES ASSUME NEW s \in bound PROVE /\ s \in Sources /\ Granted[s] \in Threads /\ slot[s] \in Slots
                                            /\ endpoint[slot[s]] = Bound(s, Granted[s])
    OBVIOUS
  <2>1. s \in Sources /\ Granted[s] \in Threads /\ slot[s] \in Slots
    BY InterruptsAssumption
  <2> DEFINE r == CHOOSE r \in bound : slot[r] = slot[s]
  <2>2. r \in bound /\ slot[r] = slot[s]
    OBVIOUS
  <2>3. r = s
    BY <1>1, <2>1, <2>2
  <2>4. endpoint[slot[s]] = Bound(r, Granted[r])
    BY <1>1, <2>1, <2>2
  <2> QED BY <2>1, <2>3, <2>4
<1>4. \A e \in Slots : \/ \E s \in bound : slot[s] = e /\ endpoint[e] = Bound(s, Granted[s])
                       \/ (\A s \in bound : slot[s] # e) /\ endpoint[e] = FreeEndpoint
  <2> TAKE e \in Slots
  <2>1. CASE \E s \in bound : slot[s] = e
    BY <1>3, <2>1
  <2>2. CASE \A s \in bound : slot[s] # e
    BY <1>1, <2>2
  <2> QED BY <2>1, <2>2
<1>5. \A s \in bound :
        /\ Bound(s, Granted[s]) \in Endpoints /\ Bound(s, Granted[s]).state = "masked"
        /\ Bound(s, Granted[s]).source = s /\ Bound(s, Granted[s]).masked
        /\ Bound(s, Granted[s]).admin /\ Bound(s, Granted[s]).events = {}
        /\ Bound(s, Granted[s]).records = 0 /\ ~Bound(s, Granted[s]).quiesced
  BY <1>3, BoundFields
<1>6. \A s \in Sources : route[s] = (IF s \in bound THEN slot[s] ELSE 0) /\ ~enabled[s]
  BY <1>1
<1> HIDE DEF bound
<1>7. endpoint \in [Slots -> Endpoints]
  <2>1. \A e \in Slots : endpoint[e] \in Endpoints
    BY <1>4, <1>5, FreeFields
  <2>2. endpoint = [e \in Slots |-> endpoint[e]]
    BY <1>1
  <2> QED BY <2>1, <2>2
<1>8. Typed
  <2>1. route \in [Sources -> Slots \cup {0}]
    BY <1>1, <1>6
  <2>2. <<>> \in Seq(Sources)
    OBVIOUS
  <2> QED BY <1>1, <1>2, <1>7, <2>1, <2>2, InterruptsAssumption DEF Typed
<1>9. WorkInv
  <2>1. Unquiesced(endpoint) = {}
    BY <1>4, <1>5, FreeFields DEF Unquiesced
  <2>2. ~Exiting(kernel)
    BY <1>1 DEF Exiting
  <2> QED BY <2>1, <2>2 DEF WorkInv
<1>10. RingInv
  BY <1>1 DEF RingInv, Waiting
<1>11. \A e \in Slots :
         \/ \E s \in bound : /\ s \in Sources /\ slot[s] = e /\ route[s] = e /\ endpoint[e].source = s
                             /\ endpoint[e].state = "masked"
                             /\ endpoint[e].masked /\ endpoint[e].admin /\ endpoint[e].events = {}
                             /\ endpoint[e].records = 0 /\ ~endpoint[e].quiesced
         \/ /\ endpoint[e].state = "free" /\ endpoint[e].records = 0 /\ ~endpoint[e].quiesced
            /\ ~endpoint[e].held
  BY <1>3, <1>4, <1>5, <1>6, FreeFields
<1>12. RouteInv
  <2>1. ASSUME NEW s \in Sources, route[s] # 0 PROVE Owns(route[s]) /\ endpoint[route[s]].source = s
    <3>1. s \in bound /\ route[s] = slot[s]
      BY <1>6, <2>1
    <3>2. endpoint[route[s]] = Bound(s, Granted[s])
      BY <1>3, <3>1
    <3> QED BY <1>5, <3>1, <3>2 DEF Owns, Active
  <2> QED BY <1>11, <2>1 DEF RouteInv, Owns, Active
<1>13. MaskInv
  <2>1. \A e \in Slots : endpoint[e].records <= 1 /\ (Active(e) =>
           endpoint[e].state = "masked" /\ endpoint[e].masked /\ endpoint[e].admin
           /\ endpoint[e].records = 0 /\ endpoint[e].events = {})
    BY <1>11 DEF Active
  <2>2. \A s \in Sources : ~enabled[s]
    BY <1>6
  <2>3. dispatching # "noise"
    BY <1>1
  <2> QED BY <2>1, <2>2, <2>3 DEF MaskInv
<1>14. WaitInv
  BY <1>1 DEF WaitInv
<1> QED BY <1>2, <1>8, <1>9, <1>10, <1>12, <1>13, <1>14 DEF Safe

-----------------------------------------------------------------------------
(* Every step, and what follows. *)

(* Every system call and fault keeps Safe.                                 *)
LEMMA CallStepSafe ==
  ASSUME Safe, ~BindsAgain, NEW t \in Threads, Call(t) PROVE Safe'
<1>1. CASE OtherCall(t) \/ Sleep(t) \/ Grow(t)
  BY <1>1, OtherCallSafe, SleepSafe, GrowSafe
<1>2. CASE Exit(t) \/ FaultDies(t) \/ \E v \in Threads : Terminate(t, v)
  BY <1>2, EndSafe
<1>3. CASE \E s \in Sources : Bind(t, s)
  BY <1>3, BindSafe
<1>4. ASSUME NEW e \in Slots,
             \/ Arm(t, e) \/ Mask(t, e) \/ Recover(t, e) \/ Ack(t, e)
             \/ WaitFor(t, e) \/ Revoke(t, e) \/ Close(t, e)
      PROVE  Safe'
  BY <1>4, ArmSafe, MaskSafe, RecoverSafe, AckSafe, WaitForSafe, RevokeSafe, CloseSafe
<1> QED BY <1>1, <1>2, <1>3, <1>4 DEF Call

(* Every step keeps Safe.                                                  *)
LEMMA NextSafe ==
  ASSUME Safe, ~BindsAgain, Depth > 2 * Cardinality(Sources), [Next]_vars PROVE Safe'
<1>1. CASE Enter \/ Timer
  BY <1>1, EnterSafe, TimerSafe
<1>2. CASE Worker
  BY <1>2, ServeReapSafe, ServeResetSafe, DispatchSafe, CountNoiseSafe, PopSafe,
     EndBatchSafe, EndPassSafe, AwakeSafe DEF Worker
<1>3. CASE Outside
  <2>1. ASSUME NEW s \in Sources, Raise(s) \/ Calm(s) \/ Poll(s) PROVE Safe'
    <3>1. PICK what \in {"quiet", "work", "noise"} : DeviceChanges(s, what)
      BY <2>1 DEF Raise, Calm, Poll
    <3> QED BY <3>1, DeviceChangesSafe
  <2> QED BY <1>3, <2>1, TimePassesSafe, WindowPassesSafe DEF Outside
<1>4. CASE \E t \in Threads : Call(t)
  BY <1>4, CallStepSafe
<1>5. CASE \E s \in Sources : DeviceInterrupt(s)
  BY <1>5, DeviceInterruptSafe
<1>6. CASE UNCHANGED vars
  BY <1>6 DEF vars, Safe, Typed, Sound, WorkInv, Recorded, Exiting, RingInv, RouteInv, MaskInv,
       WaitInv,
     Unquiesced, Waiting, Awaits, Owns, Active, Open
<1> QED BY <1>1, <1>2, <1>3, <1>4, <1>5, <1>6 DEF Next

(* Safe holds in every reachable state.                                    *)
LEMMA SafeAlways ==
  ASSUME ~BindsAgain, Depth > 2 * Cardinality(Sources)
  PROVE  Spec => []Safe
<1>1. Init => Safe
  BY InitSafe
<1>2. Safe /\ [Next]_vars => Safe'
  BY NextSafe
<1> QED BY <1>1, <1>2, PTL DEF Spec

(* The kernel never stops the machine over its worker, its ring or its     *)
(* endpoint pool (worker.c, interrupt.c, irq.c): for every number of       *)
(* threads, sources and endpoints, if a source is not bound again while    *)
(* its old endpoint is held, and the ring has more than two entries for    *)
(* each source (it has 32, for nine sources).                              *)
THEOREM NoPanicAlways ==
  ~BindsAgain /\ Depth > 2 * Cardinality(Sources) => (Spec => []NoPanic)
<1> SUFFICES ASSUME ~BindsAgain, Depth > 2 * Cardinality(Sources)
             PROVE  Spec => []NoPanic
  OBVIOUS
<1>1. Spec => []Safe
  BY SafeAlways
<1>2. Safe => NoPanic
  BY DEF Safe, Sound, NoPanic
<1> QED BY <1>1, <1>2, PTL

(* The types the runs check, with the bound on the ring.                   *)
LEMMA TypesHold ==
  ASSUME Safe, Depth > 2 * Cardinality(Sources)
  PROVE  TypeOK
<1>1. Typed /\ RingInv /\ kernel \in Kernels
  BY DEF Safe, Typed
<1>2. Len(ring) <= Depth
  <2>1. Len(ring) <= 2 * Cardinality(Sources) + 1
    BY <1>1, RingFull
  <2>2. Len(ring) \in Nat /\ Cardinality(Sources) \in Nat /\ Depth \in Nat
    BY <1>1, FS_CardinalityType, InterruptsAssumption DEF Typed
  <2> QED BY <2>1, <2>2
<1>3. /\ kernel.cpu \in Modes /\ kernel.worker \in {"blocked", "ready", "running"}
      /\ kernel.active \in BOOLEAN /\ kernel.again \in BOOLEAN
      /\ \A S \in {kernel.pending, kernel.retry, kernel.serving} : S \subseteq Classes
      /\ kernel.served \in 0 .. Batch
      /\ kernel.current \in Threads \cup {NoThread}
      /\ kernel.thread \in [Threads -> {"running", "ready", "asleep", "due",
                                        "waiting", "exiting", "gone"}]
      /\ kernel.waits \in [Threads -> Slots \cup {0}]
  BY <1>1 DEF Kernels, States
<1>4. \A e \in Slots :
       /\ endpoint[e].state \in {"free", "masked", "armed", "pending", "revoking"}
       /\ endpoint[e].owner \in Threads \cup {NoThread}
       /\ endpoint[e].source \in Sources
       /\ endpoint[e].events \subseteq {"overflow", "storm"}
       /\ endpoint[e].records \in 0 .. RecordDepth
       /\ endpoint[e].noise \in 0 .. StormBudget
  BY <1>1 DEF Typed, Endpoints
<1> QED BY <1>1, <1>2, <1>3, <1>4 DEF TypeOK, Typed

(* Work is recorded where the worker will look for it until it is done:    *)
(* ring entries, revoked endpoints and processes to bury; and the worker   *)
(* is blocked exactly if nothing is pending (worker.c, process.c). The     *)
(* types and the ring's bound are part of it.                              *)
THEOREM WorkTrackedAlways ==
  ~BindsAgain /\ Depth > 2 * Cardinality(Sources) => (Spec => []WorkTracked)
<1> SUFFICES ASSUME ~BindsAgain, Depth > 2 * Cardinality(Sources)
             PROVE  Spec => []WorkTracked
  OBVIOUS
<1>1. Spec => []Safe
  BY SafeAlways
<1>2. Safe => WorkTracked
  <2> SUFFICES ASSUME Safe PROVE WorkTracked
    OBVIOUS
  <2>1. TypeOK
    BY TypesHold
  <2>2. ring # <<>> => "irq" \in kernel.pending \cup kernel.serving
    BY DEF Safe, RingInv
  <2>3. kernel.worker = "blocked" <=> kernel.pending = {} /\ kernel.cpu # "worker"
    BY DEF Safe, Sound
  <2>4. /\ Unquiesced(endpoint) # {} => Recorded(kernel) \cap {"reap", "reset"} # {}
        /\ (\E t \in Threads : kernel.thread[t] = "exiting") => "reap" \in Recorded(kernel)
    BY DEF Safe, WorkInv, Exiting
  <2> QED BY <2>1, <2>2, <2>3, <2>4 DEF WorkTracked, Recorded
<1> QED BY <1>1, <1>2, PTL

(* The controller and the endpoints agree (irq.c, interrupt.c): a source   *)
(* interrupts only for an endpoint in use that its driver has not masked,  *)
(* an endpoint that thinks itself armed gets its next interrupt, and no    *)
(* endpoint queues a second record.                                        *)
THEOREM SourceMatchesAlways ==
  ~BindsAgain /\ Depth > 2 * Cardinality(Sources) => (Spec => []SourceMatches)
<1> SUFFICES ASSUME ~BindsAgain, Depth > 2 * Cardinality(Sources)
             PROVE  Spec => []SourceMatches
  OBVIOUS
<1>1. Spec => []Safe
  BY SafeAlways
<1>2. Safe => SourceMatches
  <2> SUFFICES ASSUME Safe PROVE SourceMatches
    OBVIOUS
  <2>1. MaskInv
    BY DEF Safe
  <2>2. \A s : Awaits(s) => InRing(s)
    BY DEF Awaits, Waiting, InRing
  <2>3. \A e \in Slots : endpoint[e].state = "armed" => Active(e)
    BY DEF Active
  <2> QED BY <2>1, <2>2, <2>3 DEF SourceMatches, MaskInv
<1> QED BY <1>1, <1>2, PTL

(* A driver asleep in kernel_irq_wait will be heard: its endpoint is in    *)
(* use and empty, and its source is enabled or in the ring, unless it      *)
(* masked it itself or a storm did (irq.c).                                *)
THEOREM WaiterHeardAlways ==
  ~BindsAgain /\ Depth > 2 * Cardinality(Sources) => (Spec => []WaiterHeard)
<1> SUFFICES ASSUME ~BindsAgain, Depth > 2 * Cardinality(Sources)
             PROVE  Spec => []WaiterHeard
  OBVIOUS
<1>1. Spec => []Safe
  BY SafeAlways
<1>2. Safe => WaiterHeard
  <2> SUFFICES ASSUME Safe, NEW t \in Threads, kernel.waits[t] # 0
               PROVE  LET r == endpoint[kernel.waits[t]] IN
                      /\ Active(kernel.waits[t]) /\ r.records = 0
                      /\ \/ r.events = {"storm"}
                         \/ r.events = {} /\ (r.admin \/ enabled[r.source] \/ InRing(r.source))
    BY DEF WaiterHeard
  <2> DEFINE e == kernel.waits[t]
  <2>1. e \in Slots /\ Active(e) /\ endpoint[e].records = 0
    BY DEF Safe, WaitInv, Typed, Kernels
  <2>2. \A s : Awaits(s) => InRing(s)
    BY DEF Awaits, Waiting, InRing
  <2>3. Consistent(endpoint[e])
    BY <2>1, ConsistentSlots DEF Safe
  <2>4. endpoint[e].state = "armed" /\ ~endpoint[e].masked =>
          enabled[endpoint[e].source] \/ Awaits(endpoint[e].source)
    BY <2>1 DEF Safe, MaskInv
  <2>5. endpoint[e].events = {"storm"} \/ endpoint[e].events = {}
    BY <2>3 DEF Consistent
  <2>6. endpoint[e].state \in {"masked", "armed"}
    BY <2>1, <2>3 DEF Consistent, Active
  <2> HIDE DEF e
  <2> QED BY <2>1, <2>2, <2>3, <2>4, <2>5, <2>6 DEF Consistent, e
<1> QED BY <1>1, <1>2, PTL
===============================================================================
