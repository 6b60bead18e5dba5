------------------------- MODULE SyncObjects_proofs -------------------------
(***************************************************************************)
(* The proof that the synchronization objects stay consistent, whatever    *)
(* processes, threads, handles, waits and timers there are, and implement  *)
(* Waitables: what ObjectsSound and TimersExact say holds in every state,  *)
(* and each step is one that Waitables allows.                             *)
(*                                                                         *)
(* An operation is a function of states, k to w.  Each has a lemma that    *)
(* says what w is, as a relation between k and w (Woken, Moved, Disarmed,  *)
(* Shut, Released...), so that the operations that call it need nothing    *)
(* else of it.  The loops go by induction on their rounds (Climb).  Good   *)
(* is the inductive invariant; each action keeps it.  The same relations   *)
(* say what is seen of a step (Shows, Acts, Ending, Passing), from which   *)
(* follows the action of Waitables that it is (Promised).                  *)
(***************************************************************************)
EXTENDS SyncObjects, FiniteSetTheorems, WellFoundedInduction, TLAPS

(* States, and what is true of each that is reached.                       *)

Results == {"", "OK", "CLOSED", "PEER_DEAD", "CANCELLED", "TIMED_OUT"}
Panics == {Healthy, "wake_one", "timer_remove", "free_object", "expire_timers",
           "TIMER_SET: no memory"}

ObjectRecords ==
  [state : {"FREE", "LIVE", "CLOSING"}, type : Types, count : Nat, maximum : Nat,
   owner : Processes \cup {Nobody}, references : Nat, result : Results,
   deadline : Nat, position : Nat]

ThreadRecords ==
  [state : {"READY", "BLOCKED", "DEAD"}, members : Seq(Slots), deadline : Nat,
   outcome : Results \X Nat]

Objects == [Slots -> ObjectRecords]
Queues == [Slots -> Seq(Threads \X Nat)]
ThreadTables == [Threads -> ThreadRecords]
ProcessTables == [Processes -> {"UNBORN", "RUNNING", "DEAD"}]
HandleTables == [Processes -> [Slots -> Nat]]

States ==
  [object : Objects, heap : Seq(Slots), pages : Nat, queue : Queues,
   thread : ThreadTables, process : ProcessTables, handles : HandleTables,
   panic : Panics]

----------------------------------------------------------------------------
(* Registrations and wakes.                                                *)

In(e, s) == \E j \in DOMAIN s : s[j] = e

WaitersOf(k, o) == {t \in Threads : \E i \in Nat : In(<<t, i>>, k.queue[o])}

Outside(k, w) ==
  /\ w \in States
  /\ w.object = k.object /\ w.heap = k.heap /\ w.pages = k.pages
  /\ w.process = k.process /\ w.handles = k.handles /\ w.panic = k.panic

Left(k, w, T) ==
  \A o \in Slots : \A e : In(e, w.queue[o]) <=> In(e, k.queue[o]) /\ e[1] \notin T

Shorter(k, w, T) ==
  \A o \in Slots :
    /\ Len(w.queue[o]) <= Len(k.queue[o])
    /\ k.queue[o] # <<>> /\ k.queue[o][1][1] \in T => Len(w.queue[o]) < Len(k.queue[o])

Rest(k, w, T) == \A t \in Threads \ T : w.thread[t] = k.thread[t]

Told2(k, w, T, r, o) ==
  \A t \in T : \E i \in Nat : w.thread[t] = Told(r, i) /\ In(<<t, i>>, k.queue[o])

Woken(k, w, T, r, o) ==
  /\ Outside(k, w) /\ T \subseteq Threads /\ Left(k, w, T) /\ Rest(k, w, T)
  /\ Told2(k, w, T, r, o)

Pulled(k, w, T) ==
  /\ Outside(k, w) /\ w.thread = k.thread /\ Left(k, w, T) /\ Shorter(k, w, T)
  /\ w = Withdrawn(k, T)

----------------------------------------------------------------------------
(* The heap.                                                               *)

Linked(k) ==
  /\ \A i \in DOMAIN k.heap : k.object[k.heap[i]].position = i
  /\ \A o \in Slots : k.object[o].position # Unset =>
       k.object[o].position \in DOMAIN k.heap /\ k.heap[k.object[o].position] = o

InOrder(k, i) == i # 1 => ~Less(k, k.heap[i], k.heap[i \div 2])
Ordered(k) == \A i \in DOMAIN k.heap : InOrder(k, i)

(* Nothing below place i is before what is above it. *)
Bridged(k, i) ==
  \A j \in DOMAIN k.heap : j \div 2 = i /\ i # 1 => ~Less(k, k.heap[j], k.heap[i \div 2])

Aside(k, w) ==
  /\ w \in States
  /\ w.queue = k.queue /\ w.thread = k.thread /\ w.process = k.process
  /\ w.handles = k.handles /\ w.panic = k.panic

SameObject(x, y) ==
  /\ y.state = x.state /\ y.type = x.type /\ y.count = x.count
  /\ y.maximum = x.maximum /\ y.owner = x.owner
  /\ y.references = x.references /\ y.result = x.result /\ y.deadline = x.deadline

SamePlace(x, y) == y.position = Unset <=> x.position = Unset

Moved(k, w) ==
  /\ Aside(k, w) /\ w.pages = k.pages /\ Len(w.heap) = Len(k.heap)
  /\ \A o \in Slots : /\ SameObject(k.object[o], w.object[o])
                      /\ SamePlace(k.object[o], w.object[o])
  /\ Linked(w)

(* Only the timer o may be before its parent, or only it after a child. *)
UpFrom(k, o) ==
  LET p == k.object[o].position
  IN  p \in DOMAIN k.heap /\ Bridged(k, p) /\ \A j \in DOMAIN k.heap \ {p} : InOrder(k, j)

DownFrom(k, o) ==
  LET p == k.object[o].position
  IN  /\ p \in DOMAIN k.heap /\ Bridged(k, p)
      /\ \A j \in DOMAIN k.heap : j \div 2 # p => InOrder(k, j)

HeapIn(k) ==
  /\ Linked(k) /\ Ordered(k)
  /\ \A o \in Slots : k.object[o].position = Unset <=> k.object[o].deadline = 0
  /\ Len(k.heap) <= k.pages * PageEntries

SameCore(x, y) ==
  /\ y.state = x.state /\ y.type = x.type /\ y.count = x.count
  /\ y.maximum = x.maximum /\ y.owner = x.owner
  /\ y.references = x.references /\ y.result = x.result

SameBut(k, w, o) ==
  \A p \in Slots \ {o} : SameObject(k.object[p], w.object[p]) /\ SamePlace(k.object[p], w.object[p])

Disarmed(k, w, o) ==
  /\ Aside(k, w) /\ w.pages = k.pages /\ Linked(w) /\ Ordered(w)
  /\ SameBut(k, w, o) /\ SameCore(k.object[o], w.object[o])
  /\ w.object[o].deadline = 0 /\ w.object[o].position = Unset
  /\ IF k.object[o].position = Unset THEN Len(w.heap) = Len(k.heap)
                                     ELSE Len(w.heap) = Len(k.heap) - 1

Armed(k, w, o, d) ==
  /\ Aside(k, w) /\ Linked(w) /\ Ordered(w)
  /\ SameBut(k, w, o) /\ SameCore(k.object[o], w.object[o])
  /\ w.object[o].deadline = d /\ w.object[o].position # Unset
  /\ Len(w.heap) <= w.pages * PageEntries

----------------------------------------------------------------------------
(* The inductive invariant. *)

(* Registrations are those of blocked threads. *)
Matched(k) ==
  \A o \in Slots : \A t \in Threads : \A i \in Nat :
    In(<<t, i>>, k.queue[o]) <=> i \in DOMAIN k.thread[t].members /\ k.thread[t].members[i] = o

Sane(x) ==
  /\ x.state = "BLOCKED" <=> x.members # <<>>
  /\ x.state # "BLOCKED" => x.deadline = 0
  /\ x.state = "BLOCKED" => x.outcome = None

Housed(k) ==
  \A t \in Threads : k.thread[t].state # "DEAD" => k.process[ProcessOf[t]] = "RUNNING"

WaitsIn(k) == Matched(k) /\ (\A t \in Threads : Sane(k.thread[t])) /\ Housed(k)

Shape(x) ==
  /\ x.state = "FREE" <=> x.references = 0
  /\ x.state = "FREE" => SameObject(FreeObject, x)
  /\ x.state = "LIVE" => x.result = "" /\ x.type # "NONE" /\ x.owner \in Processes
  /\ x.state = "CLOSING" => x.result # "" /\ x.type # "NONE"
  /\ x.deadline # 0 => x.state = "LIVE" /\ x.type = "TIMER" /\ x.count = 0

Quiet(k, o) == \A e : In(e, k.queue[o]) => k.object[o].state = "LIVE" /\ k.object[o].count = 0

Body(k) == k \in States /\ WaitsIn(k) /\ HeapIn(k) /\ \A o \in Slots : Shape(k.object[o])
Core(k) == Body(k) /\ \A o \in Slots : Quiet(k, o)

Owned(k, o) == k.object[o].state = "LIVE" => k.process[k.object[o].owner] = "RUNNING"
Counted(k, o) == k.object[o].references = Cardinality(Numbered([p \in Processes |-> k.handles[p][o]]))

Good(k) == Core(k) /\ \A o \in Slots : Owned(k, o) /\ Counted(k, o)

(* The threads of T have left their waits. *)
Gone(k, w, T) ==
  /\ T \subseteq Threads /\ Left(k, w, T) /\ Rest(k, w, T)
  /\ \A t \in T : /\ w.thread[t].state # "BLOCKED" /\ w.thread[t].members = <<>>
                  /\ w.thread[t].deadline = 0

Ended(k, w, T) ==
  /\ Outside(k, w) /\ Gone(k, w, T)
  /\ \A t \in T : k.thread[t].state = "BLOCKED"

SameHeap(k, w) ==
  /\ w.heap = k.heap /\ w.pages = k.pages
  /\ \A o \in Slots : /\ w.object[o].position = k.object[o].position
                      /\ w.object[o].deadline = k.object[o].deadline

(* A state with another object table. *)
LEMMA Set_object ==
  ASSUME NEW k \in States, NEW v \in Objects, NEW w, w = [k EXCEPT !.object = v]
  PROVE  /\ w \in States /\ w.object = v
         /\ w.heap = k.heap /\ w.pages = k.pages /\ w.queue = k.queue
         /\ w.thread = k.thread /\ w.process = k.process
         /\ w.handles = k.handles /\ w.panic = k.panic
BY DEF States

(* A state with another heap. *)
LEMMA Set_heap ==
  ASSUME NEW k \in States, NEW v \in Seq(Slots), NEW w, w = [k EXCEPT !.heap = v]
  PROVE  /\ w \in States /\ w.heap = v
         /\ w.object = k.object /\ w.pages = k.pages /\ w.queue = k.queue
         /\ w.thread = k.thread /\ w.process = k.process
         /\ w.handles = k.handles /\ w.panic = k.panic
BY DEF States

(* A state with another number of heap pages. *)
LEMMA Set_pages ==
  ASSUME NEW k \in States, NEW v \in Nat, NEW w, w = [k EXCEPT !.pages = v]
  PROVE  /\ w \in States /\ w.pages = v
         /\ w.object = k.object /\ w.heap = k.heap /\ w.queue = k.queue
         /\ w.thread = k.thread /\ w.process = k.process
         /\ w.handles = k.handles /\ w.panic = k.panic
BY DEF States

(* A state with other registrations. *)
LEMMA Set_queue ==
  ASSUME NEW k \in States, NEW v \in Queues, NEW w, w = [k EXCEPT !.queue = v]
  PROVE  /\ w \in States /\ w.queue = v
         /\ w.object = k.object /\ w.heap = k.heap /\ w.pages = k.pages
         /\ w.thread = k.thread /\ w.process = k.process
         /\ w.handles = k.handles /\ w.panic = k.panic
BY DEF States

(* A state with another thread table. *)
LEMMA Set_thread ==
  ASSUME NEW k \in States, NEW v \in ThreadTables, NEW w, w = [k EXCEPT !.thread = v]
  PROVE  /\ w \in States /\ w.thread = v
         /\ w.object = k.object /\ w.heap = k.heap /\ w.pages = k.pages
         /\ w.queue = k.queue /\ w.process = k.process
         /\ w.handles = k.handles /\ w.panic = k.panic
BY DEF States

(* A state with another process table. *)
LEMMA Set_process ==
  ASSUME NEW k \in States, NEW v \in ProcessTables, NEW w, w = [k EXCEPT !.process = v]
  PROVE  /\ w \in States /\ w.process = v
         /\ w.object = k.object /\ w.heap = k.heap /\ w.pages = k.pages
         /\ w.queue = k.queue /\ w.thread = k.thread
         /\ w.handles = k.handles /\ w.panic = k.panic
BY DEF States

(* A state with other handle tables. *)
LEMMA Set_handles ==
  ASSUME NEW k \in States, NEW v \in HandleTables, NEW w, w = [k EXCEPT !.handles = v]
  PROVE  /\ w \in States /\ w.handles = v
         /\ w.object = k.object /\ w.heap = k.heap /\ w.pages = k.pages
         /\ w.queue = k.queue /\ w.thread = k.thread
         /\ w.process = k.process /\ w.panic = k.panic
BY DEF States

(* A state with another panic. *)
LEMMA Set_panic ==
  ASSUME NEW k \in States, NEW v \in Panics, NEW w, w = [k EXCEPT !.panic = v]
  PROVE  /\ w \in States /\ w.panic = v
         /\ w.object = k.object /\ w.heap = k.heap /\ w.pages = k.pages
         /\ w.queue = k.queue /\ w.thread = k.thread
         /\ w.process = k.process /\ w.handles = k.handles
BY DEF States

(* An object in another state. *)
LEMMA Put_state ==
  ASSUME NEW x \in ObjectRecords, NEW v \in {"FREE", "LIVE", "CLOSING"}, NEW y, y = [x EXCEPT !.state = v]
  PROVE  /\ y \in ObjectRecords /\ y.state = v
         /\ y.type = x.type /\ y.count = x.count /\ y.maximum = x.maximum
         /\ y.owner = x.owner /\ y.references = x.references
         /\ y.result = x.result /\ y.deadline = x.deadline
         /\ y.position = x.position
BY DEF ObjectRecords

(* An object with another count. *)
LEMMA Put_count ==
  ASSUME NEW x \in ObjectRecords, NEW v \in Nat, NEW y, y = [x EXCEPT !.count = v]
  PROVE  /\ y \in ObjectRecords /\ y.count = v
         /\ y.state = x.state /\ y.type = x.type /\ y.maximum = x.maximum
         /\ y.owner = x.owner /\ y.references = x.references
         /\ y.result = x.result /\ y.deadline = x.deadline
         /\ y.position = x.position
BY DEF ObjectRecords

(* An object with other references. *)
LEMMA Put_references ==
  ASSUME NEW x \in ObjectRecords, NEW v \in Nat, NEW y, y = [x EXCEPT !.references = v]
  PROVE  /\ y \in ObjectRecords /\ y.references = v
         /\ y.state = x.state /\ y.type = x.type /\ y.count = x.count
         /\ y.maximum = x.maximum /\ y.owner = x.owner
         /\ y.result = x.result /\ y.deadline = x.deadline
         /\ y.position = x.position
BY DEF ObjectRecords

(* An object with another result. *)
LEMMA Put_result ==
  ASSUME NEW x \in ObjectRecords, NEW v \in Results, NEW y, y = [x EXCEPT !.result = v]
  PROVE  /\ y \in ObjectRecords /\ y.result = v
         /\ y.state = x.state /\ y.type = x.type /\ y.count = x.count
         /\ y.maximum = x.maximum /\ y.owner = x.owner
         /\ y.references = x.references /\ y.deadline = x.deadline
         /\ y.position = x.position
BY DEF ObjectRecords

(* An object with another deadline. *)
LEMMA Put_deadline ==
  ASSUME NEW x \in ObjectRecords, NEW v \in Nat, NEW y, y = [x EXCEPT !.deadline = v]
  PROVE  /\ y \in ObjectRecords /\ y.deadline = v
         /\ y.state = x.state /\ y.type = x.type /\ y.count = x.count
         /\ y.maximum = x.maximum /\ y.owner = x.owner
         /\ y.references = x.references /\ y.result = x.result
         /\ y.position = x.position
BY DEF ObjectRecords

(* An object at another place in the heap. *)
LEMMA Put_position ==
  ASSUME NEW x \in ObjectRecords, NEW v \in Nat, NEW y, y = [x EXCEPT !.position = v]
  PROVE  /\ y \in ObjectRecords /\ y.position = v
         /\ y.state = x.state /\ y.type = x.type /\ y.count = x.count
         /\ y.maximum = x.maximum /\ y.owner = x.owner
         /\ y.references = x.references /\ y.result = x.result
         /\ y.deadline = x.deadline
BY DEF ObjectRecords

(* The types of the fields of a state. *)
LEMMA StateFields ==
  ASSUME NEW k \in States
  PROVE  /\ k.object \in Objects /\ k.heap \in Seq(Slots) /\ k.pages \in Nat
         /\ k.queue \in Queues /\ k.thread \in ThreadTables
         /\ k.process \in ProcessTables /\ k.handles \in HandleTables
         /\ k.panic \in Panics
BY DEF States

(* The types of the fields of an object. *)
LEMMA ObjectFields ==
  ASSUME NEW x \in ObjectRecords
  PROVE  /\ x.state \in {"FREE", "LIVE", "CLOSING"} /\ x.type \in Types
         /\ x.count \in Nat /\ x.maximum \in Nat
         /\ x.owner \in Processes \cup {Nobody} /\ x.references \in Nat
         /\ x.result \in Results /\ x.deadline \in Nat /\ x.position \in Nat
BY DEF ObjectRecords

(* The types of the fields of a thread. *)
LEMMA ThreadFields ==
  ASSUME NEW x \in ThreadRecords
  PROVE  /\ x.state \in {"READY", "BLOCKED", "DEAD"} /\ x.members \in Seq(Slots)
         /\ x.deadline \in Nat /\ x.outcome \in Results \X Nat
BY DEF ThreadRecords

(* A set of natural numbers has a least one. *)
LEMMA Least ==
  ASSUME NEW X \in SUBSET Nat, X # {}
  PROVE  \E m \in X : \A x \in X : m <= x
<1>1. IsWellFoundedOn(OpToRel(<, Nat), Nat)
  BY NatLessThanWellFounded
<1>2. PICK m \in X : \A y \in X : ~(<<y, m>> \in OpToRel(<, Nat))
  BY <1>1, WFMin
<1>3. \A y \in X : y \in Nat /\ m \in Nat /\ ~(y < m)
  BY <1>2 DEF OpToRel
<1>4. \A y \in X : m <= y
  BY <1>3
<1> QED BY <1>2, <1>4

(* What holds at 0 and is kept by each round up to n holds up to n. *)
LEMMA Climb ==
  ASSUME NEW n \in Nat, NEW P, 0 \in P, \A i \in 1 .. n : i - 1 \in P => i \in P
  PROVE  \A i \in 0 .. n : i \in P
<1> DEFINE X == {i \in 0 .. n : i \notin P}
<1> SUFFICES ASSUME X # {} PROVE FALSE
  OBVIOUS
<1>1. X \in SUBSET Nat
  OBVIOUS
<1>2. PICK m \in X : \A x \in X : m <= x
  <2> HIDE DEF X
  <2> QED BY <1>1, Least
<1>3. m \in 1 .. n /\ m - 1 \in 0 .. n /\ m - 1 \notin X
  BY <1>2
<1> QED BY <1>3

----------------------------------------------------------------------------
(* Loops.                                                                  *)

WakeStep(k, o, r) == IF k.queue[o] = <<>> THEN k ELSE WakeOne(k, o, r)
RetireStep(k, p, o) == IF k.object[o].owner = p THEN CloseObject(k, o, "PEER_DEAD") ELSE k
ReapStep(k, p, o) == IF k.handles[p][o] = 0 THEN k ELSE Release(k, p, o, k.handles[p][o])

KeepStep(x, s, S, i) == IF s[i] \in S THEN Append(x, s[i]) ELSE x

(* The round i of each loop, from x. *)
Round(a, x, i) ==
  CASE a[1] = "wake all" -> WakeStep(x, a[2], a[3])
    [] a[1] = "wake some" -> WakeOne(x, a[2], "OK")
    [] a[1] = "raise" -> Raised(x, a[2])
    [] a[1] = "lower" -> Lowered(x, a[2])
    [] a[1] = "expire" -> ExpireFirst(x, a[2])
    [] a[1] = "retire" -> RetireStep(x, a[2], i)
    [] a[1] = "reap" -> ReapStep(x, a[2], i)
    [] a[1] = "only" -> KeepStep(x, a[2], a[3], i)

After(a, k, m, f) == f = [i \in 0 .. m |-> IF i = 0 THEN k ELSE Round(a, f[i - 1], i)]

(* A loop has a state after each of its rounds. *)
LEMMA Rounds ==
  ASSUME NEW n \in Nat, NEW k, NEW a
  PROVE  \E f : /\ After(a, k, n, f)
                /\ f[0] = k /\ \A i \in 1 .. n : f[i] = Round(a, f[i - 1], i)
<1> DEFINE P == {m \in 0 .. n : \E f : After(a, k, m, f)}
<1>1. 0 \in P
  <2> DEFINE f == [i \in 0 .. 0 |-> k]
  <2>1. After(a, k, 0, f)
    BY DEF After
  <2> HIDE DEF f
  <2>2. 0 \in 0 .. n
    OBVIOUS
  <2> QED BY <2>1, <2>2
<1>2. ASSUME NEW m \in 1 .. n, m - 1 \in P PROVE m \in P
  <2>1. PICK g : After(a, k, m - 1, g)
    BY <1>2
  <2> DEFINE f == [i \in 0 .. m |-> IF i = m THEN Round(a, g[m - 1], m) ELSE g[i]]
  <2>2. \A i \in 0 .. m : f[i] = IF i = 0 THEN k ELSE Round(a, f[i - 1], i)
    <3>1. \A i \in 0 .. m - 1 : g[i] = IF i = 0 THEN k ELSE Round(a, g[i - 1], i)
      BY <2>1 DEF After
    <3>2. m \in Nat /\ m # 0 /\ m - 1 \in 0 .. m /\ m - 1 # m
      OBVIOUS
    <3>3. f[m] = Round(a, f[m - 1], m)
      BY <3>2
    <3>4. ASSUME NEW i \in 0 .. m - 1, i # 0 PROVE f[i] = Round(a, f[i - 1], i)
      BY <3>1, <3>4
    <3>5. f[0] = k
      BY <3>1, <3>2
    <3> HIDE DEF f
    <3> QED BY <3>2, <3>3, <3>4, <3>5
  <2>3. After(a, k, m, f)
    <3>1. f = [i \in 0 .. m |-> f[i]]
      OBVIOUS
    <3> HIDE DEF f
    <3> QED BY <2>2, <3>1 DEF After
  <2> HIDE DEF f
  <2>4. m \in 0 .. n
    OBVIOUS
  <2> QED BY <2>3, <2>4
<1>3. PICK f : After(a, k, n, f)
  <2>1. \A i \in 1 .. n : i - 1 \in P => i \in P
    BY <1>2
  <2> HIDE DEF P
  <2>2. \A i \in 0 .. n : i \in P
    BY <1>1, <2>1, Climb
  <2>3. n \in P
    BY <2>2
  <2> QED BY <2>3 DEF P
<1>4. f[0] = k /\ \A i \in 1 .. n : f[i] = Round(a, f[i - 1], i)
  <2>1. \A i \in 0 .. n : f[i] = IF i = 0 THEN k ELSE Round(a, f[i - 1], i)
    BY <1>3 DEF After
  <2> QED BY <2>1
<1> QED BY <1>3, <1>4

WakeAllRun(f, k, o, r, n) ==
  /\ f[0] = k /\ \A i \in 1 .. n : f[i] = WakeStep(f[i - 1], o, r)
  /\ WakeAll(k, o, r) = f[n]

(* WakeAll is so many rounds of WakeOne. *)
LEMMA WakeAllRounds ==
  ASSUME NEW k, NEW o, NEW r, NEW n \in Nat, n = Len(k.queue[o])
  PROVE  \E f : WakeAllRun(f, k, o, r, n)
<1> DEFINE Is(f) == f = [i \in 0 .. n |-> IF i = 0 THEN k ELSE WakeStep(f[i - 1], o, r)]
           f == CHOOSE f : Is(f)
<1>1. PICK a : a = <<"wake all", o, r>>
  OBVIOUS
<1>2. \A x, i : Round(a, x, i) = WakeStep(x, o, r)
  BY <1>1 DEF Round
<1>3. PICK z : z = k
  OBVIOUS
<1>4. PICK g : After(a, z, n, g)
  BY Rounds
<1>5. Is(g)
  BY <1>2, <1>3, <1>4 DEF After
<1>6. WakeAll(k, o, r) = f[n]
  BY DEF WakeAll, Loop, WakeStep
<1>7. Is(f)
  BY <1>5
<1> HIDE DEF f
<1>8. f[0] = k /\ \A i \in 1 .. n : f[i] = WakeStep(f[i - 1], o, r)
  BY <1>7
<1> QED BY <1>6, <1>8 DEF WakeAllRun

WakeSomeRun(f, k, o, n) ==
  /\ f[0] = k /\ \A i \in 1 .. n : f[i] = WakeOne(f[i - 1], o, "OK")
  /\ WakeSome(k, o, n) = f[n]

(* WakeSome is so many rounds of WakeOne. *)
LEMMA WakeSomeRounds ==
  ASSUME NEW k, NEW o, NEW n \in Nat
  PROVE  \E f : WakeSomeRun(f, k, o, n)
<1> DEFINE Is(f) == f = [i \in 0 .. n |-> IF i = 0 THEN k ELSE WakeOne(f[i - 1], o, "OK")]
           f == CHOOSE f : Is(f)
<1>1. PICK a : a = <<"wake some", o>>
  OBVIOUS
<1>2. \A x, i : Round(a, x, i) = WakeOne(x, o, "OK")
  BY <1>1 DEF Round
<1>3. PICK z : z = k
  OBVIOUS
<1>4. PICK g : After(a, z, n, g)
  BY Rounds
<1>5. Is(g)
  BY <1>2, <1>3, <1>4 DEF After
<1>6. WakeSome(k, o, n) = f[n]
  BY DEF WakeSome, Loop
<1>7. Is(f)
  BY <1>5
<1> HIDE DEF f
<1>8. f[0] = k /\ \A i \in 1 .. n : f[i] = WakeOne(f[i - 1], o, "OK")
  BY <1>7
<1> QED BY <1>6, <1>8 DEF WakeSomeRun

SiftUpRun(f, k, o, n) ==
  /\ f[0] = k /\ \A i \in 1 .. n : f[i] = Raised(f[i - 1], o)
  /\ SiftUp(k, o) = f[n]

(* SiftUp is so many rounds of Raised. *)
LEMMA SiftUpRounds ==
  ASSUME NEW k, NEW o, NEW n \in Nat, n = Len(k.heap)
  PROVE  \E f : SiftUpRun(f, k, o, n)
<1> DEFINE Is(f) == f = [i \in 0 .. n |-> IF i = 0 THEN k ELSE Raised(f[i - 1], o)]
           f == CHOOSE f : Is(f)
<1>1. PICK a : a = <<"raise", o>>
  OBVIOUS
<1>2. \A x, i : Round(a, x, i) = Raised(x, o)
  BY <1>1 DEF Round
<1>3. PICK z : z = k
  OBVIOUS
<1>4. PICK g : After(a, z, n, g)
  BY Rounds
<1>5. Is(g)
  BY <1>2, <1>3, <1>4 DEF After
<1>6. SiftUp(k, o) = f[n]
  BY DEF SiftUp, Loop
<1>7. Is(f)
  BY <1>5
<1> HIDE DEF f
<1>8. f[0] = k /\ \A i \in 1 .. n : f[i] = Raised(f[i - 1], o)
  BY <1>7
<1> QED BY <1>6, <1>8 DEF SiftUpRun

SiftDownRun(f, k, o, n) ==
  /\ f[0] = k /\ \A i \in 1 .. n : f[i] = Lowered(f[i - 1], o)
  /\ SiftDown(k, o) = f[n]

(* SiftDown is so many rounds of Lowered. *)
LEMMA SiftDownRounds ==
  ASSUME NEW k, NEW o, NEW n \in Nat, n = Len(k.heap)
  PROVE  \E f : SiftDownRun(f, k, o, n)
<1> DEFINE Is(f) == f = [i \in 0 .. n |-> IF i = 0 THEN k ELSE Lowered(f[i - 1], o)]
           f == CHOOSE f : Is(f)
<1>1. PICK a : a = <<"lower", o>>
  OBVIOUS
<1>2. \A x, i : Round(a, x, i) = Lowered(x, o)
  BY <1>1 DEF Round
<1>3. PICK z : z = k
  OBVIOUS
<1>4. PICK g : After(a, z, n, g)
  BY Rounds
<1>5. Is(g)
  BY <1>2, <1>3, <1>4 DEF After
<1>6. SiftDown(k, o) = f[n]
  BY DEF SiftDown, Loop
<1>7. Is(f)
  BY <1>5
<1> HIDE DEF f
<1>8. f[0] = k /\ \A i \in 1 .. n : f[i] = Lowered(f[i - 1], o)
  BY <1>7
<1> QED BY <1>6, <1>8 DEF SiftDownRun

ExpireRun(f, k, d, n) ==
  /\ f[0] = k /\ \A i \in 1 .. n : f[i] = ExpireFirst(f[i - 1], d)
  /\ ExpireTimers(k, d) = f[n]

(* ExpireTimers is so many rounds of ExpireFirst. *)
LEMMA ExpireRounds ==
  ASSUME NEW k, NEW d, NEW n \in Nat, n = Len(k.heap)
  PROVE  \E f : ExpireRun(f, k, d, n)
<1> DEFINE Is(f) == f = [i \in 0 .. n |-> IF i = 0 THEN k ELSE ExpireFirst(f[i - 1], d)]
           f == CHOOSE f : Is(f)
<1>1. PICK a : a = <<"expire", d>>
  OBVIOUS
<1>2. \A x, i : Round(a, x, i) = ExpireFirst(x, d)
  BY <1>1 DEF Round
<1>3. PICK z : z = k
  OBVIOUS
<1>4. PICK g : After(a, z, n, g)
  BY Rounds
<1>5. Is(g)
  BY <1>2, <1>3, <1>4 DEF After
<1>6. ExpireTimers(k, d) = f[n]
  BY DEF ExpireTimers, Loop
<1>7. Is(f)
  BY <1>5
<1> HIDE DEF f
<1>8. f[0] = k /\ \A i \in 1 .. n : f[i] = ExpireFirst(f[i - 1], d)
  BY <1>7
<1> QED BY <1>6, <1>8 DEF ExpireRun

RetireRun(f, k, p, n) ==
  /\ f[0] = EndThreads(k, p) /\ \A i \in 1 .. n : f[i] = RetireStep(f[i - 1], p, i)
  /\ Retire(k, p) = f[n]

(* Retire closes the objects of a process slot after slot. *)
LEMMA RetireRounds ==
  ASSUME NEW k, NEW p, NEW n \in Nat, n = ObjectSlots
  PROVE  \E f : RetireRun(f, k, p, n)
<1> DEFINE Is(f) == f = [i \in 0 .. n |-> IF i = 0 THEN EndThreads(k, p) ELSE RetireStep(f[i - 1], p, i)]
           f == CHOOSE f : Is(f)
<1>1. PICK a : a = <<"retire", p>>
  OBVIOUS
<1>2. \A x, i : Round(a, x, i) = RetireStep(x, p, i)
  BY <1>1 DEF Round
<1>3. PICK z : z = EndThreads(k, p)
  OBVIOUS
<1>4. PICK g : After(a, z, n, g)
  BY Rounds
<1>5. Is(g)
  BY <1>2, <1>3, <1>4 DEF After
<1>6. Retire(k, p) = f[n]
  BY DEF Retire, ForEachSlot, Loop, RetireStep
<1>7. Is(f)
  BY <1>5
<1> HIDE DEF f
<1>8. f[0] = EndThreads(k, p) /\ \A i \in 1 .. n : f[i] = RetireStep(f[i - 1], p, i)
  BY <1>7
<1> QED BY <1>6, <1>8 DEF RetireRun

ReapRun(f, k, p, n) ==
  /\ f[0] = k /\ \A i \in 1 .. n : f[i] = ReapStep(f[i - 1], p, i)
  /\ CloseHandles(k, p) = f[n]

(* CloseHandles releases the handles of a process slot after slot. *)
LEMMA ReapRounds ==
  ASSUME NEW k, NEW p, NEW n \in Nat, n = ObjectSlots
  PROVE  \E f : ReapRun(f, k, p, n)
<1> DEFINE Is(f) == f = [i \in 0 .. n |-> IF i = 0 THEN k ELSE ReapStep(f[i - 1], p, i)]
           f == CHOOSE f : Is(f)
<1>1. PICK a : a = <<"reap", p>>
  OBVIOUS
<1>2. \A x, i : Round(a, x, i) = ReapStep(x, p, i)
  BY <1>1 DEF Round
<1>3. PICK z : z = k
  OBVIOUS
<1>4. PICK g : After(a, z, n, g)
  BY Rounds
<1>5. Is(g)
  BY <1>2, <1>3, <1>4 DEF After
<1>6. CloseHandles(k, p) = f[n]
  BY DEF CloseHandles, ForEachSlot, Loop, ReapStep
<1>7. Is(f)
  BY <1>5
<1> HIDE DEF f
<1>8. f[0] = k /\ \A i \in 1 .. n : f[i] = ReapStep(f[i - 1], p, i)
  BY <1>7
<1> QED BY <1>6, <1>8 DEF ReapRun

Sifts(f, s, S, n) ==
  /\ f[0] = <<>> /\ \A i \in 1 .. n : f[i] = KeepStep(f[i - 1], s, S, i)
  /\ Only(s, S) = f[n]

(* Only takes or leaves one element after another. *)
LEMMA OnlyRounds ==
  ASSUME NEW s, NEW S, NEW n \in Nat, n = Len(s)
  PROVE  \E f : Sifts(f, s, S, n)
<1> DEFINE Is(f) == f = [i \in 0 .. n |-> IF i = 0 THEN <<>> ELSE KeepStep(f[i - 1], s, S, i)]
           f == CHOOSE f : Is(f)
<1>1. PICK a : a = <<"only", s, S>>
  OBVIOUS
<1>2. \A x, i : Round(a, x, i) = KeepStep(x, s, S, i)
  BY <1>1 DEF Round
<1>3. PICK z : z = <<>>
  OBVIOUS
<1>4. PICK g : After(a, z, n, g)
  BY Rounds
<1>5. Is(g)
  BY <1>2, <1>3, <1>4 DEF After
<1>6. Only(s, S) = f[n]
  BY DEF Only, KeepStep
<1>7. Is(f)
  BY <1>5
<1> HIDE DEF f
<1>8. f[0] = <<>> /\ \A i \in 1 .. n : f[i] = KeepStep(f[i - 1], s, S, i)
  BY <1>7
<1> QED BY <1>6, <1>8 DEF Sifts

----------------------------------------------------------------------------
(* What Only leaves of a sequence. *)

Sieved(x, s, S, i) ==
  /\ Len(x) <= i /\ (s[1] \notin S /\ i >= 1 => Len(x) <= i - 1)
  /\ \A e : In(e, x) <=> e \in S /\ \E j \in 1 .. i : s[j] = e

Longer(X, x, v, y) ==
  /\ y = Append(x, v) /\ y \in Seq(X) /\ Len(y) = Len(x) + 1
  /\ \A e : In(e, y) <=> In(e, x) \/ e = v

(* A sequence with one more element. *)
LEMMA Appended ==
  ASSUME NEW X, NEW x \in Seq(X), NEW v \in X
  PROVE  \E y : Longer(X, x, v, y)
<1>0. PICK y : y = Append(x, v)
  OBVIOUS
<1>1. /\ y \in Seq(X) /\ Len(y) = Len(x) + 1 /\ Len(x) \in Nat
      /\ \A j \in 1 .. Len(x) : y[j] = x[j]
      /\ y[Len(x) + 1] = v
      /\ DOMAIN x = 1 .. Len(x) /\ DOMAIN y = 1 .. Len(x) + 1
  BY <1>0
<1>2. ASSUME NEW e PROVE In(e, y) <=> In(e, x) \/ e = v
  <2>1. ASSUME In(e, y) PROVE In(e, x) \/ e = v
    <3>1. PICK j \in 1 .. Len(x) + 1 : y[j] = e
      BY <1>1, <2>1 DEF In
    <3>2. CASE j = Len(x) + 1
      BY <1>1, <3>1, <3>2
    <3>3. CASE j # Len(x) + 1
      <4>1. j \in 1 .. Len(x)
        BY <1>1, <3>1, <3>3
      <4> QED BY <1>1, <3>1, <4>1 DEF In
    <3> QED BY <3>2, <3>3
  <2>2. ASSUME In(e, x) PROVE In(e, y)
    <3>1. PICK j \in 1 .. Len(x) : x[j] = e
      BY <1>1, <2>2 DEF In
    <3>2. j \in 1 .. Len(x) + 1 /\ y[j] = e
      BY <1>1, <3>1
    <3> QED BY <1>1, <3>2 DEF In
  <2>3. ASSUME e = v PROVE In(e, y)
    <3>1. Len(x) + 1 \in DOMAIN y
      BY <1>1
    <3> QED BY <1>1, <2>3, <3>1 DEF In
  <2> QED BY <2>1, <2>2, <2>3
<1> QED BY <1>0, <1>1, <1>2 DEF Longer

(* Only keeps exactly the elements of its set, and is shorter when the     *)
(* first is not one of them.                                               *)
LEMMA OnlyFacts ==
  ASSUME NEW X, NEW s \in Seq(X), NEW S
  PROVE  \E y \in Seq(X) :
           /\ y = Only(s, S) /\ Len(y) <= Len(s)
           /\ s # <<>> /\ s[1] \notin S => Len(y) < Len(s)
           /\ \A e : In(e, y) <=> In(e, s) /\ e \in S
<1>1. PICK n \in Nat : n = Len(s) /\ DOMAIN s = 1 .. n /\ \A i \in 1 .. n : s[i] \in X
  OBVIOUS
<1>2. n = Len(s)
  BY <1>1
<1>10. PICK f : Sifts(f, s, S, n)
  BY <1>2, OnlyRounds
<1>3. /\ f[0] = <<>> /\ \A i \in 1 .. n : f[i] = KeepStep(f[i - 1], s, S, i)
      /\ Only(s, S) = f[n]
  BY <1>10 DEF Sifts
<1> DEFINE P == {i \in 0 .. n : f[i] \in Seq(X) /\ Sieved(f[i], s, S, i)}
<1>4. 0 \in P
  <2>1. <<>> \in Seq(X) /\ Len(<<>>) = 0 /\ \A e : ~In(e, <<>>)
    BY DEF In
  <2>2. Sieved(<<>>, s, S, 0)
    BY <2>1 DEF Sieved
  <2>3. 0 \in 0 .. n
    OBVIOUS
  <2>4. f[0] \in Seq(X) /\ Sieved(f[0], s, S, 0)
    BY <1>3, <2>1, <2>2
  <2> QED BY <2>3, <2>4
<1>5. ASSUME NEW i \in 1 .. n, i - 1 \in P PROVE i \in P
  <2>1. PICK x : x = f[i - 1]
    OBVIOUS
  <2>2. x \in Seq(X) /\ Sieved(x, s, S, i - 1) /\ Len(x) \in Nat
    BY <1>5, <2>1
  <2>9. x \in Seq(X)
    BY <2>2
  <2>3. PICK y : y = KeepStep(x, s, S, i)
    OBVIOUS
  <2>4. y = f[i]
    BY <1>3, <2>1, <2>3
  <2>5. i \in Nat /\ i >= 1 /\ s[i] \in X
    BY <1>1
  <2>6. \A e : (\E j \in 1 .. i : s[j] = e) <=> (\E j \in 1 .. i - 1 : s[j] = e) \/ e = s[i]
    <3>1. \A j : j \in 1 .. i <=> j \in 1 .. i - 1 \/ j = i
      BY <2>5
    <3> QED BY <3>1
  <2>7. CASE s[i] \in S
    <3>1. PICK v \in X : v = s[i]
      BY <2>5
    <3>2. PICK z : Longer(X, x, v, z)
      BY <2>9, Appended
    <3>9. z = y
      BY <2>3, <2>7, <3>1, <3>2 DEF KeepStep, Longer
    <3>3. y \in Seq(X) /\ Len(y) = Len(x) + 1 /\ \A e : In(e, y) <=> In(e, x) \/ e = v
      BY <3>2, <3>9 DEF Longer
    <3>4. \A e : In(e, y) <=> e \in S /\ \E j \in 1 .. i : s[j] = e
      BY <2>2, <2>6, <2>7, <3>1, <3>3 DEF Sieved
    <3>5. Len(x) <= i - 1 /\ Len(y) <= i
      BY <2>2, <2>5, <3>3 DEF Sieved
    <3>6. ASSUME s[1] \notin S PROVE Len(y) <= i - 1
      <4>1. i # 1
        BY <2>7, <3>6
      <4>2. Len(x) <= (i - 1) - 1
        BY <2>2, <2>5, <3>6, <4>1 DEF Sieved
      <4> QED BY <2>2, <2>5, <3>3, <4>2
    <3>7. Sieved(y, s, S, i)
      BY <2>5, <3>4, <3>5, <3>6 DEF Sieved
    <3>8. i \in 0 .. n
      BY <1>1
    <3> QED BY <2>4, <3>3, <3>7, <3>8
  <2>8. CASE s[i] \notin S
    <3>1. y = x
      BY <2>3, <2>8 DEF KeepStep
    <3>2. \A e : In(e, y) <=> e \in S /\ \E j \in 1 .. i : s[j] = e
      BY <2>2, <2>6, <2>8, <3>1 DEF Sieved
    <3>3. Len(y) <= i - 1
      BY <2>2, <2>5, <3>1 DEF Sieved
    <3>4. Len(y) <= i /\ Len(x) <= i - 1
      BY <2>2, <2>5, <3>1, <3>3
    <3>5. ASSUME s[1] \notin S, i >= 1 PROVE Len(y) <= i - 1
      BY <3>3
    <3>6. Sieved(y, s, S, i)
      BY <3>2, <3>4, <3>5 DEF Sieved
    <3>7. i \in 0 .. n
      BY <1>1
    <3> QED BY <2>2, <2>4, <3>1, <3>6, <3>7
  <2> QED BY <2>7, <2>8
<1>6. n \in P
  <2>1. \A i \in 1 .. n : i - 1 \in P => i \in P
    BY <1>5
  <2> HIDE DEF P
  <2>2. \A i \in 0 .. n : i \in P
    BY <1>1, <1>4, <2>1, Climb
  <2> QED BY <1>1, <2>2
<1>7. PICK y : y = Only(s, S)
  OBVIOUS
<1>8. y \in Seq(X) /\ Sieved(y, s, S, n)
  BY <1>3, <1>6, <1>7
<1>9. \A e : In(e, s) <=> \E j \in 1 .. n : s[j] = e
  BY <1>1 DEF In
<1>13. \A e : In(e, y) <=> In(e, s) /\ e \in S
  BY <1>8, <1>9 DEF Sieved
<1>11. Len(y) <= Len(s)
  BY <1>2, <1>8 DEF Sieved
<1>12. s # <<>> /\ s[1] \notin S => Len(y) < Len(s)
  <2>1. s # <<>> => n >= 1
    BY <1>1, <1>2
  <2>2. Len(y) \in Nat
    BY <1>8
  <2> QED BY <1>1, <1>2, <1>8, <2>1, <2>2 DEF Sieved
<1> QED BY <1>7, <1>8, <1>13, <1>11, <1>12

----------------------------------------------------------------------------
(* Wakes.                                                                  *)

(* The registrations at an object form a sequence, which is empty exactly  *)
(* when nothing is in it.                                                  *)
LEMMA QueueFacts ==
  ASSUME NEW k \in States, NEW o \in Slots
  PROVE  /\ k.queue[o] \in Seq(Threads \X Nat) /\ Len(k.queue[o]) \in Nat
         /\ \A e : In(e, k.queue[o]) => e \in Threads \X Nat
         /\ k.queue[o] # <<>> => In(k.queue[o][1], k.queue[o])
         /\ k.queue[o] = <<>> => \A e : ~In(e, k.queue[o])
<1>1. k.queue[o] \in Seq(Threads \X Nat)
  BY StateFields DEF Queues
<1>2. PICK s \in Seq(Threads \X Nat) : s = k.queue[o]
  BY <1>1
<1>3. Len(s) \in Nat /\ DOMAIN s = 1 .. Len(s) /\ (s # <<>> => 1 \in DOMAIN s)
      /\ (s = <<>> => DOMAIN s = {}) /\ \A j \in DOMAIN s : s[j] \in Threads \X Nat
  OBVIOUS
<1>4. \A e : In(e, s) => e \in Threads \X Nat
  BY <1>3 DEF In
<1>5. s # <<>> => In(s[1], s)
  BY <1>3 DEF In
<1>6. s = <<>> => \A e : ~In(e, s)
  BY <1>3 DEF In
<1> QED BY <1>1, <1>2, <1>3, <1>4, <1>5, <1>6

(* Withdrawing threads takes all their registrations and nobody else's,    *)
(* and changes nothing else (withdraw_wait_set).                           *)
LEMMA WithdrawnFacts ==
  ASSUME NEW k \in States, NEW T \in SUBSET Threads
  PROVE  \E w : Pulled(k, w, T)
<1> DEFINE S == (Threads \ T) \X Nat
           v == [o \in Slots |-> Only(k.queue[o], S)]
<1>1. ASSUME NEW o \in Slots
      PROVE  /\ v[o] \in Seq(Threads \X Nat) /\ Len(v[o]) <= Len(k.queue[o])
             /\ k.queue[o] # <<>> /\ k.queue[o][1] \notin S => Len(v[o]) < Len(k.queue[o])
             /\ \A e : In(e, v[o]) <=> In(e, k.queue[o]) /\ e \in S
  <2>1. PICK s \in Seq(Threads \X Nat) : s = k.queue[o]
    BY QueueFacts
  <2>2. PICK R : R = S
    OBVIOUS
  <2>3. PICK y \in Seq(Threads \X Nat) :
           /\ y = Only(s, R) /\ Len(y) <= Len(s)
           /\ s # <<>> /\ s[1] \notin R => Len(y) < Len(s)
           /\ \A e : In(e, y) <=> In(e, s) /\ e \in R
    BY OnlyFacts
  <2>4. v[o] = y
    BY <2>1, <2>2, <2>3
  <2> HIDE DEF v, S
  <2> QED BY <2>1, <2>2, <2>3, <2>4
<1>2. PICK u : u = v
  OBVIOUS
<1>3. u \in Queues
  BY <1>1, <1>2 DEF Queues
<1>4. PICK w : w = [k EXCEPT !.queue = u]
  OBVIOUS
<1>5. /\ w \in States /\ w.queue = u
      /\ w.object = k.object /\ w.heap = k.heap /\ w.pages = k.pages
      /\ w.thread = k.thread /\ w.process = k.process
      /\ w.handles = k.handles /\ w.panic = k.panic
  BY <1>3, <1>4, Set_queue
<1>6. w = Withdrawn(k, T)
  BY <1>2, <1>4 DEF Withdrawn
<1>7. ASSUME NEW o \in Slots, NEW e PROVE In(e, w.queue[o]) <=> In(e, k.queue[o]) /\ e[1] \notin T
  <2>1. In(e, k.queue[o]) => e \in Threads \X Nat
    BY QueueFacts
  <2>2. e \in Threads \X Nat => (e \in S <=> e[1] \notin T)
    OBVIOUS
  <2>3. In(e, v[o]) <=> In(e, k.queue[o]) /\ e \in S
    BY <1>1
  <2> HIDE DEF v, S
  <2> QED BY <1>2, <1>5, <2>1, <2>2, <2>3
<1>8. Shorter(k, w, T)
  <2> SUFFICES ASSUME NEW o \in Slots
      PROVE  /\ Len(w.queue[o]) <= Len(k.queue[o])
             /\ k.queue[o] # <<>> /\ k.queue[o][1][1] \in T => Len(w.queue[o]) < Len(k.queue[o])
    BY DEF Shorter
  <2>1. k.queue[o] # <<>> /\ k.queue[o][1][1] \in T => k.queue[o][1] \notin S
    OBVIOUS
  <2>2. /\ Len(v[o]) <= Len(k.queue[o])
        /\ k.queue[o] # <<>> /\ k.queue[o][1] \notin S => Len(v[o]) < Len(k.queue[o])
    BY <1>1
  <2> HIDE DEF v, S
  <2> QED BY <1>2, <1>5, <2>1, <2>2
<1> QED BY <1>5, <1>6, <1>7, <1>8 DEF Pulled, Outside, Left

(* A thread that has been told the end of its wait is at work. *)
LEMMA ToldFacts ==
  ASSUME NEW r \in Results, NEW i \in Nat
  PROVE  /\ Told(r, i) \in ThreadRecords /\ Told(r, i).state = "READY"
         /\ Told(r, i).members = <<>> /\ Told(r, i).deadline = 0
         /\ Told(r, i).outcome = <<r, i>>
<1>1. PICK x : x = [state |-> "READY", members |-> <<>>, deadline |-> 0, outcome |-> <<r, i>>]
  OBVIOUS
<1>2. Told(r, i) = x
  BY <1>1 DEF Told, AtWork
<1>3. <<>> \in Seq(Slots) /\ <<r, i>> \in Results \X Nat
  OBVIOUS
<1>4. x \in ThreadRecords
  BY <1>1, <1>3 DEF ThreadRecords
<1>5. x.state = "READY" /\ x.members = <<>> /\ x.deadline = 0 /\ x.outcome = <<r, i>>
  BY <1>1
<1> QED BY <1>2, <1>4, <1>5

(* Ending the wait of a thread changes its own state and registrations and *)
(* nothing else (complete_wait).                                           *)
LEMMA EndWaitFacts ==
  ASSUME NEW k \in States, NEW t \in Threads, NEW r \in Results, NEW i \in Nat
  PROVE  \E w : /\ w = EndWait(k, t, r, i) /\ Outside(k, w)
                /\ Left(k, w, {t}) /\ Rest(k, w, {t}) /\ Shorter(k, w, {t})
                /\ w.thread[t] = Told(r, i)
<1>1. PICK T \in SUBSET Threads : T = {t}
  OBVIOUS
<1>2. PICK j : Pulled(k, j, T)
  BY WithdrawnFacts
<1>3. j \in States /\ j.thread \in ThreadTables
  BY <1>2, StateFields DEF Pulled, Outside
<1>4. PICK x : x = Told(r, i)
  OBVIOUS
<1>5. x \in ThreadRecords
  BY <1>4, ToldFacts
<1>6. PICK v : v = [j.thread EXCEPT ![t] = x]
  OBVIOUS
<1>7. v \in ThreadTables /\ v[t] = x /\ \A u \in Threads \ {t} : v[u] = j.thread[u]
  BY <1>3, <1>5, <1>6 DEF ThreadTables
<1>8. PICK w : w = [j EXCEPT !.thread = v]
  OBVIOUS
<1>9. /\ w \in States /\ w.thread = v
      /\ w.object = j.object /\ w.heap = j.heap /\ w.pages = j.pages
      /\ w.queue = j.queue /\ w.process = j.process
      /\ w.handles = j.handles /\ w.panic = j.panic
  BY <1>3, <1>7, <1>8, Set_thread
<1>10. w = EndWait(k, t, r, i)
  BY <1>1, <1>2, <1>4, <1>6, <1>8 DEF EndWait, Pulled
<1>11. Outside(k, w)
  BY <1>2, <1>9 DEF Pulled, Outside
<1>12. Left(k, w, {t}) /\ Shorter(k, w, {t})
  BY <1>1, <1>2, <1>9 DEF Pulled, Left, Shorter
<1>13. Rest(k, w, {t})
  BY <1>2, <1>7, <1>9 DEF Pulled, Rest
<1>14. w.thread[t] = Told(r, i)
  BY <1>4, <1>7, <1>9
<1> QED BY <1>10, <1>11, <1>12, <1>13, <1>14

(* Waking one wakes the first waiter of the object, for this object. *)
LEMMA WakeOneFacts ==
  ASSUME NEW k \in States, NEW o \in Slots, NEW r \in Results, k.queue[o] # <<>>
  PROVE  \E w, t : /\ w = WakeOne(k, o, r) /\ Woken(k, w, {t}, r, o)
                   /\ t = k.queue[o][1][1]
                   /\ Len(w.queue[o]) < Len(k.queue[o])
<1>1. k.queue[o][1] \in Threads \X Nat /\ In(k.queue[o][1], k.queue[o])
  BY QueueFacts
<1>2. PICK t \in Threads, i \in Nat : k.queue[o][1] = <<t, i>>
  BY <1>1
<1>3. PICK w : /\ w = EndWait(k, t, r, i) /\ Outside(k, w)
               /\ Left(k, w, {t}) /\ Rest(k, w, {t}) /\ Shorter(k, w, {t})
               /\ w.thread[t] = Told(r, i)
  BY EndWaitFacts
<1>4. k.queue[o][1][1] = t /\ k.queue[o][1][2] = i
  BY <1>2
<1>5. w = WakeOne(k, o, r)
  BY <1>3, <1>4 DEF WakeOne
<1>6. Told2(k, w, {t}, r, o)
  BY <1>1, <1>2, <1>3 DEF Told2
<1>7. Woken(k, w, {t}, r, o)
  BY <1>3, <1>6 DEF Woken
<1>8. Len(w.queue[o]) < Len(k.queue[o])
  BY <1>3, <1>4 DEF Shorter
<1> QED BY <1>4, <1>5, <1>7, <1>8

(* Two wakes in a row wake the threads of both. *)
LEMMA WokenTwice ==
  ASSUME NEW k, NEW j, NEW w, NEW T, NEW U, NEW r, NEW o \in Slots,
         Woken(k, j, T, r, o), Woken(j, w, U, r, o)
  PROVE  Woken(k, w, T \cup U, r, o)
<1>1. Outside(k, w)
  BY DEF Woken, Outside
<1>2. Left(k, w, T \cup U)
  BY DEF Woken, Left
<1>3. Rest(k, w, T \cup U)
  BY DEF Woken, Rest
<1>4. ASSUME NEW t \in T \cup U
      PROVE  \E i \in Nat : w.thread[t] = Told(r, i) /\ In(<<t, i>>, k.queue[o])
  <2>1. CASE t \in U
    <3>1. PICK i \in Nat : w.thread[t] = Told(r, i) /\ In(<<t, i>>, j.queue[o])
      BY <2>1 DEF Woken, Told2
    <3>2. In(<<t, i>>, k.queue[o])
      BY <3>1 DEF Woken, Left
    <3> QED BY <3>1, <3>2
  <2>2. CASE t \notin U
    <3>1. t \in T /\ t \in Threads
      BY <1>4, <2>2 DEF Woken
    <3>2. w.thread[t] = j.thread[t]
      BY <2>2, <3>1 DEF Woken, Rest
    <3> QED BY <3>1, <3>2 DEF Woken, Told2
  <2> QED BY <2>1, <2>2
<1>5. T \cup U \subseteq Threads
  BY DEF Woken
<1> QED BY <1>1, <1>2, <1>3, <1>4, <1>5 DEF Woken, Told2

(* No wake wakes nobody. *)
LEMMA WokenNobody ==
  ASSUME NEW k \in States, NEW r, NEW o
  PROVE  Woken(k, k, {}, r, o)
BY DEF Woken, Outside, Left, Rest, Told2

(* The waiters of an object are the threads registered there. *)
LEMMA WaitersAre ==
  ASSUME NEW k \in States, NEW o \in Slots
  PROVE  Waiters(k, o) = WaitersOf(k, o)
<1>1. \A e : In(e, k.queue[o]) => e \in Threads \X Nat
  BY QueueFacts
<1>2. ASSUME NEW t \in Waiters(k, o) PROVE t \in WaitersOf(k, o)
  <2>1. PICK j \in DOMAIN k.queue[o] : t = k.queue[o][j][1]
    BY DEF Waiters
  <2>2. PICK e : e = k.queue[o][j]
    OBVIOUS
  <2>3. In(e, k.queue[o])
    BY <2>2 DEF In
  <2>4. e \in Threads \X Nat /\ e[1] = t
    BY <1>1, <2>1, <2>2, <2>3
  <2>5. t \in Threads /\ e = <<t, e[2]>> /\ e[2] \in Nat
    BY <2>4
  <2> QED BY <2>3, <2>5 DEF WaitersOf
<1>3. ASSUME NEW t \in WaitersOf(k, o) PROVE t \in Waiters(k, o)
  <2>1. PICK i \in Nat : In(<<t, i>>, k.queue[o])
    BY DEF WaitersOf
  <2>2. PICK j \in DOMAIN k.queue[o] : k.queue[o][j] = <<t, i>>
    BY <2>1 DEF In
  <2>3. k.queue[o][j][1] = t
    BY <2>2
  <2> QED BY <2>3 DEF Waiters
<1> QED BY <1>2, <1>3

(* An object has finitely many waiters. *)
LEMMA WaitersFinite ==
  ASSUME NEW k \in States, NEW o \in Slots
  PROVE  IsFiniteSet(WaitersOf(k, o))
<1>1. PICK s \in Seq(Threads \X Nat) : s = k.queue[o]
  BY QueueFacts
<1>2. PICK n \in Nat : DOMAIN s = 1 .. n
  OBVIOUS
<1>3. IsFiniteSet(1 .. n)
  BY <1>2, FS_Interval
<1>4. PICK D : D = 1 .. n
  OBVIOUS
<1>5. PICK W : W = WaitersOf(k, o)
  OBVIOUS
<1>6. PICK f : f = [j \in D |-> s[j][1]]
  OBVIOUS
<1>7. W = {s[j][1] : j \in DOMAIN s}
  BY <1>1, <1>5, WaitersAre DEF Waiters
<1>8. f \in Surjection(D, W)
  BY <1>2, <1>4, <1>6, <1>7 DEF Surjection
<1> QED BY <1>3, <1>4, <1>5, <1>8, FS_Surjection

(* Everybody is woken, in no more rounds than there are registrations. *)
LEMMA WakeAllFacts ==
  ASSUME NEW k \in States, NEW o \in Slots, NEW r \in Results
  PROVE  \E w : /\ w = WakeAll(k, o, r) /\ Woken(k, w, WaitersOf(k, o), r, o)
                /\ w.queue[o] = <<>>
<1>1. PICK n \in Nat : n = Len(k.queue[o])
  BY QueueFacts
<1>10. PICK f : WakeAllRun(f, k, o, r, n)
  BY <1>1, WakeAllRounds
<1>2. /\ f[0] = k /\ \A i \in 1 .. n : f[i] = WakeStep(f[i - 1], o, r)
      /\ WakeAll(k, o, r) = f[n]
  BY <1>10 DEF WakeAllRun
<1> DEFINE P == {i \in 0 .. n : /\ Len(f[i].queue[o]) <= n - i
                                /\ \E T : Woken(k, f[i], T, r, o)}
<1>3. 0 \in P
  <2>1. Woken(k, f[0], {}, r, o)
    BY <1>2, WokenNobody
  <2>2. Len(f[0].queue[o]) <= n - 0 /\ 0 \in 0 .. n
    BY <1>1, <1>2
  <2> QED BY <2>1, <2>2
<1>4. ASSUME NEW i \in 1 .. n, i - 1 \in P PROVE i \in P
  <2>1. PICK x, T : x = f[i - 1] /\ Len(x.queue[o]) <= n - (i - 1) /\ Woken(k, x, T, r, o)
    BY <1>4
  <2>2. x \in States
    BY <2>1 DEF Woken, Outside
  <2>3. Len(x.queue[o]) \in Nat
    BY <2>2, QueueFacts
  <2>4. PICK y : y = f[i] /\ y = WakeStep(x, o, r)
    BY <1>2, <2>1
  <2>5. i \in 0 .. n /\ i \in Nat
    OBVIOUS
  <2>6. CASE x.queue[o] = <<>>
    <3>1. y = x
      BY <2>4, <2>6 DEF WakeStep
    <3>2. PICK z : z = y.queue[o]
      OBVIOUS
    <3>4. Len(z) = 0
      BY <2>6, <3>1, <3>2
    <3>3. Len(z) <= n - i
      BY <2>5, <3>4
    <3> QED BY <2>1, <2>4, <2>5, <3>1, <3>2, <3>3
  <2>7. CASE x.queue[o] # <<>>
    <3>1. PICK w, t : /\ w = WakeOne(x, o, r) /\ Woken(x, w, {t}, r, o)
                      /\ Len(w.queue[o]) < Len(x.queue[o])
      BY <2>2, <2>7, WakeOneFacts
    <3>2. w = y
      BY <2>4, <2>7, <3>1 DEF WakeStep
    <3>3. Woken(k, y, T \cup {t}, r, o)
      <4>1. PICK U : U = {t}
        OBVIOUS
      <4>2. Woken(k, w, T \cup U, r, o)
        BY <2>1, <3>1, <4>1, WokenTwice
      <4> QED BY <3>2, <4>1, <4>2
    <3>4. w \in States
      BY <3>1 DEF Woken, Outside
    <3>5. Len(y.queue[o]) \in Nat
      BY <3>2, <3>4, QueueFacts
    <3>6. Len(y.queue[o]) <= n - i
      BY <2>1, <2>3, <2>5, <3>1, <3>2, <3>5
    <3> QED BY <2>4, <2>5, <3>3, <3>6
  <2> QED BY <2>6, <2>7
<1>5. n \in P
  <2>1. \A i \in 1 .. n : i - 1 \in P => i \in P
    BY <1>4
  <2> HIDE DEF P
  <2>2. \A i \in 0 .. n : i \in P
    BY <1>3, <2>1, Climb
  <2> QED BY <2>2
<1>6. PICK w, T : w = f[n] /\ Len(w.queue[o]) <= n - n /\ Woken(k, w, T, r, o)
  BY <1>5
<1>7. w \in States
  BY <1>6 DEF Woken, Outside
<1>8. w.queue[o] = <<>>
  <2>1. PICK s \in Seq(Threads \X Nat) : s = w.queue[o]
    BY <1>7, QueueFacts
  <2>2. Len(s) = 0
    BY <1>6, <2>1
  <2> QED BY <2>1, <2>2
<1>9. T = WaitersOf(k, o)
  <2>1. \A e : In(e, k.queue[o]) => e[1] \in T
    BY <1>6, <1>7, <1>8, QueueFacts DEF Woken, Left
  <2>2. ASSUME NEW t \in WaitersOf(k, o) PROVE t \in T
    <3>1. PICK i \in Nat : In(<<t, i>>, k.queue[o])
      BY DEF WaitersOf
    <3>2. PICK e : e = <<t, i>>
      OBVIOUS
    <3> QED BY <2>1, <3>1, <3>2
  <2>3. \A t \in T : t \in WaitersOf(k, o)
    BY <1>6 DEF Woken, Told2, WaitersOf
  <2> QED BY <2>2, <2>3
<1> QED BY <1>2, <1>6, <1>8, <1>9

(* n waiters are woken, if there are that many. *)
LEMMA WakeSomeFacts ==
  ASSUME NEW k \in States, NEW o \in Slots, NEW n \in Nat,
         n <= Cardinality(WaitersOf(k, o))
  PROVE  \E w, T : /\ w = WakeSome(k, o, n)
                   /\ Woken(k, w, T, "OK", o)
                   /\ IsFiniteSet(T) /\ Cardinality(T) = n
<1>8. PICK f : WakeSomeRun(f, k, o, n)
  BY WakeSomeRounds
<1>1. /\ f[0] = k /\ \A i \in 1 .. n : f[i] = WakeOne(f[i - 1], o, "OK")
      /\ WakeSome(k, o, n) = f[n]
  BY <1>8 DEF WakeSomeRun
<1>2. PICK r \in Results : r = "OK"
  BY DEF Results
<1> DEFINE P == {i \in 0 .. n : \E T : /\ Woken(k, f[i], T, r, o)
                                       /\ IsFiniteSet(T) /\ Cardinality(T) = i}
<1>3. 0 \in P
  <2>1. PICK T : T = {}
    OBVIOUS
  <2>2. Woken(k, f[0], T, r, o)
    BY <1>1, <2>1, WokenNobody
  <2>3. IsFiniteSet(T) /\ Cardinality(T) = 0
    BY <2>1, FS_EmptySet
  <2>4. 0 \in 0 .. n
    OBVIOUS
  <2> QED BY <2>2, <2>3, <2>4
<1>4. ASSUME NEW i \in 1 .. n, i - 1 \in P PROVE i \in P
  <2>1. PICK x, T : x = f[i - 1] /\ Woken(k, x, T, r, o) /\ IsFiniteSet(T) /\ Cardinality(T) = i - 1
    BY <1>4
  <2>2. x \in States
    BY <2>1 DEF Woken, Outside
  <2>3. PICK y : y = f[i] /\ y = WakeOne(x, o, r)
    BY <1>1, <1>2, <2>1
  <2>4. i \in 0 .. n /\ i \in Nat /\ i <= n
    OBVIOUS
  <2>5. x.queue[o] # <<>>
    <3> SUFFICES ASSUME x.queue[o] = <<>> PROVE FALSE
      OBVIOUS
    <3>1. \A e : In(e, k.queue[o]) => e[1] \in T
      BY <2>1, <2>2, QueueFacts DEF Woken, Left
    <3>2. ASSUME NEW t \in WaitersOf(k, o) PROVE t \in T
      <4>1. PICK j \in Nat : In(<<t, j>>, k.queue[o])
        BY DEF WaitersOf
      <4>2. PICK e : e = <<t, j>>
        OBVIOUS
      <4> QED BY <3>1, <4>1, <4>2
    <3>3. PICK W \in SUBSET T : W = WaitersOf(k, o)
      BY <3>2
    <3>4. Cardinality(W) <= Cardinality(T)
      BY <2>1, FS_Subset
    <3>5. Cardinality(W) \in Nat
      BY <3>3, WaitersFinite, FS_CardinalityType
    <3> QED BY <2>1, <2>4, <3>3, <3>4, <3>5
  <2>6. PICK w, t : w = WakeOne(x, o, r) /\ Woken(x, w, {t}, r, o) /\ t = x.queue[o][1][1]
    BY <2>2, <2>5, WakeOneFacts
  <2>7. Woken(k, y, T \cup {t}, r, o)
    <3>1. PICK U : U = {t}
      OBVIOUS
    <3>2. Woken(k, w, T \cup U, r, o)
      BY <2>1, <2>6, <3>1, WokenTwice
    <3> QED BY <2>3, <2>6, <3>1, <3>2
  <2>8. t \notin T
    <3>1. PICK e : e = x.queue[o][1]
      OBVIOUS
    <3>2. In(e, x.queue[o])
      BY <2>2, <2>5, <3>1, QueueFacts
    <3> QED BY <2>1, <2>6, <3>1, <3>2 DEF Woken, Left
  <2>9. IsFiniteSet(T \cup {t}) /\ Cardinality(T \cup {t}) = i
    <3>1. IsFiniteSet(T \cup {t}) /\ Cardinality(T \cup {t}) = Cardinality(T) + 1
      BY <2>1, <2>8, FS_AddElement
    <3> QED BY <2>1, <2>4, <3>1
  <2> QED BY <2>3, <2>4, <2>7, <2>9
<1>5. n \in P
  <2>1. \A i \in 1 .. n : i - 1 \in P => i \in P
    BY <1>4
  <2> HIDE DEF P
  <2>2. \A i \in 0 .. n : i \in P
    BY <1>3, <2>1, Climb
  <2> QED BY <2>2
<1>6. PICK w, T : w = f[n] /\ Woken(k, w, T, r, o) /\ IsFiniteSet(T) /\ Cardinality(T) = n
  BY <1>5
<1>7. w = WakeSome(k, o, n)
  BY <1>1, <1>6
<1> QED BY <1>2, <1>6, <1>7

----------------------------------------------------------------------------
(* Arithmetic of places in the heap, and of pages. *)

(* The parent of a place in the heap is a lesser place. *)
LEMMA Halves ==
  ASSUME NEW i \in Nat, i >= 2
  PROVE  i \div 2 \in Nat /\ i \div 2 >= 1 /\ i \div 2 < i
OBVIOUS

(* The children of place i are 2i and 2i + 1. *)
LEMMA Doubles ==
  ASSUME NEW i \in Nat, NEW j \in Nat
  PROVE  j \div 2 = i <=> j = 2 * i \/ j = 2 * i + 1
OBVIOUS

(* One page more is room for one entry more (timer_heap_reserve). *)
LEMMA PageCount ==
  ASSUME NEW l \in Nat, NEW e \in Nat \ {0}, NEW p \in Nat, p >= l \div e + 1
  PROVE  l + 1 <= p * e /\ l \div e + 1 \in Nat
<1>1. l \div e \in Nat
  OBVIOUS
<1>2. l < (l \div e + 1) * e
  OBVIOUS
<1>3. PICK q \in Nat : q = l \div e + 1
  BY <1>1
<1>4. q * e <= p * e
  BY <1>3
<1>5. q * e \in Nat /\ p * e \in Nat
  BY <1>3
<1> QED BY <1>1, <1>2, <1>3, <1>4, <1>5

----------------------------------------------------------------------------
(* The order of the timers. *)

(* The heap is a sequence of slots. *)
LEMMA HeapFacts ==
  ASSUME NEW k \in States
  PROVE  \E n \in Nat : /\ n = Len(k.heap) /\ DOMAIN k.heap = 1 .. n
                        /\ k.heap \in Seq(Slots)
                        /\ \A i \in 1 .. n : i \in Nat /\ k.heap[i] \in Slots
<1>1. PICK s \in Seq(Slots) : s = k.heap
  BY StateFields
<1>2. Len(s) \in Nat /\ DOMAIN s = 1 .. Len(s)
      /\ \A i \in 1 .. Len(s) : i \in Nat /\ s[i] \in Slots
  OBVIOUS
<1> QED BY <1>1, <1>2

(* The object table has an object in every slot. *)
LEMMA ObjectAt ==
  ASSUME NEW k \in States, NEW o \in Slots
  PROVE  k.object[o] \in ObjectRecords
BY StateFields DEF Objects

(* Less is a strict total order of the slots. *)
LEMMA Earlier ==
  ASSUME NEW k \in States, NEW a \in Slots, NEW b \in Slots, NEW c \in Slots
  PROVE  /\ Less(k, a, b) => ~Less(k, b, a)
         /\ a # b => Less(k, a, b) \/ Less(k, b, a)
         /\ ~Less(k, a, a)
         /\ ~Less(k, c, b) /\ ~Less(k, b, a) => ~Less(k, c, a)
<1>1. k.object[a].deadline \in Nat /\ k.object[b].deadline \in Nat /\ k.object[c].deadline \in Nat
  BY ObjectAt, ObjectFields
<1>2. a \in Nat /\ b \in Nat /\ c \in Nat
  BY DEF Slots
<1> QED BY <1>1, <1>2 DEF Less

(* Moving timers in the heap does not change their order. *)
LEMMA MovedLess ==
  ASSUME NEW k, NEW w, Moved(k, w), NEW a \in Slots, NEW b \in Slots
  PROVE  Less(w, a, b) <=> Less(k, a, b)
<1>1. w.object[a].deadline = k.object[a].deadline /\ w.object[b].deadline = k.object[b].deadline
  BY DEF Moved, SameObject
<1> QED BY <1>1 DEF Less

(* Moves may be made one after the other. *)
LEMMA MovedTwice ==
  ASSUME NEW k, NEW j, NEW w, Moved(k, j), Moved(j, w)
  PROVE  Moved(k, w)
BY DEF Moved, Aside, SameObject, SamePlace

(* Moving nothing is a move. *)
LEMMA MovedNowhere ==
  ASSUME NEW k \in States, Linked(k)
  PROVE  Moved(k, k)
BY DEF Moved, Aside, SameObject, SamePlace

----------------------------------------------------------------------------
(* Two timers change places. *)

Placed(k, i, o, w) ==
  /\ w = Place(k, i, o) /\ Aside(k, w) /\ w.pages = k.pages
  /\ w.heap = [k.heap EXCEPT ![i] = o]
  /\ \A p \in Slots : SameObject(k.object[p], w.object[p])
  /\ w.object[o].position = i
  /\ \A p \in Slots \ {o} : w.object[p].position = k.object[p].position

(* Place writes one place of the heap and one position. *)
LEMMA PlaceFacts ==
  ASSUME NEW k \in States, NEW i \in DOMAIN k.heap, NEW o \in Slots
  PROVE  \E w : Placed(k, i, o, w)
<1>1. PICK h : h = [k.heap EXCEPT ![i] = o]
  OBVIOUS
<1>2. h \in Seq(Slots) /\ i \in Nat
  <2>1. k.heap \in Seq(Slots)
    BY StateFields
  <2> QED BY <1>1, <2>1
<1>3. PICK j : j = [k EXCEPT !.heap = h]
  OBVIOUS
<1>4. /\ j \in States /\ j.heap = h
      /\ j.object = k.object /\ j.pages = k.pages /\ j.queue = k.queue
      /\ j.thread = k.thread /\ j.process = k.process
      /\ j.handles = k.handles /\ j.panic = k.panic
  BY <1>2, <1>3, Set_heap
<1>5. k.object[o] \in ObjectRecords
  BY ObjectAt
<1>6. PICK x : x = [k.object[o] EXCEPT !.position = i]
  OBVIOUS
<1>7. /\ x \in ObjectRecords /\ x.position = i
      /\ SameObject(k.object[o], x)
  BY <1>2, <1>5, <1>6, Put_position DEF SameObject
<1>8. PICK v : v = [k.object EXCEPT ![o] = x]
  OBVIOUS
<1>9. v \in Objects /\ v[o] = x /\ \A p \in Slots \ {o} : v[p] = k.object[p]
  BY <1>7, <1>8, StateFields DEF Objects
<1>10. PICK w : w = [j EXCEPT !.object = v]
  OBVIOUS
<1>11. /\ w \in States /\ w.object = v
       /\ w.heap = j.heap /\ w.pages = j.pages /\ w.queue = j.queue
       /\ w.thread = j.thread /\ w.process = j.process
       /\ w.handles = j.handles /\ w.panic = j.panic
  BY <1>4, <1>9, <1>10, Set_object
<1>12. w = Place(k, i, o)
  BY <1>1, <1>3, <1>6, <1>8, <1>10, <1>4 DEF Place
<1>13. Aside(k, w) /\ w.pages = k.pages /\ w.heap = h
  BY <1>4, <1>11 DEF Aside
<1>14. \A p \in Slots \ {o} : w.object[p] = k.object[p]
  BY <1>9, <1>11
<1>15. w.object[o] = x
  BY <1>9, <1>11
<1>16. \A p \in Slots : SameObject(k.object[p], w.object[p])
  BY <1>7, <1>14, <1>15 DEF SameObject
<1> QED BY <1>1, <1>7, <1>12, <1>13, <1>14, <1>15, <1>16 DEF Placed

Swapped(k, i, j, w) ==
  /\ w = Swap(k, i, j) /\ Moved(k, w)
  /\ w.heap[i] = k.heap[j] /\ w.heap[j] = k.heap[i]
  /\ \A l \in DOMAIN k.heap \ {i, j} : w.heap[l] = k.heap[l]

(* A swap exchanges two timers, and every position stays right. *)
LEMMA SwapFacts ==
  ASSUME NEW k \in States, Linked(k), NEW i \in DOMAIN k.heap, NEW j \in DOMAIN k.heap
  PROVE  \E w : Swapped(k, i, j, w)
<1>1. PICK n \in Nat : /\ n = Len(k.heap) /\ DOMAIN k.heap = 1 .. n
                       /\ \A l \in 1 .. n : l \in Nat /\ k.heap[l] \in Slots
  BY HeapFacts
<1>2. PICK a \in Slots, b \in Slots : a = k.heap[i] /\ b = k.heap[j]
  BY <1>1
<1>3. PICK u : Placed(k, i, b, u)
  BY PlaceFacts
<1>4. u \in States /\ DOMAIN u.heap = DOMAIN k.heap /\ Len(u.heap) = n
  <2>1. u \in States /\ u.heap = [k.heap EXCEPT ![i] = b]
    BY <1>3 DEF Placed, Aside
  <2>2. DOMAIN u.heap = 1 .. n
    BY <1>1, <2>1
  <2>3. PICK m \in Nat : m = Len(u.heap) /\ DOMAIN u.heap = 1 .. m
    BY <2>1, HeapFacts
  <2> QED BY <1>1, <2>1, <2>2, <2>3
<1>5. PICK w : Placed(u, j, a, w)
  BY <1>4, PlaceFacts
<1>6. w = Swap(k, i, j)
  BY <1>2, <1>3, <1>5 DEF Placed, Swap
<1>7. Aside(k, w) /\ w.pages = k.pages
  BY <1>3, <1>5 DEF Placed, Aside
<1>8. w.heap = [[k.heap EXCEPT ![i] = b] EXCEPT ![j] = a]
  BY <1>3, <1>5 DEF Placed
<1>9. /\ DOMAIN w.heap = 1 .. n /\ w.heap[j] = a /\ w.heap[i] = b
      /\ \A l \in DOMAIN k.heap \ {i, j} : w.heap[l] = k.heap[l]
  BY <1>1, <1>2, <1>8
<1>10. Len(w.heap) = n
  <2>1. w \in States
    BY <1>7 DEF Aside
  <2>2. PICK m \in Nat : m = Len(w.heap) /\ DOMAIN w.heap = 1 .. m
    BY <2>1, HeapFacts
  <2> QED BY <1>9, <2>2
<1>11. \A p \in Slots : SameObject(k.object[p], w.object[p])
  BY <1>3, <1>5 DEF Placed, SameObject
<1>12. /\ k.object[a].position = i /\ k.object[b].position = j
       /\ a = b <=> i = j
  BY <1>1, <1>2 DEF Linked
<1>13. w.object[a].position = j /\ w.object[b].position = i
  BY <1>3, <1>5, <1>12 DEF Placed
<1>14. \A p \in Slots \ {a, b} : w.object[p].position = k.object[p].position
  BY <1>3, <1>5 DEF Placed
<1>15. \A p \in Slots : SamePlace(k.object[p], w.object[p])
  <2>1. i # 0 /\ j # 0
    BY <1>1
  <2> QED BY <1>12, <1>13, <1>14, <2>1 DEF SamePlace, Unset
<1>16. Linked(w)
  <2>1. ASSUME NEW l \in DOMAIN w.heap PROVE w.object[w.heap[l]].position = l
    <3>1. CASE l \in {i, j}
      BY <1>9, <1>13, <3>1
    <3>2. CASE l \notin {i, j}
      <4>1. w.heap[l] = k.heap[l] /\ l \in DOMAIN k.heap
        BY <1>1, <1>9, <3>2
      <4>2. PICK c \in Slots : c = k.heap[l]
        BY <1>1, <4>1
      <4>3. k.object[c].position = l
        BY <4>1, <4>2 DEF Linked
      <4>4. c \notin {a, b}
        BY <1>12, <3>2, <4>3
      <4> QED BY <1>14, <4>1, <4>2, <4>3, <4>4
    <3> QED BY <3>1, <3>2
  <2>2. ASSUME NEW p \in Slots, w.object[p].position # Unset
        PROVE  w.object[p].position \in DOMAIN w.heap /\ w.heap[w.object[p].position] = p
    <3>1. CASE p \in {a, b}
      BY <1>1, <1>9, <1>13, <3>1
    <3>2. CASE p \notin {a, b}
      <4>1. PICK l : l = k.object[p].position
        OBVIOUS
      <4>2. w.object[p].position = l
        BY <1>14, <3>2, <4>1
      <4>3. l \in DOMAIN k.heap /\ k.heap[l] = p
        BY <2>2, <4>1, <4>2 DEF Linked
      <4>4. l \notin {i, j}
        BY <1>2, <3>2, <4>3
      <4> QED BY <1>1, <1>9, <4>2, <4>3, <4>4
    <3> QED BY <3>1, <3>2
  <2> QED BY <2>1, <2>2 DEF Linked
<1>17. Moved(k, w)
  BY <1>1, <1>7, <1>10, <1>11, <1>15, <1>16 DEF Moved
<1> QED BY <1>2, <1>6, <1>9, <1>17 DEF Swapped

----------------------------------------------------------------------------
(* Sifting up. *)

RaisedTo(k, o, w) ==
  /\ Moved(k, w)
  /\ \/ w = k /\ Ordered(w)
     \/ /\ UpFrom(w, o)
        /\ k.object[o].position >= 2
        /\ w.object[o].position = k.object[o].position \div 2

(* One round of sifting up leaves the timer in order, or one level higher  *)
(* with only itself perhaps out of order (timer_heap_sift_up).             *)
LEMMA RaisedFacts ==
  ASSUME NEW k \in States, NEW o \in Slots, Linked(k), UpFrom(k, o)
  PROVE  \E w : w = Raised(k, o) /\ RaisedTo(k, o, w)
<1>1. PICK n \in Nat : /\ n = Len(k.heap) /\ DOMAIN k.heap = 1 .. n
                       /\ \A l \in 1 .. n : l \in Nat /\ k.heap[l] \in Slots
  BY HeapFacts
<1>2. PICK p \in 1 .. n : /\ p = k.object[o].position /\ Bridged(k, p)
                          /\ \A j \in DOMAIN k.heap \ {p} : InOrder(k, j)
  BY <1>1 DEF UpFrom
<1>3. k.heap[p] = o
  <2>1. p # 0
    OBVIOUS
  <2> QED BY <1>2, <2>1 DEF Linked, Unset
<1>4. CASE ~(p # 1 /\ Less(k, o, k.heap[p \div 2]))
  <2>1. Raised(k, o) = k
    BY <1>2, <1>4 DEF Raised
  <2>2. InOrder(k, p)
    BY <1>3, <1>4 DEF InOrder
  <2>3. Ordered(k)
    BY <1>2, <2>2 DEF Ordered
  <2>4. Moved(k, k)
    BY MovedNowhere
  <2> QED BY <2>1, <2>3, <2>4 DEF RaisedTo
<1>5. CASE p # 1 /\ Less(k, o, k.heap[p \div 2])
  <2>1. PICK q \in Nat : q = p \div 2 /\ q >= 1 /\ q < p /\ p >= 2
    BY <1>5, Halves
  <2>2. q \in 1 .. n /\ p # q
    BY <2>1
  <2>3. PICK w : Swapped(k, p, q, w)
    BY <1>1, <2>2, SwapFacts
  <2>4. w = Raised(k, o)
    BY <1>2, <1>5, <2>1, <2>3 DEF Raised, Swapped
  <2>5. Moved(k, w)
    BY <2>3 DEF Swapped
  <2>6. DOMAIN w.heap = 1 .. n /\ w \in States
    <3>1. w \in States /\ Len(w.heap) = n
      BY <1>1, <2>5 DEF Moved, Aside
    <3>2. PICK m \in Nat : m = Len(w.heap) /\ DOMAIN w.heap = 1 .. m
      BY <3>1, HeapFacts
    <3> QED BY <3>1, <3>2
  <2>7. PICK c \in Slots : c = k.heap[q]
    BY <1>1, <2>2
  <2>8. /\ w.heap[p] = c /\ w.heap[q] = o
        /\ \A l \in 1 .. n \ {p, q} : w.heap[l] = k.heap[l]
    BY <1>1, <1>3, <2>3, <2>7 DEF Swapped
  <2>9. w.object[o].position = q
    BY <2>2, <2>5, <2>6, <2>8 DEF Moved, Linked
  <2>10. Less(k, o, c)
    BY <1>5, <2>1, <2>7
  <2>11. ASSUME NEW a \in Slots, NEW b \in Slots PROVE Less(w, a, b) <=> Less(k, a, b)
    BY <2>5, MovedLess
  <2>12. ASSUME NEW j \in 1 .. n, j \div 2 = q, j # p
         PROVE  j # q /\ w.heap[j] = k.heap[j] /\ ~Less(k, k.heap[j], c) /\ ~Less(k, k.heap[j], o)
    <3>1. j \in Nat /\ j # q /\ j # 1
      BY <2>1, <2>12, Doubles
    <3>2. InOrder(k, j)
      BY <1>1, <1>2, <2>12
    <3>3. ~Less(k, k.heap[j], c)
      BY <2>7, <2>12, <3>1, <3>2 DEF InOrder
    <3>4. PICK d \in Slots : d = k.heap[j]
      BY <1>1
    <3>5. ~Less(k, c, o)
      BY <2>10, Earlier
    <3>6. ~Less(k, d, o)
      BY <3>3, <3>4, <3>5, Earlier
    <3> QED BY <2>8, <2>12, <3>1, <3>3, <3>4, <3>6
  <2>13. ASSUME NEW j \in 1 .. n, j # q PROVE InOrder(w, j)
    <3> SUFFICES ASSUME j # 1 PROVE ~Less(w, w.heap[j], w.heap[j \div 2])
      BY DEF InOrder
    <3>1. j \in Nat /\ j \div 2 \in 1 .. n
      BY Halves
    <3>2. CASE j = p
      <4>1. ~Less(k, c, o)
        BY <2>10, Earlier
      <4> QED BY <2>1, <2>8, <2>11, <3>2, <4>1
    <3>3. CASE j # p /\ j \div 2 = q
      <4>1. w.heap[j] = k.heap[j] /\ ~Less(k, k.heap[j], o)
        BY <2>12, <3>3
      <4>2. k.heap[j] \in Slots
        BY <1>1
      <4> QED BY <2>8, <2>11, <3>3, <4>1, <4>2
    <3>4. CASE j # p /\ j \div 2 = p
      <4>1. ~Less(k, k.heap[j], k.heap[p \div 2])
        BY <1>1, <1>2, <1>5, <3>4 DEF Bridged
      <4>2. k.heap[j] \in Slots
        BY <1>1
      <4> QED BY <2>1, <2>7, <2>8, <2>11, <2>13, <3>4, <4>1, <4>2
    <3>5. CASE j # p /\ j \div 2 # p /\ j \div 2 # q
      <4>1. w.heap[j] = k.heap[j] /\ w.heap[j \div 2] = k.heap[j \div 2]
        BY <2>8, <2>13, <3>1, <3>5
      <4>2. InOrder(k, j)
        BY <1>1, <1>2, <3>5
      <4>3. k.heap[j] \in Slots /\ k.heap[j \div 2] \in Slots
        BY <1>1, <3>1
      <4> QED BY <2>11, <4>1, <4>2, <4>3 DEF InOrder
    <3> QED BY <3>2, <3>3, <3>4, <3>5
  <2>14. Bridged(w, q)
    <3> SUFFICES ASSUME NEW j \in 1 .. n, j \div 2 = q, q # 1
                 PROVE  ~Less(w, w.heap[j], w.heap[q \div 2])
      BY <2>6 DEF Bridged
    <3>1. q \div 2 \in 1 .. n /\ q \div 2 # p /\ q \div 2 # q
      BY <2>1, <2>2, Halves
    <3>2. PICK e \in Slots : e = k.heap[q \div 2] /\ e = w.heap[q \div 2]
      BY <1>1, <2>8, <3>1
    <3>3. ~Less(k, c, e)
      BY <1>1, <1>2, <2>2, <2>7, <3>2 DEF InOrder
    <3>4. CASE j = p
      BY <2>8, <2>11, <3>2, <3>3, <3>4
    <3>5. CASE j # p
      <4>1. PICK d \in Slots : d = k.heap[j] /\ d = w.heap[j] /\ ~Less(k, d, c)
        BY <1>1, <2>12, <3>5
      <4>2. ~Less(k, d, e)
        BY <3>3, <4>1, Earlier
      <4> QED BY <2>11, <3>2, <4>1, <4>2
    <3> QED BY <3>4, <3>5
  <2>15. UpFrom(w, o)
    BY <2>2, <2>6, <2>9, <2>13, <2>14 DEF UpFrom
  <2> QED BY <1>2, <2>1, <2>4, <2>5, <2>9, <2>15 DEF RaisedTo
<1> QED BY <1>4, <1>5

(* An ordered heap stays as it is. *)
LEMMA RaisedNot ==
  ASSUME NEW k \in States, NEW o \in Slots, Linked(k), Ordered(k),
         k.object[o].position # Unset
  PROVE  Raised(k, o) = k
<1>1. PICK p \in DOMAIN k.heap : p = k.object[o].position /\ k.heap[p] = o
  BY DEF Linked
<1>2. InOrder(k, p)
  BY DEF Ordered
<1> QED BY <1>1, <1>2 DEF Raised, InOrder

(* Sifting up a timer that alone may be before its parent restores the     *)
(* order.                                                                  *)
LEMMA SiftUpFacts ==
  ASSUME NEW k \in States, NEW o \in Slots, Linked(k), UpFrom(k, o)
  PROVE  \E w : w = SiftUp(k, o) /\ Moved(k, w) /\ Ordered(w)
<1>1. PICK n \in Nat : n = Len(k.heap) /\ DOMAIN k.heap = 1 .. n
  BY HeapFacts
<1>2. PICK f : SiftUpRun(f, k, o, n)
  BY <1>1, SiftUpRounds
<1>3. /\ f[0] = k /\ SiftUp(k, o) = f[n]
      /\ \A i \in 1 .. n : f[i] = Raised(f[i - 1], o)
  BY <1>2 DEF SiftUpRun
<1>4. k.object[o].position \in 1 .. n /\ k.object[o].position # Unset
  BY <1>1 DEF UpFrom, Unset
<1> DEFINE P == {i \in 0 .. n : /\ Moved(k, f[i])
                                /\ \/ Ordered(f[i])
                                   \/ UpFrom(f[i], o) /\ f[i].object[o].position <= n - i}
<1>5. 0 \in P
  <2>1. Moved(k, f[0])
    BY <1>3, MovedNowhere
  <2>2. UpFrom(f[0], o) /\ f[0].object[o].position <= n - 0
    BY <1>3, <1>4
  <2> QED BY <2>1, <2>2
<1>6. ASSUME NEW i \in 1 .. n, i - 1 \in P PROVE i \in P
  <2>1. PICK x : /\ x = f[i - 1] /\ Moved(k, x)
                 /\ Ordered(x) \/ (UpFrom(x, o) /\ x.object[o].position <= n - (i - 1))
    BY <1>6
  <2>2. x \in States /\ Linked(x) /\ x.object[o].position # Unset
    BY <1>4, <2>1 DEF Moved, Aside, SamePlace
  <2>3. PICK y : y = f[i] /\ y = Raised(x, o)
    BY <1>3, <2>1
  <2>4. i \in 0 .. n /\ i \in Nat
    OBVIOUS
  <2>5. CASE Ordered(x)
    BY <2>1, <2>2, <2>3, <2>4, <2>5, RaisedNot
  <2>6. CASE UpFrom(x, o) /\ x.object[o].position <= n - (i - 1)
    <3>1. RaisedTo(x, o, y)
      BY <2>2, <2>3, <2>6, RaisedFacts
    <3>2. Moved(k, y)
      BY <2>1, <3>1, MovedTwice DEF RaisedTo
    <3>3. CASE Ordered(y)
      BY <2>3, <2>4, <3>2, <3>3
    <3>4. CASE ~Ordered(y)
      <4>1. PICK p : /\ p = x.object[o].position /\ p >= 2 /\ p <= n - (i - 1)
                     /\ y.object[o].position = p \div 2 /\ UpFrom(y, o)
        BY <2>6, <3>1, <3>4 DEF RaisedTo
      <4>2. p \in Nat
        BY <2>2, <4>1, ObjectAt, ObjectFields
      <4>3. p \div 2 <= n - i
        BY <2>4, <4>1, <4>2, Halves
      <4> QED BY <2>3, <2>4, <3>2, <4>1, <4>3
    <3> QED BY <3>3, <3>4
  <2> QED BY <2>1, <2>5, <2>6
<1>7. n \in P
  <2>1. \A i \in 1 .. n : i - 1 \in P => i \in P
    BY <1>6
  <2> HIDE DEF P
  <2>2. \A i \in 0 .. n : i \in P
    BY <1>5, <2>1, Climb
  <2> QED BY <2>2
<1>8. PICK w : /\ w = f[n] /\ Moved(k, w)
               /\ Ordered(w) \/ (UpFrom(w, o) /\ w.object[o].position <= n - n)
  BY <1>7
<1>9. ~(UpFrom(w, o) /\ w.object[o].position <= n - n)
  <2> SUFFICES ASSUME UpFrom(w, o), w.object[o].position <= n - n PROVE FALSE
    OBVIOUS
  <2>1. w \in States
    BY <1>8 DEF Moved, Aside
  <2>2. PICK m \in Nat : DOMAIN w.heap = 1 .. m
    BY <2>1, HeapFacts
  <2>3. w.object[o].position \in 1 .. m
    BY <2>2 DEF UpFrom
  <2> QED BY <2>3
<1> QED BY <1>3, <1>8, <1>9

----------------------------------------------------------------------------
(* Sifting down. *)

Family(k, p) == {p, 2 * p, 2 * p + 1} \cap DOMAIN k.heap

Least3(k, p, s) ==
  /\ s = Smallest(k, p) /\ s \in Family(k, p)
  /\ \A l \in Family(k, p) \ {s} : Less(k, k.heap[s], k.heap[l])

(* A timer and its children have a first among them. *)
LEMMA SmallestFacts ==
  ASSUME NEW k \in States, Linked(k), NEW p \in DOMAIN k.heap
  PROVE  \E s : Least3(k, p, s)
<1>1. PICK n \in Nat : /\ n = Len(k.heap) /\ DOMAIN k.heap = 1 .. n
                       /\ \A l \in 1 .. n : l \in Nat /\ k.heap[l] \in Slots
  BY HeapFacts
<1> DEFINE First(j) == \A l \in Family(k, p) \ {j} : Less(k, k.heap[j], k.heap[l])
<1>2. Family(k, p) \subseteq 1 .. n /\ p \in Family(k, p)
      /\ Family(k, p) \subseteq {p, 2 * p, 2 * p + 1}
  BY <1>1 DEF Family
<1>3. ASSUME NEW i \in Family(k, p), NEW j \in Family(k, p), i # j
      PROVE  /\ Less(k, k.heap[i], k.heap[j]) \/ Less(k, k.heap[j], k.heap[i])
             /\ Less(k, k.heap[i], k.heap[j]) => ~Less(k, k.heap[j], k.heap[i])
  <2>1. PICK a \in Slots, b \in Slots : a = k.heap[i] /\ b = k.heap[j]
    BY <1>1, <1>2
  <2>2. a # b
    BY <1>1, <1>2, <1>3, <2>1 DEF Linked
  <2> QED BY <2>1, <2>2, Earlier
<1>4. ASSUME NEW i \in Family(k, p), NEW j \in Family(k, p), NEW l \in Family(k, p),
             Less(k, k.heap[i], k.heap[j]), Less(k, k.heap[j], k.heap[l])
      PROVE  Less(k, k.heap[i], k.heap[l])
  <2>1. PICK a \in Slots, b \in Slots, c \in Slots :
           a = k.heap[i] /\ b = k.heap[j] /\ c = k.heap[l]
    BY <1>1, <1>2
  <2>2. a \in Nat /\ b \in Nat /\ c \in Nat
    BY DEF Slots
  <2>3. k.object[a].deadline \in Nat /\ k.object[b].deadline \in Nat /\ k.object[c].deadline \in Nat
    BY ObjectAt, ObjectFields
  <2> QED BY <1>4, <2>1, <2>2, <2>3 DEF Less
<1>5. \E s \in Family(k, p) : First(s)
  <2>1. PICK F : F = Family(k, p)
    OBVIOUS
  <2>2. \A i, j \in F : i # j => Less(k, k.heap[i], k.heap[j]) \/ Less(k, k.heap[j], k.heap[i])
    BY <1>3, <2>1
  <2>3. \A i, j, l \in F : Less(k, k.heap[i], k.heap[j]) /\ Less(k, k.heap[j], k.heap[l])
                             => Less(k, k.heap[i], k.heap[l])
    BY <1>4, <2>1
  <2>4. PICK q, r : q = 2 * p /\ r = 2 * p + 1
    OBVIOUS
  <2>5. F \subseteq {p, q, r} /\ p \in F
    BY <1>2, <2>1, <2>4
  <2>6. PICK s \in F : \A l \in F \ {s} : Less(k, k.heap[s], k.heap[l])
    <3>1. PICK s \in F : /\ s \in {p, q}
                         /\ \A l \in F \ {s} : l \in {p, q} => Less(k, k.heap[s], k.heap[l])
      BY <2>2, <2>5
    <3>2. CASE r \in F /\ r # s /\ Less(k, k.heap[r], k.heap[s])
      BY <2>3, <2>5, <3>1, <3>2
    <3>3. CASE ~(r \in F /\ r # s /\ Less(k, k.heap[r], k.heap[s]))
      BY <2>2, <2>5, <3>1, <3>3
    <3> QED BY <3>2, <3>3
  <2> QED BY <2>1, <2>6
<1>6. PICK s : s = CHOOSE j \in Family(k, p) : First(j)
  OBVIOUS
<1>7. s = Smallest(k, p)
  BY <1>6 DEF Smallest, Family
<1>8. s \in Family(k, p) /\ First(s)
  <2> HIDE DEF First
  <2> QED BY <1>5, <1>6
<1> QED BY <1>7, <1>8 DEF Least3

LoweredTo(k, o, w) ==
  /\ Moved(k, w)
  /\ \/ w = k /\ Ordered(w)
     \/ /\ DownFrom(w, o)
        /\ w.object[o].position > k.object[o].position

(* One round of sifting down leaves the timer in order, or at least one    *)
(* place further with only itself perhaps out of order                     *)
(* (timer_heap_sift_down).                                                 *)
LEMMA LoweredFacts ==
  ASSUME NEW k \in States, NEW o \in Slots, Linked(k), DownFrom(k, o)
  PROVE  \E w : w = Lowered(k, o) /\ LoweredTo(k, o, w)
<1>1. PICK n \in Nat : /\ n = Len(k.heap) /\ DOMAIN k.heap = 1 .. n
                       /\ \A l \in 1 .. n : l \in Nat /\ k.heap[l] \in Slots
  BY HeapFacts
<1>2. PICK p \in 1 .. n : /\ p = k.object[o].position /\ Bridged(k, p)
                          /\ \A j \in DOMAIN k.heap : j \div 2 # p => InOrder(k, j)
  BY <1>1 DEF DownFrom
<1>3. k.heap[p] = o
  <2>1. p # 0
    OBVIOUS
  <2> QED BY <1>2, <2>1 DEF Linked, Unset
<1>4. PICK s : Least3(k, p, s)
  BY <1>1, SmallestFacts
<1>5. /\ s \in 1 .. n /\ s = Smallest(k, p) /\ s \in {p, 2 * p, 2 * p + 1}
      /\ \A l \in Family(k, p) \ {s} : Less(k, k.heap[s], k.heap[l])
  BY <1>1, <1>4 DEF Least3, Family
<1>6. p \in Family(k, p) /\ \A j \in 1 .. n : j \div 2 = p => j \in Family(k, p) /\ j # p
  <2>1. p \in Nat /\ p >= 1 /\ p \in Family(k, p)
    BY <1>1 DEF Family
  <2>2. ASSUME NEW j \in 1 .. n, j \div 2 = p PROVE j \in Family(k, p) /\ j # p
    <3>1. j \in Nat /\ (j = 2 * p \/ j = 2 * p + 1)
      BY <2>1, <2>2, Doubles
    <3>2. j \in {p, 2 * p, 2 * p + 1} /\ j \in DOMAIN k.heap
      BY <1>1, <3>1
    <3> QED BY <2>1, <3>1, <3>2 DEF Family
  <2> QED BY <2>1, <2>2
<1>7. CASE s = p
  <2>1. Lowered(k, o) = k
    BY <1>2, <1>5, <1>7 DEF Lowered
  <2>2. ASSUME NEW j \in 1 .. n, j \div 2 = p PROVE InOrder(k, j)
    <3>1. Less(k, o, k.heap[j])
      BY <1>3, <1>5, <1>6, <1>7, <2>2
    <3>2. k.heap[j] \in Slots
      BY <1>1
    <3>3. ~Less(k, k.heap[j], o)
      BY <3>1, <3>2, Earlier
    <3> QED BY <1>3, <2>2, <3>3 DEF InOrder
  <2>3. Ordered(k)
    BY <1>1, <1>2, <2>2 DEF Ordered
  <2>4. Moved(k, k)
    BY MovedNowhere
  <2> QED BY <2>1, <2>3, <2>4 DEF LoweredTo
<1>8. CASE s # p
  <2>1. p \in Nat /\ s \in Nat /\ s > p /\ s \div 2 = p /\ p >= 1
    BY <1>5, <1>8, Doubles
  <2>2. PICK w : Swapped(k, p, s, w)
    BY <1>1, <1>5, SwapFacts
  <2>3. w = Lowered(k, o)
    BY <1>2, <1>5, <1>8, <2>2 DEF Lowered, Swapped
  <2>4. Moved(k, w)
    BY <2>2 DEF Swapped
  <2>5. DOMAIN w.heap = 1 .. n /\ w \in States
    <3>1. w \in States /\ Len(w.heap) = n
      BY <1>1, <2>4 DEF Moved, Aside
    <3>2. PICK m \in Nat : m = Len(w.heap) /\ DOMAIN w.heap = 1 .. m
      BY <3>1, HeapFacts
    <3> QED BY <3>1, <3>2
  <2>6. PICK c \in Slots : c = k.heap[s]
    BY <1>1, <1>5
  <2>7. /\ w.heap[p] = c /\ w.heap[s] = o
        /\ \A l \in 1 .. n \ {p, s} : w.heap[l] = k.heap[l]
    BY <1>1, <1>3, <2>2, <2>6 DEF Swapped
  <2>8. w.object[o].position = s
    BY <1>5, <2>4, <2>5, <2>7 DEF Moved, Linked
  <2>9. Less(k, c, o)
    BY <1>3, <1>5, <1>6, <1>8, <2>6
  <2>10. ASSUME NEW a \in Slots, NEW b \in Slots PROVE Less(w, a, b) <=> Less(k, a, b)
    BY <2>4, MovedLess
  <2>11. ASSUME NEW j \in 1 .. n, j \div 2 # s PROVE InOrder(w, j)
    <3> SUFFICES ASSUME j # 1 PROVE ~Less(w, w.heap[j], w.heap[j \div 2])
      BY DEF InOrder
    <3>1. j \in Nat /\ j \div 2 \in 1 .. n
      BY Halves
    <3>2. CASE j = s
      <4>1. ~Less(k, o, c)
        BY <2>9, Earlier
      <4> QED BY <2>1, <2>7, <2>10, <3>2, <4>1
    <3>3. CASE j # s /\ j \div 2 = p
      <4>1. j # p
        BY <1>6, <3>3
      <4>2. PICK d \in Slots : d = k.heap[j] /\ d = w.heap[j]
        BY <1>1, <2>7, <3>3, <4>1
      <4>3. Less(k, c, d)
        BY <1>5, <1>6, <2>6, <3>3, <4>2
      <4>4. ~Less(k, d, c)
        BY <4>3, Earlier
      <4> QED BY <2>7, <2>10, <3>3, <4>2, <4>4
    <3>4. CASE j = p
      <4>1. j \div 2 # p /\ j \div 2 # s
        BY <2>1, <3>1, <3>4, Halves
      <4>2. PICK e \in Slots : e = k.heap[j \div 2] /\ e = w.heap[j \div 2]
        BY <1>1, <2>7, <3>1, <4>1
      <4>3. ~Less(k, c, e)
        BY <1>1, <1>2, <1>5, <2>1, <2>6, <3>4, <4>2 DEF Bridged
      <4> QED BY <2>7, <2>10, <3>4, <4>2, <4>3
    <3>5. CASE j # p /\ j # s /\ j \div 2 # p
      <4>1. w.heap[j] = k.heap[j] /\ w.heap[j \div 2] = k.heap[j \div 2]
        BY <2>7, <2>11, <3>1, <3>5
      <4>2. InOrder(k, j)
        BY <1>1, <1>2, <3>5
      <4>3. k.heap[j] \in Slots /\ k.heap[j \div 2] \in Slots
        BY <1>1, <3>1
      <4> QED BY <2>10, <4>1, <4>2, <4>3 DEF InOrder
    <3> QED BY <3>2, <3>3, <3>4, <3>5
  <2>12. Bridged(w, s)
    <3> SUFFICES ASSUME NEW j \in 1 .. n, j \div 2 = s
                 PROVE  ~Less(w, w.heap[j], w.heap[s \div 2])
      BY <2>5 DEF Bridged
    <3>1. j \in Nat /\ j # s /\ j # p /\ j \div 2 # p /\ j # 1
      BY <2>1, Doubles
    <3>2. PICK d \in Slots : d = k.heap[j] /\ d = w.heap[j]
      BY <1>1, <2>7, <3>1
    <3>3. InOrder(k, j)
      BY <1>1, <1>2, <3>1
    <3>4. ~Less(k, d, c)
      BY <2>6, <3>1, <3>2, <3>3 DEF InOrder
    <3> QED BY <2>1, <2>7, <2>10, <3>2, <3>4
  <2>13. DownFrom(w, o)
    BY <1>5, <2>5, <2>8, <2>11, <2>12 DEF DownFrom
  <2> QED BY <1>2, <2>1, <2>3, <2>4, <2>8, <2>13 DEF LoweredTo
<1> QED BY <1>7, <1>8

(* An ordered heap stays as it is. *)
LEMMA LoweredNot ==
  ASSUME NEW k \in States, NEW o \in Slots, Linked(k), Ordered(k),
         k.object[o].position # Unset
  PROVE  Lowered(k, o) = k
<1>1. PICK n \in Nat : /\ n = Len(k.heap) /\ DOMAIN k.heap = 1 .. n
                       /\ \A l \in 1 .. n : l \in Nat /\ k.heap[l] \in Slots
  BY HeapFacts
<1>2. PICK p \in 1 .. n : p = k.object[o].position /\ k.heap[p] = o
  BY <1>1 DEF Linked
<1>3. PICK s : Least3(k, p, s)
  BY <1>1, SmallestFacts
<1>4. s \in 1 .. n /\ s = Smallest(k, p) /\ s \in {p, 2 * p, 2 * p + 1} /\ p \in Family(k, p)
  BY <1>1, <1>3 DEF Least3, Family
<1>5. ASSUME s # p PROVE FALSE
  <2>1. s \in Nat /\ p \in Nat /\ s \div 2 = p /\ s # 1
    BY <1>4, <1>5, Doubles
  <2>2. ~Less(k, k.heap[s], k.heap[p])
    BY <1>1, <1>4, <2>1 DEF Ordered, InOrder
  <2> QED BY <1>3, <1>4, <1>5, <2>2 DEF Least3
<1> QED BY <1>2, <1>4, <1>5 DEF Lowered

(* Sifting down a timer that alone may be after its children restores the  *)
(* order.                                                                  *)
LEMMA SiftDownFacts ==
  ASSUME NEW k \in States, NEW o \in Slots, Linked(k), DownFrom(k, o)
  PROVE  \E w : w = SiftDown(k, o) /\ Moved(k, w) /\ Ordered(w)
<1>1. PICK n \in Nat : n = Len(k.heap) /\ DOMAIN k.heap = 1 .. n
  BY HeapFacts
<1>2. PICK f : SiftDownRun(f, k, o, n)
  BY <1>1, SiftDownRounds
<1>3. /\ f[0] = k /\ SiftDown(k, o) = f[n]
      /\ \A i \in 1 .. n : f[i] = Lowered(f[i - 1], o)
  BY <1>2 DEF SiftDownRun
<1>4. k.object[o].position \in 1 .. n /\ k.object[o].position # Unset
  BY <1>1 DEF DownFrom, Unset
<1> DEFINE P == {i \in 0 .. n : /\ Moved(k, f[i])
                                /\ \/ Ordered(f[i])
                                   \/ DownFrom(f[i], o) /\ f[i].object[o].position > i}
<1>5. 0 \in P
  <2>1. Moved(k, f[0])
    BY <1>3, MovedNowhere
  <2>2. DownFrom(f[0], o) /\ f[0].object[o].position > 0
    BY <1>3, <1>4
  <2> QED BY <2>1, <2>2
<1>6. ASSUME NEW i \in 1 .. n, i - 1 \in P PROVE i \in P
  <2>1. PICK x : /\ x = f[i - 1] /\ Moved(k, x)
                 /\ Ordered(x) \/ (DownFrom(x, o) /\ x.object[o].position > i - 1)
    BY <1>6
  <2>2. x \in States /\ Linked(x) /\ x.object[o].position # Unset
    BY <1>4, <2>1 DEF Moved, Aside, SamePlace
  <2>3. PICK y : y = f[i] /\ y = Lowered(x, o)
    BY <1>3, <2>1
  <2>4. i \in 0 .. n /\ i \in Nat
    OBVIOUS
  <2>5. CASE Ordered(x)
    BY <2>1, <2>2, <2>3, <2>4, <2>5, LoweredNot
  <2>6. CASE DownFrom(x, o) /\ x.object[o].position > i - 1
    <3>1. LoweredTo(x, o, y)
      BY <2>2, <2>3, <2>6, LoweredFacts
    <3>2. Moved(k, y)
      BY <2>1, <3>1, MovedTwice DEF LoweredTo
    <3>3. CASE Ordered(y)
      BY <2>3, <2>4, <3>2, <3>3
    <3>4. CASE ~Ordered(y)
      <4>1. PICK p, q : /\ p = x.object[o].position /\ p > i - 1
                        /\ y.object[o].position = q /\ q > p /\ DownFrom(y, o)
        BY <2>6, <3>1, <3>4 DEF LoweredTo
      <4>2. p \in Nat /\ q \in Nat
        <5>1. y \in States
          BY <3>2 DEF Moved, Aside
        <5> QED BY <2>2, <4>1, <5>1, ObjectAt, ObjectFields
      <4>3. q > i
        BY <2>4, <4>1, <4>2
      <4> QED BY <2>3, <2>4, <3>2, <4>1, <4>3
    <3> QED BY <3>3, <3>4
  <2> QED BY <2>1, <2>5, <2>6
<1>7. n \in P
  <2>1. \A i \in 1 .. n : i - 1 \in P => i \in P
    BY <1>6
  <2> HIDE DEF P
  <2>2. \A i \in 0 .. n : i \in P
    BY <1>5, <2>1, Climb
  <2> QED BY <2>2
<1>8. PICK w : /\ w = f[n] /\ Moved(k, w)
               /\ Ordered(w) \/ (DownFrom(w, o) /\ w.object[o].position > n)
  BY <1>7
<1>9. ~(DownFrom(w, o) /\ w.object[o].position > n)
  <2> SUFFICES ASSUME DownFrom(w, o), w.object[o].position > n PROVE FALSE
    OBVIOUS
  <2>1. w \in States /\ Len(w.heap) = n
    BY <1>1, <1>8 DEF Moved, Aside
  <2>2. DOMAIN w.heap = 1 .. n
    BY <2>1, HeapFacts
  <2>3. w.object[o].position \in 1 .. n
    BY <2>2 DEF DownFrom
  <2> QED BY <2>3
<1> QED BY <1>3, <1>8, <1>9

----------------------------------------------------------------------------
(* Timers leave the heap and enter it. *)

(* Settling a place that alone may be out of order restores the order,     *)
(* whichever way its timer has to move (timer_remove).                     *)
LEMMA SettleFacts ==
  ASSUME NEW k \in States, Linked(k), NEW i \in Nat \ {0}, Bridged(k, i),
         \A j \in DOMAIN k.heap : j # i /\ j \div 2 # i => InOrder(k, j)
  PROVE  \E w : w = Settle(k, i) /\ Moved(k, w) /\ Ordered(w)
<1>1. PICK n \in Nat : /\ n = Len(k.heap) /\ DOMAIN k.heap = 1 .. n
                       /\ \A l \in 1 .. n : l \in Nat /\ k.heap[l] \in Slots
  BY HeapFacts
<1>2. CASE i \notin 1 .. n
  <2>1. Settle(k, i) = k
    BY <1>1, <1>2 DEF Settle
  <2>2. ASSUME NEW j \in 1 .. n PROVE j # i /\ j \div 2 # i
    BY <1>2
  <2>3. Ordered(k)
    BY <1>1, <2>2 DEF Ordered
  <2> QED BY <2>1, <2>3, MovedNowhere
<1>3. CASE i \in 1 .. n
  <2>1. PICK o \in Slots : o = k.heap[i]
    BY <1>1, <1>3
  <2>2. k.object[o].position = i
    BY <1>1, <1>3, <2>1 DEF Linked
  <2>3. CASE i # 1 /\ Less(k, o, k.heap[i \div 2])
    <3>1. Settle(k, i) = SiftUp(k, o)
      BY <1>1, <1>3, <2>1, <2>3 DEF Settle
    <3>2. PICK c \in Slots : c = k.heap[i \div 2]
      <4>1. i \div 2 \in 1 .. n
        BY <1>3, <2>3, Halves
      <4> QED BY <1>1, <4>1
    <3>3. ~Less(k, c, o)
      BY <2>3, <3>2, Earlier
    <3>4. ASSUME NEW j \in 1 .. n, j # i PROVE InOrder(k, j)
      <4>1. CASE j \div 2 = i
        <5>1. PICK d \in Slots : d = k.heap[j] /\ ~Less(k, d, c)
          BY <1>1, <2>3, <3>2, <4>1 DEF Bridged
        <5>2. ~Less(k, d, o)
          BY <3>3, <5>1, Earlier
        <5> QED BY <2>1, <4>1, <5>1, <5>2 DEF InOrder
      <4>2. CASE j \div 2 # i
        BY <1>1, <3>4, <4>2
      <4> QED BY <4>1, <4>2
    <3>5. UpFrom(k, o)
      BY <1>1, <1>3, <2>2, <3>4 DEF UpFrom
    <3> QED BY <3>1, <3>5, SiftUpFacts
  <2>4. CASE ~(i # 1 /\ Less(k, o, k.heap[i \div 2]))
    <3>1. Settle(k, i) = SiftDown(k, o)
      BY <1>1, <1>3, <2>1, <2>4 DEF Settle
    <3>2. InOrder(k, i)
      BY <2>1, <2>4 DEF InOrder
    <3>3. DownFrom(k, o)
      BY <1>1, <1>3, <2>2, <3>2 DEF DownFrom
    <3> QED BY <3>1, <3>3, SiftDownFacts
  <2> QED BY <2>3, <2>4
<1> QED BY <1>2, <1>3

(* Removing a timer from anywhere in the heap leaves the others linked and *)
(* in order, and the timer disarmed.                                       *)
LEMMA TimerRemoveFacts ==
  ASSUME NEW k \in States, HeapIn(k), NEW o \in Slots
  PROVE  \E w : w = TimerRemove(k, o) /\ Disarmed(k, w, o)
<1>1. PICK n \in Nat : /\ n = Len(k.heap) /\ DOMAIN k.heap = 1 .. n
                       /\ \A l \in 1 .. n : l \in Nat /\ k.heap[l] \in Slots
  BY HeapFacts
<1>2. PICK i : i = k.object[o].position
  OBVIOUS
<1>3. CASE i = Unset
  <2>1. TimerRemove(k, o) = k
    BY <1>2, <1>3 DEF TimerRemove
  <2>2. k.object[o].deadline = 0
    BY <1>2, <1>3 DEF HeapIn
  <2>3. Aside(k, k) /\ SameBut(k, k, o) /\ SameCore(k.object[o], k.object[o])
    BY DEF Aside, SameBut, SameCore, SameObject, SamePlace
  <2>4. Disarmed(k, k, o)
    BY <1>2, <1>3, <2>2, <2>3 DEF Disarmed, HeapIn
  <2> QED BY <2>1, <2>4
<1>4. CASE i # Unset
  <2>1. i \in 1 .. n /\ k.heap[i] = o /\ n \in 1 .. n
    BY <1>1, <1>2, <1>4 DEF HeapIn, Linked
  <2>2. i \in Nat \ {0} /\ i <= n
    BY <2>1
  <2>3. PICK u : Swapped(k, i, n, u)
    BY <1>1, <2>1, SwapFacts DEF HeapIn
  <2>4. /\ u = Swap(k, i, n) /\ Moved(k, u) /\ u \in States /\ Linked(u)
        /\ u.heap[i] = k.heap[n] /\ u.heap[n] = o
        /\ \A l \in 1 .. n \ {i, n} : u.heap[l] = k.heap[l]
    BY <1>1, <2>1, <2>3 DEF Swapped, Moved, Aside
  <2>5. Len(u.heap) = n /\ DOMAIN u.heap = 1 .. n /\ u.heap \in Seq(Slots)
    <3>1. Len(u.heap) = n
      BY <1>1, <2>4 DEF Moved
    <3> QED BY <2>4, <3>1, HeapFacts
  <2>6. PICK h : h = SubSeq(u.heap, 1, n - 1)
    OBVIOUS
  <2>7. /\ h \in Seq(Slots) /\ Len(h) = n - 1 /\ DOMAIN h = 1 .. n - 1
        /\ \A l \in 1 .. n - 1 : h[l] = u.heap[l]
    <3>1. PICK s \in Seq(Slots) : s = u.heap /\ Len(s) = n
      BY <2>5
    <3>2. n - 1 \in Nat /\ n - 1 <= Len(s)
      BY <2>1, <3>1
    <3>3. PICK m \in Nat : m = n - 1
      BY <3>2
    <3>4. h = SubSeq(s, 1, m)
      BY <2>6, <3>1, <3>3
    <3>5. /\ h \in Seq(Slots) /\ Len(h) = m /\ DOMAIN h = 1 .. m
          /\ \A l \in 1 .. m : h[l] = s[l]
      BY <3>1, <3>2, <3>3, <3>4
    <3> QED BY <3>1, <3>3, <3>5
  <2>8. PICK j : j = [u EXCEPT !.heap = h]
    OBVIOUS
  <2>9. /\ j \in States /\ j.heap = h
        /\ j.object = u.object /\ j.pages = u.pages /\ j.queue = u.queue
        /\ j.thread = u.thread /\ j.process = u.process
        /\ j.handles = u.handles /\ j.panic = u.panic
    BY <2>4, <2>7, <2>8, Set_heap
  <2>10. PICK x : x = [u.object[o] EXCEPT !.position = Unset]
    OBVIOUS
  <2>11. /\ x \in ObjectRecords /\ x.position = Unset /\ SameObject(u.object[o], x)
    BY <2>4, <2>10, ObjectAt, Put_position DEF SameObject, Unset
  <2>12. PICK y : y = [x EXCEPT !.deadline = 0]
    OBVIOUS
  <2>13. /\ y \in ObjectRecords /\ y.position = Unset /\ y.deadline = 0
         /\ SameCore(u.object[o], y)
    BY <2>11, <2>12, Put_deadline DEF SameObject, SameCore
  <2>14. PICK v : v = [u.object EXCEPT ![o] = y]
    OBVIOUS
  <2>15. v \in Objects /\ v[o] = y /\ \A p \in Slots \ {o} : v[p] = u.object[p]
    BY <2>4, <2>13, <2>14, StateFields DEF Objects
  <2>16. PICK t : t = [j EXCEPT !.object = v]
    OBVIOUS
  <2>17. /\ t \in States /\ t.object = v
         /\ t.heap = j.heap /\ t.pages = j.pages /\ t.queue = j.queue
         /\ t.thread = j.thread /\ t.process = j.process
         /\ t.handles = j.handles /\ t.panic = j.panic
    BY <2>9, <2>15, <2>16, Set_object
  <2>18. t = Cut(u, o)
    <3>1. y = [u.object[o] EXCEPT !.position = Unset, !.deadline = 0]
      BY <2>10, <2>12
    <3>2. t = [u EXCEPT !.heap = h, !.object = v]
      BY <2>8, <2>16
    <3> QED BY <2>5, <2>6, <2>14, <3>1, <3>2 DEF Cut
  <2>19. TimerRemove(k, o) = Settle(t, i)
    <3>1. ~(i > Len(k.heap)) /\ k.heap[i] = o
      BY <1>1, <2>1, <2>2
    <3>2. t = Cut(Swap(k, i, Len(k.heap)), o)
      BY <1>1, <2>4, <2>18
    <3> QED BY <1>2, <1>4, <3>1, <3>2 DEF TimerRemove
  <2>20. Aside(k, t) /\ t.pages = k.pages /\ t.heap = h
    BY <2>4, <2>9, <2>17 DEF Moved, Aside
  <2>21. SameBut(k, t, o)
    BY <2>4, <2>15, <2>17 DEF Moved, SameBut
  <2>22. /\ SameCore(k.object[o], t.object[o])
         /\ t.object[o].deadline = 0 /\ t.object[o].position = Unset
    BY <2>4, <2>13, <2>15, <2>17 DEF Moved, SameObject, SameCore
  <2>23. \A l \in 1 .. n - 1 : l \in 1 .. n /\ l # n /\ h[l] = u.heap[l] /\ h[l] # o /\ h[l] \in Slots
    <3> SUFFICES ASSUME NEW l \in 1 .. n - 1
                 PROVE  l \in 1 .. n /\ l # n /\ h[l] = u.heap[l] /\ h[l] # o /\ h[l] \in Slots
      OBVIOUS
    <3>1. l \in 1 .. n /\ l # n /\ h[l] = u.heap[l]
      BY <2>7
    <3>2. u.object[u.heap[l]].position = l /\ u.object[u.heap[n]].position = n
      BY <2>1, <2>4, <2>5, <3>1 DEF Linked
    <3>3. u.heap[l] \in Slots
      BY <2>5, <3>1
    <3> QED BY <2>4, <3>1, <3>2, <3>3
  <2>24. Linked(t)
    <3>1. ASSUME NEW l \in 1 .. n - 1 PROVE t.object[t.heap[l]].position = l
      BY <2>4, <2>5, <2>15, <2>17, <2>20, <2>23 DEF Linked
    <3>2. ASSUME NEW p \in Slots, t.object[p].position # Unset
          PROVE  t.object[p].position \in 1 .. n - 1 /\ t.heap[t.object[p].position] = p
      <4>1. p # o
        BY <2>22, <3>2
      <4>2. PICK l : l = u.object[p].position /\ l = t.object[p].position
        BY <2>15, <2>17, <4>1
      <4>3. l \in 1 .. n /\ u.heap[l] = p
        <5>1. l # Unset
          BY <3>2, <4>2
        <5>2. u.object[p].position = l /\ Linked(u)
          BY <2>4, <4>2
        <5>3. l \in DOMAIN u.heap /\ u.heap[l] = p
          BY <5>1, <5>2 DEF Linked
        <5> QED BY <2>5, <5>3
      <4>4. l # n
        BY <2>4, <4>1, <4>3
      <4>5. l \in 1 .. n - 1
        BY <4>3, <4>4
      <4> QED BY <2>7, <2>20, <4>2, <4>3, <4>5
    <3> QED BY <2>7, <2>20, <3>1, <3>2 DEF Linked
  <2>25. ASSUME NEW a \in Slots \ {o}, NEW b \in Slots \ {o}
         PROVE  Less(t, a, b) <=> Less(k, a, b)
    BY <2>21 DEF SameBut, SameObject, Less
  <2>26. \A l \in 1 .. n - 1 : l # i => h[l] = k.heap[l]
    BY <2>4, <2>23
  <2>27. ASSUME NEW l \in 1 .. n - 1, l # i, l \div 2 # i PROVE InOrder(t, l)
    <3> SUFFICES ASSUME l # 1 PROVE ~Less(t, t.heap[l], t.heap[l \div 2])
      BY DEF InOrder
    <3>1. l \in 1 .. n /\ l \div 2 \in 1 .. n - 1
      BY Halves
    <3>2. t.heap[l] = k.heap[l] /\ t.heap[l \div 2] = k.heap[l \div 2]
      BY <2>20, <2>26, <2>27, <3>1
    <3>3. InOrder(k, l)
      BY <1>1, <3>1 DEF HeapIn, Ordered
    <3>4. t.heap[l] \in Slots \ {o} /\ t.heap[l \div 2] \in Slots \ {o}
      BY <2>20, <2>23, <3>1
    <3> QED BY <2>25, <3>2, <3>3, <3>4 DEF InOrder
  <2>28. Bridged(t, i)
    <3> SUFFICES ASSUME NEW l \in 1 .. n - 1, l \div 2 = i, i # 1
                 PROVE  ~Less(t, t.heap[l], t.heap[i \div 2])
      BY <2>7, <2>20 DEF Bridged
    <3>1. l \in 1 .. n /\ l # 1 /\ l # i /\ l \in Nat
      BY <2>2
    <3>2. i \div 2 \in 1 .. n - 1 /\ i \div 2 # i
      BY <2>2, <3>1, Halves
    <3>3. PICK a \in Slots, b \in Slots : a = k.heap[l] /\ b = k.heap[i \div 2]
      BY <1>1, <3>1, <3>2
    <3>4. t.heap[l] = a /\ t.heap[i \div 2] = b /\ a # o /\ b # o
      BY <2>20, <2>23, <2>26, <3>1, <3>2, <3>3
    <3>5. ~Less(k, a, o)
      BY <1>1, <2>1, <3>1, <3>3 DEF HeapIn, Ordered, InOrder
    <3>6. ~Less(k, o, b)
      BY <1>1, <2>1, <3>3 DEF HeapIn, Ordered, InOrder
    <3>7. ~Less(k, a, b)
      BY <3>5, <3>6, Earlier
    <3> QED BY <2>25, <3>4, <3>7
  <2>29. \A l \in DOMAIN t.heap : l # i /\ l \div 2 # i => InOrder(t, l)
    BY <2>7, <2>20, <2>27
  <2>30. PICK w : w = Settle(t, i) /\ Moved(t, w) /\ Ordered(w)
    BY <2>2, <2>17, <2>24, <2>28, <2>29, SettleFacts
  <2>31. Aside(k, w) /\ w.pages = k.pages /\ Linked(w)
    BY <2>20, <2>30 DEF Moved, Aside
  <2>32. SameBut(k, w, o)
    BY <2>21, <2>30 DEF Moved, SameBut, SameObject, SamePlace
  <2>33. /\ SameCore(k.object[o], w.object[o])
         /\ w.object[o].deadline = 0 /\ w.object[o].position = Unset
    BY <2>22, <2>30 DEF Moved, SameObject, SamePlace, SameCore
  <2>34. Len(w.heap) = Len(k.heap) - 1
    BY <1>1, <2>7, <2>20, <2>30 DEF Moved
  <2>35. Disarmed(k, w, o)
    BY <1>2, <1>4, <2>30, <2>31, <2>32, <2>33, <2>34 DEF Disarmed
  <2> QED BY <2>19, <2>30, <2>35
<1> QED BY <1>3, <1>4

(* Inserting a timer leaves the heap linked, in order and within its       *)
(* pages, or the machine stops for want of a page.                         *)
LEMMA TimerInsertFacts ==
  ASSUME NEW k \in States, HeapIn(k), NEW o \in Slots, k.object[o].position = Unset,
         NEW d \in Nat \ {0}, NEW memory
  PROVE  \E w : /\ w = TimerInsert(k, o, d, memory)
                /\ \/ w = [k EXCEPT !.panic = "TIMER_SET: no memory"]
                   \/ w = k /\ k.panic # Healthy
                   \/ Armed(k, w, o, d)
<1>1. PICK n \in Nat : /\ n = Len(k.heap) /\ DOMAIN k.heap = 1 .. n /\ k.heap \in Seq(Slots)
                       /\ \A l \in 1 .. n : l \in Nat /\ k.heap[l] \in Slots
  BY HeapFacts
<1>2. PICK need : need = n \div PageEntries + 1
  OBVIOUS
<1>3. PageEntries \in Nat \ {0}
  BY SyncAssumption
<1>4. need \in Nat /\ k.pages \in Nat
  BY <1>2, <1>3, StateFields
<1>5. CASE need > k.pages /\ ~memory
  BY <1>1, <1>2, <1>5 DEF TimerInsert, Check
<1>6. CASE ~(need > k.pages /\ ~memory)
  <2>1. PICK g \in Nat : g = IF need > k.pages THEN need ELSE k.pages
    BY <1>4
  <2>2. n + 1 <= g * PageEntries
    <3>1. g >= n \div PageEntries + 1
      BY <1>2, <1>4, <2>1
    <3> QED BY <1>3, <3>1, PageCount
  <2>3. PICK h : h = Append(k.heap, o)
    OBVIOUS
  <2>4. /\ h \in Seq(Slots) /\ Len(h) = n + 1 /\ DOMAIN h = 1 .. n + 1
        /\ h[n + 1] = o /\ \A l \in 1 .. n : h[l] = k.heap[l]
    BY <1>1, <2>3
  <2>5. PICK j : j = [k EXCEPT !.heap = h]
    OBVIOUS
  <2>6. /\ j \in States /\ j.heap = h
        /\ j.object = k.object /\ j.pages = k.pages /\ j.queue = k.queue
        /\ j.thread = k.thread /\ j.process = k.process
        /\ j.handles = k.handles /\ j.panic = k.panic
    BY <2>4, <2>5, Set_heap
  <2>7. PICK x : x = [k.object[o] EXCEPT !.position = n + 1]
    OBVIOUS
  <2>8. /\ x \in ObjectRecords /\ x.position = n + 1 /\ SameObject(k.object[o], x)
    <3>1. PICK m \in Nat : m = n + 1
      OBVIOUS
    <3>2. PICK y \in ObjectRecords : y = k.object[o]
      BY ObjectAt
    <3>3. x = [y EXCEPT !.position = m]
      BY <2>7, <3>1, <3>2
    <3>4. x \in ObjectRecords /\ x.position = m /\ SameObject(y, x)
      BY <3>3, Put_position DEF SameObject
    <3> QED BY <3>1, <3>2, <3>4
  <2>9. PICK y : y = [x EXCEPT !.deadline = d]
    OBVIOUS
  <2>10. /\ y \in ObjectRecords /\ y.position = n + 1 /\ y.deadline = d
         /\ SameCore(k.object[o], y)
    BY <2>8, <2>9, Put_deadline DEF SameObject, SameCore
  <2>11. PICK v : v = [k.object EXCEPT ![o] = y]
    OBVIOUS
  <2>12. v \in Objects /\ v[o] = y /\ \A p \in Slots \ {o} : v[p] = k.object[p]
    BY <2>10, <2>11, StateFields DEF Objects
  <2>13. PICK i : i = [j EXCEPT !.object = v]
    OBVIOUS
  <2>14. /\ i \in States /\ i.object = v
         /\ i.heap = j.heap /\ i.pages = j.pages /\ i.queue = j.queue
         /\ i.thread = j.thread /\ i.process = j.process
         /\ i.handles = j.handles /\ i.panic = j.panic
    BY <2>6, <2>12, <2>13, Set_object
  <2>15. PICK t : t = [i EXCEPT !.pages = g]
    OBVIOUS
  <2>16. /\ t \in States /\ t.pages = g
         /\ t.object = i.object /\ t.heap = i.heap /\ t.queue = i.queue
         /\ t.thread = i.thread /\ t.process = i.process
         /\ t.handles = i.handles /\ t.panic = i.panic
    BY <2>14, <2>15, Set_pages
  <2>17. t = Grown(k, o, d, g)
    <3>1. y = [k.object[o] EXCEPT !.position = n + 1, !.deadline = d]
      BY <2>7, <2>9
    <3>2. i = [k EXCEPT !.heap = h, !.object = v]
      BY <2>5, <2>13
    <3>3. t = [k EXCEPT !.heap = h, !.object = v, !.pages = g]
      BY <2>15, <3>2
    <3> QED BY <1>1, <2>3, <2>11, <3>1, <3>3 DEF Grown
  <2>18. TimerInsert(k, o, d, memory) = SiftUp(t, o)
    BY <1>1, <1>2, <1>6, <2>1, <2>17 DEF TimerInsert
  <2>19. Aside(k, t) /\ t.heap = h /\ t.object = v /\ t.pages = g
    BY <2>6, <2>14, <2>16 DEF Aside
  <2>20. SameBut(k, t, o)
    BY <2>12, <2>19 DEF SameBut, SameObject, SamePlace
  <2>21. /\ SameCore(k.object[o], t.object[o])
         /\ t.object[o].deadline = d /\ t.object[o].position = n + 1
    BY <2>10, <2>12, <2>19
  <2>22. \A l \in 1 .. n : k.heap[l] # o
    BY <1>1 DEF HeapIn, Linked, Unset
  <2>23. Linked(t)
    <3>1. ASSUME NEW l \in 1 .. n + 1 PROVE t.object[t.heap[l]].position = l
      <4>1. CASE l = n + 1
        BY <2>4, <2>19, <2>21, <4>1
      <4>2. CASE l # n + 1
        <5>1. l \in 1 .. n
          BY <4>2
        <5>2. k.object[k.heap[l]].position = l
          BY <1>1, <5>1 DEF HeapIn, Linked
        <5> QED BY <1>1, <2>4, <2>12, <2>19, <2>22, <5>1, <5>2
      <4> QED BY <4>1, <4>2
    <3>2. ASSUME NEW p \in Slots, t.object[p].position # Unset
          PROVE  t.object[p].position \in 1 .. n + 1 /\ t.heap[t.object[p].position] = p
      <4>1. CASE p = o
        BY <2>4, <2>19, <2>21, <4>1
      <4>2. CASE p # o
        <5>1. PICK l : l = k.object[p].position /\ l = t.object[p].position
          BY <2>12, <2>19, <4>2
        <5>2. k.object[p].position # Unset /\ Linked(k)
          BY <3>2, <5>1 DEF HeapIn
        <5>3. l \in DOMAIN k.heap /\ k.heap[l] = p
          BY <5>1, <5>2 DEF Linked
        <5>4. l \in 1 .. n /\ l \in 1 .. n + 1
          BY <1>1, <5>3
        <5> QED BY <2>4, <2>19, <5>1, <5>3, <5>4
      <4> QED BY <4>1, <4>2
    <3> QED BY <2>4, <2>19, <3>1, <3>2 DEF Linked
  <2>24. ASSUME NEW a \in Slots \ {o}, NEW b \in Slots \ {o}
         PROVE  Less(t, a, b) <=> Less(k, a, b)
    BY <2>20 DEF SameBut, SameObject, Less
  <2>25. ASSUME NEW l \in 1 .. n PROVE InOrder(t, l)
    <3> SUFFICES ASSUME l # 1 PROVE ~Less(t, t.heap[l], t.heap[l \div 2])
      BY DEF InOrder
    <3>1. l \div 2 \in 1 .. n
      BY Halves
    <3>2. t.heap[l] = k.heap[l] /\ t.heap[l \div 2] = k.heap[l \div 2]
      BY <2>4, <2>19, <3>1
    <3>3. InOrder(k, l)
      BY <1>1 DEF HeapIn, Ordered
    <3>4. t.heap[l] \in Slots \ {o} /\ t.heap[l \div 2] \in Slots \ {o}
      BY <1>1, <2>22, <3>1, <3>2
    <3> QED BY <2>24, <3>2, <3>3, <3>4 DEF InOrder
  <2>26. Bridged(t, n + 1)
    <3>1. \A l \in 1 .. n + 1 : l \div 2 # n + 1
      BY Halves
    <3> QED BY <2>4, <2>19, <3>1 DEF Bridged
  <2>27. UpFrom(t, o)
    <3>1. n + 1 \in 1 .. n + 1 /\ \A l \in 1 .. n + 1 : l # n + 1 => l \in 1 .. n
      OBVIOUS
    <3> QED BY <2>4, <2>19, <2>21, <2>25, <2>26, <3>1 DEF UpFrom
  <2>28. PICK w : w = SiftUp(t, o) /\ Moved(t, w) /\ Ordered(w)
    BY <2>16, <2>23, <2>27, SiftUpFacts
  <2>29. Aside(k, w) /\ Linked(w)
    BY <2>19, <2>28 DEF Moved, Aside
  <2>30. SameBut(k, w, o)
    BY <2>20, <2>28 DEF Moved, SameBut, SameObject, SamePlace
  <2>31. /\ SameCore(k.object[o], w.object[o])
         /\ w.object[o].deadline = d /\ w.object[o].position # Unset
    <3>1. n + 1 # Unset
      BY DEF Unset
    <3> QED BY <2>21, <2>28, <3>1 DEF Moved, SameObject, SamePlace, SameCore
  <2>32. Len(w.heap) <= w.pages * PageEntries
    <3>1. Len(w.heap) = n + 1 /\ w.pages = g
      BY <2>4, <2>19, <2>28 DEF Moved
    <3> QED BY <2>2, <3>1
  <2>33. Armed(k, w, o, d)
    BY <2>28, <2>29, <2>30, <2>31, <2>32 DEF Armed
  <2> QED BY <2>18, <2>28, <2>33
<1> QED BY <1>5, <1>6

----------------------------------------------------------------------------
(* What is kept when threads leave their waits. *)

(* The thread table has a thread record for every thread. *)
LEMMA ThreadAt ==
  ASSUME NEW k \in States, NEW t \in Threads
  PROVE  /\ k.thread[t] \in ThreadRecords
         /\ k.thread[t].state \in {"READY", "BLOCKED", "DEAD"}
         /\ k.thread[t].members \in Seq(Slots) /\ k.thread[t].deadline \in Nat
<1>1. k.thread[t] \in ThreadRecords
  BY StateFields DEF ThreadTables
<1> QED BY <1>1, ThreadFields

(* What is true of the heap depends on the heap, its pages, the positions  *)
(* and the deadlines.                                                      *)
LEMMA SameHeapIn ==
  ASSUME NEW k \in States, NEW w, HeapIn(k), SameHeap(k, w)
  PROVE  HeapIn(w)
<1>1. PICK n \in Nat : DOMAIN k.heap = 1 .. n /\ \A i \in 1 .. n : k.heap[i] \in Slots
  BY HeapFacts
<1>2. /\ w.heap = k.heap /\ w.pages = k.pages
      /\ \A o \in Slots : /\ w.object[o].position = k.object[o].position
                          /\ w.object[o].deadline = k.object[o].deadline
  BY DEF SameHeap
<1>3. Linked(w)
  BY <1>1, <1>2 DEF HeapIn, Linked
<1>4. ASSUME NEW i \in 1 .. n PROVE InOrder(w, i)
  <2> SUFFICES ASSUME i # 1 PROVE ~Less(w, w.heap[i], w.heap[i \div 2])
    BY DEF InOrder
  <2>1. i \div 2 \in 1 .. n
    BY Halves
  <2>2. PICK a \in Slots, b \in Slots : a = k.heap[i] /\ b = k.heap[i \div 2]
    BY <1>1, <2>1
  <2>3. ~Less(k, a, b)
    BY <1>1, <2>2 DEF HeapIn, Ordered, InOrder
  <2> QED BY <1>2, <2>2, <2>3 DEF Less
<1> QED BY <1>1, <1>2, <1>3, <1>4 DEF HeapIn, Ordered

(* When threads have left their waits, the registrations are still those   *)
(* of the blocked threads.                                                 *)
LEMMA GoneWaits ==
  ASSUME NEW k \in States, NEW w, NEW T, Gone(k, w, T), WaitsIn(k)
  PROVE  Matched(w) /\ \A t \in Threads : Sane(w.thread[t])
<1>1. ASSUME NEW o \in Slots, NEW t \in Threads, NEW i \in Nat
      PROVE  In(<<t, i>>, w.queue[o]) <=>
               i \in DOMAIN w.thread[t].members /\ w.thread[t].members[i] = o
  <2>0. PICK e : e = <<t, i>>
    OBVIOUS
  <2>1. e = <<t, i>> /\ e[1] = t
    BY <2>0
  <2>2. In(e, w.queue[o]) <=> In(e, k.queue[o]) /\ e[1] \notin T
    BY DEF Gone, Left
  <2>3. CASE t \in T
    <3>1. w.thread[t].members = <<>>
      BY <2>3 DEF Gone
    <3>2. i \notin DOMAIN w.thread[t].members
      BY <3>1
    <3> QED BY <2>1, <2>2, <2>3, <3>2
  <2>4. CASE t \notin T
    <3>1. w.thread[t] = k.thread[t]
      BY <2>4 DEF Gone, Rest
    <3>2. In(<<t, i>>, k.queue[o]) <=>
            i \in DOMAIN k.thread[t].members /\ k.thread[t].members[i] = o
      BY DEF WaitsIn, Matched
    <3> QED BY <2>1, <2>2, <2>4, <3>1, <3>2
  <2> QED BY <2>3, <2>4
<1>2. ASSUME NEW t \in Threads PROVE Sane(w.thread[t])
  <2>1. CASE t \in T
    <3>1. w.thread[t].members = <<>> /\ w.thread[t].state # "BLOCKED" /\ w.thread[t].deadline = 0
      BY <2>1 DEF Gone
    <3> QED BY <3>1 DEF Sane
  <2>2. CASE t \notin T
    <3>1. w.thread[t] = k.thread[t]
      BY <2>2 DEF Gone, Rest
    <3> QED BY <3>1 DEF WaitsIn
  <2> QED BY <2>1, <2>2
<1> QED BY <1>1, <1>2 DEF Matched

(* Ending waits keeps the body of the invariant, and objects quiet. *)
LEMMA EndedBody ==
  ASSUME NEW k, NEW w, NEW T, Body(k), Ended(k, w, T)
  PROVE  Body(w) /\ \A o \in Slots : Quiet(k, o) => Quiet(w, o)
<1>1. k \in States /\ w \in States /\ w.object = k.object /\ w.heap = k.heap /\ w.pages = k.pages
      /\ w.process = k.process
  BY DEF Body, Ended, Outside
<1>2. Matched(w) /\ \A t \in Threads : Sane(w.thread[t])
  BY <1>1, GoneWaits DEF Body, Ended
<1>3. Housed(w)
  <2> SUFFICES ASSUME NEW t \in Threads, w.thread[t].state # "DEAD"
               PROVE  w.process[ProcessOf[t]] = "RUNNING"
    BY DEF Housed
  <2>1. k.thread[t].state # "DEAD"
    BY DEF Ended, Gone, Rest
  <2> QED BY <1>1, <2>1 DEF Body, WaitsIn, Housed
<1>4. HeapIn(w)
  <2>1. SameHeap(k, w)
    BY <1>1 DEF SameHeap
  <2> QED BY <1>1, <2>1, SameHeapIn DEF Body
<1>5. \A o \in Slots : Shape(w.object[o])
  BY <1>1 DEF Body
<1>6. \A o \in Slots : Quiet(k, o) => Quiet(w, o)
  BY <1>1 DEF Quiet, Ended, Gone, Left
<1> QED BY <1>1, <1>2, <1>3, <1>4, <1>5, <1>6 DEF Body, WaitsIn

(* Who is woken was blocked. *)
LEMMA WokenEnded ==
  ASSUME NEW k, NEW w, NEW T, NEW r \in Results, NEW o \in Slots, Body(k), Woken(k, w, T, r, o)
  PROVE  Ended(k, w, T)
<1>1. ASSUME NEW t \in T
      PROVE  /\ w.thread[t].state = "READY" /\ w.thread[t].members = <<>>
             /\ w.thread[t].deadline = 0 /\ k.thread[t].state = "BLOCKED"
  <2>1. PICK i \in Nat : w.thread[t] = Told(r, i) /\ In(<<t, i>>, k.queue[o])
    BY DEF Woken, Told2
  <2>2. w.thread[t].state = "READY" /\ w.thread[t].members = <<>> /\ w.thread[t].deadline = 0
    BY <2>1, ToldFacts
  <2>3. t \in Threads
    BY DEF Woken
  <2>4. i \in DOMAIN k.thread[t].members
    BY <2>1, <2>3 DEF Body, WaitsIn, Matched
  <2>5. k.thread[t].members # <<>>
    BY <2>4
  <2>6. k.thread[t].state = "BLOCKED"
    BY <2>3, <2>5 DEF Body, WaitsIn, Sane
  <2> QED BY <2>2, <2>6
<1>2. Gone(k, w, T)
  BY <1>1 DEF Gone, Woken
<1> QED BY <1>1, <1>2 DEF Ended, Woken

(* With the waiters of o woken, all is well if it is elsewhere. *)
LEMMA WakeAllCore ==
  ASSUME NEW k, NEW o \in Slots, NEW r \in Results, Body(k),
         \A p \in Slots \ {o} : Quiet(k, p)
  PROVE  \E w : /\ w = WakeAll(k, o, r) /\ Woken(k, w, WaitersOf(k, o), r, o)
                /\ Outside(k, w) /\ Core(w)
<1>1. k \in States
  BY DEF Body
<1>2. PICK w : /\ w = WakeAll(k, o, r) /\ Woken(k, w, WaitersOf(k, o), r, o)
               /\ w.queue[o] = <<>>
  BY <1>1, WakeAllFacts
<1>3. PICK T : T = WaitersOf(k, o)
  OBVIOUS
<1>4. Ended(k, w, T)
  BY <1>2, <1>3, WokenEnded
<1>5. Body(w) /\ \A p \in Slots : Quiet(k, p) => Quiet(w, p)
  BY <1>4, EndedBody
<1>6. Quiet(w, o)
  <2>1. w \in States
    BY <1>5 DEF Body
  <2>2. \A e : ~In(e, w.queue[o])
    BY <1>2, <2>1, QueueFacts
  <2> QED BY <2>2 DEF Quiet
<1>7. Core(w)
  BY <1>5, <1>6 DEF Core
<1> QED BY <1>2, <1>7 DEF Woken

(* Only the object o is another, x. *)
Put(k, w, o, x) ==
  /\ w \in States
  /\ w.heap = k.heap /\ w.pages = k.pages /\ w.queue = k.queue
  /\ w.thread = k.thread /\ w.process = k.process
  /\ w.handles = k.handles /\ w.panic = k.panic
  /\ w.object[o] = x /\ \A p \in Slots \ {o} : w.object[p] = k.object[p]

(* Objects are kept by the same handles, and open ones belong to the same. *)
SameUse(k, w) ==
  /\ w.process = k.process /\ w.handles = k.handles
  /\ \A o \in Slots : /\ w.object[o].references = k.object[o].references
                      /\ w.object[o].state = "LIVE" => /\ k.object[o].state = "LIVE"
                                                       /\ w.object[o].owner = k.object[o].owner

ClosedObject(x, r, y) ==
  /\ y.state = "CLOSING" /\ y.result = r /\ y.deadline = 0
  /\ y.type = x.type /\ y.count = x.count /\ y.maximum = x.maximum
  /\ y.owner = x.owner /\ y.references = x.references

(* The object o is closed, and its waiters are told r. *)
Shut(k, w, o, r) ==
  /\ Core(w) /\ SameUse(k, w) /\ w.panic = k.panic
  /\ \A p \in Slots \ {o} : SameObject(k.object[p], w.object[p])
  /\ ClosedObject(k.object[o], r, w.object[o])
  /\ LET T == WaitersOf(k, o) IN Left(k, w, T) /\ Rest(k, w, T) /\ Told2(k, w, T, r, o)

HandlesTo(k, o) == [p \in Processes |-> k.handles[p][o]]

Reduced(x, y) ==
  /\ y.state = x.state /\ y.type = x.type /\ y.count = x.count
  /\ y.maximum = x.maximum /\ y.owner = x.owner
  /\ y.result = x.result /\ y.deadline = x.deadline

(* n handles of p to o are closed, and o with the last. *)
Released(k, w, p, o, n) ==
  /\ Core(w) /\ w.process = k.process /\ w.panic = k.panic
  /\ w.handles = [k.handles EXCEPT ![p][o] = @ - n]
  /\ \A q \in Slots \ {o} : SameObject(k.object[q], w.object[q])
  /\ w.object[o].references = k.object[o].references - n
  /\ \/ /\ k.object[o].references > n
        /\ Reduced(k.object[o], w.object[o])
        /\ w.queue = k.queue /\ w.thread = k.thread
     \/ /\ k.object[o].references = n
        /\ w.object[o] = FreeObject
        /\ k.object[o].state # "LIVE" /\ w.queue = k.queue /\ w.thread = k.thread
     \/ /\ k.object[o].references = n
        /\ w.object[o] = FreeObject /\ k.object[o].state = "LIVE"
        /\ LET T == WaitersOf(k, o)
           IN  Left(k, w, T) /\ Rest(k, w, T) /\ Told2(k, w, T, "CLOSED", o)

----------------------------------------------------------------------------
(* An object changes. *)

(* Another object in one slot. *)
LEMMA PutFacts ==
  ASSUME NEW k \in States, NEW o \in Slots, NEW x \in ObjectRecords
  PROVE  \E w : w = [k EXCEPT !.object[o] = x] /\ Put(k, w, o, x)
<1>1. PICK v : v = [k.object EXCEPT ![o] = x]
  OBVIOUS
<1>2. v \in Objects /\ v[o] = x /\ \A p \in Slots \ {o} : v[p] = k.object[p]
  BY <1>1, StateFields DEF Objects
<1>3. PICK w : w = [k EXCEPT !.object = v]
  OBVIOUS
<1>4. /\ w \in States /\ w.object = v
      /\ w.heap = k.heap /\ w.pages = k.pages /\ w.queue = k.queue
      /\ w.thread = k.thread /\ w.process = k.process
      /\ w.handles = k.handles /\ w.panic = k.panic
  BY <1>2, <1>3, Set_object
<1>5. w = [k EXCEPT !.object[o] = x]
  BY <1>1, <1>3
<1> QED BY <1>2, <1>4, <1>5 DEF Put

NewCount(k, w, o, c) ==
  \E x \in ObjectRecords :
    /\ Put(k, w, o, x) /\ x.count = c
    /\ x.state = k.object[o].state /\ x.type = k.object[o].type
    /\ x.maximum = k.object[o].maximum /\ x.owner = k.object[o].owner
    /\ x.references = k.object[o].references /\ x.result = k.object[o].result
    /\ x.deadline = k.object[o].deadline /\ x.position = k.object[o].position

(* Another count of one object. *)
LEMMA CountFacts ==
  ASSUME NEW k \in States, NEW o \in Slots, NEW c \in Nat
  PROVE  \E w : w = [k EXCEPT !.object[o].count = c] /\ NewCount(k, w, o, c)
<1>1. PICK y \in ObjectRecords : y = k.object[o]
  BY ObjectAt
<1>2. PICK x : x = [y EXCEPT !.count = c]
  OBVIOUS
<1>3. /\ x \in ObjectRecords /\ x.count = c
      /\ x.state = y.state /\ x.type = y.type
      /\ x.maximum = y.maximum /\ x.owner = y.owner
      /\ x.references = y.references /\ x.result = y.result
      /\ x.deadline = y.deadline /\ x.position = y.position
  BY <1>2, Put_count
<1>4. PICK w : w = [k EXCEPT !.object[o] = x] /\ Put(k, w, o, x)
  BY <1>3, PutFacts
<1>5. w = [k EXCEPT !.object[o].count = c]
  BY <1>1, <1>2, <1>4
<1>6. NewCount(k, w, o, c)
  BY <1>1, <1>3, <1>4 DEF NewCount
<1> QED BY <1>5, <1>6

(* Another object with the same place and deadline keeps the body of the   *)
(* invariant.                                                              *)
LEMMA PutBody ==
  ASSUME NEW k, NEW w, NEW o \in Slots, NEW x, Body(k), Put(k, w, o, x), Shape(x),
         x.position = k.object[o].position, x.deadline = k.object[o].deadline
  PROVE  Body(w) /\ \A p \in Slots \ {o} : Quiet(k, p) => Quiet(w, p)
<1>1. /\ k \in States /\ w \in States
      /\ w.heap = k.heap /\ w.pages = k.pages /\ w.queue = k.queue
      /\ w.thread = k.thread /\ w.process = k.process
      /\ w.object[o] = x /\ \A p \in Slots \ {o} : w.object[p] = k.object[p]
  BY DEF Put, Body
<1>2. WaitsIn(w)
  BY <1>1 DEF Body, WaitsIn, Matched, Housed
<1>3. HeapIn(w)
  <2>1. SameHeap(k, w)
    BY <1>1 DEF SameHeap
  <2> QED BY <1>1, <2>1, SameHeapIn DEF Body
<1>4. \A p \in Slots : Shape(w.object[p])
  BY <1>1 DEF Body
<1>5. \A p \in Slots \ {o} : Quiet(k, p) => Quiet(w, p)
  BY <1>1 DEF Quiet
<1> QED BY <1>1, <1>2, <1>3, <1>4, <1>5 DEF Body

(* An open object may have another count, an armed timer only none. *)
LEMMA CountBody ==
  ASSUME NEW k, NEW w, NEW o \in Slots, NEW c \in Nat, Body(k), NewCount(k, w, o, c),
         k.object[o].state # "FREE", k.object[o].deadline = 0 \/ c = 0
  PROVE  /\ Body(w) /\ SameUse(k, w) /\ w.panic = k.panic
         /\ \A p \in Slots \ {o} : Quiet(k, p) => Quiet(w, p)
         /\ c = 0 /\ Quiet(k, o) => Quiet(w, o)
<1>1. PICK x \in ObjectRecords :
         /\ Put(k, w, o, x) /\ x.count = c
         /\ x.state = k.object[o].state /\ x.type = k.object[o].type
         /\ x.maximum = k.object[o].maximum /\ x.owner = k.object[o].owner
         /\ x.references = k.object[o].references /\ x.result = k.object[o].result
         /\ x.deadline = k.object[o].deadline /\ x.position = k.object[o].position
  BY DEF NewCount
<1>2. Shape(k.object[o])
  BY DEF Body
<1>3. Shape(x)
  BY <1>1, <1>2 DEF Shape
<1>4. Body(w) /\ \A p \in Slots \ {o} : Quiet(k, p) => Quiet(w, p)
  BY <1>1, <1>3, PutBody
<1>5. SameUse(k, w) /\ w.panic = k.panic
  BY <1>1 DEF SameUse, Put
<1>6. c = 0 /\ Quiet(k, o) => Quiet(w, o)
  BY <1>1 DEF Put, Quiet
<1> QED BY <1>4, <1>5, <1>6

(* The references stay counted when neither they nor the handles change,   *)
(* and owners alive when nobody dies.                                      *)
LEMMA SameUseGood ==
  ASSUME NEW k, NEW w, Good(k), Core(w), SameUse(k, w)
  PROVE  Good(w)
<1>1. ASSUME NEW o \in Slots PROVE Owned(w, o) /\ Counted(w, o)
  <2>1. Owned(k, o) /\ Counted(k, o)
    BY DEF Good
  <2>2. Owned(w, o)
    BY <2>1 DEF Owned, SameUse
  <2>3. Counted(w, o)
    BY <2>1 DEF Counted, SameUse
  <2> QED BY <2>2, <2>3
<1> QED BY <1>1 DEF Good

(* Steps that keep the use of objects may follow each other. *)
LEMMA SameUseTwice ==
  ASSUME NEW k, NEW j, NEW w, SameUse(k, j), SameUse(j, w)
  PROVE  SameUse(k, w)
BY DEF SameUse

(* Wakes keep the use of objects. *)
LEMMA OutsideUse ==
  ASSUME NEW k, NEW w, Outside(k, w)
  PROVE  SameUse(k, w)
BY DEF SameUse, Outside

(* A timer leaves the heap. *)
LEMMA DisarmedCore ==
  ASSUME NEW k, NEW w, NEW o \in Slots, Body(k), Disarmed(k, w, o)
  PROVE  /\ Body(w) /\ SameUse(k, w) /\ w.panic = k.panic
         /\ \A p \in Slots : Quiet(k, p) => Quiet(w, p)
<1>1. /\ k \in States /\ w \in States /\ w.pages = k.pages /\ w.queue = k.queue
      /\ w.thread = k.thread /\ w.process = k.process /\ w.handles = k.handles
      /\ w.panic = k.panic /\ Linked(w) /\ Ordered(w)
  BY DEF Body, Disarmed, Aside
<1>2. \A p \in Slots \ {o} : SameObject(k.object[p], w.object[p]) /\ SamePlace(k.object[p], w.object[p])
  BY DEF Disarmed, SameBut
<1>3. /\ SameCore(k.object[o], w.object[o])
      /\ w.object[o].deadline = 0 /\ w.object[o].position = Unset
  BY DEF Disarmed
<1>4. WaitsIn(w)
  BY <1>1 DEF Body, WaitsIn, Matched, Housed
<1>5. Len(w.heap) <= w.pages * PageEntries
  <2>1. PICK n \in Nat : n = Len(k.heap)
    BY <1>1, HeapFacts
  <2>2. Len(w.heap) <= n
    BY <2>1 DEF Disarmed
  <2>3. PICK m \in Nat : m = Len(w.heap)
    BY <1>1, HeapFacts
  <2>4. k.pages \in Nat /\ PageEntries \in Nat
    BY <1>1, StateFields, SyncAssumption
  <2>5. PICK s \in Nat : s = k.pages * PageEntries
    BY <2>4
  <2> QED BY <1>1, <2>1, <2>2, <2>3, <2>5 DEF Body, HeapIn
<1>6. \A p \in Slots : w.object[p].position = Unset <=> w.object[p].deadline = 0
  BY <1>2, <1>3 DEF Body, HeapIn, SameObject, SamePlace
<1>7. HeapIn(w)
  BY <1>1, <1>5, <1>6 DEF HeapIn
<1>8. ASSUME NEW p \in Slots PROVE Shape(w.object[p])
  <2>1. Shape(k.object[p])
    BY DEF Body
  <2>2. CASE p = o
    <3>1. FreeObject.deadline = 0
      BY DEF FreeObject
    <3> QED BY <1>3, <2>1, <2>2, <3>1 DEF Shape, SameCore, SameObject
  <2>3. CASE p # o
    BY <1>2, <2>1, <2>3 DEF Shape, SameObject
  <2> QED BY <2>2, <2>3
<1>9. \A p \in Slots : w.object[p].state = k.object[p].state /\ w.object[p].count = k.object[p].count
                       /\ w.object[p].references = k.object[p].references
                       /\ w.object[p].owner = k.object[p].owner
  BY <1>2, <1>3 DEF SameObject, SameCore
<1>10. \A p \in Slots : Quiet(k, p) => Quiet(w, p)
  BY <1>1, <1>9 DEF Quiet
<1>11. SameUse(k, w)
  BY <1>1, <1>9 DEF SameUse
<1> QED BY <1>1, <1>4, <1>7, <1>8, <1>10, <1>11 DEF Body

(* Arming an empty timer keeps the core of the invariant. *)
LEMMA ArmedCore ==
  ASSUME NEW k, NEW w, NEW o \in Slots, NEW d \in Nat \ {0}, Core(k), Armed(k, w, o, d),
         k.object[o].state = "LIVE", k.object[o].type = "TIMER", k.object[o].count = 0
  PROVE  Core(w) /\ SameUse(k, w) /\ w.panic = k.panic
<1>1. /\ k \in States /\ w \in States /\ w.queue = k.queue
      /\ w.thread = k.thread /\ w.process = k.process /\ w.handles = k.handles
      /\ w.panic = k.panic /\ Linked(w) /\ Ordered(w) /\ Len(w.heap) <= w.pages * PageEntries
  BY DEF Core, Body, Armed, Aside
<1>2. \A p \in Slots \ {o} : SameObject(k.object[p], w.object[p]) /\ SamePlace(k.object[p], w.object[p])
  BY DEF Armed, SameBut
<1>3. /\ SameCore(k.object[o], w.object[o])
      /\ w.object[o].deadline = d /\ w.object[o].position # Unset
  BY DEF Armed
<1>4. WaitsIn(w)
  BY <1>1 DEF Core, Body, WaitsIn, Matched, Housed
<1>5. \A p \in Slots : w.object[p].position = Unset <=> w.object[p].deadline = 0
  BY <1>2, <1>3 DEF Core, Body, HeapIn, SameObject, SamePlace
<1>6. HeapIn(w)
  BY <1>1, <1>5 DEF HeapIn
<1>7. ASSUME NEW p \in Slots PROVE Shape(w.object[p])
  <2>1. Shape(k.object[p])
    BY DEF Core, Body
  <2>2. CASE p = o
    BY <1>3, <2>1, <2>2 DEF Shape, SameCore
  <2>3. CASE p # o
    BY <1>2, <2>1, <2>3 DEF Shape, SameObject
  <2> QED BY <2>2, <2>3
<1>8. \A p \in Slots : w.object[p].state = k.object[p].state /\ w.object[p].count = k.object[p].count
                       /\ w.object[p].references = k.object[p].references
                       /\ w.object[p].owner = k.object[p].owner
  BY <1>2, <1>3 DEF SameObject, SameCore
<1>9. \A p \in Slots : Quiet(w, p)
  BY <1>1, <1>8 DEF Core, Quiet
<1>10. SameUse(k, w)
  BY <1>1, <1>8 DEF SameUse
<1> QED BY <1>1, <1>4, <1>6, <1>7, <1>9, <1>10 DEF Body, Core

----------------------------------------------------------------------------
(* Closing. *)

(* Closing an open object disarms it, and wakes all its waiters with the   *)
(* result (kernel_sync_close).                                             *)
LEMMA CloseObjectFacts ==
  ASSUME NEW k, NEW o \in Slots, NEW r \in {"CLOSED", "PEER_DEAD"}, Core(k)
  PROVE  \E w : /\ w = CloseObject(k, o, r)
                /\ \/ k.object[o].state # "LIVE" /\ w = k
                   \/ k.object[o].state = "LIVE" /\ Shut(k, w, o, r)
<1>1. CASE k.object[o].state # "LIVE"
  BY <1>1 DEF CloseObject, Live
<1>2. CASE k.object[o].state = "LIVE"
  <2>1. k \in States /\ Body(k) /\ HeapIn(k)
    BY DEF Core, Body
  <2>2. PICK j : j = TimerRemove(k, o) /\ Disarmed(k, j, o)
    BY <2>1, TimerRemoveFacts
  <2>3. /\ Body(j) /\ SameUse(k, j) /\ j.panic = k.panic
        /\ \A p \in Slots : Quiet(k, p) => Quiet(j, p)
    BY <2>1, <2>2, DisarmedCore
  <2>4. /\ j \in States /\ j.queue = k.queue /\ j.thread = k.thread
        /\ \A p \in Slots \ {o} : SameObject(k.object[p], j.object[p])
        /\ SameCore(k.object[o], j.object[o])
        /\ j.object[o].deadline = 0
    BY <2>2 DEF Disarmed, Aside, SameBut
  <2>5. PICK y \in ObjectRecords : y = j.object[o]
    BY <2>4, ObjectAt
  <2>6. PICK x : x = [y EXCEPT !.state = "CLOSING"]
    OBVIOUS
  <2>7. /\ x \in ObjectRecords /\ x.state = "CLOSING"
        /\ x.type = y.type /\ x.count = y.count /\ x.maximum = y.maximum
        /\ x.owner = y.owner /\ x.references = y.references
        /\ x.deadline = y.deadline /\ x.position = y.position
    BY <2>6, Put_state
  <2>8. PICK z : z = [x EXCEPT !.result = r]
    OBVIOUS
  <2>9. /\ z \in ObjectRecords /\ z.state = "CLOSING" /\ z.result = r
        /\ z.type = y.type /\ z.count = y.count /\ z.maximum = y.maximum
        /\ z.owner = y.owner /\ z.references = y.references
        /\ z.deadline = y.deadline /\ z.position = y.position
    <3>1. r \in Results
      BY DEF Results
    <3> QED BY <2>7, <2>8, <3>1, Put_result
  <2>10. PICK i : i = [j EXCEPT !.object[o] = z] /\ Put(j, i, o, z)
    BY <2>4, <2>9, PutFacts
  <2>11. i = [j EXCEPT !.object[o].state = "CLOSING", !.object[o].result = r]
    BY <2>5, <2>6, <2>8, <2>10
  <2>12. Shape(z)
    <3>1. y.type # "NONE" /\ y.references # 0
      BY <1>2, <2>4, <2>5 DEF SameCore, Core, Body, Shape
    <3>2. y.deadline = 0 /\ r # ""
      BY <2>4, <2>5
    <3> QED BY <2>9, <3>1, <3>2 DEF Shape
  <2>13. Body(i) /\ \A p \in Slots \ {o} : Quiet(j, p) => Quiet(i, p)
    BY <2>3, <2>5, <2>9, <2>10, <2>12, PutBody
  <2>14. \A p \in Slots \ {o} : Quiet(i, p)
    BY <2>3, <2>13 DEF Core
  <2>15. PICK w : /\ w = WakeAll(i, o, r) /\ Woken(i, w, WaitersOf(i, o), r, o)
                  /\ Outside(i, w) /\ Core(w)
    <3>1. r \in Results
      BY DEF Results
    <3> QED BY <2>13, <2>14, <3>1, WakeAllCore
  <2>16. w = CloseObject(k, o, r)
    BY <1>2, <2>2, <2>11, <2>15 DEF CloseObject, Live
  <2>17. /\ w.process = k.process /\ w.handles = k.handles /\ w.panic = k.panic
         /\ w.object[o] = z /\ \A p \in Slots \ {o} : w.object[p] = j.object[p]
    BY <2>2, <2>10, <2>15 DEF Outside, Put, Disarmed, Aside
  <2>18. ClosedObject(k.object[o], r, w.object[o])
    BY <2>4, <2>5, <2>9, <2>17 DEF ClosedObject, SameCore
  <2>19. \A p \in Slots \ {o} : SameObject(k.object[p], w.object[p])
    BY <2>4, <2>17
  <2>20. SameUse(k, w)
    BY <1>2, <2>17, <2>18, <2>19 DEF SameUse, ClosedObject, SameObject
  <2>21. i.queue = k.queue /\ i.thread = k.thread
    BY <2>4, <2>10 DEF Put
  <2>22. WaitersOf(i, o) = WaitersOf(k, o)
    BY <2>21 DEF WaitersOf
  <2>23. Left(k, w, WaitersOf(k, o)) /\ Rest(k, w, WaitersOf(k, o))
         /\ Told2(k, w, WaitersOf(k, o), r, o)
    BY <2>15, <2>21, <2>22 DEF Woken, Left, Rest, Told2
  <2>24. Shut(k, w, o, r)
    BY <2>15, <2>17, <2>18, <2>19, <2>20, <2>23 DEF Shut
  <2> QED BY <1>2, <2>16, <2>24
<1> QED BY <1>1, <1>2

(* The fields of a free object. *)
LEMMA FreeFields ==
  /\ FreeObject \in ObjectRecords /\ FreeObject.state = "FREE" /\ FreeObject.type = "NONE"
  /\ FreeObject.count = 0 /\ FreeObject.maximum = 0 /\ FreeObject.owner = Nobody
  /\ FreeObject.references = 0 /\ FreeObject.result = "" /\ FreeObject.deadline = 0
  /\ FreeObject.position = Unset /\ Shape(FreeObject)
<1>1. /\ FreeObject.state = "FREE" /\ FreeObject.type = "NONE"
      /\ FreeObject.count = 0 /\ FreeObject.maximum = 0 /\ FreeObject.owner = Nobody
      /\ FreeObject.references = 0 /\ FreeObject.result = "" /\ FreeObject.deadline = 0
      /\ FreeObject.position = Unset
  BY DEF FreeObject
<1>2. FreeObject \in ObjectRecords
  BY DEF FreeObject, ObjectRecords, Types, Results, Unset
<1>3. Shape(FreeObject)
  BY <1>1 DEF Shape, SameObject
<1> QED BY <1>1, <1>2, <1>3

(* A closed object that nobody waits for goes, and the metadata with the last. *)
LEMMA FreeFacts ==
  ASSUME NEW k \in States, NEW o \in Slots, Core(k), k.object[o].state = "CLOSING",
         NEW j, NEW x, Put(k, j, o, x), x.position = k.object[o].position
  PROVE  \E w : /\ w = FreeTheObject(j, o) /\ Core(w) /\ w.queue = k.queue /\ w.thread = k.thread
                /\ w.process = k.process /\ w.handles = k.handles /\ w.panic = k.panic
                /\ w.object[o] = FreeObject /\ \A p \in Slots \ {o} : w.object[p] = k.object[p]
<1>1. /\ j \in States /\ j.heap = k.heap /\ j.pages = k.pages /\ j.queue = k.queue
      /\ j.thread = k.thread /\ j.process = k.process
      /\ j.handles = k.handles /\ j.panic = k.panic
      /\ j.object[o] = x /\ \A p \in Slots \ {o} : j.object[p] = k.object[p]
  BY DEF Put
<1>2. PICK i : i = [j EXCEPT !.object[o] = FreeObject] /\ Put(j, i, o, FreeObject)
  BY <1>1, FreeFields, PutFacts
<1>3. /\ i \in States /\ i.heap = k.heap /\ i.pages = k.pages /\ i.queue = k.queue
      /\ i.thread = k.thread /\ i.process = k.process
      /\ i.handles = k.handles /\ i.panic = k.panic
      /\ i.object[o] = FreeObject /\ \A p \in Slots \ {o} : i.object[p] = k.object[p]
  BY <1>1, <1>2 DEF Put
<1>4. k.object[o].deadline = 0 /\ k.object[o].position = Unset
  BY DEF Core, Body, Shape, HeapIn
<1>5. Put(k, i, o, FreeObject)
  BY <1>3 DEF Put
<1>6. Body(i) /\ \A p \in Slots \ {o} : Quiet(k, p) => Quiet(i, p)
  <2>1. PICK f : f = FreeObject
    OBVIOUS
  <2>2. Shape(f) /\ f.position = k.object[o].position /\ f.deadline = k.object[o].deadline
    BY <1>4, <2>1, FreeFields
  <2>3. Put(k, i, o, f) /\ Body(k)
    BY <1>5, <2>1 DEF Core
  <2> QED BY <2>2, <2>3, PutBody
<1>7. \A e : ~In(e, k.queue[o])
  BY DEF Core, Quiet
<1>8. k.queue[o] = <<>>
  BY <1>7, QueueFacts
<1>9. Core(i)
  BY <1>3, <1>6, <1>7 DEF Core, Quiet
<1>10. j.object[o].position = Unset /\ j.queue[o] = <<>>
  BY <1>1, <1>4, <1>8
<1>11. CASE \A p \in Slots : i.object[p].state = "FREE"
  <2>1. PICK w : w = [i EXCEPT !.pages = 0]
    OBVIOUS
  <2>2. /\ w \in States /\ w.pages = 0
        /\ w.object = i.object /\ w.heap = i.heap /\ w.queue = i.queue
        /\ w.thread = i.thread /\ w.process = i.process
        /\ w.handles = i.handles /\ w.panic = i.panic
    BY <1>3, <2>1, Set_pages
  <2>3. w = FreeTheObject(j, o)
    BY <1>2, <1>10, <1>11, <2>1 DEF FreeTheObject, Check
  <2>4. PICK n \in Nat : /\ n = Len(i.heap) /\ DOMAIN i.heap = 1 .. n
                         /\ \A l \in 1 .. n : l \in Nat /\ i.heap[l] \in Slots
    BY <1>3, HeapFacts
  <2>5. n = 0
    <3> SUFFICES ASSUME n # 0 PROVE FALSE
      OBVIOUS
    <3>1. PICK p \in Slots : p = i.heap[1] /\ 1 \in 1 .. n
      BY <2>4
    <3>2. i.object[p].position = 1
      BY <1>9, <2>4, <3>1 DEF Core, Body, HeapIn, Linked
    <3>3. i.object[p].deadline # 0
      BY <1>9, <3>2 DEF Core, Body, HeapIn, Unset
    <3>4. i.object[p].state = "LIVE"
      BY <1>9, <3>3 DEF Core, Body, Shape
    <3> QED BY <1>11, <3>4
  <2>6. Len(w.heap) <= w.pages * PageEntries
    <3>1. PageEntries \in Nat
      BY SyncAssumption
    <3> QED BY <2>2, <2>4, <2>5, <3>1
  <2>7. Linked(w) /\ Ordered(w) /\ \A p \in Slots : w.object[p].position = Unset <=> w.object[p].deadline = 0
    BY <1>9, <2>2 DEF Core, Body, HeapIn, Linked, Ordered, InOrder, Less
  <2>8. HeapIn(w)
    BY <2>6, <2>7 DEF HeapIn
  <2>9. WaitsIn(w)
    BY <1>9, <2>2 DEF Core, Body, WaitsIn, Matched, Housed
  <2>10. \A p \in Slots : Shape(w.object[p]) /\ Quiet(w, p)
    BY <1>9, <2>2 DEF Core, Body, Quiet
  <2>11. Core(w)
    BY <2>2, <2>8, <2>9, <2>10 DEF Core, Body
  <2> QED BY <1>3, <2>2, <2>3, <2>11
<1>12. CASE ~(\A p \in Slots : i.object[p].state = "FREE")
  <2>1. PICK w : w = [i EXCEPT !.pages = i.pages]
    OBVIOUS
  <2>2. w = i
    BY <1>3, <2>1 DEF States
  <2>3. w = FreeTheObject(j, o)
    BY <1>2, <1>10, <1>12, <2>1 DEF FreeTheObject, Check
  <2> QED BY <1>3, <1>9, <2>2, <2>3
<1> QED BY <1>11, <1>12

----------------------------------------------------------------------------
(* Counting handles. *)

NotOf(count, p) == {e \in Numbered(count) : e[1] # p}

(* There are finitely many handles to an object. *)
LEMMA NumberedFinite ==
  ASSUME NEW count \in [Processes -> Nat]
  PROVE  IsFiniteSet(Numbered(count))
<1> DEFINE F == {{x} \X (1 .. count[x]) : x \in Processes}
           f == [x \in Processes |-> {x} \X (1 .. count[x])]
<1>1. IsFiniteSet(Processes)
  BY SyncAssumption
<1>2. f \in Surjection(Processes, F)
  BY DEF Surjection
<1>3. IsFiniteSet(F)
  <2> HIDE DEF f, F
  <2> QED BY <1>1, <1>2, FS_Surjection
<1>4. ASSUME NEW T \in F PROVE IsFiniteSet(T)
  <2>1. PICK x \in Processes : T = {x} \X (1 .. count[x])
    BY <1>4
  <2>2. PICK n \in Nat : n = count[x]
    OBVIOUS
  <2>3. IsFiniteSet({x})
    BY FS_Singleton
  <2>6. IsFiniteSet(1 .. n)
    BY FS_Interval
  <2>4. PICK A, B : A = {x} /\ B = 1 .. n
    OBVIOUS
  <2>5. IsFiniteSet(A \X B)
    BY <2>3, <2>4, <2>6, FS_Product
  <2> QED BY <2>1, <2>2, <2>4, <2>5
<1>5. Numbered(count) = UNION F
  BY DEF Numbered
<1>6. \A T \in F : IsFiniteSet(T)
  BY <1>4
<1> HIDE DEF F
<1> QED BY <1>3, <1>5, <1>6, FS_UNION

(* Numbered lists the handles of each process from 1. *)
LEMMA NumberedIs ==
  ASSUME NEW count \in [Processes -> Nat], NEW e
  PROVE  e \in Numbered(count) <=>
           \E x \in Processes : \E i \in 1 .. count[x] : e = <<x, i>>
BY DEF Numbered

(* The handles to an object are those of one process and those of the      *)
(* others.                                                                 *)
LEMMA CountSplit ==
  ASSUME NEW count \in [Processes -> Nat], NEW p \in Processes
  PROVE  /\ Cardinality(Numbered(count)) = Cardinality(NotOf(count, p)) + count[p]
         /\ Cardinality(NotOf(count, p)) \in Nat
<1>1. PICK N : N = Numbered(count)
  OBVIOUS
<1>2. PICK R \in SUBSET N : R = NotOf(count, p)
  BY <1>1 DEF NotOf
<1>3. PICK n \in Nat : n = count[p]
  OBVIOUS
<1>4. PICK A, B, P : A = {p} /\ B = 1 .. n /\ P = A \X B
  OBVIOUS
<1>5. IsFiniteSet(A) /\ Cardinality(A) = 1 /\ IsFiniteSet(B) /\ Cardinality(B) = n
  <2>1. IsFiniteSet(1 .. n) /\ Cardinality(1 .. n) = IF 1 > n THEN 0 ELSE n - 1 + 1
    BY FS_Interval
  <2>2. IsFiniteSet({p}) /\ Cardinality({p}) = 1
    BY FS_Singleton
  <2>3. Cardinality(1 .. n) = n
    BY <2>1
  <2> QED BY <1>4, <2>1, <2>2, <2>3
<1>6. IsFiniteSet(P) /\ Cardinality(P) = n
  <2>1. IsFiniteSet(A \X B) /\ Cardinality(A \X B) = Cardinality(A) * Cardinality(B)
    BY <1>5, FS_Product
  <2> QED BY <1>4, <1>5, <2>1
<1>7. IsFiniteSet(R) /\ Cardinality(R) \in Nat
  BY <1>1, <1>2, NumberedFinite, FS_Subset, FS_CardinalityType
<1>8. N = R \cup P
  <2>1. ASSUME NEW e \in N PROVE e \in R \cup P
    <3>1. PICK x \in Processes : \E i \in 1 .. count[x] : e = <<x, i>>
      BY <1>1, NumberedIs
    <3>2. CASE x = p
      BY <1>3, <1>4, <3>1, <3>2
    <3>3. CASE x # p
      BY <1>1, <1>2, <3>1, <3>3 DEF NotOf
    <3> QED BY <3>2, <3>3
  <2>2. ASSUME NEW e \in P PROVE e \in N
    <3>1. PICK i \in 1 .. count[p] : e = <<p, i>>
      BY <1>3, <1>4
    <3> QED BY <1>1, <3>1, NumberedIs
  <2> QED BY <1>2, <2>1, <2>2
<1>9. R \cap P = {}
  BY <1>2, <1>4 DEF NotOf
<1>10. Cardinality(R \cup P) = Cardinality(R) + Cardinality(P) - Cardinality(R \cap P)
  BY <1>6, <1>7, FS_Union
<1>11. Cardinality(R \cap P) = 0
  BY <1>9, FS_EmptySet
<1> QED BY <1>1, <1>2, <1>3, <1>6, <1>7, <1>8, <1>10, <1>11

(* If one process has more or fewer handles, the sum differs as much. *)
LEMMA CountChanged ==
  ASSUME NEW c \in [Processes -> Nat], NEW d \in [Processes -> Nat], NEW p \in Processes,
         \A q \in Processes \ {p} : d[q] = c[q]
  PROVE  /\ Cardinality(Numbered(c)) \in Nat /\ Cardinality(Numbered(d)) \in Nat
         /\ c[p] <= Cardinality(Numbered(c))
         /\ Cardinality(Numbered(d)) = Cardinality(Numbered(c)) - c[p] + d[p]
<1>1. NotOf(c, p) = NotOf(d, p)
  <2>1. ASSUME NEW e PROVE e \in NotOf(c, p) <=> e \in NotOf(d, p)
    <3>1. e \in NotOf(c, p) <=> \E x \in Processes \ {p} : \E i \in 1 .. c[x] : e = <<x, i>>
      BY NumberedIs DEF NotOf
    <3>2. e \in NotOf(d, p) <=> \E x \in Processes \ {p} : \E i \in 1 .. d[x] : e = <<x, i>>
      BY NumberedIs DEF NotOf
    <3> QED BY <3>1, <3>2
  <2> QED BY <2>1
<1>2. PICK m \in Nat : m = Cardinality(NotOf(c, p)) /\ Cardinality(Numbered(c)) = m + c[p]
  BY CountSplit
<1>3. Cardinality(Numbered(d)) = m + d[p]
  BY <1>1, <1>2, CountSplit
<1>4. c[p] \in Nat /\ d[p] \in Nat
  OBVIOUS
<1> QED BY <1>2, <1>3, <1>4

(* When there is no handle no process has one. *)
LEMMA NoHandles ==
  ASSUME NEW c \in [Processes -> Nat], Cardinality(Numbered(c)) = 0
  PROVE  \A p \in Processes : c[p] = 0
<1>1. Numbered(c) = {}
  BY NumberedFinite, FS_EmptySet
<1>2. ASSUME NEW p \in Processes, c[p] # 0 PROVE FALSE
  <2>1. 1 \in 1 .. c[p]
    BY <1>2
  <2>2. PICK e : e = <<p, 1>>
    OBVIOUS
  <2>3. e \in Numbered(c)
    BY <2>1, <2>2, NumberedIs
  <2> QED BY <1>1, <2>3
<1> QED BY <1>2

(* Counted, in terms of the handles of each process to the object. *)
LEMMA HandlesAt ==
  ASSUME NEW k \in States, NEW o \in Slots
  PROVE  /\ HandlesTo(k, o) \in [Processes -> Nat]
         /\ \A p \in Processes : HandlesTo(k, o)[p] = k.handles[p][o] /\ k.handles[p][o] \in Nat
         /\ Counted(k, o) <=> k.object[o].references = Cardinality(Numbered(HandlesTo(k, o)))
<1>1. k.handles \in [Processes -> [Slots -> Nat]]
  BY StateFields DEF HandleTables
<1>2. \A p \in Processes : k.handles[p][o] \in Nat
  BY <1>1
<1> QED BY <1>2 DEF HandlesTo, Counted

----------------------------------------------------------------------------
(* Releasing. *)

(* The core of the invariant does not depend on the handles and the panic. *)
LEMMA SameCoreGood ==
  ASSUME NEW k, NEW w \in States, Core(k), w.object = k.object, w.heap = k.heap,
         w.pages = k.pages, w.queue = k.queue, w.thread = k.thread, w.process = k.process
  PROVE  Core(w)
<1>1. SameHeap(k, w) /\ k \in States
  BY DEF SameHeap, Core, Body
<1>2. HeapIn(w)
  BY <1>1, SameHeapIn DEF Core, Body
<1>3. WaitsIn(w)
  BY DEF Core, Body, WaitsIn, Matched, Housed
<1> QED BY <1>2, <1>3 DEF Core, Body, Quiet

(* Closing handles keeps the core of the invariant, and closes and frees   *)
(* the object with the last reference (kernel_sync_handle_release).        *)
LEMMA ReleaseFacts ==
  ASSUME NEW k, NEW p \in Processes, NEW o \in Slots, NEW n \in Nat \ {0}, Core(k),
         n <= k.handles[p][o], k.handles[p][o] <= k.object[o].references
  PROVE  \E w : w = Release(k, p, o, n) /\ Released(k, w, p, o, n)
<1>1. k \in States
  BY DEF Core, Body
<1>2. k.handles \in [Processes -> [Slots -> Nat]] /\ k.handles[p][o] \in Nat
  <2>1. k.handles \in [Processes -> [Slots -> Nat]]
    BY <1>1, StateFields DEF HandleTables
  <2> QED BY <2>1
<1>3. PICK m \in Nat : m = k.handles[p][o] - n
  BY <1>2
<1>4. PICK v : v = [k.handles EXCEPT ![p][o] = @ - n]
  OBVIOUS
<1>5. v \in HandleTables
  BY <1>2, <1>3, <1>4 DEF HandleTables
<1>6. PICK j : j = [k EXCEPT !.handles = v]
  OBVIOUS
<1>7. /\ j \in States /\ j.handles = v
      /\ j.object = k.object /\ j.heap = k.heap /\ j.pages = k.pages /\ j.queue = k.queue
      /\ j.thread = k.thread /\ j.process = k.process /\ j.panic = k.panic
  BY <1>1, <1>5, <1>6, Set_handles
<1>8. j = [k EXCEPT !.handles[p][o] = @ - n]
  BY <1>4, <1>6
<1>9. Core(j)
  BY <1>7, SameCoreGood
<1>10. PICK y \in ObjectRecords : y = k.object[o]
  BY <1>1, ObjectAt
<1>11. y.references \in Nat /\ y.references >= n
  BY <1>2, <1>10, ObjectFields
<1>12. Shape(y)
  BY <1>10 DEF Core, Body
<1>13. CASE y.references > n
  <2>1. PICK l \in Nat : l = y.references - n
    BY <1>11
  <2>2. PICK x : x = [y EXCEPT !.references = l]
    OBVIOUS
  <2>3. /\ x \in ObjectRecords /\ x.references = l
        /\ x.state = y.state /\ x.type = y.type /\ x.count = y.count
        /\ x.maximum = y.maximum /\ x.owner = y.owner /\ x.result = y.result
        /\ x.deadline = y.deadline /\ x.position = y.position
    BY <2>2, Put_references
  <2>4. PICK w : w = [j EXCEPT !.object[o] = x] /\ Put(j, w, o, x)
    BY <1>7, <2>3, PutFacts
  <2>5. w = Release(k, p, o, n)
    BY <1>7, <1>8, <1>10, <1>13, <2>1, <2>2, <2>4 DEF Release
  <2>6. Shape(x)
    <3>1. l # 0 /\ y.references # 0
      BY <1>11, <1>13, <2>1
    <3> QED BY <1>12, <2>3, <3>1 DEF Shape
  <2>7. Body(w) /\ \A q \in Slots \ {o} : Quiet(j, q) => Quiet(w, q)
    <3>1. Body(j)
      BY <1>9 DEF Core
    <3> QED BY <1>7, <1>10, <2>3, <2>4, <2>6, <3>1, PutBody
  <2>8. Quiet(w, o)
    BY <1>7, <1>9, <1>10, <2>3, <2>4 DEF Core, Quiet, Put
  <2>9. Core(w)
    BY <1>9, <2>7, <2>8 DEF Core
  <2>10. \A q \in Slots \ {o} : SameObject(k.object[q], w.object[q])
    BY <1>7, <2>4 DEF Put, SameObject
  <2>11. Reduced(k.object[o], w.object[o])
    BY <1>10, <2>3, <2>4 DEF Reduced, Put
  <2>12. Released(k, w, p, o, n)
    BY <1>4, <1>7, <1>10, <1>13, <2>1, <2>3, <2>4, <2>9, <2>10, <2>11 DEF Released, Put
  <2> QED BY <2>5, <2>12
<1>14. CASE ~(y.references > n)
  <2>1. y.references = n
    BY <1>11, <1>14
  <2>2. PICK i : /\ i = CloseObject(j, o, "CLOSED")
                 /\ \/ j.object[o].state # "LIVE" /\ i = j
                    \/ j.object[o].state = "LIVE" /\ Shut(j, i, o, "CLOSED")
    BY <1>9, CloseObjectFacts
  <2>3. Core(i) /\ i.object[o].state = "CLOSING" /\ i \in States
        /\ i.process = k.process /\ i.handles = v /\ i.panic = k.panic
        /\ \A q \in Slots \ {o} : SameObject(k.object[q], i.object[q])
    <3>1. CASE j.object[o].state # "LIVE" /\ i = j
      <4>1. y.state = "CLOSING"
        BY <1>7, <1>10, <1>12, <2>1, <3>1, ObjectFields DEF Shape
      <4> QED BY <1>7, <1>9, <1>10, <3>1, <4>1 DEF SameObject
    <3>2. CASE Shut(j, i, o, "CLOSED")
      BY <1>7, <3>2 DEF Shut, ClosedObject, SameUse, Core, Body
    <3> QED BY <2>2, <3>1, <3>2
  <2>4. PICK z \in ObjectRecords : z = i.object[o]
    BY <2>3, ObjectAt
  <2>5. PICK x : x = [z EXCEPT !.references = 0]
    OBVIOUS
  <2>6. x \in ObjectRecords /\ x.position = i.object[o].position
    BY <2>4, <2>5, Put_references
  <2>7. PICK h : h = [i EXCEPT !.object[o] = x] /\ Put(i, h, o, x)
    BY <2>3, <2>6, PutFacts
  <2>8. PICK w : /\ w = FreeTheObject(h, o) /\ Core(w)
                 /\ w.queue = i.queue /\ w.thread = i.thread
                 /\ w.process = i.process /\ w.handles = i.handles /\ w.panic = i.panic
                 /\ w.object[o] = FreeObject /\ \A q \in Slots \ {o} : w.object[q] = i.object[q]
    BY <2>3, <2>6, <2>7, FreeFacts
  <2>9. w = Release(k, p, o, n)
    <3>1. h = [CloseObject(j, o, "CLOSED") EXCEPT !.object[o].references = 0]
      BY <2>2, <2>4, <2>5, <2>7
    <3>2. ~(k.object[o].references > n)
      BY <1>10, <1>14
    <3> QED BY <1>8, <2>8, <3>1, <3>2 DEF Release
  <2>10. w.object[o].references = k.object[o].references - n
    <3>1. w.object[o].references = 0
      BY <2>8, FreeFields
    <3>2. k.object[o].references = n /\ n - n = 0
      BY <1>10, <2>1
    <3> QED BY <3>1, <3>2
  <2>11. \A q \in Slots \ {o} : SameObject(k.object[q], w.object[q])
    BY <2>3, <2>8
  <2>12. Released(k, w, p, o, n)
    <3>1. CASE j.object[o].state # "LIVE" /\ i = j
      BY <1>4, <1>7, <1>10, <2>1, <2>3, <2>8, <2>10, <2>11, <3>1 DEF Released
    <3>2. CASE j.object[o].state = "LIVE" /\ Shut(j, i, o, "CLOSED")
      <4>1. WaitersOf(j, o) = WaitersOf(k, o)
        BY <1>7 DEF WaitersOf
      <4>2. /\ Left(k, w, WaitersOf(k, o)) /\ Rest(k, w, WaitersOf(k, o))
            /\ Told2(k, w, WaitersOf(k, o), "CLOSED", o)
        BY <1>7, <2>8, <3>2, <4>1 DEF Shut, Left, Rest, Told2
      <4> QED BY <1>4, <1>7, <1>10, <2>1, <2>3, <2>8, <2>10, <2>11, <3>2, <4>2 DEF Released
    <3> QED BY <2>2, <3>1, <3>2
  <2> QED BY <2>9, <2>12
<1> QED BY <1>13, <1>14

(* Closing handles takes as many references, so the references stay        *)
(* counted.                                                                *)
LEMMA ReleasedGood ==
  ASSUME NEW k, NEW w, NEW p \in Processes, NEW o \in Slots, NEW n \in Nat \ {0}, Good(k),
         n <= k.handles[p][o], Released(k, w, p, o, n)
  PROVE  Good(w)
<1>1. k \in States /\ w \in States /\ w.process = k.process
  BY DEF Good, Core, Body, Released
<1>2. w.handles = [k.handles EXCEPT ![p][o] = @ - n] /\ k.handles \in [Processes -> [Slots -> Nat]]
  BY <1>1, StateFields DEF Released, HandleTables
<1>3. ASSUME NEW q \in Slots PROVE Owned(w, q)
  <2>1. Owned(k, q)
    BY DEF Good
  <2>2. CASE q # o
    BY <1>1, <2>1, <2>2 DEF Owned, Released, SameObject
  <2>3. CASE q = o /\ w.object[o] = FreeObject
    BY <2>3, FreeFields DEF Owned
  <2>4. CASE q = o /\ Reduced(k.object[o], w.object[o])
    BY <1>1, <2>1, <2>4 DEF Owned, Reduced
  <2> QED BY <2>2, <2>3, <2>4 DEF Released
<1>4. ASSUME NEW q \in Slots PROVE Counted(w, q)
  <2>1. PICK c \in [Processes -> Nat], d \in [Processes -> Nat] : c = HandlesTo(k, q) /\ d = HandlesTo(w, q)
    BY <1>1, HandlesAt
  <2>2. /\ \A x \in Processes : c[x] = k.handles[x][q] /\ d[x] = w.handles[x][q]
        /\ k.object[q].references = Cardinality(Numbered(c))
    BY <1>1, <2>1, HandlesAt DEF Good
  <2>3. \A x \in Processes \ {p} : d[x] = c[x]
    BY <1>2, <2>2
  <2>4. /\ Cardinality(Numbered(c)) \in Nat
        /\ Cardinality(Numbered(d)) = Cardinality(Numbered(c)) - c[p] + d[p]
    BY <2>1, <2>3, CountChanged
  <2>5. c[p] \in Nat /\ d[p] \in Nat
    OBVIOUS
  <2>6. CASE q # o
    <3>1. d[p] = c[p]
      BY <1>2, <2>2, <2>6
    <3>2. w.object[q].references = k.object[q].references
      BY <2>6 DEF Released, SameObject
    <3> QED BY <1>1, <2>1, <2>2, <2>4, <2>5, <3>1, <3>2, HandlesAt
  <2>7. CASE q = o
    <3>1. d[p] = c[p] - n
      BY <1>2, <2>2, <2>7
    <3>2. w.object[q].references = k.object[q].references - n
      BY <2>7 DEF Released
    <3>3. w.object[q].references = Cardinality(Numbered(d))
      BY <2>2, <2>4, <2>5, <3>1, <3>2
    <3> QED BY <1>1, <2>1, <3>3, HandlesAt
  <2> QED BY <2>6, <2>7
<1> QED BY <1>3, <1>4 DEF Good, Released

(* A process has no more handles to an object than there are. *)
LEMMA HandlesBound ==
  ASSUME NEW k, Good(k), NEW p \in Processes, NEW o \in Slots
  PROVE  k.handles[p][o] \in Nat /\ k.handles[p][o] <= k.object[o].references
<1>1. k \in States
  BY DEF Good, Core, Body
<1>2. PICK c \in [Processes -> Nat] : c = HandlesTo(k, o)
  BY <1>1, HandlesAt
<1>3. c[p] <= Cardinality(Numbered(c))
  BY CountChanged
<1> QED BY <1>1, <1>2, <1>3, HandlesAt DEF Good

(* The threads of p are dead, and so is p. *)
Dying(k, w, p) ==
  /\ Core(w) /\ w.object = k.object /\ w.handles = k.handles /\ w.panic = k.panic
  /\ w.process[p] = "DEAD" /\ \A q \in Processes \ {p} : w.process[q] = k.process[q]
  /\ Gone(k, w, {u \in Threads : ProcessOf[u] = p})
  /\ \A u \in Threads : ProcessOf[u] = p => w.thread[u] = AtWork("DEAD")

Became(k, w, p, s) ==
  /\ w = [k EXCEPT !.process[p] = s] /\ Good(w)
  /\ w.panic = k.panic /\ w.thread = k.thread /\ w.object = k.object /\ w.process[p] = s

----------------------------------------------------------------------------
(* What is seen of a step. *)

(* Two objects look the same. *)
Like(x, y) ==
  /\ y.type = x.type /\ y.count = x.count /\ y.maximum = x.maximum
  /\ y.result = x.result /\ y.deadline = x.deadline

(* The object x has been closed with r, or is gone. *)
Finished(x, r, y) ==
  \/ x.type # "NONE" /\ Like(FreeObject, y)
  \/ /\ x.result = "" /\ y.result = r /\ y.deadline = 0
     /\ y.type = x.type /\ y.count = x.count /\ y.maximum = x.maximum

(* The timer x was due in d ticks, and has expired. *)
Expired(x, y, d) ==
  /\ x.deadline \in 1 .. d /\ x.type = "TIMER" /\ x.result = ""
  /\ y.deadline = 0 /\ y.count = 1
  /\ y.type = x.type /\ y.maximum = x.maximum /\ y.result = x.result

Listeners(k, S) ==
  {t \in Threads : \E i \in DOMAIN k.thread[t].members : k.thread[t].members[i] \in S}

Answered(x, y, r, S) == \E i \in DOMAIN x.members : x.members[i] \in S /\ y = Told(r, i)

(* The threads of T are told r of an object of S, the others nothing. *)
Heard(k, w, T, r, S) ==
  /\ T \subseteq Threads
  /\ \A t \in T : Answered(k.thread[t], w.thread[t], r, S)
  /\ Rest(k, w, T)

(* The objects of S are closed or gone. *)
Swept(k, w, r, S) ==
  /\ S \subseteq Slots /\ Heard(k, w, Listeners(k, S), r, S)
  /\ \A o \in Slots \ S : Like(k.object[o], w.object[o])
  /\ \A o \in S : Finished(k.object[o], r, w.object[o])

(* The timers of S have expired. *)
Rang(k, w, S, d) ==
  /\ S \subseteq Slots /\ Heard(k, w, Listeners(k, S), "OK", S)
  /\ \A o \in Slots \ S : Like(k.object[o], w.object[o])
  /\ \A o \in S : Expired(k.object[o], w.object[o], d)

(* What is told of a thread that ends its wait. *)
LEMMA ToldIs ==
  ASSUME NEW r, NEW i
  PROVE  /\ Told(r, i).members = <<>> /\ Told(r, i).deadline = 0
         /\ Told(r, i).outcome = <<r, i>> /\ Told(r, i).state = "READY"
BY DEF Told, AtWork

(* The registrations at an object are those of the threads that wait for   *)
(* it.                                                                     *)
LEMMA WaitersListen ==
  ASSUME NEW k \in States, Matched(k), NEW o \in Slots
  PROVE  WaitersOf(k, o) = Listeners(k, {o})
<1>1. ASSUME NEW t \in Threads
      PROVE  t \in WaitersOf(k, o) <=> t \in Listeners(k, {o})
  <2>1. \A i \in Nat : In(<<t, i>>, k.queue[o]) <=>
          i \in DOMAIN k.thread[t].members /\ k.thread[t].members[i] = o
    BY DEF Matched
  <2>2. DOMAIN k.thread[t].members \subseteq Nat
    <3>1. PICK s \in Seq(Slots) : s = k.thread[t].members
      BY ThreadAt, ThreadFields
    <3> QED BY <3>1
  <2> QED BY <2>1, <2>2 DEF WaitersOf, Listeners
<1> QED BY <1>1 DEF WaitersOf, Listeners

(* Whoever is woken at an object is told of it. *)
LEMMA WokenHeard ==
  ASSUME NEW k \in States, Matched(k), NEW o \in Slots, NEW j, j.queue = k.queue,
         j.thread = k.thread, NEW T, NEW w, NEW r, T \subseteq Threads,
         Rest(j, w, T), Told2(j, w, T, r, o)
  PROVE  Heard(k, w, T, r, {o})
<1>1. ASSUME NEW t \in T PROVE Answered(k.thread[t], w.thread[t], r, {o})
  <2>1. PICK i \in Nat : w.thread[t] = Told(r, i) /\ In(<<t, i>>, k.queue[o]) /\ t \in Threads
    BY DEF Told2
  <2>2. i \in DOMAIN k.thread[t].members /\ k.thread[t].members[i] = o
    BY <2>1 DEF Matched
  <2> QED BY <2>1, <2>2 DEF Answered
<1>2. Rest(k, w, T)
  BY DEF Rest
<1> QED BY <1>1, <1>2 DEF Heard

(* When nobody is told anything nothing is heard. *)
LEMMA HeardNothing ==
  ASSUME NEW k, NEW w, w.thread = k.thread, NEW r
  PROVE  Heard(k, w, {}, r, {}) /\ Heard(k, w, Listeners(k, {}), r, {})
<1>1. Listeners(k, {}) = {}
  BY DEF Listeners
<1>2. Heard(k, w, {}, r, {})
  BY DEF Heard, Rest
<1> QED BY <1>1, <1>2

(* Who has been told of some objects is not told of others. *)
LEMMA HeardTwice ==
  ASSUME NEW k, NEW x, NEW y, NEW r, NEW S, NEW Z,
         Heard(k, x, Listeners(k, S), r, S), Heard(x, y, Listeners(x, Z), r, Z)
  PROVE  Heard(k, y, Listeners(k, S \cup Z), r, S \cup Z)
<1>1. PICK L : L = Listeners(k, S)
  OBVIOUS
<1>2. PICK M : M = Listeners(x, Z)
  OBVIOUS
<1>3. PICK N : N = Listeners(k, S \cup Z)
  OBVIOUS
<1>4. ASSUME NEW t \in L
      PROVE  /\ t \notin M /\ t \in N /\ t \in Threads
             /\ Answered(k.thread[t], y.thread[t], r, S \cup Z)
  <2>1. PICK i \in DOMAIN k.thread[t].members :
          k.thread[t].members[i] \in S /\ x.thread[t] = Told(r, i)
    BY <1>1 DEF Heard, Answered
  <2>2. x.thread[t].members = <<>> /\ x.thread[t].deadline = 0
    BY <2>1, ToldIs
  <2>3. t \notin M /\ t \in Threads /\ t \in N
    <3>1. DOMAIN <<>> = {}
      OBVIOUS
    <3> QED BY <1>1, <1>2, <1>3, <2>1, <2>2, <3>1 DEF Listeners
  <2>4. y.thread[t] = x.thread[t]
    BY <1>2, <2>3 DEF Heard, Rest
  <2> QED BY <2>1, <2>3, <2>4 DEF Answered
<1>5. ASSUME NEW t \in M \ L
      PROVE  t \in N /\ t \in Threads /\ Answered(k.thread[t], y.thread[t], r, S \cup Z)
  <2>1. PICK i \in DOMAIN x.thread[t].members :
          x.thread[t].members[i] \in Z /\ y.thread[t] = Told(r, i)
    BY <1>2, <1>5 DEF Heard, Answered
  <2>2. t \in Threads /\ x.thread[t] = k.thread[t]
    BY <1>1, <1>2, <1>5 DEF Heard, Rest, Listeners
  <2> QED BY <1>3, <2>1, <2>2 DEF Listeners, Answered
<1>6. ASSUME NEW t \in Threads, t \notin L, t \notin M
      PROVE  t \notin N /\ y.thread[t] = k.thread[t]
  <2>1. x.thread[t] = k.thread[t] /\ y.thread[t] = x.thread[t]
    BY <1>1, <1>2, <1>6 DEF Heard, Rest
  <2> QED BY <1>1, <1>2, <1>3, <1>6, <2>1 DEF Listeners
<1>7. N \subseteq Threads
  BY <1>3 DEF Listeners
<1> QED BY <1>3, <1>4, <1>5, <1>6, <1>7 DEF Heard, Rest

(* Sweeping one object after another. *)
LEMMA SweptTwice ==
  ASSUME NEW k, NEW x, NEW y, NEW r, NEW S, NEW Z,
         Swept(k, x, r, S), Swept(x, y, r, Z), S \cap Z = {}
  PROVE  Swept(k, y, r, S \cup Z)
<1>1. Heard(k, y, Listeners(k, S \cup Z), r, S \cup Z)
  BY HeardTwice DEF Swept
<1>2. ASSUME NEW o \in Slots \ (S \cup Z) PROVE Like(k.object[o], y.object[o])
  BY DEF Swept, Like
<1>3. ASSUME NEW o \in S PROVE Finished(k.object[o], r, y.object[o])
  BY DEF Swept, Like, Finished
<1>4. ASSUME NEW o \in Z PROVE Finished(k.object[o], r, y.object[o])
  BY DEF Swept, Like, Finished
<1> QED BY <1>1, <1>2, <1>3, <1>4 DEF Swept

(* Nothing is swept when nothing changes to be seen. *)
LEMMA SweptNothing ==
  ASSUME NEW k, NEW w, NEW r, w.thread = k.thread, \A o \in Slots : Like(k.object[o], w.object[o])
  PROVE  Swept(k, w, r, {})
BY HeardNothing DEF Swept

(* Timers expiring one after another. *)
LEMMA RangTwice ==
  ASSUME NEW k, NEW x, NEW y, NEW d, NEW S, NEW Z, Rang(k, x, S, d), Rang(x, y, Z, d)
  PROVE  Rang(k, y, S \cup Z, d)
<1>1. Heard(k, y, Listeners(k, S \cup Z), "OK", S \cup Z)
  BY HeardTwice DEF Rang
<1>2. ASSUME NEW o \in Slots \ (S \cup Z) PROVE Like(k.object[o], y.object[o])
  BY DEF Rang, Like
<1>3. S \cap Z = {}
  <2> SUFFICES ASSUME NEW o \in S, o \in Z PROVE FALSE
    OBVIOUS
  <2>1. x.object[o].deadline = 0 /\ x.object[o].deadline \in 1 .. d
    BY DEF Rang, Expired
  <2> QED BY <2>1
<1>4. ASSUME NEW o \in S PROVE Expired(k.object[o], y.object[o], d)
  BY <1>3 DEF Rang, Like, Expired
<1>5. ASSUME NEW o \in Z PROVE Expired(k.object[o], y.object[o], d)
  BY <1>3 DEF Rang, Like, Expired
<1> QED BY <1>1, <1>2, <1>4, <1>5 DEF Rang

(* No timer rings when nothing changes. *)
LEMMA RangNothing ==
  ASSUME NEW k, NEW d
  PROVE  Rang(k, k, {}, d)
BY HeardNothing DEF Rang, Like

(* A closed object is one that is swept. *)
LEMMA ShutSwept ==
  ASSUME NEW k, NEW w, NEW o \in Slots, NEW r, Core(k), k.object[o].state = "LIVE", Shut(k, w, o, r)
  PROVE  Swept(k, w, r, {o})
<1>1. /\ k \in States /\ Matched(k) /\ Shape(k.object[o])
  BY DEF Core, Body, WaitsIn
<1>2. PICK T : T = WaitersOf(k, o) /\ T = Listeners(k, {o})
  BY <1>1, WaitersListen
<1>3. T \subseteq Threads /\ Rest(k, w, T) /\ Told2(k, w, T, r, o)
  BY <1>2 DEF Shut, WaitersOf
<1>4. Heard(k, w, T, r, {o})
  BY <1>1, <1>3, WokenHeard
<1>5. Finished(k.object[o], r, w.object[o])
  BY <1>1 DEF Shut, Shape, ClosedObject, Finished
<1>6. \A p \in Slots \ {o} : Like(k.object[p], w.object[p])
  BY DEF Shut, SameObject, Like
<1> QED BY <1>2, <1>4, <1>5, <1>6 DEF Swept

(* Handles that are closed sweep their object, or nothing. *)
LEMMA ReleasedSwept ==
  ASSUME NEW k, NEW w, NEW p \in Processes, NEW o \in Slots, NEW n \in Nat \ {0}, Core(k),
         Released(k, w, p, o, n)
  PROVE  Swept(k, w, "CLOSED", {}) \/ Swept(k, w, "CLOSED", {o})
<1>1. /\ k \in States /\ Matched(k) /\ Shape(k.object[o]) /\ Quiet(k, o)
  BY DEF Core, Body, WaitsIn
<1>2. \A q \in Slots \ {o} : Like(k.object[q], w.object[q])
  BY DEF Released, SameObject, Like
<1>3. CASE Reduced(k.object[o], w.object[o]) /\ w.thread = k.thread
  <2>1. Like(k.object[o], w.object[o])
    BY <1>3 DEF Reduced, Like
  <2> QED BY <1>2, <1>3, <2>1, SweptNothing
<1>4. CASE k.object[o].references = n /\ w.object[o] = FreeObject
  <2>1. k.object[o].type # "NONE"
    <3>1. k.object[o].state # "FREE"
      BY <1>1, <1>4 DEF Shape
    <3>2. k.object[o].state \in {"FREE", "LIVE", "CLOSING"}
      BY <1>1, ObjectAt, ObjectFields
    <3> QED BY <1>1, <3>1, <3>2 DEF Shape
  <2>2. Finished(k.object[o], "CLOSED", w.object[o])
    BY <1>4, <2>1 DEF Finished, Like
  <2>3. PICK T : T = WaitersOf(k, o) /\ T = Listeners(k, {o})
    BY <1>1, WaitersListen
  <2>4. T \subseteq Threads /\ Rest(k, w, T) /\ Told2(k, w, T, "CLOSED", o)
    <3>1. CASE k.object[o].state # "LIVE" /\ w.thread = k.thread
      <4>1. \A e : ~In(e, k.queue[o])
        BY <1>1, <3>1 DEF Quiet
      <4>2. T = {}
        BY <2>3, <4>1 DEF WaitersOf
      <4> QED BY <3>1, <4>2 DEF Rest, Told2
    <3>2. CASE LET W == WaitersOf(k, o) IN Rest(k, w, W) /\ Told2(k, w, W, "CLOSED", o)
      BY <2>3, <3>2 DEF WaitersOf
    <3> QED BY <1>4, <3>1, <3>2 DEF Released
  <2>5. Heard(k, w, T, "CLOSED", {o})
    BY <1>1, <2>4, WokenHeard
  <2> QED BY <1>2, <2>2, <2>3, <2>5 DEF Swept
<1> QED BY <1>3, <1>4 DEF Released
----------------------------------------------------------------------------
(* Processes end. *)

(* A thread at work waits for nothing. *)
LEMMA AtWorkFacts ==
  ASSUME NEW s \in {"READY", "BLOCKED", "DEAD"}
  PROVE  /\ AtWork(s) \in ThreadRecords /\ AtWork(s).state = s /\ AtWork(s).members = <<>>
         /\ AtWork(s).deadline = 0 /\ AtWork(s).outcome = None
<1>1. PICK x : x = [state |-> s, members |-> <<>>, deadline |-> 0, outcome |-> None]
  OBVIOUS
<1>2. AtWork(s) = x
  BY <1>1 DEF AtWork
<1>3. x.state = s /\ x.members = <<>> /\ x.deadline = 0 /\ x.outcome = None
  BY <1>1
<1>4. None \in Results \X Nat /\ <<>> \in Seq(Slots)
  <2>1. PICK r \in Results : r = ""
    BY DEF Results
  <2>2. <<r, 0>> \in Results \X Nat
    OBVIOUS
  <2>3. <<>> \in Seq(Slots)
    OBVIOUS
  <2> QED BY <2>1, <2>2, <2>3 DEF None
<1>5. x \in ThreadRecords
  BY <1>1, <1>4 DEF ThreadRecords
<1> QED BY <1>2, <1>3, <1>5

(* The threads of a process end, and their registrations with them         *)
(* (retire_process).                                                       *)
LEMMA EndThreadsFacts ==
  ASSUME NEW k, NEW p \in Processes, Core(k)
  PROVE  \E w : w = EndThreads(k, p) /\ Dying(k, w, p)
<1>1. k \in States
  BY DEF Core, Body
<1>2. PICK T \in SUBSET Threads : T = {u \in Threads : ProcessOf[u] = p}
  OBVIOUS
<1>3. PICK j : Pulled(k, j, T)
  BY <1>1, WithdrawnFacts
<1>4. /\ j = Withdrawn(k, T) /\ j \in States /\ j.thread = k.thread /\ Left(k, j, T)
      /\ j.object = k.object /\ j.heap = k.heap /\ j.pages = k.pages
      /\ j.process = k.process /\ j.handles = k.handles /\ j.panic = k.panic
  BY <1>3 DEF Pulled, Outside
<1>5. PICK v : v = [k.process EXCEPT ![p] = "DEAD"]
  OBVIOUS
<1>6. v \in ProcessTables /\ v[p] = "DEAD" /\ \A q \in Processes \ {p} : v[q] = k.process[q]
  BY <1>1, <1>5, StateFields DEF ProcessTables
<1>7. PICK i : i = [j EXCEPT !.process = v]
  OBVIOUS
<1>8. /\ i \in States /\ i.process = v
      /\ i.object = k.object /\ i.heap = k.heap /\ i.pages = k.pages
      /\ i.queue = j.queue /\ i.thread = k.thread
      /\ i.handles = k.handles /\ i.panic = k.panic
  BY <1>4, <1>6, <1>7, Set_process
<1>9. PICK dead \in ThreadRecords : /\ dead = AtWork("DEAD") /\ dead.state = "DEAD"
                                    /\ dead.members = <<>> /\ dead.deadline = 0
  BY AtWorkFacts
<1>10. PICK u : u = [x \in Threads |-> IF x \in T THEN dead ELSE k.thread[x]]
  OBVIOUS
<1>11. /\ u \in ThreadTables /\ \A x \in T : u[x] = dead
       /\ \A x \in Threads \ T : u[x] = k.thread[x]
  BY <1>1, <1>10, ThreadAt DEF ThreadTables
<1>12. PICK w : w = [i EXCEPT !.thread = u]
  OBVIOUS
<1>13. /\ w \in States /\ w.thread = u
       /\ w.object = k.object /\ w.heap = k.heap /\ w.pages = k.pages
       /\ w.queue = j.queue /\ w.process = v
       /\ w.handles = k.handles /\ w.panic = k.panic
  BY <1>8, <1>11, <1>12, Set_thread
<1>14. w = EndThreads(k, p)
  <2>1. EndThreads(k, p) = [j EXCEPT !.process[p] = "DEAD",
                                     !.thread = [x \in Threads |-> IF x \in T THEN dead ELSE @[x]]]
    BY <1>2, <1>4, <1>9 DEF EndThreads
  <2> QED BY <1>4, <1>5, <1>7, <1>10, <1>12, <2>1
<1>15. Gone(k, w, T)
  <2>1. Left(k, w, T)
    BY <1>4, <1>13 DEF Left
  <2>2. Rest(k, w, T)
    BY <1>11, <1>13 DEF Rest
  <2> QED BY <1>9, <1>11, <1>13, <2>1, <2>2 DEF Gone
<1>16. Matched(w) /\ \A t \in Threads : Sane(w.thread[t])
  BY <1>1, <1>15, GoneWaits DEF Core, Body
<1>17. Housed(w)
  <2> SUFFICES ASSUME NEW t \in Threads, w.thread[t].state # "DEAD"
               PROVE  w.process[ProcessOf[t]] = "RUNNING"
    BY DEF Housed
  <2>1. t \notin T
    BY <1>9, <1>11, <1>13
  <2>2. ProcessOf[t] # p /\ ProcessOf[t] \in Processes
    BY <1>2, <2>1, SyncAssumption
  <2>3. k.thread[t].state # "DEAD"
    BY <1>11, <1>13, <2>1
  <2>4. k.process[ProcessOf[t]] = "RUNNING"
    BY <2>3 DEF Core, Body, WaitsIn, Housed
  <2> QED BY <1>6, <1>13, <2>2, <2>4
<1>18. HeapIn(w)
  <2>1. SameHeap(k, w)
    BY <1>13 DEF SameHeap
  <2> QED BY <1>1, <2>1, SameHeapIn DEF Core, Body
<1>19. \A o \in Slots : Shape(w.object[o]) /\ Quiet(w, o)
  BY <1>13, <1>15 DEF Core, Body, Quiet, Gone, Left
<1>20. Core(w)
  BY <1>13, <1>16, <1>17, <1>18, <1>19 DEF Core, Body, WaitsIn
<1>21. \A x \in Threads : ProcessOf[x] = p => w.thread[x] = AtWork("DEAD")
  BY <1>2, <1>9, <1>11, <1>13
<1>22. Gone(k, w, {x \in Threads : ProcessOf[x] = p})
  BY <1>2, <1>15
<1>23. Dying(k, w, p)
  BY <1>6, <1>13, <1>20, <1>21, <1>22 DEF Dying
<1> QED BY <1>14, <1>23

(* A process that retires keeps the invariant: every object it made is     *)
(* closed before anyone else runs (kernel_sync_owner_died).                *)
LEMMA RetireFacts ==
  ASSUME NEW k, NEW p \in Processes, Good(k)
  PROVE  \E w, e, S : /\ w = Retire(k, p) /\ Good(w) /\ w.panic = k.panic
                      /\ Dying(k, e, p) /\ Swept(e, w, "PEER_DEAD", S)
<1>1. PICK n \in Nat : n = ObjectSlots
  BY SyncAssumption
<1>2. PICK f : RetireRun(f, k, p, n)
  BY <1>1, RetireRounds
<1>3. /\ f[0] = EndThreads(k, p) /\ \A i \in 1 .. n : f[i] = RetireStep(f[i - 1], p, i)
      /\ Retire(k, p) = f[n]
  BY <1>2 DEF RetireRun
<1>4. PICK e : e = f[0] /\ Dying(k, e, p)
  BY <1>3, EndThreadsFacts DEF Good
<1>5. /\ Core(e) /\ e.object = k.object /\ e.handles = k.handles /\ e.panic = k.panic
      /\ e.process[p] = "DEAD" /\ \A q \in Processes \ {p} : e.process[q] = k.process[q]
  BY <1>4 DEF Dying
<1> DEFINE P == {i \in 0 .. n : /\ Core(f[i]) /\ SameUse(e, f[i]) /\ f[i].panic = e.panic
                                /\ \A o \in 1 .. i : ~(f[i].object[o].state = "LIVE" /\ f[i].object[o].owner = p)
                                /\ \E S \in SUBSET (1 .. i) : Swept(e, f[i], "PEER_DEAD", S)}
<1>6. 0 \in P
  <2>1. SameUse(e, f[0])
    BY <1>4 DEF SameUse
  <2>2. 1 .. 0 = {} /\ 0 \in 0 .. n
    OBVIOUS
  <2>3. Swept(e, f[0], "PEER_DEAD", {})
    <3>1. \A o \in Slots : Like(e.object[o], f[0].object[o])
      BY <1>4 DEF Like
    <3> QED BY <1>4, <3>1, SweptNothing
  <2> QED BY <1>4, <1>5, <2>1, <2>2, <2>3
<1>7. ASSUME NEW i \in 1 .. n, i - 1 \in P PROVE i \in P
  <2>1. PICK x : x = f[i - 1]
    OBVIOUS
  <2>2. /\ Core(x) /\ SameUse(e, x) /\ x.panic = e.panic
        /\ \A o \in 1 .. i - 1 : ~(x.object[o].state = "LIVE" /\ x.object[o].owner = p)
        /\ \E S \in SUBSET (1 .. i - 1) : Swept(e, x, "PEER_DEAD", S)
    BY <1>7, <2>1
  <2>3. PICK y : y = f[i] /\ y = RetireStep(x, p, i)
    BY <1>3, <2>1
  <2>4. i \in Slots
    BY <1>1 DEF Slots
  <2>5. /\ Core(y) /\ SameUse(x, y) /\ y.panic = x.panic
        /\ ~(y.object[i].state = "LIVE" /\ y.object[i].owner = p)
        /\ \E Z \in SUBSET {i} : Swept(x, y, "PEER_DEAD", Z)
    <3>0. y = x => Swept(x, y, "PEER_DEAD", {})
      BY SweptNothing DEF Like
    <3>1. CASE x.object[i].owner # p
      <4>1. y = x
        BY <2>3, <3>1 DEF RetireStep
      <4> QED BY <2>2, <3>0, <3>1, <4>1 DEF SameUse
    <3>2. CASE x.object[i].owner = p
      <4>1. PICK c : /\ c = CloseObject(x, i, "PEER_DEAD")
                     /\ \/ x.object[i].state # "LIVE" /\ c = x
                        \/ x.object[i].state = "LIVE" /\ Shut(x, c, i, "PEER_DEAD")
        BY <2>2, <2>4, CloseObjectFacts
      <4>2. y = c
        BY <2>3, <3>2, <4>1 DEF RetireStep
      <4>3. CASE x.object[i].state # "LIVE" /\ c = x
        BY <2>2, <3>0, <4>2, <4>3 DEF SameUse
      <4>4. CASE x.object[i].state = "LIVE" /\ Shut(x, c, i, "PEER_DEAD")
        <5>1. Swept(x, y, "PEER_DEAD", {i})
          BY <2>2, <2>4, <4>2, <4>4, ShutSwept
        <5> QED BY <4>2, <4>4, <5>1 DEF Shut, ClosedObject
      <4> QED BY <4>1, <4>3, <4>4
    <3> QED BY <3>1, <3>2
  <2>6. SameUse(e, y)
    BY <2>2, <2>5, SameUseTwice
  <2>7. ASSUME NEW o \in 1 .. i PROVE ~(y.object[o].state = "LIVE" /\ y.object[o].owner = p)
    <3>1. o \in Slots
      BY <1>1 DEF Slots
    <3>2. CASE o = i
      BY <2>5, <3>2
    <3>3. CASE o # i
      <4>1. o \in 1 .. i - 1
        BY <3>3
      <4> QED BY <2>2, <2>5, <3>1, <4>1 DEF SameUse
    <3> QED BY <3>2, <3>3
  <2>8. i \in 0 .. n
    OBVIOUS
  <2>9. \E S \in SUBSET (1 .. i) : Swept(e, y, "PEER_DEAD", S)
    <3>1. PICK S \in SUBSET (1 .. i - 1) : Swept(e, x, "PEER_DEAD", S)
      BY <2>2
    <3>2. PICK Z \in SUBSET {i} : Swept(x, y, "PEER_DEAD", Z)
      BY <2>5
    <3>3. S \cap Z = {} /\ S \cup Z \in SUBSET (1 .. i)
      OBVIOUS
    <3>4. Swept(e, y, "PEER_DEAD", S \cup Z)
      BY <3>1, <3>2, <3>3, SweptTwice
    <3> QED BY <3>3, <3>4
  <2> QED BY <2>2, <2>3, <2>5, <2>6, <2>7, <2>8, <2>9
<1>8. PICK w : w = f[n]
  OBVIOUS
<1>9. /\ Core(w) /\ SameUse(e, w) /\ w.panic = e.panic
      /\ \A o \in 1 .. n : ~(w.object[o].state = "LIVE" /\ w.object[o].owner = p)
      /\ \E S : Swept(e, w, "PEER_DEAD", S)
  <2>1. \A i \in 1 .. n : i - 1 \in P => i \in P
    BY <1>7
  <2>2. n \in P
    <3> HIDE DEF P
    <3>1. \A i \in 0 .. n : i \in P
      BY <1>6, <2>1, Climb
    <3> QED BY <3>1
  <2> QED BY <1>8, <2>2
<1>10. ASSUME NEW o \in Slots PROVE Owned(w, o) /\ Counted(w, o)
  <2>1. Owned(k, o) /\ Counted(k, o)
    BY DEF Good
  <2>2. Counted(w, o)
    BY <1>5, <1>9, <2>1 DEF Counted, SameUse
  <2>3. ASSUME w.object[o].state = "LIVE" PROVE w.process[w.object[o].owner] = "RUNNING"
    <3>1. w.object[o].owner # p
      BY <1>1, <1>9, <2>3 DEF Slots
    <3>2. e.object[o].state = "LIVE" /\ w.object[o].owner = e.object[o].owner
      BY <1>9, <2>3 DEF SameUse
    <3>3. k.process[e.object[o].owner] = "RUNNING"
      BY <1>5, <2>1, <3>2 DEF Owned
    <3>4. e.object[o].owner \in Processes
      BY <1>5, <3>2 DEF Core, Body, Shape
    <3> QED BY <1>5, <1>9, <3>1, <3>2, <3>3, <3>4 DEF SameUse
  <2> QED BY <2>2, <2>3 DEF Owned
<1>11. Good(w)
  BY <1>9, <1>10 DEF Good
<1> QED BY <1>3, <1>4, <1>5, <1>8, <1>9, <1>11

(* Closing all the handles of a process, slot after slot, keeps the        *)
(* invariant.                                                              *)
LEMMA CloseHandlesFacts ==
  ASSUME NEW k, NEW p \in Processes, Good(k)
  PROVE  \E w, S : /\ w = CloseHandles(k, p) /\ Good(w) /\ w.panic = k.panic
                   /\ w.process = k.process /\ Swept(k, w, "CLOSED", S)
<1>1. PICK n \in Nat : n = ObjectSlots
  BY SyncAssumption
<1>2. PICK f : ReapRun(f, k, p, n)
  BY <1>1, ReapRounds
<1>3. /\ f[0] = k /\ \A i \in 1 .. n : f[i] = ReapStep(f[i - 1], p, i)
      /\ CloseHandles(k, p) = f[n]
  BY <1>2 DEF ReapRun
<1> DEFINE P == {i \in 0 .. n : /\ Good(f[i]) /\ f[i].panic = k.panic /\ f[i].process = k.process
                                /\ \E S \in SUBSET (1 .. i) : Swept(k, f[i], "CLOSED", S)}
<1>4. 0 \in P
  <2>1. Swept(k, f[0], "CLOSED", {})
    BY <1>3, SweptNothing DEF Like
  <2> QED BY <1>3, <2>1
<1>5. ASSUME NEW i \in 1 .. n, i - 1 \in P PROVE i \in P
  <2>1. PICK x : x = f[i - 1]
    OBVIOUS
  <2>2. Good(x) /\ x.panic = k.panic /\ x.process = k.process
    BY <1>5, <2>1
  <2>0. PICK S \in SUBSET (1 .. i - 1) : Swept(k, x, "CLOSED", S)
    BY <1>5, <2>1
  <2>9. S \in SUBSET (1 .. i) /\ S \cup {i} \in SUBSET (1 .. i) /\ S \cap {i} = {} /\ S \cup {} = S
    OBVIOUS
  <2>3. PICK y : y = f[i] /\ y = ReapStep(x, p, i)
    BY <1>3, <2>1
  <2>4. i \in Slots
    BY <1>1 DEF Slots
  <2>5. PICK m : m = x.handles[p][i]
    OBVIOUS
  <2>6. m \in Nat /\ m <= x.object[i].references
    BY <2>2, <2>4, <2>5, HandlesBound
  <2>7. CASE m = 0
    <3>1. y = x
      BY <2>3, <2>5, <2>7 DEF ReapStep
    <3>2. i \in 0 .. n
      OBVIOUS
    <3> QED BY <2>0, <2>2, <2>3, <2>9, <3>1, <3>2
  <2>8. CASE m # 0
    <3>1. m \in Nat \ {0} /\ m <= x.handles[p][i] /\ Core(x)
      BY <2>2, <2>5, <2>6, <2>8 DEF Good
    <3>2. PICK r : r = Release(x, p, i, m) /\ Released(x, r, p, i, m)
      BY <2>4, <2>5, <2>6, <3>1, ReleaseFacts
    <3>3. Good(r)
      BY <2>2, <2>4, <3>1, <3>2, ReleasedGood
    <3>4. r.panic = x.panic /\ r.process = x.process
      BY <3>2 DEF Released
    <3>5. y = r
      BY <2>3, <2>5, <2>8, <3>2 DEF ReapStep
    <3>6. i \in 0 .. n
      OBVIOUS
    <3>7. Swept(x, y, "CLOSED", {}) \/ Swept(x, y, "CLOSED", {i})
      BY <2>4, <3>1, <3>2, <3>5, ReleasedSwept
    <3>8. Swept(k, y, "CLOSED", S) \/ Swept(k, y, "CLOSED", S \cup {i})
      BY <2>0, <2>9, <3>7, SweptTwice
    <3> QED BY <2>2, <2>3, <2>9, <3>3, <3>4, <3>5, <3>6, <3>8
  <2> QED BY <2>7, <2>8
<1>6. n \in P
  <2>1. \A i \in 1 .. n : i - 1 \in P => i \in P
    BY <1>5
  <2> HIDE DEF P
  <2>2. \A i \in 0 .. n : i \in P
    BY <1>4, <2>1, Climb
  <2> QED BY <2>2
<1>7. PICK w : w = f[n]
  OBVIOUS
<1> QED BY <1>3, <1>6, <1>7

(* A process that does not run becomes another. *)
LEMMA ProcessGood ==
  ASSUME NEW k, NEW p \in Processes, Good(k), k.process[p] # "RUNNING",
         NEW s \in {"UNBORN", "RUNNING", "DEAD"}
  PROVE  \E w : Became(k, w, p, s)
<1>1. k \in States
  BY DEF Good, Core, Body
<1>2. PICK v : v = [k.process EXCEPT ![p] = s]
  OBVIOUS
<1>3. v \in ProcessTables /\ v[p] = s /\ \A q \in Processes \ {p} : v[q] = k.process[q]
  BY <1>1, <1>2, StateFields DEF ProcessTables
<1>4. PICK w : w = [k EXCEPT !.process = v]
  OBVIOUS
<1>5. /\ w \in States /\ w.process = v
      /\ w.object = k.object /\ w.heap = k.heap /\ w.pages = k.pages
      /\ w.queue = k.queue /\ w.thread = k.thread
      /\ w.handles = k.handles /\ w.panic = k.panic
  BY <1>1, <1>3, <1>4, Set_process
<1>6. w = [k EXCEPT !.process[p] = s]
  BY <1>2, <1>4
<1>7. HeapIn(w)
  <2>1. SameHeap(k, w)
    BY <1>5 DEF SameHeap
  <2> QED BY <1>1, <2>1, SameHeapIn DEF Good, Core, Body
<1>8. WaitsIn(w)
  <2>1. Matched(w) /\ \A t \in Threads : Sane(w.thread[t])
    BY <1>5 DEF Good, Core, Body, WaitsIn, Matched
  <2>2. Housed(w)
    <3> SUFFICES ASSUME NEW t \in Threads, w.thread[t].state # "DEAD"
                 PROVE  w.process[ProcessOf[t]] = "RUNNING"
      BY DEF Housed
    <3>1. k.process[ProcessOf[t]] = "RUNNING" /\ ProcessOf[t] \in Processes
      BY <1>5, SyncAssumption DEF Good, Core, Body, WaitsIn, Housed
    <3> QED BY <1>3, <1>5, <3>1
  <2> QED BY <2>1, <2>2 DEF WaitsIn
<1>9. Core(w)
  BY <1>5, <1>7, <1>8 DEF Good, Core, Body, Quiet
<1>10. ASSUME NEW o \in Slots PROVE Owned(w, o) /\ Counted(w, o)
  <2>1. Counted(w, o)
    BY <1>5 DEF Good, Counted
  <2>2. ASSUME w.object[o].state = "LIVE" PROVE w.process[w.object[o].owner] = "RUNNING"
    <3>1. k.process[k.object[o].owner] = "RUNNING" /\ k.object[o].owner \in Processes
      BY <1>5, <2>2 DEF Good, Core, Body, Shape, Owned
    <3> QED BY <1>3, <1>5, <3>1
  <2> QED BY <2>1, <2>2 DEF Owned
<1>11. Good(w)
  BY <1>9, <1>10 DEF Good
<1> QED BY <1>3, <1>5, <1>6, <1>11 DEF Became

(* Reaping a dead process keeps the invariant. *)
LEMMA ReapFacts ==
  ASSUME NEW k, NEW p \in Processes, Good(k), k.process[p] = "DEAD"
  PROVE  \E w, S : /\ w = [CloseHandles(k, p) EXCEPT !.process[p] = "UNBORN"] /\ Good(w)
                   /\ w.panic = k.panic /\ Swept(k, w, "CLOSED", S)
<1>1. PICK c, S : /\ c = CloseHandles(k, p) /\ Good(c) /\ c.panic = k.panic
                  /\ c.process = k.process /\ Swept(k, c, "CLOSED", S)
  BY CloseHandlesFacts
<1>3. PICK s \in {"UNBORN", "RUNNING", "DEAD"} : s = "UNBORN"
  OBVIOUS
<1>4. c.process[p] # "RUNNING"
  BY <1>1
<1>5. PICK w : Became(c, w, p, s)
  BY <1>1, <1>4, ProcessGood
<1>2. w = [c EXCEPT !.process[p] = s] /\ Good(w) /\ w.panic = c.panic
  BY <1>5 DEF Became
<1>6. Swept(k, w, "CLOSED", S)
  BY <1>1, <1>5 DEF Became, Swept, Heard, Rest
<1> QED BY <1>1, <1>2, <1>3, <1>6

(* Only the thread t is another, x. *)
Resumed(k, w, t, x) ==
  /\ w = [k EXCEPT !.thread[t] = x] /\ w.object = k.object /\ w.panic = k.panic
  /\ w.thread[t] = x /\ \A u \in Threads \ {t} : w.thread[u] = k.thread[u]

Noted(k, w, t, r, i) ==
  /\ w = [k EXCEPT !.thread[t].outcome = <<r, i>>] /\ Good(w)
  /\ w.object = k.object /\ w.panic = k.panic
  /\ w.thread[t].members = k.thread[t].members /\ w.thread[t].deadline = k.thread[t].deadline
  /\ w.thread[t].outcome = <<r, i>> /\ w.thread[t].state = k.thread[t].state
  /\ \A u \in Threads \ {t} : w.thread[u] = k.thread[u]

(* A new object is in slot o. *)
Installed(k, w, o, type, count, maximum) ==
  /\ w.thread = k.thread /\ \A q \in Slots \ {o} : w.object[q] = k.object[q]
  /\ w.object[o].type = type /\ w.object[o].count = count /\ w.object[o].maximum = maximum
  /\ w.object[o].result = "" /\ w.object[o].deadline = 0

(* The member i, object o, has ended the wait of thread t before it began. *)
Polled(k, w, t, i, o) ==
  /\ \A q \in Slots \ {o} : Like(k.object[q], w.object[q])
  /\ Rest(k, w, {t}) /\ w.thread[t].members = <<>> /\ w.thread[t].deadline = 0
  /\ \/ /\ k.object[o].state # "LIVE" /\ Like(k.object[o], w.object[o])
        /\ w.thread[t].outcome = <<k.object[o].result, i>>
     \/ /\ k.object[o].state = "LIVE" /\ w.thread[t].outcome = <<"OK", i>>
        /\ w.object[o].type = k.object[o].type /\ w.object[o].maximum = k.object[o].maximum
        /\ w.object[o].result = k.object[o].result /\ w.object[o].deadline = k.object[o].deadline
        /\ w.object[o].count = IF k.object[o].type \in {"EVENT_MANUAL", "TIMER"}
                                 THEN k.object[o].count ELSE k.object[o].count - 1

(* The child has a thread at work, and nothing else is seen of it. *)
Born(k, w, u) ==
  /\ \A o \in Slots : Like(k.object[o], w.object[o])
  /\ k.thread[u].members = <<>> /\ w.thread[u] = AtWork("READY") /\ Rest(k, w, {u})

(* The call of thread t returns. *)
Returns(k, t) ==
  IF k.thread[t].state = "READY" THEN [k EXCEPT !.thread[t].outcome = None] ELSE k

----------------------------------------------------------------------------
(* Calls return. *)

(* A thread that does not wait may be at work, if its process runs. *)
LEMMA ThreadGood ==
  ASSUME NEW k, Good(k), NEW t \in Threads, NEW x \in ThreadRecords,
         k.thread[t].state # "BLOCKED", x.state = "READY", x.members = <<>>, x.deadline = 0,
         k.process[ProcessOf[t]] = "RUNNING"
  PROVE  \E w : Resumed(k, w, t, x) /\ Good(w)
<1>1. k \in States
  BY DEF Good, Core, Body
<1>2. PICK v : v = [k.thread EXCEPT ![t] = x]
  OBVIOUS
<1>3. v \in ThreadTables /\ v[t] = x /\ \A u \in Threads \ {t} : v[u] = k.thread[u]
  BY <1>1, <1>2, StateFields DEF ThreadTables
<1>4. PICK w : w = [k EXCEPT !.thread = v]
  OBVIOUS
<1>5. /\ w \in States /\ w.thread = v
      /\ w.object = k.object /\ w.heap = k.heap /\ w.pages = k.pages
      /\ w.queue = k.queue /\ w.process = k.process
      /\ w.handles = k.handles /\ w.panic = k.panic
  BY <1>1, <1>3, <1>4, Set_thread
<1>6. w = [k EXCEPT !.thread[t] = x]
  BY <1>2, <1>4
<1>7. k.thread[t].members = <<>>
  BY DEF Good, Core, Body, WaitsIn, Sane
<1>8. Matched(w)
  <2> SUFFICES ASSUME NEW o \in Slots, NEW u \in Threads, NEW i \in Nat
               PROVE  In(<<u, i>>, w.queue[o]) <=>
                        i \in DOMAIN w.thread[u].members /\ w.thread[u].members[i] = o
    BY DEF Matched
  <2>1. w.thread[u].members = k.thread[u].members
    BY <1>3, <1>5, <1>7
  <2>2. In(<<u, i>>, k.queue[o]) <=>
          i \in DOMAIN k.thread[u].members /\ k.thread[u].members[i] = o
    BY DEF Good, Core, Body, WaitsIn, Matched
  <2> QED BY <1>5, <2>1, <2>2
<1>9. \A u \in Threads : Sane(w.thread[u])
  <2>1. Sane(x)
    BY DEF Sane
  <2> QED BY <1>3, <1>5, <2>1 DEF Good, Core, Body, WaitsIn
<1>10. Housed(w)
  BY <1>3, <1>5 DEF Good, Core, Body, WaitsIn, Housed
<1>11. HeapIn(w)
  <2>1. SameHeap(k, w)
    BY <1>5 DEF SameHeap
  <2> QED BY <1>1, <2>1, SameHeapIn DEF Good, Core, Body
<1>12. Core(w)
  BY <1>5, <1>8, <1>9, <1>10, <1>11 DEF Good, Core, Body, Quiet, WaitsIn
<1>13. SameUse(k, w)
  BY <1>5 DEF SameUse
<1>14. Good(w)
  BY <1>12, <1>13, SameUseGood
<1>15. Resumed(k, w, t, x)
  BY <1>3, <1>5, <1>6 DEF Resumed
<1> QED BY <1>14, <1>15

(* A thread at work may note any outcome. *)
LEMMA NotedFacts ==
  ASSUME NEW k, Good(k), NEW t \in Threads, k.thread[t].state = "READY",
         NEW r \in Results, NEW i \in Nat
  PROVE  \E w : Noted(k, w, t, r, i)
<1>1. k \in States
  BY DEF Good, Core, Body
<1>2. PICK y \in ThreadRecords : y = k.thread[t]
  BY <1>1, ThreadAt
<1>3. PICK e \in Results \X Nat : e = <<r, i>>
  OBVIOUS
<1>4. PICK x : x = [y EXCEPT !.outcome = e]
  OBVIOUS
<1>5. /\ x \in ThreadRecords /\ x.state = y.state /\ x.members = y.members
      /\ x.deadline = y.deadline /\ x.outcome = e
  BY <1>4 DEF ThreadRecords
<1>6. y.members = <<>> /\ y.deadline = 0
  BY <1>2 DEF Good, Core, Body, WaitsIn, Sane
<1>7. k.process[ProcessOf[t]] = "RUNNING"
  BY DEF Good, Core, Body, WaitsIn, Housed
<1>8. PICK w : Resumed(k, w, t, x) /\ Good(w)
  BY <1>2, <1>5, <1>6, <1>7, ThreadGood
<1>10. w = [k EXCEPT !.thread[t].outcome = <<r, i>>]
  BY <1>2, <1>3, <1>4, <1>8 DEF Resumed
<1>9. Noted(k, w, t, r, i)
  BY <1>2, <1>3, <1>5, <1>8, <1>10 DEF Resumed, Noted
<1> QED BY <1>9

(* A call that returns keeps the invariant. *)
LEMMA ReturnsFacts ==
  ASSUME NEW k, Good(k), NEW t \in Threads
  PROVE  Good(Returns(k, t)) /\ Returns(k, t).panic = k.panic
<1>1. CASE k.thread[t].state = "READY"
  <2>1. PICK r \in Results : r = ""
    BY DEF Results
  <2>2. PICK i \in Nat : i = 0
    OBVIOUS
  <2>3. PICK w : Noted(k, w, t, r, i)
    BY <1>1, NotedFacts
  <2>4. Returns(k, t) = w /\ Good(w) /\ w.panic = k.panic
    BY <1>1, <2>1, <2>2, <2>3 DEF Noted, Returns, None
  <2> QED BY <2>4
<1>2. CASE k.thread[t].state # "READY"
  BY <1>2 DEF Returns
<1> QED BY <1>1, <1>2

----------------------------------------------------------------------------
(* Objects are made and retained. *)

(* A new object has one reference and one handle (kernel_sync_create). *)
LEMMA InstallFacts ==
  ASSUME NEW k, Good(k), NEW p \in Processes, k.process[p] = "RUNNING",
         NEW o \in Slots, k.object[o].state = "FREE",
         NEW type \in Types \ {"NONE"}, NEW count \in Nat, NEW maximum \in Nat
  PROVE  \E w : /\ w = Install(k, p, o, type, count, maximum) /\ Good(w) /\ w.panic = k.panic
                /\ Installed(k, w, o, type, count, maximum)
<1>1. k \in States /\ k.handles \in HandleTables
  BY StateFields DEF Good, Core, Body
<1>2. PICK x : x = [FreeObject EXCEPT !.state = "LIVE", !.type = type, !.count = count,
                       !.maximum = maximum, !.owner = p, !.references = 1]
  OBVIOUS
<1>3. x = [state |-> "LIVE", type |-> type, count |-> count, maximum |-> maximum, owner |-> p,
           references |-> 1, result |-> "", deadline |-> 0, position |-> Unset]
  BY <1>2 DEF FreeObject
<1>4. /\ x.state = "LIVE" /\ x.type = type /\ x.owner = p /\ x.count = count /\ x.maximum = maximum
      /\ x.references = 1 /\ x.result = "" /\ x.deadline = 0 /\ x.position = 0
  BY <1>3 DEF Unset
<1>5. x \in ObjectRecords
  <2>1. "" \in Results
    BY DEF Results
  <2> QED BY <1>3, <2>1 DEF ObjectRecords, Unset
<1>6. Shape(x)
  <2>3. x.references # 0
    <3>1. x.references = 1
      BY <1>4
    <3>2. 1 # 0
      OBVIOUS
    <3> QED BY <3>1, <3>2
  <2>4. x.state # "FREE" /\ x.state # "CLOSING"
    BY <1>4
  <2>1. x.deadline = 0 /\ x.result = "" /\ x.owner \in Processes
    BY <1>4
  <2>2. x.type # "NONE"
    BY <1>4
  <2> QED BY <2>1, <2>2, <2>3, <2>4 DEF Shape
<1>7. /\ k.object[o].deadline = 0 /\ k.object[o].position = 0 /\ k.object[o].references = 0
  <2>1. k.object[o].deadline = 0 /\ k.object[o].references = 0
    BY FreeFields DEF Good, Core, Body, Shape, SameObject
  <2> QED BY <2>1 DEF Good, Core, Body, HeapIn, Unset
<1>8. PICK j : j = [k EXCEPT !.object[o] = x] /\ Put(k, j, o, x)
  BY <1>1, <1>5, PutFacts
<1>9. Body(j) /\ \A q \in Slots \ {o} : Quiet(k, q) => Quiet(j, q)
  <2>1. Body(k) /\ x.position = k.object[o].position /\ x.deadline = k.object[o].deadline
    BY <1>4, <1>7 DEF Good, Core
  <2> QED BY <1>6, <1>8, <2>1, PutBody
<1>10. Quiet(j, o)
  BY <1>8 DEF Put, Good, Core, Quiet
<1>11. Core(j)
  BY <1>9, <1>10 DEF Good, Core
<1>12. PICK v : v = [k.handles EXCEPT ![p][o] = 1]
  OBVIOUS
<1>13. /\ v \in HandleTables /\ v[p][o] = 1
       /\ \A q \in Processes, l \in Slots : q # p \/ l # o => v[q][l] = k.handles[q][l]
  BY <1>1, <1>12 DEF HandleTables
<1>14. PICK w : w = [j EXCEPT !.handles = v]
  OBVIOUS
<1>15. /\ w \in States /\ w.handles = v
       /\ w.object = j.object /\ w.heap = j.heap /\ w.pages = j.pages /\ w.queue = j.queue
       /\ w.thread = j.thread /\ w.process = j.process /\ w.panic = j.panic
  <2>1. j \in States
    BY <1>8 DEF Put
  <2> QED BY <1>13, <1>14, <2>1, Set_handles
<1>16. w = Install(k, p, o, type, count, maximum)
  <2>1. Install(k, p, o, type, count, maximum) = [k EXCEPT !.handles[p][o] = 1, !.object[o] = x]
    BY <1>2 DEF Install
  <2> QED BY <1>1, <1>8, <1>12, <1>14, <2>1 DEF States
<1>17. Core(w)
  BY <1>11, <1>15, SameCoreGood
<1>18. w.object[o] = x /\ (\A q \in Slots \ {o} : w.object[q] = k.object[q])
       /\ w.process = k.process /\ w.panic = k.panic /\ w.thread = k.thread
  BY <1>8, <1>15 DEF Put
<1>19. ASSUME NEW q \in Slots PROVE Owned(w, q) /\ Counted(w, q)
  <2>1. Owned(k, q) /\ Counted(k, q)
    BY DEF Good
  <2>2. Owned(w, q)
    BY <1>4, <1>18, <2>1 DEF Owned
  <2>3. PICK c \in [Processes -> Nat], d \in [Processes -> Nat] : c = HandlesTo(k, q) /\ d = HandlesTo(w, q)
    BY <1>1, <1>15, HandlesAt
  <2>4. /\ \A y \in Processes : c[y] = k.handles[y][q] /\ d[y] = w.handles[y][q]
        /\ k.object[q].references = Cardinality(Numbered(c))
    BY <1>1, <1>15, <2>1, <2>3, HandlesAt
  <2>5. CASE q # o
    <3>1. \A y \in Processes \ {p} : d[y] = c[y]
      BY <1>13, <1>15, <2>4
    <3>2. d[p] = c[p]
      BY <1>13, <1>15, <2>4, <2>5
    <3>3. /\ Cardinality(Numbered(c)) \in Nat /\ c[p] \in Nat
          /\ Cardinality(Numbered(d)) = Cardinality(Numbered(c)) - c[p] + d[p]
      BY <2>3, <3>1, CountChanged
    <3>4. w.object[q].references = Cardinality(Numbered(d))
      BY <1>18, <2>4, <2>5, <3>2, <3>3
    <3> QED BY <1>15, <2>2, <2>3, <3>4, HandlesAt
  <2>6. CASE q = o
    <3>1. Cardinality(Numbered(c)) = 0
      BY <1>7, <2>4, <2>6
    <3>2. \A y \in Processes : c[y] = 0
      BY <3>1, NoHandles
    <3>3. \A y \in Processes \ {p} : d[y] = c[y]
      BY <1>13, <1>15, <2>4
    <3>4. /\ Cardinality(Numbered(d)) = Cardinality(Numbered(c)) - c[p] + d[p]
      BY <2>3, <3>3, CountChanged
    <3>5. d[p] = 1
      BY <1>13, <1>15, <2>4, <2>6
    <3>7. c[p] = 0 /\ 0 - 0 + 1 = 1
      BY <3>2
    <3>8. Cardinality(Numbered(d)) = 1
      BY <3>1, <3>4, <3>5, <3>7
    <3>6. w.object[q].references = Cardinality(Numbered(d))
      BY <1>4, <1>18, <2>6, <3>8
    <3> QED BY <1>15, <2>2, <2>3, <3>6, HandlesAt
  <2> QED BY <2>5, <2>6
<1>20. Good(w)
  BY <1>17, <1>19 DEF Good
<1>21. Installed(k, w, o, type, count, maximum)
  BY <1>4, <1>18 DEF Installed
<1> QED BY <1>16, <1>18, <1>20, <1>21

----------------------------------------------------------------------------
(* Handles are copied. *)

MoreUsed(x, y, n) ==
  /\ y \in ObjectRecords /\ y.references = x.references + n
  /\ y.state = x.state /\ y.type = x.type /\ y.count = x.count
  /\ y.maximum = x.maximum /\ y.owner = x.owner
  /\ y.result = x.result /\ y.deadline = x.deadline /\ y.position = x.position

Retains(k, w, q, count) ==
  /\ w = Retained(k, q, count) /\ Good(w)
  /\ w.panic = k.panic /\ w.thread = k.thread /\ w.process = k.process
  /\ \A o \in Slots : MoreUsed(k.object[o], w.object[o], count[o])

(* A process that is given handles to open objects gives them as many      *)
(* references (kernel_sync_retain).                                        *)
LEMMA RetainedFacts ==
  ASSUME NEW k, Good(k), NEW q \in Processes, NEW count \in [Slots -> Nat],
         \A o \in Slots : count[o] # 0 => k.object[o].state = "LIVE"
  PROVE  \E w : Retains(k, w, q, count)
<1>1. k \in States /\ k.handles \in HandleTables
  BY StateFields DEF Good, Core, Body
<1>2. PICK v : v = [o \in Slots |-> [k.object[o] EXCEPT !.references = @ + count[o]]]
  OBVIOUS
<1>3. ASSUME NEW o \in Slots PROVE MoreUsed(k.object[o], v[o], count[o])
  <2>1. PICK y \in ObjectRecords : y = k.object[o]
    BY <1>1, ObjectAt
  <2>2. PICK n \in Nat : n = count[o]
    OBVIOUS
  <2>3. PICK l \in Nat : l = y.references + n
    BY ObjectFields
  <2>4. PICK x : x = [y EXCEPT !.references = l]
    OBVIOUS
  <2>5. /\ x \in ObjectRecords /\ x.references = l
        /\ x.state = y.state /\ x.type = y.type /\ x.count = y.count
        /\ x.maximum = y.maximum /\ x.owner = y.owner
        /\ x.result = y.result /\ x.deadline = y.deadline /\ x.position = y.position
    BY <2>4, Put_references
  <2>6. v[o] = x
    BY <1>2, <2>1, <2>2, <2>3, <2>4
  <2> QED BY <2>1, <2>2, <2>3, <2>5, <2>6 DEF MoreUsed
<1>4. v \in Objects
  <2>1. \A o \in Slots : v[o] \in ObjectRecords
    BY <1>3 DEF MoreUsed
  <2> QED BY <1>2, <2>1 DEF Objects
<1>5. PICK j : j = [k EXCEPT !.object = v]
  OBVIOUS
<1>6. /\ j \in States /\ j.object = v
      /\ j.heap = k.heap /\ j.pages = k.pages /\ j.queue = k.queue
      /\ j.thread = k.thread /\ j.process = k.process
      /\ j.handles = k.handles /\ j.panic = k.panic
  BY <1>1, <1>4, <1>5, Set_object
<1>7. PICK h : h = [k.handles EXCEPT ![q] = [o \in Slots |-> k.handles[q][o] + count[o]]]
  OBVIOUS
<1>8. /\ h \in HandleTables
      /\ \A o \in Slots : h[q][o] = k.handles[q][o] + count[o]
      /\ \A p \in Processes \ {q} : h[p] = k.handles[p]
  BY <1>1, <1>7 DEF HandleTables
<1>9. PICK w : w = [j EXCEPT !.handles = h]
  OBVIOUS
<1>10. /\ w \in States /\ w.handles = h
       /\ w.object = v /\ w.heap = k.heap /\ w.pages = k.pages /\ w.queue = k.queue
       /\ w.thread = k.thread /\ w.process = k.process /\ w.panic = k.panic
  BY <1>6, <1>8, <1>9, Set_handles
<1>11. w = Retained(k, q, count)
  <2>1. PICK g : g = [o \in Slots |-> k.handles[q][o] + count[o]]
    OBVIOUS
  <2>2. Retained(k, q, count) = [k EXCEPT !.object = v, !.handles[q] = g]
    BY <1>2, <2>1 DEF Retained
  <2>3. h = [k.handles EXCEPT ![q] = g]
    BY <1>7, <2>1
  <2> QED BY <1>1, <1>5, <1>9, <2>2, <2>3 DEF States
<1>12. ASSUME NEW o \in Slots PROVE Shape(w.object[o]) /\ Quiet(w, o)
  <2>1. MoreUsed(k.object[o], w.object[o], count[o])
    BY <1>3, <1>10
  <2>2. Shape(k.object[o]) /\ Quiet(k, o)
    BY DEF Good, Core, Body
  <2>3. count[o] \in Nat /\ k.object[o].references \in Nat
    BY <1>1, ObjectAt, ObjectFields
  <2>4. w.object[o].references = 0 <=> k.object[o].references = 0
    <3>1. count[o] # 0 => k.object[o].references # 0
      BY <2>2 DEF Shape
    <3>2. w.object[o].references = k.object[o].references + count[o]
      BY <2>1 DEF MoreUsed
    <3> QED BY <2>3, <3>1, <3>2
  <2>5. k.object[o].references = 0 => w.object[o].references = k.object[o].references
    BY <2>4
  <2>6. Shape(w.object[o])
    BY <2>1, <2>2, <2>4, <2>5 DEF MoreUsed, Shape, SameObject
  <2>7. Quiet(w, o)
    BY <1>10, <2>1, <2>2 DEF MoreUsed, Quiet
  <2> QED BY <2>6, <2>7
<1>13. HeapIn(w)
  <2>1. SameHeap(k, w)
    BY <1>3, <1>10 DEF SameHeap, MoreUsed
  <2> QED BY <1>1, <2>1, SameHeapIn DEF Good, Core, Body
<1>14. WaitsIn(w)
  BY <1>10 DEF Good, Core, Body, WaitsIn, Matched, Housed
<1>15. Core(w)
  BY <1>10, <1>12, <1>13, <1>14 DEF Core, Body
<1>16. ASSUME NEW o \in Slots PROVE Owned(w, o) /\ Counted(w, o)
  <2>1. Owned(k, o) /\ Counted(k, o)
    BY DEF Good
  <2>2. MoreUsed(k.object[o], w.object[o], count[o])
    BY <1>3, <1>10
  <2>3. Owned(w, o)
    BY <1>10, <2>1, <2>2 DEF Owned, MoreUsed
  <2>4. PICK c \in [Processes -> Nat], d \in [Processes -> Nat] : c = HandlesTo(k, o) /\ d = HandlesTo(w, o)
    BY <1>1, <1>10, HandlesAt
  <2>5. /\ \A y \in Processes : c[y] = k.handles[y][o] /\ d[y] = w.handles[y][o]
        /\ k.object[o].references = Cardinality(Numbered(c))
    BY <1>1, <1>10, <2>1, <2>4, HandlesAt
  <2>6. \A y \in Processes \ {q} : d[y] = c[y]
    BY <1>8, <1>10, <2>5
  <2>7. /\ Cardinality(Numbered(c)) \in Nat
        /\ Cardinality(Numbered(d)) = Cardinality(Numbered(c)) - c[q] + d[q]
    BY <2>6, CountChanged
  <2>8. d[q] = c[q] + count[o] /\ c[q] \in Nat /\ count[o] \in Nat
    BY <1>8, <1>10, <2>5
  <2>9. w.object[o].references = Cardinality(Numbered(c)) + count[o]
    BY <2>2, <2>5 DEF MoreUsed
  <2>10. w.object[o].references = Cardinality(Numbered(d))
    BY <2>7, <2>8, <2>9
  <2> QED BY <1>10, <2>3, <2>4, <2>10, HandlesAt
<1>17. Good(w)
  BY <1>15, <1>16 DEF Good
<1>18. \A o \in Slots : MoreUsed(k.object[o], w.object[o], count[o])
  BY <1>3, <1>10
<1> QED BY <1>10, <1>11, <1>17, <1>18 DEF Retains

Forked(k, p, q, u) ==
  [CloneTable(k, p, q) EXCEPT !.process[q] = "RUNNING", !.thread[u] = AtWork("READY")]

(* A child with the handles of its parent and one thread keeps the         *)
(* invariant (process_fork).                                               *)
LEMMA ForkedFacts ==
  ASSUME NEW k, Good(k), NEW p \in Processes, NEW q \in Processes, k.process[q] = "UNBORN",
         \A o \in Slots : k.handles[p][o] # 0 => k.object[o].state = "LIVE",
         NEW u \in Threads, ProcessOf[u] = q
  PROVE  \E w : w = Forked(k, p, q, u) /\ Good(w) /\ w.panic = k.panic /\ Born(k, w, u)
<1>1. PICK count \in [Slots -> Nat] : count = k.handles[p]
  BY StateFields DEF Good, Core, Body, HandleTables
<1>2. \A o \in Slots : count[o] # 0 => k.object[o].state = "LIVE"
  BY <1>1
<1>3. PICK j : Retains(k, j, q, count)
  BY <1>2, RetainedFacts
<1>4. j = CloneTable(k, p, q) /\ Good(j) /\ j.panic = k.panic /\ j.process = k.process /\ j.thread = k.thread
  BY <1>1, <1>3 DEF Retains, CloneTable
<1>5. j.process[q] # "RUNNING"
  BY <1>4
<1>6. PICK s \in {"UNBORN", "RUNNING", "DEAD"} : s = "RUNNING"
  OBVIOUS
<1>7. PICK i : Became(j, i, q, s)
  BY <1>4, <1>5, ProcessGood
<1>8. /\ i = [j EXCEPT !.process[q] = "RUNNING"] /\ Good(i)
      /\ i.panic = k.panic /\ i.thread = k.thread /\ i.process[q] = "RUNNING" /\ i.object = j.object
  BY <1>4, <1>6, <1>7 DEF Became
<1>9. k.thread[u].state # "BLOCKED"
  BY <1>5 DEF Good, Core, Body, WaitsIn, Housed
<1>10. PICK x \in ThreadRecords : /\ x = AtWork("READY") /\ x.state = "READY"
                                  /\ x.members = <<>> /\ x.deadline = 0
  BY AtWorkFacts
<1>11. PICK w : Resumed(i, w, u, x) /\ Good(w)
  BY <1>8, <1>9, <1>10, ThreadGood
<1>12. w = Forked(k, p, q, u)
  BY <1>4, <1>8, <1>10, <1>11 DEF Resumed, Forked
<1>13. k.thread[u].members = <<>>
  BY <1>9 DEF Good, Core, Body, WaitsIn, Sane
<1>14. \A o \in Slots : Like(k.object[o], w.object[o])
  BY <1>3, <1>8, <1>11 DEF Retains, MoreUsed, Like, Resumed
<1>15. Born(k, w, u)
  BY <1>8, <1>10, <1>11, <1>13, <1>14 DEF Resumed, Born, Rest
<1> QED BY <1>8, <1>11, <1>12, <1>15 DEF Resumed

----------------------------------------------------------------------------
(* Waits begin, or end before they begin. *)

(* Lowest is the least element of a set that has one. *)
LEMMA LowestFacts ==
  ASSUME NEW S \in SUBSET Nat, S # {}
  PROVE  Lowest(S) \in S /\ \A y \in S : Lowest(S) <= y
<1>1. \E m \in S : \A x \in S : m <= x
  BY Least
<1> QED BY <1>1 DEF Lowest

(* A wait that is answered at once keeps the invariant. *)
LEMMA PollFacts ==
  ASSUME NEW k, Good(k), NEW t \in Threads, k.thread[t].state = "READY",
         NEW members \in Seq(Slots), \E i \in DOMAIN members : Answers(k, members[i])
  PROVE  \E w, i, S : /\ w = Poll(k, t, members) /\ Good(w) /\ w.panic = k.panic
                      /\ S = {j \in DOMAIN members : Answers(k, members[j])}
                      /\ i = Lowest(S) /\ i \in S /\ Polled(k, w, t, i, members[i])
<1>1. k \in States /\ Core(k) /\ Body(k)
  BY DEF Good, Core, Body
<1>9. PICK n \in Nat : DOMAIN members = 1 .. n /\ \A i \in 1 .. n : i \in Nat /\ members[i] \in Slots
  OBVIOUS
<1>10. PICK S : S = {j \in DOMAIN members : Answers(k, members[j])}
  OBVIOUS
<1>2. S \in SUBSET Nat /\ S # {} /\ S = {j \in DOMAIN members : Answers(k, members[j])}
  BY <1>9, <1>10
<1>3. PICK i \in Nat : i = Lowest(S) /\ i \in S
  BY <1>2, LowestFacts
<1>4. PICK o \in Slots : o = members[i]
  BY <1>2, <1>3, <1>9
<1>5. Answers(k, o)
  BY <1>2, <1>3, <1>4
<1>6. PICK y \in ObjectRecords : y = k.object[o]
  BY <1>1, ObjectAt
<1>11. PICK z \in ThreadRecords : z = k.thread[t] /\ z.members = <<>> /\ z.deadline = 0
  BY <1>1, ThreadAt DEF Body, WaitsIn, Sane
<1>7. CASE ~Live(k, o)
  <2>1. PICK r \in Results : r = y.result
    BY ObjectFields
  <2>2. PICK w : Noted(k, w, t, r, i)
    BY NotedFacts
  <2>3. Poll(k, t, members) = [k EXCEPT !.thread[t].outcome = <<r, i>>]
    BY <1>2, <1>3, <1>4, <1>6, <1>7, <2>1 DEF Poll
  <2>4. w.thread[t].members = <<>> /\ w.thread[t].deadline = 0 /\ w.thread[t].outcome = <<r, i>>
    BY <1>11, <2>2 DEF Noted
  <2>5. Polled(k, w, t, i, o)
    BY <1>6, <1>7, <2>1, <2>2, <2>4 DEF Noted, Polled, Live, Like, Rest
  <2> QED BY <1>2, <1>3, <1>4, <2>2, <2>3, <2>5 DEF Noted
<1>8. CASE Live(k, o)
  <2>1. y.state = "LIVE" /\ y.count \in Nat /\ y.count # 0
    BY <1>5, <1>6, <1>8, ObjectFields DEF Answers, Live
  <2>2. PICK c : c = IF y.type \in {"EVENT_MANUAL", "TIMER"} THEN y.count ELSE y.count - 1
    OBVIOUS
  <2>3. c \in Nat
    BY <2>1, <2>2
  <2>4. Consumed(y) = [y EXCEPT !.count = c]
    BY <2>2 DEF Consumed
  <2>5. PICK j : j = [k EXCEPT !.object[o].count = c] /\ NewCount(k, j, o, c)
    BY <1>1, <2>3, CountFacts
  <2>6. k.object[o].state # "FREE" /\ k.object[o].deadline = 0
    BY <1>1, <1>6, <2>1 DEF Body, Shape
  <2>7. /\ Body(j) /\ SameUse(k, j) /\ j.panic = k.panic
        /\ \A p \in Slots \ {o} : Quiet(k, p) => Quiet(j, p)
    BY <1>1, <2>3, <2>5, <2>6, CountBody
  <2>8. j.thread = k.thread /\ j.queue = k.queue
    BY <2>5 DEF NewCount, Put
  <2>9. Quiet(j, o)
    <3>1. \A e : ~In(e, k.queue[o])
      BY <1>1, <1>6, <2>1 DEF Core, Quiet
    <3> QED BY <2>8, <3>1 DEF Quiet
  <2>10. Core(j)
    BY <1>1, <2>7, <2>9 DEF Core
  <2>11. Good(j)
    BY <2>7, <2>10, SameUseGood
  <2>12. PICK r \in Results : r = "OK"
    BY DEF Results
  <2>13. PICK w : Noted(j, w, t, r, i)
    BY <2>8, <2>11, NotedFacts
  <2>14. w = Poll(k, t, members)
    <3>1. Poll(k, t, members) = [k EXCEPT !.object[o] = Consumed(y), !.thread[t].outcome = <<r, i>>]
      BY <1>2, <1>3, <1>4, <1>6, <1>8, <2>12 DEF Poll
    <3>2. j = [k EXCEPT !.object[o] = Consumed(y)]
      BY <1>6, <2>4, <2>5
    <3>3. w = [j EXCEPT !.thread[t].outcome = <<r, i>>]
      BY <2>13 DEF Noted
    <3> QED BY <3>1, <3>2, <3>3
  <2>15. w.thread[t].members = <<>> /\ w.thread[t].deadline = 0 /\ w.thread[t].outcome = <<r, i>>
    BY <1>11, <2>8, <2>13 DEF Noted
  <2>16. Polled(k, w, t, i, o)
    <3>1. Rest(k, w, {t}) /\ w.object = j.object
      BY <2>8, <2>13 DEF Noted, Rest
    <3>2. \A q \in Slots \ {o} : Like(k.object[q], w.object[q])
      BY <2>5, <3>1 DEF NewCount, Put, Like
    <3>3. /\ w.object[o].type = y.type /\ w.object[o].maximum = y.maximum
          /\ w.object[o].result = y.result /\ w.object[o].deadline = y.deadline
          /\ w.object[o].count = c
      BY <1>6, <2>5, <3>1 DEF NewCount, Put
    <3> QED BY <1>6, <2>1, <2>2, <2>12, <2>15, <3>1, <3>2, <3>3 DEF Polled
  <2> QED BY <1>2, <1>3, <1>4, <2>7, <2>13, <2>14, <2>16 DEF Noted
<1> QED BY <1>7, <1>8

(* The elements of two sequences in a row are those of both. *)
LEMMA Joined ==
  ASSUME NEW X, NEW s \in Seq(X), NEW r \in Seq(X)
  PROVE  \E y \in Seq(X) : y = s \o r /\ \A e : In(e, y) <=> In(e, s) \/ In(e, r)
<1>1. PICK y : y = s \o r
  OBVIOUS
<1>2. PICK n \in Nat, m \in Nat : n = Len(s) /\ m = Len(r)
  OBVIOUS
<1>3. /\ y \in Seq(X) /\ Len(y) = n + m
      /\ \A i \in 1 .. n + m : y[i] = IF i <= n THEN s[i] ELSE r[i - n]
  BY <1>1, <1>2
<1>4. DOMAIN y = 1 .. n + m /\ DOMAIN s = 1 .. n /\ DOMAIN r = 1 .. m
  BY <1>2, <1>3
<1>5. ASSUME NEW e, In(e, y) PROVE In(e, s) \/ In(e, r)
  <2>1. PICK i \in 1 .. n + m : y[i] = e
    BY <1>4, <1>5 DEF In
  <2>2. CASE i <= n
    <3>1. i \in 1 .. n /\ s[i] = e
      BY <1>3, <2>1, <2>2
    <3> QED BY <1>4, <3>1 DEF In
  <2>3. CASE ~(i <= n)
    <3>1. i - n \in 1 .. m /\ r[i - n] = e
      BY <1>3, <2>1, <2>3
    <3> QED BY <1>4, <3>1 DEF In
  <2> QED BY <2>2, <2>3
<1>6. ASSUME NEW e, In(e, s) PROVE In(e, y)
  <2>1. PICK i \in 1 .. n : s[i] = e
    BY <1>4, <1>6 DEF In
  <2>2. i \in 1 .. n + m /\ y[i] = e
    BY <1>3, <2>1
  <2> QED BY <1>4, <2>2 DEF In
<1>7. ASSUME NEW e, In(e, r) PROVE In(e, y)
  <2>1. PICK i \in 1 .. m : r[i] = e
    BY <1>4, <1>7 DEF In
  <2>2. n + i \in 1 .. n + m /\ ~(n + i <= n) /\ n + i - n = i
    OBVIOUS
  <2>3. y[n + i] = e
    BY <1>3, <2>1, <2>2
  <2> QED BY <1>4, <2>2, <2>3 DEF In
<1>8. \A e : In(e, y) <=> In(e, s) \/ In(e, r)
  BY <1>5, <1>6, <1>7
<1> QED BY <1>1, <1>3, <1>8

(* A thread that begins a wait is registered at an object for its members  *)
(* that are this object.                                                   *)
LEMMA RegistrationsFacts ==
  ASSUME NEW t \in Threads, NEW members \in Seq(Slots), NEW o \in Slots
  PROVE  /\ Registrations(t, members, o) \in Seq(Threads \X Nat)
         /\ \A u \in Threads : \A i \in Nat :
              In(<<u, i>>, Registrations(t, members, o)) <=>
                u = t /\ i \in DOMAIN members /\ members[i] = o
<1>1. PICK n \in Nat : DOMAIN members = 1 .. n /\ n = Len(members)
  OBVIOUS
<1>2. PICK s : s = [i \in DOMAIN members |-> <<t, i>>]
  OBVIOUS
<1>3. \A i \in 1 .. n : s[i] = <<t, i>> /\ s[i] \in Threads \X Nat
  BY <1>1, <1>2
<1>4. s \in Seq(Threads \X Nat) /\ DOMAIN s = 1 .. n
  <2>1. DOMAIN s = 1 .. n /\ s = [i \in 1 .. n |-> s[i]]
    BY <1>1, <1>2
  <2>2. PICK X : X = Threads \X Nat
    OBVIOUS
  <2>3. s \in [1 .. n -> X]
    BY <1>3, <2>1, <2>2
  <2>4. s \in Seq(X)
    BY <2>3
  <2> QED BY <2>1, <2>2, <2>4
<1>5. PICK D : D = {i \in DOMAIN members : members[i] = o}
  OBVIOUS
<1>6. PICK X : X = Threads \X Nat
  OBVIOUS
<1>7. PICK A : A = {t} \X D
  OBVIOUS
<1>8. PICK y \in Seq(X) : y = Only(s, A) /\ \A e : In(e, y) <=> In(e, s) /\ e \in A
  BY <1>4, <1>6, OnlyFacts
<1>9. y = Registrations(t, members, o)
  BY <1>2, <1>5, <1>7, <1>8 DEF Registrations
<1>10. ASSUME NEW u \in Threads, NEW i \in Nat
       PROVE  In(<<u, i>>, y) <=> u = t /\ i \in DOMAIN members /\ members[i] = o
  <2>1. PICK e : e = <<u, i>>
    OBVIOUS
  <2>2. In(e, y) <=> In(e, s) /\ e \in A
    BY <1>8
  <2>3. e \in A <=> u = t /\ i \in D
    BY <1>7, <2>1
  <2>4. u = t /\ i \in D => In(e, s)
    BY <1>1, <1>3, <1>4, <1>5, <2>1 DEF In
  <2> QED BY <1>5, <2>1, <2>2, <2>3, <2>4
<1> QED BY <1>6, <1>8, <1>9, <1>10

Begun(k, w, t, members, deadline) ==
  /\ w = Block(k, t, members, deadline) /\ Good(w)
  /\ w.object = k.object /\ w.panic = k.panic
  /\ w.thread[t].members = members /\ w.thread[t].deadline = deadline
  /\ w.thread[t].outcome = None
  /\ \A u \in Threads \ {t} : w.thread[u] = k.thread[u]

(* A thread may block when none of the objects answers: nobody then sleeps *)
(* on a unit (kernel_sync_prepare_wait).                                   *)
LEMMA BlockFacts ==
  ASSUME NEW k, Good(k), NEW t \in Threads, k.thread[t].state = "READY",
         NEW members \in Seq(Slots), members # <<>>, NEW deadline \in Nat,
         \A i \in DOMAIN members : ~Answers(k, members[i])
  PROVE  \E w : Begun(k, w, t, members, deadline)
<1>1. k \in States
  BY DEF Good, Core, Body
<1>2. PICK q : q = [o \in Slots |-> k.queue[o] \o Registrations(t, members, o)]
  OBVIOUS
<1>3. ASSUME NEW o \in Slots
      PROVE  /\ q[o] \in Seq(Threads \X Nat)
             /\ \A e : In(e, q[o]) <=> In(e, k.queue[o]) \/ In(e, Registrations(t, members, o))
  <2>1. PICK X : X = Threads \X Nat
    OBVIOUS
  <2>2. PICK s \in Seq(X), r \in Seq(X) : s = k.queue[o] /\ r = Registrations(t, members, o)
    BY <1>1, <2>1, QueueFacts, RegistrationsFacts
  <2>3. PICK y \in Seq(X) : y = s \o r /\ \A e : In(e, y) <=> In(e, s) \/ In(e, r)
    BY Joined
  <2>4. q[o] = y
    BY <1>2, <2>2, <2>3
  <2> QED BY <2>1, <2>2, <2>3, <2>4
<1>4. q \in Queues
  <2>1. \A o \in Slots : q[o] \in Seq(Threads \X Nat)
    BY <1>3
  <2> QED BY <1>2, <2>1 DEF Queues
<1>5. PICK j : j = [k EXCEPT !.queue = q]
  OBVIOUS
<1>6. /\ j \in States /\ j.queue = q
      /\ j.object = k.object /\ j.heap = k.heap /\ j.pages = k.pages
      /\ j.thread = k.thread /\ j.process = k.process
      /\ j.handles = k.handles /\ j.panic = k.panic
  BY <1>1, <1>4, <1>5, Set_queue
<1>7. PICK s \in {"READY", "BLOCKED", "DEAD"} : s = "BLOCKED"
  OBVIOUS
<1>8. PICK a \in ThreadRecords : a = AtWork(s) /\ a.state = s /\ a.outcome = None
  BY AtWorkFacts
<1>9. PICK x : x = [a EXCEPT !.members = members, !.deadline = deadline]
  OBVIOUS
<1>10. /\ x \in ThreadRecords /\ x.state = "BLOCKED" /\ x.members = members
       /\ x.deadline = deadline /\ x.outcome = None
  BY <1>7, <1>8, <1>9 DEF ThreadRecords
<1>11. PICK v : v = [k.thread EXCEPT ![t] = x]
  OBVIOUS
<1>12. v \in ThreadTables /\ v[t] = x /\ \A u \in Threads \ {t} : v[u] = k.thread[u]
  BY <1>1, <1>10, <1>11, StateFields DEF ThreadTables
<1>13. PICK w : w = [j EXCEPT !.thread = v]
  OBVIOUS
<1>14. /\ w \in States /\ w.thread = v /\ w.queue = q
       /\ w.object = k.object /\ w.heap = k.heap /\ w.pages = k.pages
       /\ w.process = k.process /\ w.handles = k.handles /\ w.panic = k.panic
  BY <1>6, <1>12, <1>13, Set_thread
<1>15. w = Block(k, t, members, deadline)
  <2>1. Block(k, t, members, deadline) = [k EXCEPT !.queue = q, !.thread[t] = x]
    BY <1>2, <1>7, <1>8, <1>9 DEF Block
  <2> QED BY <1>5, <1>6, <1>11, <1>13, <2>1
<1>16. k.thread[t].members = <<>>
  BY DEF Good, Core, Body, WaitsIn, Sane
<1>17. Matched(w)
  <2> SUFFICES ASSUME NEW o \in Slots, NEW u \in Threads, NEW i \in Nat
               PROVE  In(<<u, i>>, w.queue[o]) <=>
                        i \in DOMAIN w.thread[u].members /\ w.thread[u].members[i] = o
    BY DEF Matched
  <2>1. In(<<u, i>>, k.queue[o]) <=>
          i \in DOMAIN k.thread[u].members /\ k.thread[u].members[i] = o
    BY DEF Good, Core, Body, WaitsIn, Matched
  <2>2. In(<<u, i>>, w.queue[o]) <=>
          In(<<u, i>>, k.queue[o]) \/ (u = t /\ i \in DOMAIN members /\ members[i] = o)
    <3>1. PICK e : e = <<u, i>>
      OBVIOUS
    <3>2. In(e, w.queue[o]) <=> In(e, k.queue[o]) \/ In(e, Registrations(t, members, o))
      BY <1>3, <1>14
    <3>3. In(e, Registrations(t, members, o)) <=> u = t /\ i \in DOMAIN members /\ members[i] = o
      BY <3>1, RegistrationsFacts
    <3> QED BY <3>1, <3>2, <3>3
  <2>3. CASE u = t
    <3>1. i \notin DOMAIN k.thread[u].members
      BY <1>16, <2>3
    <3>2. w.thread[u].members = members
      BY <1>10, <1>12, <1>14, <2>3
    <3> QED BY <2>1, <2>2, <2>3, <3>1, <3>2
  <2>4. CASE u # t
    BY <1>12, <1>14, <2>1, <2>2, <2>4
  <2> QED BY <2>3, <2>4
<1>18. \A u \in Threads : Sane(w.thread[u])
  <2>1. Sane(x)
    BY <1>10 DEF Sane
  <2> QED BY <1>12, <1>14, <2>1 DEF Good, Core, Body, WaitsIn
<1>19. Housed(w)
  BY <1>12, <1>14 DEF Good, Core, Body, WaitsIn, Housed
<1>20. HeapIn(w)
  <2>1. SameHeap(k, w)
    BY <1>14 DEF SameHeap
  <2> QED BY <1>1, <2>1, SameHeapIn DEF Good, Core, Body
<1>21. ASSUME NEW o \in Slots PROVE Quiet(w, o)
  <2>1. Quiet(k, o)
    BY DEF Good, Core
  <2> SUFFICES ASSUME NEW e, In(e, w.queue[o])
               PROVE  k.object[o].state = "LIVE" /\ k.object[o].count = 0
    BY <1>14 DEF Quiet
  <2>2. CASE In(e, k.queue[o])
    BY <2>1, <2>2 DEF Quiet
  <2>3. CASE In(e, Registrations(t, members, o))
    <3>1. e \in Threads \X Nat
      BY <1>14, QueueFacts
    <3>2. PICK u \in Threads, i \in Nat : e = <<u, i>>
      BY <3>1
    <3>3. i \in DOMAIN members /\ members[i] = o
      BY <2>3, <3>2, RegistrationsFacts
    <3>4. ~Answers(k, o)
      BY <3>3
    <3> QED BY <3>4 DEF Answers, Live
  <2> QED BY <1>3, <1>14, <2>2, <2>3
<1>22. Core(w)
  BY <1>14, <1>17, <1>18, <1>19, <1>20, <1>21 DEF Good, Core, Body, WaitsIn
<1>23. SameUse(k, w)
  BY <1>14 DEF SameUse
<1>24. Good(w)
  BY <1>22, <1>23, SameUseGood
<1>25. Begun(k, w, t, members, deadline)
  BY <1>10, <1>12, <1>14, <1>15, <1>24 DEF Begun
<1> QED BY <1>25

(* Ending one wait keeps the invariant. *)
LEMMA CancelFacts ==
  ASSUME NEW k, Good(k), NEW u \in Threads, k.thread[u].state = "BLOCKED",
         NEW r \in Results, NEW i \in Nat
  PROVE  \E w : /\ w = EndWait(k, u, r, i) /\ Good(w) /\ w.panic = k.panic
                /\ w.object = k.object /\ w.thread[u] = Told(r, i) /\ Rest(k, w, {u})
<1>1. k \in States /\ Body(k)
  BY DEF Good, Core, Body
<1>2. PICK w : /\ w = EndWait(k, u, r, i) /\ Outside(k, w)
               /\ Left(k, w, {u}) /\ Rest(k, w, {u})
               /\ w.thread[u] = Told(r, i)
  BY <1>1, EndWaitFacts
<1>3. PICK T \in SUBSET Threads : T = {u}
  OBVIOUS
<1>4. w.thread[u].state = "READY" /\ w.thread[u].members = <<>> /\ w.thread[u].deadline = 0
  BY <1>2, ToldFacts
<1>5. Gone(k, w, T)
  <2>1. Left(k, w, T) /\ Rest(k, w, T)
    BY <1>2, <1>3
  <2> QED BY <1>3, <1>4, <2>1 DEF Gone
<1>6. Ended(k, w, T)
  BY <1>2, <1>3, <1>5 DEF Ended
<1>7. Body(w) /\ \A o \in Slots : Quiet(k, o) => Quiet(w, o)
  BY <1>1, <1>6, EndedBody
<1>8. Core(w)
  BY <1>7 DEF Good, Core
<1>9. Good(w)
  BY <1>2, <1>8, OutsideUse, SameUseGood
<1> QED BY <1>2, <1>9 DEF Outside

(* The object o has c units, and its waiters are told r. *)
Rung(k, w, o, c, r) ==
  /\ w = WakeAll([k EXCEPT !.object[o].count = c], o, r) /\ Good(w) /\ w.panic = k.panic
  /\ \E j : NewCount(k, j, o, c) /\ Woken(j, w, WaitersOf(k, o), r, o)

(* The timer o is out of the heap, and has c units. *)
Stopped(k, w, o) ==
  /\ w = TimerRemove(k, o) /\ Good(w) /\ Disarmed(k, w, o) /\ w.panic = k.panic

Emptied(k, w, o) ==
  /\ w = [k EXCEPT !.object[o].count = 0] /\ Good(w) /\ NewCount(k, w, o, 0) /\ w.panic = k.panic

(* The object o has c units and the deadline d, and no other is seen to    *)
(* change.                                                                 *)
Turned(k, w, o, c, d) ==
  /\ \A q \in Slots \ {o} : Like(k.object[q], w.object[q])
  /\ w.object[o].type = k.object[o].type /\ w.object[o].maximum = k.object[o].maximum
  /\ w.object[o].result = k.object[o].result
  /\ w.object[o].count = c /\ w.object[o].deadline = d
----------------------------------------------------------------------------
(* Signals and timers. *)

(* Setting the count of an open object that is not armed, and waking all   *)
(* its waiters, keeps the invariant.                                       *)
LEMMA RungFacts ==
  ASSUME NEW k, Good(k), NEW o \in Slots, NEW c \in Nat, NEW r \in Results,
         k.object[o].state = "LIVE", k.object[o].deadline = 0
  PROVE  \E w : Rung(k, w, o, c, r)
<1>1. k \in States /\ Core(k) /\ Body(k)
  BY DEF Good, Core, Body
<1>2. PICK j : j = [k EXCEPT !.object[o].count = c] /\ NewCount(k, j, o, c)
  BY <1>1, CountFacts
<1>3. /\ Body(j) /\ SameUse(k, j) /\ j.panic = k.panic
      /\ \A p \in Slots \ {o} : Quiet(k, p) => Quiet(j, p)
  BY <1>1, <1>2, CountBody
<1>4. \A p \in Slots \ {o} : Quiet(j, p)
  BY <1>1, <1>3 DEF Core
<1>5. PICK w : /\ w = WakeAll(j, o, r) /\ Woken(j, w, WaitersOf(j, o), r, o)
               /\ Outside(j, w) /\ Core(w)
  BY <1>3, <1>4, WakeAllCore
<1>6. SameUse(k, w)
  BY <1>3, <1>5, OutsideUse, SameUseTwice
<1>7. Good(w)
  BY <1>5, <1>6, SameUseGood
<1>8. WaitersOf(j, o) = WaitersOf(k, o)
  BY <1>2 DEF NewCount, Put, WaitersOf
<1>9. w.panic = k.panic
  BY <1>3, <1>5 DEF Outside
<1>10. Rung(k, w, o, c, r)
  BY <1>2, <1>5, <1>7, <1>8, <1>9 DEF Rung
<1> QED BY <1>10

(* Emptying an open object keeps the invariant. *)
LEMMA EmptiedFacts ==
  ASSUME NEW k, Good(k), NEW o \in Slots, k.object[o].state = "LIVE"
  PROVE  \E w : Emptied(k, w, o)
<1>1. k \in States /\ Core(k) /\ Body(k)
  BY DEF Good, Core, Body
<1>2. PICK c \in Nat : c = 0
  OBVIOUS
<1>3. PICK w : w = [k EXCEPT !.object[o].count = c] /\ NewCount(k, w, o, c)
  BY <1>1, CountFacts
<1>4. /\ Body(w) /\ SameUse(k, w) /\ w.panic = k.panic
      /\ \A p \in Slots \ {o} : Quiet(k, p) => Quiet(w, p)
      /\ c = 0 /\ Quiet(k, o) => Quiet(w, o)
  <2>1. k.object[o].state # "FREE"
    OBVIOUS
  <2> QED BY <1>1, <1>2, <1>3, <2>1, CountBody
<1>5. Core(w)
  BY <1>1, <1>2, <1>4 DEF Core
<1>6. Good(w)
  BY <1>4, <1>5, SameUseGood
<1>7. Emptied(k, w, o)
  BY <1>2, <1>3, <1>4, <1>6 DEF Emptied
<1> QED BY <1>7

(* Taking a timer out of the heap keeps the invariant. *)
LEMMA StoppedFacts ==
  ASSUME NEW k, Good(k), NEW o \in Slots
  PROVE  \E w : Stopped(k, w, o)
<1>1. k \in States /\ Core(k) /\ Body(k) /\ HeapIn(k)
  BY DEF Good, Core, Body
<1>2. PICK w : w = TimerRemove(k, o) /\ Disarmed(k, w, o)
  BY <1>1, TimerRemoveFacts
<1>3. /\ Body(w) /\ SameUse(k, w) /\ w.panic = k.panic
      /\ \A p \in Slots : Quiet(k, p) => Quiet(w, p)
  BY <1>1, <1>2, DisarmedCore
<1>4. Good(w)
  <2>1. Core(w)
    BY <1>1, <1>3 DEF Core
  <2> QED BY <1>3, <2>1, SameUseGood
<1>5. Stopped(k, w, o)
  BY <1>2, <1>3, <1>4 DEF Stopped
<1> QED BY <1>5

(* One waiter has the unit. *)
Handed(k, w, o) ==
  /\ w = WakeOne([k EXCEPT !.object[o].count = 0], o, "OK") /\ Good(w) /\ w.panic = k.panic
  /\ \E j, t : NewCount(k, j, o, 0) /\ Woken(j, w, {t}, "OK", o) /\ t \in WaitersOf(k, o)

(* An auto event with waiters gives its unit to the first of them          *)
(* (kernel_sync_signal).                                                   *)
LEMMA HandedFacts ==
  ASSUME NEW k, Good(k), NEW o \in Slots, k.object[o].state = "LIVE", k.queue[o] # <<>>
  PROVE  \E w : Handed(k, w, o)
<1>1. PICK j : Emptied(k, j, o)
  BY EmptiedFacts
<1>2. /\ j = [k EXCEPT !.object[o].count = 0] /\ Good(j) /\ NewCount(k, j, o, 0)
      /\ j.panic = k.panic /\ j.queue = k.queue
  BY <1>1 DEF Emptied, NewCount, Put
<1>3. j \in States /\ Body(j) /\ Core(j)
  BY <1>2 DEF Good, Core, Body
<1>4. PICK r \in Results : r = "OK"
  BY DEF Results
<1>5. j.queue[o] # <<>>
  BY <1>2
<1>6. PICK w, t : /\ w = WakeOne(j, o, r) /\ Woken(j, w, {t}, r, o)
  BY <1>3, <1>5, WakeOneFacts
<1>7. PICK T : T = {t}
  OBVIOUS
<1>8. Ended(j, w, T)
  BY <1>3, <1>6, <1>7, WokenEnded
<1>9. Body(w) /\ \A p \in Slots : Quiet(j, p) => Quiet(w, p)
  BY <1>3, <1>8, EndedBody
<1>10. Core(w)
  BY <1>3, <1>9 DEF Core
<1>11. Outside(j, w)
  BY <1>6 DEF Woken
<1>12. Good(w)
  BY <1>2, <1>10, <1>11, OutsideUse, SameUseGood
<1>13. t \in WaitersOf(k, o)
  <2>1. PICK i \in Nat : In(<<t, i>>, j.queue[o]) /\ t \in Threads
    BY <1>6 DEF Woken, Told2
  <2> QED BY <1>2, <2>1 DEF WaitersOf
<1>14. w.panic = k.panic
  BY <1>2, <1>11 DEF Outside
<1>15. Handed(k, w, o)
  BY <1>2, <1>4, <1>6, <1>12, <1>13, <1>14 DEF Handed
<1> QED BY <1>15

Shared(k, w, o, n, c) ==
  /\ w = WakeSome([k EXCEPT !.object[o].count = c], o, n) /\ Good(w) /\ w.panic = k.panic
  /\ \E j, T : /\ NewCount(k, j, o, c) /\ Woken(j, w, T, "OK", o)
               /\ T \subseteq WaitersOf(k, o) /\ Cardinality(T) = n

(* Each of n waiters has a unit, and if others wait nothing is left. *)
LEMMA SharedFacts ==
  ASSUME NEW k, Good(k), NEW o \in Slots, k.object[o].state = "LIVE", k.object[o].deadline = 0,
         NEW n \in Nat, n <= Cardinality(WaitersOf(k, o)), NEW c \in Nat,
         n = Cardinality(WaitersOf(k, o)) \/ c = k.object[o].count
  PROVE  \E w : Shared(k, w, o, n, c)
<1>1. k \in States /\ Core(k) /\ Body(k)
  BY DEF Good, Core, Body
<1>2. PICK j : j = [k EXCEPT !.object[o].count = c] /\ NewCount(k, j, o, c)
  BY <1>1, CountFacts
<1>3. /\ Body(j) /\ SameUse(k, j) /\ j.panic = k.panic
      /\ \A p \in Slots \ {o} : Quiet(k, p) => Quiet(j, p)
  BY <1>1, <1>2, CountBody
<1>4. j.queue = k.queue /\ j.object[o].state = "LIVE" /\ j.object[o].count = c /\ j \in States
  BY <1>2 DEF NewCount, Put
<1>5. PICK W : W = WaitersOf(k, o) /\ W = WaitersOf(j, o)
  BY <1>4 DEF WaitersOf
<1>6. PICK w, T : /\ w = WakeSome(j, o, n) /\ Woken(j, w, T, "OK", o)
                  /\ IsFiniteSet(T) /\ Cardinality(T) = n
  BY <1>4, <1>5, WakeSomeFacts
<1>7. T \subseteq W
  <2> SUFFICES ASSUME NEW t \in T PROVE t \in W
    OBVIOUS
  <2>1. PICK i \in Nat : In(<<t, i>>, j.queue[o]) /\ t \in Threads
    BY <1>6 DEF Woken, Told2
  <2> QED BY <1>5, <2>1 DEF WaitersOf
<1>8. PICK r \in Results : r = "OK"
  BY DEF Results
<1>9. Ended(j, w, T)
  BY <1>3, <1>6, <1>8, WokenEnded
<1>10. Body(w) /\ \A p \in Slots : Quiet(j, p) => Quiet(w, p)
  BY <1>3, <1>9, EndedBody
<1>11. Outside(j, w) /\ Left(j, w, T)
  BY <1>6 DEF Woken
<1>12. Quiet(w, o)
  <2>1. CASE n = Cardinality(W)
    <3>1. IsFiniteSet(W)
      BY <1>4, <1>5, WaitersFinite
    <3>2. T = W
      BY <1>6, <1>7, <2>1, <3>1, FS_Subset
    <3>3. ASSUME NEW e, In(e, w.queue[o]) PROVE FALSE
      <4>1. In(e, j.queue[o]) /\ e[1] \notin T
        BY <1>11, <3>3 DEF Left
      <4>2. e \in Threads \X Nat
        BY <1>4, <4>1, QueueFacts
      <4>3. PICK t \in Threads, i \in Nat : e = <<t, i>>
        BY <4>2
      <4>4. e[1] = t
        BY <4>3
      <4>5. t \in W
        BY <1>5, <4>1, <4>3 DEF WaitersOf
      <4> QED BY <3>2, <4>1, <4>4, <4>5
    <3> QED BY <3>3 DEF Quiet
  <2>2. CASE c = k.object[o].count
    <3>1. Quiet(j, o)
      BY <1>1, <1>4, <2>2 DEF Core, Quiet
    <3> QED BY <1>10, <3>1
  <2> QED BY <1>5, <2>1, <2>2
<1>13. Core(w)
  BY <1>1, <1>3, <1>10, <1>12 DEF Core
<1>14. SameUse(k, w)
  BY <1>3, <1>11, OutsideUse, SameUseTwice
<1>15. Good(w)
  BY <1>13, <1>14, SameUseGood
<1>16. w.panic = k.panic
  BY <1>3, <1>11 DEF Outside
<1>17. Shared(k, w, o, n, c)
  BY <1>2, <1>5, <1>6, <1>7, <1>15, <1>16 DEF Shared
<1> QED BY <1>17

(* A timer is in the heap, or the machine has stopped. *)
LEMMA InsertedFacts ==
  ASSUME NEW k, Good(k), k.panic = Healthy, NEW o \in Slots,
         k.object[o].state = "LIVE", k.object[o].type = "TIMER", k.object[o].count = 0,
         k.object[o].deadline = 0, NEW d \in Nat \ {0}, NEW memory
  PROVE  \E w : /\ w = TimerInsert(k, o, d, memory)
                /\ \/ w.panic = "TIMER_SET: no memory" /\ w \in States
                   \/ w.panic = Healthy /\ Good(w) /\ Armed(k, w, o, d)
<1>1. k \in States /\ Core(k) /\ HeapIn(k)
  BY DEF Good, Core, Body
<1>2. k.object[o].position = Unset
  BY <1>1 DEF HeapIn
<1>3. PICK w : /\ w = TimerInsert(k, o, d, memory)
               /\ \/ w = [k EXCEPT !.panic = "TIMER_SET: no memory"]
                  \/ w = k /\ k.panic # Healthy
                  \/ Armed(k, w, o, d)
  BY <1>1, <1>2, TimerInsertFacts
<1>4. CASE w = [k EXCEPT !.panic = "TIMER_SET: no memory"]
  <2>1. PICK s \in Panics : s = "TIMER_SET: no memory"
    BY DEF Panics
  <2>2. w = [k EXCEPT !.panic = s]
    BY <1>4, <2>1
  <2>3. w \in States /\ w.panic = s
    BY <1>1, <2>2, Set_panic
  <2> QED BY <1>3, <2>1, <2>3
<1>5. CASE Armed(k, w, o, d)
  <2>1. Core(w) /\ SameUse(k, w) /\ w.panic = k.panic
    BY <1>1, <1>5, ArmedCore
  <2>2. Good(w)
    BY <2>1, SameUseGood
  <2> QED BY <1>3, <1>5, <2>1, <2>2
<1> QED BY <1>3, <1>4, <1>5

(* The count of one object is all that is seen. *)
LEMMA CountTurned ==
  ASSUME NEW k, NEW w, NEW o \in Slots, NEW c, NewCount(k, w, o, c)
  PROVE  Turned(k, w, o, c, k.object[o].deadline) /\ w.thread = k.thread /\ w.queue = k.queue
BY DEF NewCount, Put, Turned, Like

(* A timer that leaves the heap loses its deadline. *)
LEMMA StoppedTurned ==
  ASSUME NEW k, NEW w, NEW o \in Slots, Stopped(k, w, o)
  PROVE  Turned(k, w, o, k.object[o].count, 0) /\ w.thread = k.thread
BY DEF Stopped, Disarmed, Aside, SameBut, SameObject, SameCore, Turned, Like

(* An object that changes twice. *)
LEMMA TurnedTwice ==
  ASSUME NEW k, NEW x, NEW w, NEW o \in Slots, NEW a, NEW b, NEW c, NEW d,
         Turned(k, x, o, a, b), Turned(x, w, o, c, d)
  PROVE  Turned(k, w, o, c, d)
BY DEF Turned, Like

(* An object is set, and all its waiters are told. *)
LEMMA RungHeard ==
  ASSUME NEW k, Good(k), NEW w, NEW o \in Slots, NEW c, NEW r, Rung(k, w, o, c, r)
  PROVE  /\ Turned(k, w, o, c, k.object[o].deadline)
         /\ Heard(k, w, Listeners(k, {o}), r, {o})
<1>1. k \in States /\ Matched(k)
  BY DEF Good, Core, Body, WaitsIn
<1>2. PICK j : NewCount(k, j, o, c) /\ Woken(j, w, WaitersOf(k, o), r, o)
  BY DEF Rung
<1>3. Turned(k, j, o, c, k.object[o].deadline) /\ j.thread = k.thread /\ j.queue = k.queue
  BY <1>2, CountTurned
<1>4. PICK T : T = WaitersOf(k, o) /\ T = Listeners(k, {o})
  BY <1>1, WaitersListen
<1>5. w.object = j.object /\ T \subseteq Threads /\ Rest(j, w, T) /\ Told2(j, w, T, r, o)
  BY <1>2, <1>4 DEF Woken, Outside
<1>6. Heard(k, w, T, r, {o})
  BY <1>1, <1>3, <1>5, WokenHeard
<1>7. Turned(k, w, o, c, k.object[o].deadline)
  BY <1>3, <1>5 DEF Turned
<1> QED BY <1>4, <1>6, <1>7

(* One waiter has the unit, and is told. *)
LEMMA HandedHeard ==
  ASSUME NEW k, Good(k), NEW w, NEW o \in Slots, Handed(k, w, o)
  PROVE  \E t \in Listeners(k, {o}) : /\ Turned(k, w, o, 0, k.object[o].deadline)
                                       /\ Heard(k, w, {t}, "OK", {o})
<1>1. k \in States /\ Matched(k)
  BY DEF Good, Core, Body, WaitsIn
<1>2. PICK j, t : NewCount(k, j, o, 0) /\ Woken(j, w, {t}, "OK", o) /\ t \in WaitersOf(k, o)
  BY DEF Handed
<1>3. Turned(k, j, o, 0, k.object[o].deadline) /\ j.thread = k.thread /\ j.queue = k.queue
  BY <1>2, CountTurned
<1>4. PICK T : T = {t}
  OBVIOUS
<1>5. w.object = j.object /\ T \subseteq Threads /\ Rest(j, w, T) /\ Told2(j, w, T, "OK", o)
  BY <1>2, <1>4 DEF Woken, Outside
<1>6. Heard(k, w, T, "OK", {o})
  BY <1>1, <1>3, <1>5, WokenHeard
<1>7. Turned(k, w, o, 0, k.object[o].deadline)
  BY <1>3, <1>5 DEF Turned
<1>8. t \in Listeners(k, {o})
  BY <1>1, <1>2, WaitersListen
<1> QED BY <1>4, <1>6, <1>7, <1>8

(* As many waiters as were given units are told. *)
LEMMA SharedHeard ==
  ASSUME NEW k, Good(k), NEW w, NEW o \in Slots, NEW n, NEW c, Shared(k, w, o, n, c)
  PROVE  \E T \in SUBSET Listeners(k, {o}) :
           /\ Turned(k, w, o, c, k.object[o].deadline)
           /\ Heard(k, w, T, "OK", {o}) /\ Cardinality(T) = n
<1>1. k \in States /\ Matched(k)
  BY DEF Good, Core, Body, WaitsIn
<1>2. PICK j, T : /\ NewCount(k, j, o, c) /\ Woken(j, w, T, "OK", o)
                  /\ T \subseteq WaitersOf(k, o) /\ Cardinality(T) = n
  BY DEF Shared
<1>3. Turned(k, j, o, c, k.object[o].deadline) /\ j.thread = k.thread /\ j.queue = k.queue
  BY <1>2, CountTurned
<1>5. w.object = j.object /\ T \subseteq Threads /\ Rest(j, w, T) /\ Told2(j, w, T, "OK", o)
  BY <1>2 DEF Woken, Outside
<1>6. Heard(k, w, T, "OK", {o})
  BY <1>1, <1>3, <1>5, WokenHeard
<1>7. Turned(k, w, o, c, k.object[o].deadline)
  BY <1>3, <1>5 DEF Turned
<1>8. T \subseteq Listeners(k, {o})
  BY <1>1, <1>2, WaitersListen
<1> QED BY <1>2, <1>6, <1>7, <1>8

(* No deadline of a thread is due, and no timer. *)
Later(x, d) == x = 0 \/ x > d
NobodyLate(k, d) == \A t \in Threads : Later(k.thread[t].deadline, d)
(* The threads of T have given up. *)
GaveUp(k, w, T) ==
  /\ T \subseteq Threads /\ Rest(k, w, T) /\ \A t \in T : w.thread[t] = Told("TIMED_OUT", 0)
NothingDue(k, d) == \A o \in Slots : Later(k.object[o].deadline, d)

----------------------------------------------------------------------------
(* Time passes. *)

(* The threads whose deadline is due leave their waits, and none is late   *)
(* then (scheduler_expire_due).                                            *)
LEMMA ExpireDeadlinesFacts ==
  ASSUME NEW k, Good(k), NEW d \in Nat \ {0}
  PROVE  \E w : /\ w = ExpireDeadlines(k, d) /\ Good(w) /\ w.panic = k.panic /\ NobodyLate(w, d)
                /\ w.object = k.object /\ GaveUp(k, w, {t \in Threads : k.thread[t].deadline \in 1 .. d})
<1>1. k \in States /\ Body(k) /\ Core(k)
  BY DEF Good, Core, Body
<1>2. PICK T \in SUBSET Threads : T = {t \in Threads : k.thread[t].deadline \in 1 .. d}
  OBVIOUS
<1>3. PICK j : Pulled(k, j, T)
  BY <1>1, WithdrawnFacts
<1>4. /\ j = Withdrawn(k, T) /\ j \in States /\ j.thread = k.thread /\ Left(k, j, T)
      /\ j.object = k.object /\ j.heap = k.heap /\ j.pages = k.pages
      /\ j.process = k.process /\ j.handles = k.handles /\ j.panic = k.panic
  BY <1>3 DEF Pulled, Outside
<1>5. PICK r \in Results, z \in Nat : r = "TIMED_OUT" /\ z = 0
  BY DEF Results
<1>6. PICK late \in ThreadRecords : /\ late = Told(r, z) /\ late.state = "READY"
                                    /\ late.members = <<>> /\ late.deadline = 0
  BY ToldFacts
<1>7. PICK u : u = [x \in Threads |-> IF x \in T THEN late ELSE k.thread[x]]
  OBVIOUS
<1>8. /\ u \in ThreadTables /\ \A x \in T : u[x] = late
      /\ \A x \in Threads \ T : u[x] = k.thread[x]
  BY <1>1, <1>7, ThreadAt DEF ThreadTables
<1>9. PICK w : w = [j EXCEPT !.thread = u]
  OBVIOUS
<1>10. /\ w \in States /\ w.thread = u
       /\ w.object = k.object /\ w.heap = k.heap /\ w.pages = k.pages
       /\ w.queue = j.queue /\ w.process = k.process
       /\ w.handles = k.handles /\ w.panic = k.panic
  BY <1>4, <1>8, <1>9, Set_thread
<1>11. w = ExpireDeadlines(k, d)
  <2>1. ExpireDeadlines(k, d) =
          [j EXCEPT !.thread = [x \in Threads |-> IF x \in T THEN late ELSE @[x]]]
    BY <1>2, <1>4, <1>5, <1>6 DEF ExpireDeadlines
  <2> QED BY <1>4, <1>7, <1>9, <2>1
<1>12. Gone(k, w, T)
  <2>1. Left(k, w, T)
    BY <1>4, <1>10 DEF Left
  <2>2. Rest(k, w, T)
    BY <1>8, <1>10 DEF Rest
  <2> QED BY <1>6, <1>8, <1>10, <2>1, <2>2 DEF Gone
<1>13. \A t \in T : k.thread[t].state = "BLOCKED"
  <2> SUFFICES ASSUME NEW t \in T PROVE k.thread[t].state = "BLOCKED"
    OBVIOUS
  <2>1. k.thread[t].deadline # 0
    BY <1>2
  <2> QED BY <1>1, <2>1 DEF Body, WaitsIn, Sane
<1>14. Outside(k, w)
  BY <1>10 DEF Outside
<1>15. Ended(k, w, T)
  BY <1>12, <1>13, <1>14 DEF Ended
<1>16. Body(w) /\ \A o \in Slots : Quiet(k, o) => Quiet(w, o)
  BY <1>1, <1>15, EndedBody
<1>17. Core(w)
  BY <1>1, <1>16 DEF Core
<1>18. Good(w)
  BY <1>14, <1>17, OutsideUse, SameUseGood
<1>19. NobodyLate(w, d)
  <2> SUFFICES ASSUME NEW t \in Threads PROVE Later(w.thread[t].deadline, d)
    BY DEF NobodyLate
  <2>1. CASE t \in T
    BY <1>6, <1>8, <1>10, <2>1 DEF Later
  <2>2. CASE t \notin T
    <3>1. w.thread[t] = k.thread[t] /\ k.thread[t].deadline \in Nat
      BY <1>1, <1>8, <1>10, <2>2, ThreadAt
    <3>2. k.thread[t].deadline \notin 1 .. d
      BY <1>2, <2>2
    <3> QED BY <3>1, <3>2 DEF Later
  <2> QED BY <2>1, <2>2
<1>20. GaveUp(k, w, T)
  BY <1>5, <1>6, <1>8, <1>10, <1>12 DEF GaveUp, Gone
<1> QED BY <1>2, <1>10, <1>11, <1>18, <1>19, <1>20

(* The first timer of the heap is the next to expire. *)
LEMMA RootFirst ==
  ASSUME NEW k \in States, HeapIn(k), NEW i \in DOMAIN k.heap
  PROVE  k.object[k.heap[1]].deadline <= k.object[k.heap[i]].deadline
<1>1. PICK n \in Nat : /\ n = Len(k.heap) /\ DOMAIN k.heap = 1 .. n
                       /\ \A l \in 1 .. n : l \in Nat /\ k.heap[l] \in Slots
  BY HeapFacts
<1>2. 1 \in 1 .. n /\ i \in 1 .. n
  BY <1>1
<1>3. \A l \in 1 .. n : k.object[k.heap[l]].deadline \in Nat
  BY <1>1, ObjectAt, ObjectFields
<1>4. PICK X : X = {l \in 1 .. n : k.object[k.heap[l]].deadline < k.object[k.heap[1]].deadline}
  OBVIOUS
<1>5. X \in SUBSET Nat
  BY <1>1, <1>4
<1> SUFFICES ASSUME X # {} PROVE FALSE
  BY <1>2, <1>3, <1>4
<1>6. PICK m \in X : \A x \in X : m <= x
  BY <1>5, Least
<1>7. m \in 1 .. n /\ m # 1 /\ m \in Nat
  BY <1>1, <1>2, <1>3, <1>4, <1>6
<1>8. m \div 2 \in 1 .. n /\ m \div 2 < m
  BY <1>7, Halves
<1>9. PICK a \in Slots, b \in Slots : a = k.heap[m] /\ b = k.heap[m \div 2]
  BY <1>1, <1>7, <1>8
<1>10. ~Less(k, a, b)
  BY <1>1, <1>7, <1>9 DEF HeapIn, Ordered, InOrder
<1>11. PICK x \in Nat, y \in Nat, z \in Nat :
         x = k.object[a].deadline /\ y = k.object[b].deadline /\ z = k.object[k.heap[1]].deadline
  BY <1>2, <1>3, <1>7, <1>8, <1>9
<1>12. y <= x
  BY <1>10, <1>11 DEF Less
<1>13. x < z
  BY <1>4, <1>6, <1>9, <1>11
<1>14. m \div 2 \in X
  BY <1>4, <1>8, <1>9, <1>11, <1>12, <1>13
<1> QED BY <1>5, <1>6, <1>7, <1>8, <1>14

(* Expiring the first timer keeps the invariant, and takes it out of the   *)
(* heap when it is due.                                                    *)
LEMMA ExpireFirstFacts ==
  ASSUME NEW k, Good(k), k.panic = Healthy, NEW d \in Nat, NobodyLate(k, d),
         k.heap # <<>>, NEW o \in Slots, o = k.heap[1], k.object[o].deadline <= d
  PROVE  \E w : /\ w = ExpireFirst(k, d) /\ Good(w) /\ w.panic = Healthy /\ NobodyLate(w, d)
                /\ Len(w.heap) = Len(k.heap) - 1 /\ Rang(k, w, {o}, d)
<1>1. k \in States /\ Body(k) /\ Core(k) /\ HeapIn(k)
  BY DEF Good, Core, Body
<1>2. PICK n \in Nat : /\ n = Len(k.heap) /\ DOMAIN k.heap = 1 .. n /\ k.heap \in Seq(Slots)
                       /\ \A l \in 1 .. n : l \in Nat /\ k.heap[l] \in Slots
  BY <1>1, HeapFacts
<1>3. n # 0
  <2>1. PICK s \in Seq(Slots) : s = k.heap /\ s # <<>> /\ Len(s) = n
    BY <1>2
  <2> QED BY <2>1
<1>4. 1 \in DOMAIN k.heap
  BY <1>2, <1>3
<1>5. k.object[o].position = 1
  BY <1>1, <1>4 DEF HeapIn, Linked
<1>6. k.object[o].deadline # 0
  BY <1>1, <1>5 DEF HeapIn, Unset
<1>7. k.object[o].state = "LIVE" /\ k.object[o].count = 0
  BY <1>1, <1>6 DEF Body, Shape
<1>8. PICK j : Stopped(k, j, o)
  BY StoppedFacts
<1>9. /\ j = TimerRemove(k, o) /\ Good(j) /\ j.panic = Healthy
      /\ j.thread = k.thread /\ j.queue = k.queue
      /\ SameCore(k.object[o], j.object[o]) /\ j.object[o].deadline = 0
      /\ Len(j.heap) = Len(k.heap) - 1
  BY <1>5, <1>8 DEF Stopped, Disarmed, Aside, Unset
<1>10. PICK r \in Results, c \in Nat : r = "OK" /\ c = 1
  BY DEF Results
<1>11. PICK w : Rung(j, w, o, c, r)
  BY <1>7, <1>9, RungFacts DEF SameCore
<1>12. w = WakeAll([j EXCEPT !.object[o].count = c], o, r) /\ Good(w) /\ w.panic = j.panic
  BY <1>11 DEF Rung
<1>13. w = ExpireFirst(k, d)
  <2>1. k.object[o].deadline \in Nat /\ ~(k.object[o].deadline > d)
    BY <1>1, ObjectAt, ObjectFields
  <2>2. Check("expire_timers", Live(k, o) /\ k.object[o].count = 0, k) = k
    BY <1>7 DEF Check, Live
  <2> QED BY <1>9, <1>10, <1>12, <2>1, <2>2 DEF ExpireFirst, Sound
<1>14. PICK i : NewCount(j, i, o, c) /\ Woken(i, w, WaitersOf(j, o), r, o)
  BY <1>11 DEF Rung
<1>15. w.heap = j.heap /\ i.thread = j.thread
  BY <1>14 DEF NewCount, Put, Woken, Outside
<1>16. NobodyLate(w, d)
  <2> SUFFICES ASSUME NEW t \in Threads PROVE Later(w.thread[t].deadline, d)
    BY DEF NobodyLate
  <2>1. CASE t \in WaitersOf(j, o)
    <3>1. PICK l \in Nat : w.thread[t] = Told(r, l)
      BY <1>14, <2>1 DEF Woken, Told2
    <3>2. w.thread[t].deadline = 0
      BY <3>1, ToldFacts
    <3> QED BY <3>2 DEF Later
  <2>2. CASE t \notin WaitersOf(j, o)
    <3>1. w.thread[t] = k.thread[t]
      BY <1>9, <1>14, <1>15, <2>2 DEF Woken, Rest
    <3> QED BY <3>1 DEF NobodyLate
  <2> QED BY <2>1, <2>2
<1>17. Turned(k, w, o, 1, 0) /\ Heard(k, w, Listeners(k, {o}), "OK", {o})
  <2>1. Turned(k, j, o, k.object[o].count, 0)
    BY <1>8, StoppedTurned
  <2>2. Turned(j, w, o, c, j.object[o].deadline) /\ Heard(j, w, Listeners(j, {o}), r, {o})
    BY <1>9, <1>11, RungHeard
  <2>3. Turned(j, w, o, 1, 0)
    BY <1>9, <1>10, <2>2
  <2>4. Listeners(j, {o}) = Listeners(k, {o})
    BY <1>9 DEF Listeners
  <2>5. Heard(k, w, Listeners(k, {o}), r, {o})
    BY <1>9, <2>2, <2>4 DEF Heard, Rest
  <2> QED BY <1>10, <2>1, <2>3, <2>5, TurnedTwice
<1>18. Rang(k, w, {o}, d)
  <2>1. k.object[o].deadline \in 1 .. d /\ k.object[o].type = "TIMER" /\ k.object[o].result = ""
    <3>1. k.object[o].deadline \in Nat
      BY <1>1, ObjectAt, ObjectFields
    <3>2. k.object[o].type = "TIMER" /\ k.object[o].result = ""
      BY <1>1, <1>6, <1>7 DEF Body, Shape
    <3>3. PICK n1 \in Nat : n1 = k.object[o].deadline
      BY <3>1
    <3>4. n1 # 0 /\ n1 <= d
      BY <1>6, <3>3
    <3>5. n1 \in 1 .. d
      BY <3>4
    <3> QED BY <3>2, <3>3, <3>5
  <2>2. Expired(k.object[o], w.object[o], d)
    BY <1>17, <2>1 DEF Turned, Expired
  <2> QED BY <1>17, <2>2 DEF Turned, Rang
<1> QED BY <1>9, <1>12, <1>13, <1>15, <1>16, <1>18

(* After as many rounds as there were timers none is due: the first of the *)
(* heap is the earliest (kernel_sync_expire_timers).                       *)
LEMMA ExpireTimersFacts ==
  ASSUME NEW k, Good(k), k.panic = Healthy, NEW d \in Nat, NobodyLate(k, d)
  PROVE  \E w : /\ w = ExpireTimers(k, d) /\ Good(w) /\ w.panic = Healthy
                /\ NobodyLate(w, d) /\ NothingDue(w, d) /\ \E S : Rang(k, w, S, d)
<1>1. k \in States
  BY DEF Good, Core, Body
<1>2. PICK n \in Nat : n = Len(k.heap)
  BY <1>1, HeapFacts
<1>3. PICK f : ExpireRun(f, k, d, n)
  BY <1>2, ExpireRounds
<1>4. /\ f[0] = k /\ \A i \in 1 .. n : f[i] = ExpireFirst(f[i - 1], d)
      /\ ExpireTimers(k, d) = f[n]
  BY <1>3 DEF ExpireRun
<1> DEFINE Done(x) == x.heap = <<>> \/ x.object[x.heap[1]].deadline > d
           P == {i \in 0 .. n : /\ Good(f[i]) /\ f[i].panic = Healthy /\ NobodyLate(f[i], d)
                                /\ Len(f[i].heap) \in Nat
                                /\ Len(f[i].heap) <= n - i \/ Done(f[i])
                                /\ \E S : Rang(k, f[i], S, d)}
<1>5. 0 \in P
  <2>1. Rang(k, f[0], {}, d)
    BY <1>4, RangNothing
  <2> QED BY <1>2, <1>4, <2>1
<1>6. ASSUME NEW i \in 1 .. n, i - 1 \in P PROVE i \in P
  <2>1. PICK x : x = f[i - 1]
    OBVIOUS
  <2>2. /\ Good(x) /\ x.panic = Healthy /\ NobodyLate(x, d) /\ Len(x.heap) \in Nat
        /\ Len(x.heap) <= n - (i - 1) \/ Done(x)
        /\ \E S : Rang(k, x, S, d)
    BY <1>6, <2>1
  <2>3. PICK y : y = f[i] /\ y = ExpireFirst(x, d)
    BY <1>4, <2>1
  <2>4. i \in 0 .. n
    OBVIOUS
  <2>5. x \in States
    BY <2>2 DEF Good, Core, Body
  <2>6. CASE Done(x)
    <3>1. y = x
      BY <2>3, <2>6 DEF ExpireFirst
    <3> QED BY <2>2, <2>3, <2>4, <2>6, <3>1
  <2>7. CASE ~Done(x)
    <3>1. PICK m \in Nat : /\ m = Len(x.heap) /\ DOMAIN x.heap = 1 .. m /\ x.heap \in Seq(Slots)
                           /\ \A l \in 1 .. m : l \in Nat /\ x.heap[l] \in Slots
      BY <2>5, HeapFacts
    <3>2. m # 0
      <4>1. PICK s \in Seq(Slots) : s = x.heap /\ s # <<>> /\ Len(s) = m
        BY <2>7, <3>1
      <4> QED BY <4>1
    <3>3. PICK o \in Slots : o = x.heap[1]
      BY <3>1, <3>2
    <3>4. x.heap # <<>> /\ x.object[o].deadline <= d
      <4>1. x.object[o].deadline \in Nat
        BY <2>5, ObjectAt, ObjectFields
      <4> QED BY <2>7, <3>3, <4>1
    <3>5. PICK w : /\ w = ExpireFirst(x, d) /\ Good(w) /\ w.panic = Healthy /\ NobodyLate(w, d)
                   /\ Len(w.heap) = Len(x.heap) - 1 /\ Rang(x, w, {o}, d)
      BY <2>2, <3>3, <3>4, ExpireFirstFacts
    <3>6. Len(w.heap) \in Nat /\ Len(w.heap) <= n - i
      BY <2>2, <2>7, <3>1, <3>2, <3>5
    <3>7. \E S : Rang(k, w, S, d)
      BY <2>2, <3>5, RangTwice
    <3> QED BY <2>3, <2>4, <3>5, <3>6, <3>7
  <2> QED BY <2>6, <2>7
<1>7. PICK w : w = f[n]
  OBVIOUS
<1>8. n \in P
  <2>1. \A i \in 1 .. n : i - 1 \in P => i \in P
    BY <1>6
  <2> HIDE DEF P
  <2>2. \A i \in 0 .. n : i \in P
    BY <1>5, <2>1, Climb
  <2> QED BY <2>2
<1>9. /\ Good(w) /\ w.panic = Healthy /\ NobodyLate(w, d)
      /\ Len(w.heap) \in Nat /\ (Len(w.heap) <= n - n \/ Done(w))
      /\ \E S : Rang(k, w, S, d)
  BY <1>7, <1>8
<1>10. w \in States /\ HeapIn(w)
  BY <1>9 DEF Good, Core, Body
<1>11. NothingDue(w, d)
  <2> SUFFICES ASSUME NEW o \in Slots, w.object[o].deadline # 0 PROVE w.object[o].deadline > d
    BY DEF NothingDue, Later
  <2>1. PICK m \in Nat : /\ m = Len(w.heap) /\ DOMAIN w.heap = 1 .. m /\ w.heap \in Seq(Slots)
                         /\ \A l \in 1 .. m : l \in Nat /\ w.heap[l] \in Slots
    BY <1>10, HeapFacts
  <2>2. PICK i \in 1 .. m : w.heap[i] = o
    BY <1>10, <2>1 DEF HeapIn, Linked
  <2>3. Len(w.heap) # 0 /\ w.heap # <<>>
    BY <2>1, <2>2
  <2>4. w.object[w.heap[1]].deadline > d
    BY <1>9, <2>3
  <2>5. w.object[w.heap[1]].deadline <= w.object[o].deadline
    BY <1>10, <2>1, <2>2, RootFirst
  <2>6. w.object[w.heap[1]].deadline \in Nat /\ w.object[o].deadline \in Nat
    BY <1>10, <2>1, <2>2, ObjectAt, ObjectFields
  <2> QED BY <2>4, <2>5, <2>6
<1> QED BY <1>4, <1>7, <1>9, <1>11

Aged(x, y, d) ==
  /\ y.state = x.state /\ y.type = x.type /\ y.count = x.count
  /\ y.maximum = x.maximum /\ y.owner = x.owner /\ y.references = x.references
  /\ y.result = x.result /\ y.position = x.position /\ y.deadline = Nearer(x.deadline, d)

OlderThread(x, y, d) ==
  /\ y.members = x.members /\ y.outcome = x.outcome /\ y.deadline = Nearer(x.deadline, d)

(* A deadline that is not due comes nearer, and no nearer than 1; their    *)
(* order stays.                                                            *)
LEMMA NearerFacts ==
  ASSUME NEW x \in Nat, NEW d \in Nat, Later(x, d)
  PROVE  Nearer(x, d) \in Nat /\ (Nearer(x, d) = 0 <=> x = 0) /\ (x # 0 => Nearer(x, d) = x - d)
BY DEF Nearer, Later

(* When nothing is due, time passing keeps the invariant. *)
LEMMA AdvanceFacts ==
  ASSUME NEW k, Good(k), NEW d \in Nat, NobodyLate(k, d), NothingDue(k, d)
  PROVE  \E w : /\ w = Advance(k, d) /\ Good(w) /\ w.panic = k.panic
                /\ \A o \in Slots : Aged(k.object[o], w.object[o], d)
                /\ \A t \in Threads : OlderThread(k.thread[t], w.thread[t], d)
<1>1. k \in States /\ Body(k) /\ Core(k) /\ HeapIn(k)
  BY DEF Good, Core, Body
<1>2. PICK u : u = [t \in Threads |-> [k.thread[t] EXCEPT !.deadline = Nearer(@, d)]]
  OBVIOUS
<1>3. ASSUME NEW t \in Threads
      PROVE  /\ u[t] \in ThreadRecords /\ u[t].state = k.thread[t].state
             /\ u[t].members = k.thread[t].members /\ u[t].outcome = k.thread[t].outcome
             /\ k.thread[t].deadline = 0 => u[t].deadline = 0
             /\ u[t].deadline = Nearer(k.thread[t].deadline, d)
  <2>1. PICK y \in ThreadRecords : y = k.thread[t]
    BY <1>1, ThreadAt
  <2>2. PICK n \in Nat : n = Nearer(y.deadline, d) /\ (n = 0 <=> y.deadline = 0)
    <3>1. y.deadline \in Nat /\ Later(y.deadline, d)
      BY <2>1, ThreadFields DEF NobodyLate
    <3> QED BY <3>1, NearerFacts
  <2>3. u[t] = [y EXCEPT !.deadline = n]
    BY <1>2, <2>1, <2>2
  <2>4. /\ [y EXCEPT !.deadline = n] \in ThreadRecords
        /\ [y EXCEPT !.deadline = n].state = y.state
        /\ [y EXCEPT !.deadline = n].members = y.members
        /\ [y EXCEPT !.deadline = n].outcome = y.outcome
        /\ [y EXCEPT !.deadline = n].deadline = n
    BY DEF ThreadRecords
  <2> QED BY <2>1, <2>2, <2>3, <2>4
<1>4. u \in ThreadTables
  <2>1. \A t \in Threads : u[t] \in ThreadRecords
    BY <1>3
  <2> QED BY <1>2, <2>1 DEF ThreadTables
<1>5. PICK v : v = [o \in Slots |-> [k.object[o] EXCEPT !.deadline = Nearer(@, d)]]
  OBVIOUS
<1>6. ASSUME NEW o \in Slots
      PROVE  v[o] \in ObjectRecords /\ Aged(k.object[o], v[o], d)
  <2>1. PICK y \in ObjectRecords : y = k.object[o]
    BY <1>1, ObjectAt
  <2>2. PICK n \in Nat : n = Nearer(y.deadline, d)
    <3>1. y.deadline \in Nat /\ Later(y.deadline, d)
      BY <2>1, ObjectFields DEF NothingDue
    <3> QED BY <3>1, NearerFacts
  <2>3. PICK x : x = [y EXCEPT !.deadline = n]
    OBVIOUS
  <2>4. /\ x \in ObjectRecords /\ x.deadline = n
        /\ x.state = y.state /\ x.type = y.type /\ x.count = y.count
        /\ x.maximum = y.maximum /\ x.owner = y.owner
        /\ x.references = y.references /\ x.result = y.result
        /\ x.position = y.position
    BY <2>3, Put_deadline
  <2>5. v[o] = x
    BY <1>5, <2>1, <2>2, <2>3
  <2> QED BY <2>1, <2>2, <2>4, <2>5 DEF Aged
<1>7. v \in Objects
  <2>1. \A o \in Slots : v[o] \in ObjectRecords
    BY <1>6
  <2> QED BY <1>5, <2>1 DEF Objects
<1>8. PICK j : j = [k EXCEPT !.thread = u]
  OBVIOUS
<1>9. /\ j \in States /\ j.thread = u
      /\ j.object = k.object /\ j.heap = k.heap /\ j.pages = k.pages
      /\ j.queue = k.queue /\ j.process = k.process
      /\ j.handles = k.handles /\ j.panic = k.panic
  BY <1>1, <1>4, <1>8, Set_thread
<1>10. PICK w : w = [j EXCEPT !.object = v]
  OBVIOUS
<1>11. /\ w \in States /\ w.object = v /\ w.thread = u
       /\ w.heap = k.heap /\ w.pages = k.pages
       /\ w.queue = k.queue /\ w.process = k.process
       /\ w.handles = k.handles /\ w.panic = k.panic
  BY <1>7, <1>9, <1>10, Set_object
<1>12. w = Advance(k, d)
  <2>1. Advance(k, d) = [k EXCEPT !.thread = u, !.object = v]
    BY <1>2, <1>5 DEF Advance
  <2> QED BY <1>8, <1>10, <2>1
<1>13. ASSUME NEW o \in Slots
       PROVE  /\ Aged(k.object[o], w.object[o], d)
              /\ k.object[o].deadline \in Nat /\ Later(k.object[o].deadline, d)
              /\ w.object[o].deadline = 0 <=> k.object[o].deadline = 0
              /\ w.object[o].deadline \in Nat
  <2>1. k.object[o].deadline \in Nat /\ Later(k.object[o].deadline, d)
    BY <1>1, ObjectAt, ObjectFields DEF NothingDue
  <2>2. Aged(k.object[o], w.object[o], d)
    BY <1>6, <1>11
  <2> QED BY <2>1, <2>2, NearerFacts DEF Aged
<1>14. PICK n \in Nat : /\ n = Len(k.heap) /\ DOMAIN k.heap = 1 .. n
                        /\ \A l \in 1 .. n : l \in Nat /\ k.heap[l] \in Slots
  BY <1>1, HeapFacts
<1>15. Linked(w)
  BY <1>1, <1>11, <1>13, <1>14 DEF HeapIn, Linked, Aged
<1>16. Ordered(w)
  <2> SUFFICES ASSUME NEW i \in 1 .. n, i # 1 PROVE ~Less(w, w.heap[i], w.heap[i \div 2])
    BY <1>11, <1>14 DEF Ordered, InOrder
  <2>1. i \div 2 \in 1 .. n
    BY Halves
  <2>2. PICK a \in Slots, b \in Slots : a = k.heap[i] /\ b = k.heap[i \div 2]
    BY <1>14, <2>1
  <2>3. ~Less(k, a, b)
    BY <1>1, <1>14, <2>2 DEF HeapIn, Ordered, InOrder
  <2>4. k.object[a].deadline # 0 /\ k.object[b].deadline # 0
    <3>1. k.object[a].position = i /\ k.object[b].position = i \div 2 /\ i # 0 /\ i \div 2 # 0
      BY <1>1, <1>14, <2>1, <2>2 DEF HeapIn, Linked
    <3> QED BY <1>1, <3>1 DEF HeapIn, Unset
  <2>5. PICK x \in Nat, y \in Nat : x = k.object[a].deadline /\ y = k.object[b].deadline
    BY <1>13
  <2>6. w.object[a].deadline = x - d /\ w.object[b].deadline = y - d
    <3>1. Later(x, d) /\ Later(y, d) /\ x # 0 /\ y # 0
      BY <1>13, <2>4, <2>5
    <3>2. Nearer(x, d) = x - d /\ Nearer(y, d) = y - d
      BY <3>1, NearerFacts
    <3> QED BY <1>13, <2>5, <3>2 DEF Aged
  <2>7. ~Less(w, a, b)
    <3>1. ~(x < y) /\ ~(x = y /\ a < b)
      BY <2>3, <2>5 DEF Less
    <3>2. ~(x - d < y - d) /\ (x - d = y - d => x = y)
      BY <3>1
    <3> QED BY <2>6, <3>1, <3>2 DEF Less
  <2> QED BY <1>11, <2>2, <2>7
<1>17. HeapIn(w)
  BY <1>1, <1>11, <1>13, <1>15, <1>16 DEF HeapIn, Aged
<1>18. WaitsIn(w)
  <2>1. Matched(w)
    <3> SUFFICES ASSUME NEW o \in Slots, NEW t \in Threads, NEW i \in Nat
                 PROVE  In(<<t, i>>, w.queue[o]) <=>
                          i \in DOMAIN w.thread[t].members /\ w.thread[t].members[i] = o
      BY DEF Matched
    <3>1. In(<<t, i>>, k.queue[o]) <=>
            i \in DOMAIN k.thread[t].members /\ k.thread[t].members[i] = o
      BY <1>1 DEF Body, WaitsIn, Matched
    <3>2. w.thread[t].members = k.thread[t].members
      BY <1>3, <1>11
    <3> QED BY <1>11, <3>1, <3>2
  <2>2. \A t \in Threads : Sane(w.thread[t])
    BY <1>1, <1>3, <1>11 DEF Body, WaitsIn, Sane
  <2>3. Housed(w)
    BY <1>1, <1>3, <1>11 DEF Body, WaitsIn, Housed
  <2> QED BY <2>1, <2>2, <2>3 DEF WaitsIn
<1>19. ASSUME NEW o \in Slots PROVE Shape(w.object[o]) /\ Quiet(w, o)
  <2>1. Shape(k.object[o]) /\ Quiet(k, o)
    BY <1>1 DEF Body, Core
  <2>2. Aged(k.object[o], w.object[o], d) /\ (w.object[o].deadline = 0 <=> k.object[o].deadline = 0)
    BY <1>13
  <2>3. FreeObject.deadline = 0
    BY FreeFields
  <2> QED BY <1>11, <2>1, <2>2, <2>3 DEF Aged, Shape, SameObject, Quiet
<1>20. Core(w)
  BY <1>11, <1>17, <1>18, <1>19 DEF Core, Body
<1>21. SameUse(k, w)
  BY <1>11, <1>13 DEF SameUse, Aged
<1>22. Good(w)
  BY <1>20, <1>21, SameUseGood
<1>23. \A t \in Threads : OlderThread(k.thread[t], w.thread[t], d)
  BY <1>3, <1>11 DEF OlderThread
<1> QED BY <1>11, <1>12, <1>13, <1>22, <1>23

Inv ==
  /\ Good(K) /\ panic \in {Healthy, "TIMER_SET: no memory"} /\ load \in DOMAIN Workload

----------------------------------------------------------------------------
(* Steps. *)

(* The fields of the state. *)
LEMMA KFields ==
  /\ K.object = object /\ K.heap = heap /\ K.pages = pages /\ K.queue = queue
  /\ K.thread = thread /\ K.process = process /\ K.handles = handles /\ K.panic = panic
BY DEF K

(* A call whose result satisfies the invariant keeps it. *)
LEMMA Committed ==
  ASSUME Inv, NEW k, Good(k), k.panic = Healthy, Commit(k)
  PROVE  Inv'
<1>1. /\ load' = load /\ panic' = k.panic
      /\ object' = k.object /\ heap' = k.heap /\ pages' = k.pages
      /\ queue' = k.queue /\ thread' = k.thread
      /\ process' = k.process /\ handles' = k.handles
  BY DEF Commit
<1>2. k \in States
  BY DEF Good, Core, Body
<1>3. k = [object |-> k.object, heap |-> k.heap, pages |-> k.pages, queue |-> k.queue,
           thread |-> k.thread, process |-> k.process, handles |-> k.handles, panic |-> k.panic]
  BY <1>2 DEF States
<1>4. K' = k
  BY <1>1, <1>3 DEF K
<1>5. Good(K)'
  BY <1>4
<1> QED BY <1>1, <1>5 DEF Inv

(* The machine stops, and nothing else changes. *)
Aground(k, w) ==
  /\ w \in States /\ w.panic = "TIMER_SET: no memory"
  /\ w.object = k.object /\ w.heap = k.heap /\ w.pages = k.pages
  /\ w.queue = k.queue /\ w.thread = k.thread
  /\ w.process = k.process /\ w.handles = k.handles

(* The machine stopping keeps the invariant. *)
LEMMA AgroundGood ==
  ASSUME NEW k, Good(k)
  PROVE  \E w : Aground(k, w) /\ Good(w)
<1>1. k \in States /\ Core(k)
  BY DEF Good, Core, Body
<1>2. PICK s \in Panics : s = "TIMER_SET: no memory"
  BY DEF Panics
<1>3. PICK w : w = [k EXCEPT !.panic = s]
  OBVIOUS
<1>4. /\ w \in States /\ w.panic = s
      /\ w.object = k.object /\ w.heap = k.heap /\ w.pages = k.pages
      /\ w.queue = k.queue /\ w.thread = k.thread
      /\ w.process = k.process /\ w.handles = k.handles
  BY <1>1, <1>3, Set_panic
<1>5. Core(w)
  BY <1>1, <1>4, SameCoreGood
<1>6. SameUse(k, w)
  BY <1>4 DEF SameUse
<1>7. Good(w)
  BY <1>5, <1>6, SameUseGood
<1>8. Aground(k, w)
  BY <1>2, <1>4 DEF Aground
<1> QED BY <1>7, <1>8

(* A call that stops the machine changes nothing else. *)
LEMMA CommittedPanic ==
  ASSUME Inv, NEW k, k.panic = "TIMER_SET: no memory", Commit(k)
  PROVE  Inv'
<1>1. /\ load' = load /\ panic' = k.panic
      /\ object' = object /\ heap' = heap /\ pages' = pages
      /\ queue' = queue /\ thread' = thread
      /\ process' = process /\ handles' = handles
  BY DEF Commit, Healthy
<1>2. PICK j : j = K
  OBVIOUS
<1>3. Good(j)
  BY <1>2 DEF Inv
<1>4. PICK w : Aground(j, w) /\ Good(w)
  BY <1>3, AgroundGood
<1>5. w = [object |-> w.object, heap |-> w.heap, pages |-> w.pages, queue |-> w.queue,
           thread |-> w.thread, process |-> w.process, handles |-> w.handles, panic |-> w.panic]
  BY <1>4 DEF Aground, States
<1>6. /\ j.object = object /\ j.heap = heap /\ j.pages = pages /\ j.queue = queue
      /\ j.thread = thread /\ j.process = process /\ j.handles = handles
  BY <1>2, KFields
<1>7. K' = w
  BY <1>1, <1>4, <1>5, <1>6 DEF K, Aground
<1>8. Good(K)'
  BY <1>4, <1>7
<1> QED BY <1>1, <1>8 DEF Inv

(* A call that returns with a result that satisfies the invariant keeps    *)
(* it.                                                                     *)
LEMMA Returned ==
  ASSUME Inv, NEW t \in Threads, NEW k, Good(k), k.panic = Healthy, Return(t, k)
  PROVE  Inv'
<1>1. PICK w : w = Returns(k, t)
  OBVIOUS
<1>2. Good(w) /\ w.panic = Healthy
  BY <1>1, ReturnsFacts
<1>3. Commit(w)
  BY <1>1 DEF Return, Returns
<1> QED BY <1>2, <1>3, Committed

----------------------------------------------------------------------------
(* The state that a step begins in. *)

Here(k) ==
  /\ k = K /\ Good(k) /\ k.panic = Healthy
  /\ k.object = object /\ k.heap = heap /\ k.pages = pages /\ k.queue = queue
  /\ k.thread = thread /\ k.process = process /\ k.handles = handles

(* The state before a step, by a name. *)
LEMMA Hither ==
  ASSUME Inv, panic = Healthy
  PROVE  \E k : Here(k)
<1>1. PICK k : k = K
  OBVIOUS
<1>2. Here(k)
  BY <1>1, KFields DEF Here, Inv
<1> QED BY <1>2

(* A thread at work is of a process that runs. *)
LEMMA Working ==
  ASSUME NEW k, Good(k), NEW t \in Threads, k.thread[t].state = "READY"
  PROVE  ProcessOf[t] \in Processes /\ k.process[ProcessOf[t]] = "RUNNING" /\ k \in States
BY SyncAssumption DEF Good, Core, Body, WaitsIn, Housed

(* What the workload is made of. *)
LEMMA LoadFacts ==
  ASSUME Inv
  PROVE  /\ Load.slots \in Slots /\ Load.delays \subseteq Nat \ {0} /\ Load.releases \subseteq Nat \ {0}
         /\ Load.waits \subseteq Seq(Slots) \ {<<>>}
         /\ \A x \in Load.creates : x.type \in Types \ {"NONE"} /\ x.maximum \in Nat \ {0} /\ x.count \in Nat
<1>1. load \in DOMAIN Workload
  BY DEF Inv
<1>2. PICK w : w = Workload[load] /\ w = Load
  BY DEF Load
<1>3. /\ w.slots \in Slots /\ w.delays \subseteq Nat \ {0} /\ w.releases \subseteq Nat \ {0}
      /\ w.waits \subseteq Seq(Slots) \ {<<>>}
      /\ \A x \in w.creates : x.type \in Types \ {"NONE"} /\ x.maximum \in Nat \ {0} /\ x.count \in Nat
  BY <1>1, <1>2, SyncAssumption
<1> QED BY <1>2, <1>3

----------------------------------------------------------------------------
(* What Waitables sees of a step. *)

(* The thread x is as it was, or is at work and has forgotten its last wait. *)
Kept(x, y) ==
  \/ y = x
  \/ /\ x.members = <<>> /\ y.members = <<>>
     /\ y.deadline = 0 /\ y.outcome = None

(* The threads of T are told r of an object of S, and callers may forget. *)
Seen(k, w, T, r, S) ==
  /\ T \subseteq Threads
  /\ \A t \in T : Answered(k.thread[t], w.thread[t], r, S)
  /\ \A t \in Threads \ T : Kept(k.thread[t], w.thread[t])

(* Only the threads of T may do more than forget. *)
Beside(k, w, T) == \A t \in Threads \ T : Kept(k.thread[t], w.thread[t])

(* The step from k to w, in the terms of Waitables. *)
Views(k, w) ==
  /\ ShownObjects = [o \in Slots |-> Shown(k.object[o])]
  /\ ShownObjects' = [o \in Slots |-> Shown(w.object[o])]

Shows(k, w) ==
  /\ Views(k, w)
  /\ ShownWaits = [t \in Threads |-> ShownWait(k.thread[t])]
  /\ ShownWaits' = [t \in Threads |-> ShownWait(w.thread[t])]

(* The step is from k to v, which is w but for the caller's last wait. *)
Follows(k, w, v, T) ==
  /\ Shows(k, v) /\ v.object = w.object /\ Beside(k, v, T)
  /\ \A u \in T : v.thread[u] = w.thread[u]

Acts(k, w, T, r, S) ==
  /\ Views(k, w) /\ T \subseteq Threads /\ Promise!Others(T)
  /\ \A t \in T : Promise!Ends(t, r, S) /\ ShownWaits'[t] # ShownWaits[t]
  /\ \A o \in Slots : Promise!Waiters(o) = Listeners(k, {o})

Promised == [Promise!Next]_<<ShownObjects, ShownWaits>>

(* The objects of S are closed or gone, and the threads of G are dead. *)
Ending(k, w, r, S, G) ==
  /\ S \subseteq Slots /\ G \subseteq Threads
  /\ \A o \in Slots \ S : Like(k.object[o], w.object[o])
  /\ \A o \in S : Finished(k.object[o], r, w.object[o])
  /\ \A t \in G : /\ k.thread[t].members # <<>> /\ w.thread[t].members = <<>>
                  /\ w.thread[t].deadline = 0 /\ w.thread[t].outcome = None
  /\ \A t \in Listeners(k, S) \ G : Answered(k.thread[t], w.thread[t], r, S)
  /\ Beside(k, w, Listeners(k, S) \cup G)

(* What is seen of an object that is closed with r, or is gone. *)
Vanished(a, r, b) ==
  /\ b # a
  /\ \/ a.closed = "" /\ b = Promise!Closed(a, r)
     \/ b = Promise!Absent

(* d ticks have passed from k to w: the threads of late have given up (j), *)
(* the timers of S have expired (i), and what is left is nearer.           *)
Elapsed(k, w, d, late, S, j, i) ==
  /\ j.object = k.object /\ GaveUp(k, j, late) /\ Rang(j, i, S, d) /\ NothingDue(i, d)
  /\ \A o \in Slots : Aged(i.object[o], w.object[o], d)
  /\ \A t \in Threads : OlderThread(i.thread[t], w.thread[t], d)

Passing(k, w, d, late, S) ==
  /\ d \in Nat /\ late = {t \in Threads : k.thread[t].deadline \in 1 .. d}
  /\ \E j, i : Elapsed(k, w, d, late, S, j, i)

(* What is seen of an object. *)
LEMMA ShownIs ==
  ASSUME NEW x
  PROVE  /\ Shown(x).kind = x.type /\ Shown(x).units = x.count /\ Shown(x).limit = x.maximum
         /\ Shown(x).closed = x.result /\ Shown(x).alarm = x.deadline
BY DEF Shown

(* What is seen of a thread. *)
LEMMA ShownWaitIs ==
  ASSUME NEW x
  PROVE  /\ ShownWait(x).on = x.members /\ ShownWait(x).patience = x.deadline
         /\ ShownWait(x).outcome = x.outcome
BY DEF ShownWait

(* Objects that look the same are seen as the same. *)
LEMMA LikeShown ==
  ASSUME NEW x, NEW y, Like(x, y)
  PROVE  Shown(y) = Shown(x)
BY DEF Like, Shown

(* A free object is seen as none. *)
LEMMA AbsentShown ==
  ASSUME NEW y, Like(FreeObject, y)
  PROVE  Shown(y) = Promise!Absent
BY FreeFields DEF Like, Shown, Promise!Absent

(* A thread that is told r is seen to be told r. *)
LEMMA ToldShown ==
  ASSUME NEW r, NEW i
  PROVE  ShownWait(Told(r, i)) = [Promise!AtWork EXCEPT !.outcome = <<r, i>>]
BY ToldIs DEF ShownWait, Promise!AtWork

(* A thread that has forgotten its last wait is seen at work. *)
LEMMA ForgottenShown ==
  ASSUME NEW y, y.members = <<>>, y.deadline = 0, y.outcome = None
  PROVE  ShownWait(y) = Promise!AtWork
BY DEF ShownWait, Promise!AtWork, None, Promise!None

(* The step to w is seen as the step to w. *)
LEMMA Showing ==
  ASSUME NEW k, Here(k), NEW w, object' = w.object, thread' = w.thread
  PROVE  Shows(k, w)
<1>1. ShownObjects = [o \in Slots |-> Shown(k.object[o])]
  BY DEF ShownObjects, Here
<1>2. ShownObjects' = [o \in Slots |-> Shown(w.object[o])]
  BY DEF ShownObjects
<1>3. ShownWaits = [t \in Threads |-> ShownWait(k.thread[t])]
  BY DEF ShownWaits, Here
<1>4. ShownWaits' = [t \in Threads |-> ShownWait(w.thread[t])]
  BY DEF ShownWaits
<1> QED BY <1>1, <1>2, <1>3, <1>4 DEF Shows, Views

(* What Waitables sees of the threads before and after a step. *)
LEMMA WaitsShow ==
  ASSUME NEW k, NEW w, Shows(k, w), NEW t \in Threads
  PROVE  /\ ShownWaits[t] = ShownWait(k.thread[t]) /\ ShownWaits'[t] = ShownWait(w.thread[t])
         /\ ShownWaits[t].on = k.thread[t].members
         /\ ShownWaits[t].patience = k.thread[t].deadline
         /\ ShownWaits'[t].on = w.thread[t].members
         /\ ShownWaits'[t].patience = w.thread[t].deadline
         /\ ShownWaits'[t].outcome = w.thread[t].outcome
<1>1. ShownWaits[t] = ShownWait(k.thread[t]) /\ ShownWaits'[t] = ShownWait(w.thread[t])
  BY DEF Shows
<1> QED BY <1>1, ShownWaitIs

(* Threads beside those of T do nothing that Waitables sees, or forget. *)
LEMMA OthersShow ==
  ASSUME NEW k, NEW w, Shows(k, w), NEW T, Beside(k, w, T)
  PROVE  Promise!Others(T)
<1>1. ASSUME NEW t \in Threads \ T
      PROVE  \/ ShownWaits'[t] = ShownWaits[t]
             \/ ~Promise!Waits(t) /\ ShownWaits'[t] = Promise!AtWork
  <2>1. CASE w.thread[t] = k.thread[t]
    BY <2>1, WaitsShow
  <2>2. CASE /\ k.thread[t].members = <<>> /\ w.thread[t].members = <<>>
             /\ w.thread[t].deadline = 0 /\ w.thread[t].outcome = None
    <3>1. ShownWaits'[t] = Promise!AtWork
      BY <2>2, WaitsShow, ForgottenShown
    <3>2. ShownWaits[t].on = <<>>
      BY <2>2, WaitsShow
    <3> QED BY <3>1, <3>2 DEF Promise!Waits
  <2> QED BY <2>1, <2>2 DEF Beside, Kept
<1> QED BY <1>1 DEF Promise!Others

(* Who is told what in a step is what Waitables sees. *)
LEMMA Acting ==
  ASSUME NEW k, NEW w, Shows(k, w), NEW T, NEW r, NEW S, Seen(k, w, T, r, S)
  PROVE  Acts(k, w, T, r, S)
<1>1. T \subseteq Threads /\ Beside(k, w, T) /\ Views(k, w)
  BY DEF Seen, Beside, Shows
<1>2. Promise!Others(T)
  BY <1>1, OthersShow
<1>3. ASSUME NEW t \in T
      PROVE  Promise!Ends(t, r, S) /\ ShownWaits'[t] # ShownWaits[t]
  <2>1. PICK m : m = k.thread[t].members
    OBVIOUS
  <2>2. PICK i \in DOMAIN m : m[i] \in S /\ w.thread[t] = Told(r, i)
    BY <2>1 DEF Seen, Answered
  <2>3. ShownWaits'[t] = [Promise!AtWork EXCEPT !.outcome = <<r, i>>]
    BY <1>1, <2>2, WaitsShow, ToldShown
  <2>4. ShownWaits[t].on = m
    BY <1>1, <2>1, WaitsShow
  <2>5. Promise!Ends(t, r, S)
    BY <2>2, <2>3, <2>4 DEF Promise!Ends
  <2>6. ShownWaits'[t].on = <<>>
    BY <1>1, <2>2, WaitsShow, ToldIs
  <2>7. m # <<>>
    BY <2>2
  <2> QED BY <2>4, <2>5, <2>6, <2>7
<1>4. ASSUME NEW o \in Slots PROVE Promise!Waiters(o) = Listeners(k, {o})
  <2>1. \A t \in Threads : ShownWaits[t].on = k.thread[t].members
    BY WaitsShow
  <2> QED BY <2>1 DEF Promise!Waiters, Listeners
<1> QED BY <1>1, <1>2, <1>3, <1>4 DEF Acts

(* A call returns, and its thread forgets its last wait. *)
LEMMA ReturnsBeside ==
  ASSUME NEW k, Good(k), NEW t \in Threads, k.thread[t].state = "READY",
         NEW w, Good(w), NEW T, T \subseteq Threads, Beside(k, w, T), t \notin T
  PROVE  /\ Beside(k, Returns(w, t), T) /\ Returns(w, t).object = w.object
         /\ \A u \in T : Returns(w, t).thread[u] = w.thread[u]
<1>1. CASE w.thread[t].state # "READY"
  BY <1>1 DEF Returns
<1>2. CASE w.thread[t].state = "READY"
  <2>1. PICK q \in Results, i \in Nat : q = "" /\ i = 0
    BY DEF Results
  <2>2. PICK v : Noted(w, v, t, q, i)
    BY <1>2, NotedFacts
  <2>3. v = Returns(w, t)
    BY <1>2, <2>1, <2>2 DEF Noted, Returns, None
  <2>4. k.thread[t].members = <<>> /\ k.thread[t].deadline = 0
    BY DEF Good, Core, Body, WaitsIn, Sane
  <2>5. w.thread[t].members = <<>> /\ w.thread[t].deadline = 0
    BY <2>4 DEF Beside, Kept
  <2>6. Kept(k.thread[t], v.thread[t])
    BY <2>1, <2>2, <2>4, <2>5 DEF Noted, Kept, None
  <2>7. (\A u \in Threads \ {t} : v.thread[u] = w.thread[u]) /\ v.object = w.object
    BY <2>2 DEF Noted
  <2>8. Beside(k, v, T)
    BY <2>6, <2>7 DEF Beside
  <2>9. \A u \in T : v.thread[u] = w.thread[u]
    BY <2>7
  <2> QED BY <2>3, <2>7, <2>8, <2>9
<1> QED BY <1>1, <1>2

(* A step that commits w is seen as the step to w. *)
LEMMA CommittedShows ==
  ASSUME Inv, NEW k, Here(k), NEW w, Good(w), w.panic = Healthy, Commit(w)
  PROVE  Inv' /\ Shows(k, w)
<1>1. object' = w.object /\ thread' = w.thread
  BY DEF Commit
<1> QED BY <1>1, Showing, Committed

(* A call that returns w is seen as a step to w, but for the caller. *)
LEMMA ReturnedShows ==
  ASSUME Inv, NEW k, Here(k), NEW t \in Threads, k.thread[t].state = "READY",
         NEW w, Good(w), w.panic = Healthy, Return(t, w), NEW T, T \subseteq Threads, Beside(k, w, T), t \notin T
  PROVE  Inv' /\ \E v : Follows(k, w, v, T)
<1>1. PICK v : v = Returns(w, t)
  OBVIOUS
<1>2. Good(k)
  BY DEF Here
<1>3. Good(v) /\ v.panic = Healthy
  BY <1>1, ReturnsFacts
<1>4. /\ Beside(k, v, T) /\ v.object = w.object
      /\ \A u \in T : v.thread[u] = w.thread[u]
  BY <1>1, <1>2, ReturnsBeside
<1>5. Commit(v)
  BY <1>1 DEF Return, Returns
<1>6. Inv' /\ Shows(k, v)
  BY <1>3, <1>5, CommittedShows
<1> QED BY <1>4, <1>6 DEF Follows

(* A call that returns w is seen to tell the threads of T. *)
LEMMA ReturnedActs ==
  ASSUME Inv, NEW k, Here(k), NEW t \in Threads, k.thread[t].state = "READY",
         NEW w, Good(w), w.panic = Healthy, Return(t, w),
         NEW T, NEW r, NEW S, Seen(k, w, T, r, S)
  PROVE  Inv' /\ Acts(k, w, T, r, S)
<1>1. k.thread[t].members = <<>>
  BY DEF Here, Good, Core, Body, WaitsIn, Sane
<1>2. Beside(k, w, T) /\ t \notin T /\ T \subseteq Threads
  BY <1>1 DEF Seen, Beside, Answered
<1>3. PICK v : /\ Shows(k, v) /\ v.object = w.object /\ Beside(k, v, T)
               /\ \A u \in T : v.thread[u] = w.thread[u]
  BY <1>2, ReturnedShows DEF Follows
<1>4. Seen(k, v, T, r, S)
  BY <1>2, <1>3 DEF Seen, Beside
<1>5. Acts(k, v, T, r, S)
  BY <1>3, <1>4, Acting
<1>6. Acts(k, w, T, r, S)
  BY <1>3, <1>5 DEF Acts, Views
<1>7. Inv'
  BY <1>2, ReturnedShows
<1> QED BY <1>6, <1>7

(* Who hears of a step is seen to hear of it. *)
LEMMA HeardSeen ==
  ASSUME NEW k, NEW w, NEW T, NEW r, NEW S, Heard(k, w, T, r, S)
  PROVE  Seen(k, w, T, r, S)
<1>1. /\ T \subseteq Threads /\ \A t \in T : Answered(k.thread[t], w.thread[t], r, S)
      /\ \A t \in Threads \ T : w.thread[t] = k.thread[t]
  BY DEF Heard, Rest
<1>2. ASSUME NEW t \in Threads \ T PROVE Kept(k.thread[t], w.thread[t])
  BY <1>1 DEF Kept
<1> QED BY <1>1, <1>2 DEF Seen

(* Threads that stay as they are do nothing. *)
LEMMA RestBeside ==
  ASSUME NEW k, NEW w, NEW T, Rest(k, w, T)
  PROVE  Beside(k, w, T)
BY DEF Rest, Beside, Kept

(* A step that nobody is told of. *)
LEMMA NobodySeen ==
  ASSUME NEW k, NEW w, Beside(k, w, {})
  PROVE  Seen(k, w, {}, "", {})
BY DEF Beside, Seen

(* The workload that runs is one of the workloads. *)
LEMMA AmountsAre ==
  ASSUME Inv
  PROVE  /\ Load.waits \subseteq WaitSets
         /\ Load.releases \subseteq Amounts /\ Load.delays \subseteq Amounts
         /\ \A x \in Load.creates : x.maximum \in Amounts
<1>1. PICK name \in DOMAIN Workload : name = load
  BY DEF Inv
<1>2. PICK w : w = Workload[name] /\ w = Load
  BY <1>1 DEF Load
<1>3. w.waits \in {Workload[n].waits : n \in DOMAIN Workload}
  BY <1>2
<1>4. w.waits \subseteq WaitSets
  BY <1>3 DEF WaitSets
<1>5. \A x \in {w.boot[o].maximum : o \in DOMAIN w.boot} \cup {y.maximum : y \in w.creates}
               \cup w.releases \cup w.delays : x \in Amounts
  BY <1>2 DEF Amounts
<1> QED BY <1>2, <1>4, <1>5

----------------------------------------------------------------------------
(* Each kind of step is one that Waitables allows. *)

(* What Waitables sees of the objects before and after a step. *)
LEMMA ViewFields ==
  ASSUME NEW k, NEW w, Views(k, w), NEW o \in Slots
  PROVE  /\ ShownObjects[o] = Shown(k.object[o]) /\ ShownObjects'[o] = Shown(w.object[o])
         /\ ShownObjects[o].kind = k.object[o].type /\ ShownObjects[o].units = k.object[o].count
         /\ ShownObjects[o].limit = k.object[o].maximum /\ ShownObjects[o].closed = k.object[o].result
         /\ ShownObjects[o].alarm = k.object[o].deadline
         /\ ShownObjects'[o].kind = w.object[o].type /\ ShownObjects'[o].units = w.object[o].count
         /\ ShownObjects'[o].limit = w.object[o].maximum /\ ShownObjects'[o].closed = w.object[o].result
         /\ ShownObjects'[o].alarm = w.object[o].deadline
<1>1. ShownObjects[o] = Shown(k.object[o]) /\ ShownObjects'[o] = Shown(w.object[o])
  BY DEF Views
<1> QED BY <1>1, ShownIs

(* When all objects look the same, Waitables sees no change. *)
LEMMA NoneTurned ==
  ASSUME NEW k, NEW w, Views(k, w),
         \A o \in Slots : Like(k.object[o], w.object[o])
  PROVE  UNCHANGED ShownObjects
<1>1. \A o \in Slots : Shown(w.object[o]) = Shown(k.object[o])
  BY LikeShown
<1> QED BY <1>1 DEF Views

(* When only one object changes, Waitables sees only that one change. *)
LEMMA Becoming ==
  ASSUME NEW k, NEW w, Views(k, w), NEW o \in Slots,
         \A q \in Slots \ {o} : Like(k.object[q], w.object[q]), NEW x, x = ShownObjects'[o]
  PROVE  Promise!Becomes(o, x)
<1>1. \A q \in Slots \ {o} : Shown(w.object[q]) = Shown(k.object[q])
  BY LikeShown
<1>2. PICK a : a = ShownObjects /\ a = [q \in Slots |-> Shown(k.object[q])]
  BY DEF Views
<1>3. PICK b : b = ShownObjects' /\ b = [q \in Slots |-> Shown(w.object[q])]
  BY DEF Views
<1>4. b = [a EXCEPT ![o] = x]
  BY <1>1, <1>2, <1>3
<1> QED BY <1>2, <1>3, <1>4 DEF Promise!Becomes

(* An object that has another count is seen to have it. *)
LEMMA TurnedBecomes ==
  ASSUME NEW k, NEW w, Views(k, w), NEW o \in Slots,
         NEW c, NEW d, Turned(k, w, o, c, d)
  PROVE  /\ Promise!Becomes(o, [ShownObjects[o] EXCEPT !.units = c, !.alarm = d])
         /\ d = k.object[o].deadline => Promise!Becomes(o, [ShownObjects[o] EXCEPT !.units = c])
<1>1. PICK x : x = Shown(k.object[o])
  OBVIOUS
<1>2. PICK y : y = Shown(w.object[o])
  OBVIOUS
<1>3. ShownObjects[o] = x /\ ShownObjects'[o] = y
  BY <1>1, <1>2, ViewFields
<1>4. y = [x EXCEPT !.units = c, !.alarm = d]
  <2>1. PICK z : z = [x EXCEPT !.units = c]
    OBVIOUS
  <2>2. z = [kind |-> k.object[o].type, units |-> c, limit |-> k.object[o].maximum,
             closed |-> k.object[o].result, alarm |-> k.object[o].deadline]
    BY <1>1, <2>1 DEF Shown
  <2>3. y = [z EXCEPT !.alarm = d]
    BY <1>2, <2>2 DEF Shown, Turned
  <2> QED BY <2>1, <2>3
<1>5. d = k.object[o].deadline => y = [x EXCEPT !.units = c]
  BY <1>1, <1>2 DEF Shown, Turned
<1>6. Promise!Becomes(o, y)
  BY <1>3, Becoming DEF Turned
<1> QED BY <1>3, <1>4, <1>5, <1>6

(* The alarm of an object that has another deadline. *)
LEMMA TurnedAlarm ==
  ASSUME NEW k, NEW w, Views(k, w), NEW o \in Slots, NEW c, NEW d, Turned(k, w, o, c, d)
  PROVE  ShownObjects'[o].alarm = d
BY ViewFields DEF Turned

(* A step that nobody is told of and that changes no object. *)
LEMMA UnseenPromised ==
  ASSUME NEW k, NEW w, Acts(k, w, {}, "", {}), \A o \in Slots : Like(k.object[o], w.object[o])
  PROVE  Promised
<1>1. UNCHANGED ShownObjects
  BY NoneTurned DEF Acts
<1>2. Promise!Others({})
  BY DEF Acts
<1> QED BY <1>1, <1>2 DEF Promised, Promise!Next

(* A manual event or timer that is set is set in Waitables. *)
LEMMA SetPromised ==
  ASSUME NEW k, NEW w, NEW o \in Slots, Acts(k, w, Listeners(k, {o}), "OK", {o}),
         Turned(k, w, o, 1, 0), k.object[o].result = "",
         k.object[o].type \in {"EVENT_MANUAL", "TIMER"}
  PROVE  Promised
<1>1. Promise!Usable(o, "EVENT_MANUAL") \/ Promise!Usable(o, "TIMER")
  BY ViewFields DEF Acts, Promise!Usable
<1>2. Promise!Becomes(o, Promise!Rung(ShownObjects[o]))
  BY TurnedBecomes DEF Acts, Promise!Rung
<1>3. Promise!Set(o)
  BY <1>1, <1>2 DEF Acts, Promise!Set
<1> QED BY <1>3 DEF Promised, Promise!Next

(* A timer that is cancelled is disarmed in Waitables. *)
LEMMA DisarmPromised ==
  ASSUME NEW k, NEW w, NEW o \in Slots, Acts(k, w, Listeners(k, {o}), "CANCELLED", {o}),
         Turned(k, w, o, 0, 0), k.object[o].result = "", k.object[o].type = "TIMER"
  PROVE  Promised
<1>1. Promise!Usable(o, "TIMER")
  BY ViewFields DEF Acts, Promise!Usable
<1>2. Promise!Becomes(o, [ShownObjects[o] EXCEPT !.units = 0, !.alarm = 0])
  BY TurnedBecomes DEF Acts
<1>3. Promise!Disarm(o)
  BY <1>1, <1>2 DEF Acts, Promise!Disarm
<1> QED BY <1>3 DEF Promised, Promise!Next

(* A timer that is armed is armed in Waitables. *)
LEMMA ArmPromised ==
  ASSUME NEW k, NEW w, NEW o \in Slots, NEW T, NEW r, NEW S, Acts(k, w, T, r, S), T = {},
         NEW c, NEW d, d > 0, Turned(k, w, o, c, d), c = 0,
         k.object[o].result = "", k.object[o].type = "TIMER"
  PROVE  Promised
<1>1. Promise!Usable(o, "TIMER")
  BY ViewFields DEF Acts, Promise!Usable
<1>3. ShownObjects'[o].alarm = d
  BY TurnedAlarm DEF Acts
<1>2. Promise!Becomes(o, [ShownObjects[o] EXCEPT !.units = 0, !.alarm = d])
  BY TurnedBecomes DEF Acts
<1>4. Promise!Others({})
  BY DEF Acts
<1>5. Promise!Arm(o)
  BY <1>1, <1>2, <1>3, <1>4 DEF Promise!Arm
<1> QED BY <1>5 DEF Promised, Promise!Next

(* An event that is reset is reset in Waitables. *)
LEMMA ResetPromised ==
  ASSUME NEW k, NEW w, NEW o \in Slots, Acts(k, w, {}, "", {}),
         Turned(k, w, o, 0, k.object[o].deadline), k.object[o].result = "",
         k.object[o].type \in {"EVENT_AUTO", "EVENT_MANUAL"}
  PROVE  Promised
<1>1. Promise!Usable(o, "EVENT_AUTO") \/ Promise!Usable(o, "EVENT_MANUAL")
  BY ViewFields DEF Acts, Promise!Usable
<1>2. Promise!Becomes(o, [ShownObjects[o] EXCEPT !.units = 0])
  BY TurnedBecomes DEF Acts
<1>3. Promise!Reset(o)
  BY <1>1, <1>2 DEF Acts, Promise!Reset
<1> QED BY <1>3 DEF Promised, Promise!Next

(* Both modules count and choose alike. *)
LEMMA Counting ==
  ASSUME NEW S
  PROVE  Promise!Cardinality(S) = Cardinality(S)
BY DEF Promise!Cardinality, Cardinality

(* Who leaves is who is told. *)
LEMMA LeavingAre ==
  ASSUME NEW k, NEW w, NEW o \in Slots, NEW T, NEW r, Acts(k, w, T, r, {o}),
         T \subseteq Listeners(k, {o})
  PROVE  Promise!Leaving(o) = T
<1>1. Promise!Waiters(o) = Listeners(k, {o})
  BY DEF Acts
<1>2. \A t \in T : ShownWaits'[t] # ShownWaits[t]
  BY DEF Acts
<1>3. ASSUME NEW t \in Promise!Waiters(o), t \notin T PROVE ShownWaits'[t] = ShownWaits[t]
  <2>1. t \in Threads /\ Promise!Waits(t)
    BY <1>3 DEF Promise!Waiters, Promise!Waits
  <2> QED BY <1>3, <2>1 DEF Acts, Promise!Others
<1> QED BY <1>1, <1>2, <1>3 DEF Promise!Leaving

(* Units that are handed out or kept are released in Waitables. *)
LEMMA ReleasePromised ==
  ASSUME NEW k, NEW w, NEW o \in Slots, NEW n \in Amounts \cup {1}, NEW T, NEW g, NEW c,
         Acts(k, w, T, "OK", {o}), T \subseteq Listeners(k, {o}), Cardinality(T) = g,
         g = Lowest({n, Cardinality(Listeners(k, {o}))}),
         Turned(k, w, o, c, k.object[o].deadline), k.object[o].result = "",
         \/ /\ k.object[o].type = "SEMAPHORE" /\ c = k.object[o].count + n - g
            /\ c <= k.object[o].maximum
         \/ k.object[o].type = "EVENT_AUTO" /\ n = 1 /\ c = 1 - g
  PROVE  Promised
<1>1. /\ ShownObjects[o].kind = k.object[o].type /\ ShownObjects[o].units = k.object[o].count
      /\ ShownObjects[o].limit = k.object[o].maximum /\ ShownObjects[o].closed = ""
  BY ViewFields DEF Acts
<1>2. Promise!Becomes(o, [ShownObjects[o] EXCEPT !.units = c])
  BY TurnedBecomes DEF Acts
<1>3. Promise!Leaving(o) = T
  BY LeavingAre
<1>4. Promise!Lowest({n, Cardinality(Promise!Waiters(o))}) = g
  BY DEF Acts, Promise!Lowest, Lowest
<1>5. /\ \A t \in Promise!Leaving(o) : Promise!Ends(t, "OK", {o})
      /\ Promise!Others(Promise!Leaving(o))
      /\ Cardinality(Promise!Leaving(o)) = Promise!Lowest({n, Cardinality(Promise!Waiters(o))})
  BY <1>3, <1>4 DEF Acts
<1>6. \/ /\ Promise!Usable(o, "SEMAPHORE")
         /\ ShownObjects[o].units + n - Promise!Lowest({n, Cardinality(Promise!Waiters(o))})
              <= ShownObjects[o].limit
         /\ Promise!Becomes(o, [ShownObjects[o] EXCEPT
              !.units = @ + n - Promise!Lowest({n, Cardinality(Promise!Waiters(o))})])
      \/ /\ Promise!Usable(o, "EVENT_AUTO") /\ n = 1
         /\ Promise!Becomes(o, [ShownObjects[o] EXCEPT
              !.units = 1 - Promise!Lowest({n, Cardinality(Promise!Waiters(o))})])
  <2>1. CASE /\ k.object[o].type = "SEMAPHORE" /\ c = k.object[o].count + n - g
             /\ c <= k.object[o].maximum
    BY <1>1, <1>2, <1>4, <2>1 DEF Promise!Usable
  <2>2. CASE k.object[o].type = "EVENT_AUTO" /\ n = 1 /\ c = 1 - g
    BY <1>1, <1>2, <1>4, <2>2 DEF Promise!Usable
  <2> QED BY <2>1, <2>2
<1>7. Promise!Release(o, n)
  BY <1>5, <1>6, Counting DEF Promise!Release
<1> QED BY <1>7 DEF Promised, Promise!Next

(* A new object is seen where none was. *)
LEMMA InstalledViews ==
  ASSUME NEW k, NEW w, Views(k, w), NEW o \in Slots, NEW type, NEW count, NEW maximum,
         Like(FreeObject, k.object[o]), Installed(k, w, o, type, count, maximum)
  PROVE  /\ ShownObjects[o] = Promise!Absent /\ ShownObjects'[o].kind = type
         /\ ShownObjects'[o].units = count /\ ShownObjects'[o].limit = maximum
         /\ ShownObjects'[o].closed = "" /\ ShownObjects'[o].alarm = 0
         /\ Promise!Becomes(o, ShownObjects'[o])
<1>1. ShownObjects[o] = Promise!Absent
  BY ViewFields, AbsentShown
<1>2. /\ ShownObjects'[o].kind = type /\ ShownObjects'[o].units = count
      /\ ShownObjects'[o].limit = maximum /\ ShownObjects'[o].closed = ""
      /\ ShownObjects'[o].alarm = 0
  <2>1. PICK y : y = ShownObjects'[o]
    OBVIOUS
  <2>2. /\ y.kind = w.object[o].type /\ y.units = w.object[o].count
        /\ y.limit = w.object[o].maximum /\ y.closed = w.object[o].result
        /\ y.alarm = w.object[o].deadline
    BY <2>1, ViewFields
  <2> QED BY <2>1, <2>2 DEF Installed
<1>3. \A q \in Slots \ {o} : Like(k.object[q], w.object[q])
  BY DEF Installed, Like
<1>4. Promise!Becomes(o, ShownObjects'[o])
  BY <1>3, Becoming
<1> QED BY <1>1, <1>2, <1>4

(* A new object appears where there was none. *)
LEMMA CreatePromised ==
  ASSUME NEW k, NEW w, NEW o \in Slots, NEW type \in Types \ {"NONE"}, NEW maximum \in Amounts,
         NEW count, count \in 0 .. maximum, Acts(k, w, {}, "", {}),
         Like(FreeObject, k.object[o]), Installed(k, w, o, type, count, maximum)
  PROVE  Promised
<1>1. Views(k, w) /\ Promise!Others({})
  BY DEF Acts
<1>2. /\ ShownObjects[o] = Promise!Absent /\ ShownObjects'[o].kind = type
      /\ ShownObjects'[o].units = count /\ ShownObjects'[o].limit = maximum
      /\ ShownObjects'[o].closed = "" /\ ShownObjects'[o].alarm = 0
      /\ Promise!Becomes(o, ShownObjects'[o])
  BY <1>1, InstalledViews
<1>3. Promise!Create(o)
  BY <1>1, <1>2 DEF Promise!Create
<1> QED BY <1>3 DEF Promised, Promise!Next

(* Of an object that is there, to answer is to be ready. *)
LEMMA AnswersReady ==
  ASSUME NEW k, Good(k), NEW w, Views(k, w), NEW o \in Slots, k.object[o].state # "FREE"
  PROVE  Answers(k, o) <=> Promise!Ready(o)
<1>1. PICK x \in ObjectRecords : x = k.object[o]
  BY ObjectAt DEF Good, Core, Body
<1>2. x.count \in Nat /\ x.state \in {"FREE", "LIVE", "CLOSING"} /\ Shape(x)
  BY <1>1, ObjectFields DEF Good, Core, Body
<1>3. x.count # 0 <=> x.count > 0
  BY <1>2
<1>4. x.state = "LIVE" <=> x.result = ""
  BY <1>1, <1>2 DEF Shape
<1>5. Answers(k, o) <=> x.result # "" \/ x.count > 0
  BY <1>1, <1>3, <1>4 DEF Answers, Live
<1>6. ShownObjects[o].closed = x.result /\ ShownObjects[o].units = x.count
  BY <1>1, ViewFields
<1> QED BY <1>5, <1>6 DEF Promise!Ready

(* A wait that has ended is seen to have ended. *)
LEMMA OutcomeShown ==
  ASSUME NEW y, y.members = <<>>, y.deadline = 0, NEW r, NEW i, y.outcome = <<r, i>>
  PROVE  ShownWait(y) = [Promise!AtWork EXCEPT !.outcome = <<r, i>>]
BY DEF ShownWait, Promise!AtWork

(* An outcome with a result is one. *)
LEMMA SomeOutcome ==
  ASSUME NEW r, NEW i, r # ""
  PROVE  <<r, i>> # Promise!None
BY DEF Promise!None

(* A wait ends before it begins. *)
LEMMA TakePromised ==
  ASSUME NEW k, Good(k), NEW w, Shows(k, w), NEW t \in Threads, k.thread[t].state = "READY",
         NEW members \in WaitSets, members \in Seq(Slots),
         \A j \in DOMAIN members : k.object[members[j]].state # "FREE",
         NEW S, S = {j \in DOMAIN members : Answers(k, members[j])},
         NEW i \in S, i = Lowest(S), Polled(k, w, t, i, members[i])
  PROVE  Promised
<1>1. Views(k, w)
  BY DEF Shows
<1>2. S = {j \in DOMAIN members : Promise!Ready(members[j])}
  <2>1. \A j \in DOMAIN members : members[j] \in Slots
    OBVIOUS
  <2> QED BY <1>1, <2>1, AnswersReady
<1>3. i = Promise!Lowest({j \in DOMAIN members : Promise!Ready(members[j])})
  BY <1>2 DEF Promise!Lowest, Lowest
<1>4. PICK o \in Slots : o = members[i] /\ Polled(k, w, t, i, o) /\ k.object[o].state # "FREE"
  <2>1. i \in DOMAIN members
    OBVIOUS
  <2>2. members[i] \in Slots
    BY <2>1
  <2>3. k.object[members[i]].state # "FREE"
    BY <2>1
  <2> QED BY <2>2, <2>3
<1>5. PICK x : x = k.object[o]
  OBVIOUS
<1>6. x.state = "LIVE" <=> x.result = ""
  BY <1>4, <1>5, ObjectAt, ObjectFields DEF Good, Core, Body, Shape
<1>7. PICK r : r = IF x.result = "" THEN "OK" ELSE x.result
  OBVIOUS
<1>8. PICK c : c = IF x.result # "" \/ x.type \in {"EVENT_MANUAL", "TIMER"}
                     THEN x.count ELSE x.count - 1
  OBVIOUS
<1>9. /\ w.thread[t].members = <<>> /\ w.thread[t].deadline = 0 /\ w.thread[t].outcome = <<r, i>>
      /\ Rest(k, w, {t})
  BY <1>4, <1>5, <1>6, <1>7 DEF Polled
<1>10. Turned(k, w, o, c, x.deadline)
  <2>1. CASE x.state = "LIVE"
    BY <1>4, <1>5, <1>6, <1>8, <2>1 DEF Polled, Turned
  <2>2. CASE x.state # "LIVE"
    BY <1>4, <1>5, <1>6, <1>8, <2>2 DEF Polled, Turned, Like
  <2> QED BY <2>1, <2>2
<1>11. ShownWaits'[t] = [Promise!AtWork EXCEPT !.outcome = <<r, i>>]
  BY <1>9, OutcomeShown, WaitsShow
<1>12. ShownWaits'[t].outcome # Promise!None
  <2>1. r # ""
    BY <1>7
  <2>2. ShownWaits'[t].outcome = <<r, i>>
    BY <1>9, WaitsShow
  <2> QED BY <2>1, <2>2, SomeOutcome
<1>13. ~Promise!Waits(t) /\ Promise!Others({t})
  <2>1. k.thread[t].members = <<>>
    BY DEF Good, Core, Body, WaitsIn, Sane
  <2>2. ShownWaits[t].on = <<>>
    BY <2>1, WaitsShow
  <2>3. Promise!Others({t})
    BY <1>9, RestBeside, OthersShow
  <2> QED BY <2>2, <2>3 DEF Promise!Waits
<1>14. Promise!Becomes(o, [ShownObjects[o] EXCEPT !.units = c])
  BY <1>1, <1>5, <1>10, TurnedBecomes
<1>15. ShownObjects[o].closed = x.result /\ ShownObjects[o].kind = x.type /\ ShownObjects[o].units = x.count
  BY <1>1, <1>5, ViewFields
<1>16. Promise!Take(t, members)
  <2>1. \E j \in DOMAIN members : Promise!Ready(members[j])
    BY <1>2
  <2>2. r = IF ShownObjects[o].closed = "" THEN "OK" ELSE ShownObjects[o].closed
    BY <1>7, <1>15
  <2>3. c = IF ShownObjects[o].closed # "" \/ ShownObjects[o].kind \in {"EVENT_MANUAL", "TIMER"}
              THEN ShownObjects[o].units ELSE ShownObjects[o].units - 1
    BY <1>8, <1>15
  <2>4. Promise!Becomes(o, [ShownObjects[o] EXCEPT !.units =
          IF ShownObjects[o].closed # "" \/ ShownObjects[o].kind \in {"EVENT_MANUAL", "TIMER"}
            THEN @ ELSE @ - 1])
    BY <1>14, <2>3
  <2> QED BY <1>3, <1>4, <1>11, <2>1, <2>2, <2>4 DEF Promise!Take
<1>17. Promise!TakeOne(t)
  BY <1>12, <1>13, <1>16 DEF Promise!TakeOne
<1> QED BY <1>17 DEF Promised, Promise!Next

(* A wait for members none of which answers begins in Waitables. *)
LEMMA SleepPromised ==
  ASSUME NEW k, Good(k), NEW w, Shows(k, w), NEW t \in Threads, k.thread[t].state = "READY",
         NEW members \in Seq(Slots), members # <<>>,
         \A j \in DOMAIN members : k.object[members[j]].state # "FREE",
         \A j \in DOMAIN members : ~Answers(k, members[j]),
         NEW deadline, Begun(k, w, t, members, deadline)
  PROVE  Promised
<1>1. Views(k, w)
  BY DEF Shows
<1>2. /\ w.object = k.object /\ w.thread[t].members = members /\ w.thread[t].outcome = None
      /\ Rest(k, w, {t})
  BY DEF Begun, Rest
<1>3. ShownWaits'[t].on = members /\ ShownWaits'[t].outcome = Promise!None
  BY <1>2, WaitsShow DEF None, Promise!None
<1>4. \A j \in DOMAIN members : ~Promise!Ready(members[j])
  <2>1. \A j \in DOMAIN members : members[j] \in Slots
    OBVIOUS
  <2> QED BY <1>1, <2>1, AnswersReady
<1>5. k.thread[t].members = <<>>
  BY DEF Good, Core, Body, WaitsIn, Sane
<1>6. ~Promise!Waits(t) /\ Promise!Waits(t)'
  BY <1>3, <1>5, WaitsShow DEF Promise!Waits
<1>7. UNCHANGED ShownObjects
  BY <1>1, <1>2 DEF Views
<1>8. Promise!Others({t})
  BY <1>2, RestBeside, OthersShow
<1>9. Promise!Sleep(t)
  BY <1>3, <1>4, <1>6, <1>7, <1>8 DEF Promise!Sleep
<1> QED BY <1>9 DEF Promised, Promise!Next

(* A wait ends, before it begins or not, for none of its members. *)
LEMMA LeftPromised ==
  ASSUME NEW k, Good(k), NEW w, Shows(k, w), NEW t \in Threads, w.object = k.object,
         Beside(k, w, {t}), NEW r,
         w.thread[t].members = <<>>, w.thread[t].deadline = 0, w.thread[t].outcome = <<r, 0>>,
         \/ k.thread[t].state = "READY" /\ r = "TIMED_OUT"
         \/ k.thread[t].state = "BLOCKED" /\ r = "CANCELLED"
  PROVE  Promised
<1>1. UNCHANGED ShownObjects
  BY DEF Shows, Views
<1>2. Promise!Others({t})
  BY OthersShow
<1>3. Promise!Leaves(t, r)
  BY OutcomeShown, WaitsShow DEF Promise!Leaves
<1>4. Promise!Waits(t) <=> k.thread[t].state = "BLOCKED"
  <2>1. k.thread[t].members # <<>> <=> k.thread[t].state = "BLOCKED"
    BY DEF Good, Core, Body, WaitsIn, Sane
  <2> QED BY <2>1, WaitsShow DEF Promise!Waits
<1>5. Promise!GiveUp(t) \/ Promise!Cancel(t)
  BY <1>1, <1>2, <1>3, <1>4 DEF Promise!GiveUp, Promise!Cancel
<1> QED BY <1>5 DEF Promised, Promise!Next

(* An object that is closed with r is seen so. *)
LEMMA ShutShown ==
  ASSUME NEW x, NEW y, y.type = x.type, y.count = x.count, y.maximum = x.maximum,
         NEW r, y.result = r
  PROVE  y.deadline = 0 => Shown(y) = Promise!Closed(Shown(x), r)
<1>1. PICK z : z = [Shown(x) EXCEPT !.closed = r]
  OBVIOUS
<1>2. z = [kind |-> x.type, units |-> x.count, limit |-> x.maximum,
           closed |-> r, alarm |-> x.deadline]
  BY <1>1 DEF Shown
<1>3. PICK n : n = y.deadline
  OBVIOUS
<1>4. Shown(y) = [z EXCEPT !.alarm = n]
  BY <1>2, <1>3 DEF Shown
<1>5. Shown(y) = [Shown(x) EXCEPT !.closed = r, !.alarm = n]
  BY <1>1, <1>4
<1> QED BY <1>3, <1>5 DEF Promise!Closed

(* An object that is closed or gone is seen so. *)
LEMMA FinishedShown ==
  ASSUME NEW x, NEW r, r # "", NEW y, Finished(x, r, y)
  PROVE  Vanished(Shown(x), r, Shown(y))
<1>1. CASE x.type # "NONE" /\ Like(FreeObject, y)
  <2>1. Shown(y) = Promise!Absent
    BY <1>1, AbsentShown
  <2>2. Shown(y).kind = "NONE" /\ Shown(x).kind # "NONE"
    BY <1>1, ShownIs, FreeFields DEF Like
  <2> QED BY <2>1, <2>2 DEF Vanished
<1>2. CASE /\ x.result = "" /\ y.result = r /\ y.deadline = 0
           /\ y.type = x.type /\ y.count = x.count /\ y.maximum = x.maximum
  <2>1. Shown(x).closed = "" /\ Shown(y).closed = r
    BY <1>2, ShownIs
  <2>2. Shown(y) = Promise!Closed(Shown(x), r)
    BY <1>2, ShutShown
  <2> QED BY <2>1, <2>2 DEF Vanished
<1> QED BY <1>1, <1>2 DEF Finished

(* Objects are closed or gone, and the threads of G are dead. *)
LEMMA ClosePromised ==
  ASSUME NEW k, NEW w, Shows(k, w), NEW r \in {"CLOSED", "PEER_DEAD"}, NEW S, NEW G,
         Ending(k, w, r, S, G)
  PROVE  Promised
<1>0. /\ S \subseteq Slots /\ G \subseteq Threads
      /\ \A o \in Slots \ S : Like(k.object[o], w.object[o])
      /\ \A o \in S : Finished(k.object[o], r, w.object[o])
      /\ \A t \in G : /\ k.thread[t].members # <<>> /\ w.thread[t].members = <<>>
                      /\ w.thread[t].deadline = 0 /\ w.thread[t].outcome = None
      /\ \A t \in Listeners(k, S) \ G : Answered(k.thread[t], w.thread[t], r, S)
      /\ Beside(k, w, Listeners(k, S) \cup G)
  BY DEF Ending
<1>1. Views(k, w) /\ r # ""
  BY DEF Shows
<1>2. \A o \in Slots : ShownObjects[o] = Shown(k.object[o]) /\ ShownObjects'[o] = Shown(w.object[o])
  BY <1>0, <1>1 DEF Views
<1>3. /\ \A o \in S : Vanished(ShownObjects[o], r, ShownObjects'[o])
      /\ \A o \in Slots \ S : ShownObjects'[o] = ShownObjects[o]
  <2>1. ASSUME NEW o \in S PROVE Vanished(ShownObjects[o], r, ShownObjects'[o])
    <3>1. ShownObjects[o] = Shown(k.object[o]) /\ ShownObjects'[o] = Shown(w.object[o])
      BY <1>0, <1>2
    <3>2. Vanished(Shown(k.object[o]), r, Shown(w.object[o]))
      BY <1>0, <1>1, FinishedShown
    <3> QED BY <3>1, <3>2
  <2>2. \A o \in Slots \ S : ShownObjects'[o] = ShownObjects[o]
    BY <1>0, <1>2, LikeShown
  <2> QED BY <2>1, <2>2
<1>4. S = {o \in Slots : ShownObjects'[o] # ShownObjects[o]}
  BY <1>0, <1>3 DEF Vanished
<1>5. ASSUME NEW t \in G
      PROVE  Promise!Waits(t) /\ ShownWaits'[t] = Promise!AtWork
  <2>1. ShownWaits'[t] = Promise!AtWork
    BY <1>0, ForgottenShown, WaitsShow
  <2>2. ShownWaits[t].on # <<>>
    BY <1>0, WaitsShow
  <2> QED BY <2>1, <2>2 DEF Promise!Waits
<1>6. ASSUME NEW t \in Listeners(k, S) \ G
      PROVE  Promise!Ends(t, r, S) /\ ShownWaits'[t] # Promise!AtWork
  <2>1. PICK m : m = k.thread[t].members
    OBVIOUS
  <2>2. PICK i \in DOMAIN m : m[i] \in S /\ w.thread[t] = Told(r, i)
    BY <1>0, <2>1 DEF Answered
  <2>3. t \in Threads
    BY DEF Listeners
  <2>4. ShownWaits'[t] = [Promise!AtWork EXCEPT !.outcome = <<r, i>>] /\ ShownWaits'[t].outcome = <<r, i>>
    BY <2>2, <2>3, WaitsShow, ToldShown, ToldIs
  <2>5. ShownWaits[t].on = m
    BY <2>1, <2>3, WaitsShow
  <2>6. Promise!Ends(t, r, S)
    BY <2>2, <2>4, <2>5 DEF Promise!Ends
  <2>7. Promise!AtWork.outcome = Promise!None
    BY DEF Promise!AtWork
  <2> QED BY <1>1, <2>4, <2>6, <2>7, SomeOutcome
<1>7. ASSUME NEW t \in Threads, Promise!Waits(t), ShownWaits'[t] = Promise!AtWork
      PROVE  t \in G
  <2> SUFFICES ASSUME t \notin Listeners(k, S) \cup G PROVE FALSE
    BY <1>6, <1>7
  <2>1. ShownWaits[t].on # <<>> /\ ShownWaits'[t].on = <<>>
    BY <1>7 DEF Promise!Waits, Promise!AtWork
  <2>2. k.thread[t].members # <<>> /\ w.thread[t].members = <<>>
    BY <2>1, WaitsShow
  <2> QED BY <1>0, <2>2 DEF Beside, Kept
<1>8. G = {t \in Threads : Promise!Waits(t) /\ ShownWaits'[t] = Promise!AtWork}
  BY <1>0, <1>5, <1>7
<1>9. (UNION {Promise!Waiters(o) : o \in S}) = Listeners(k, S)
  <2>1. \A t \in Threads : ShownWaits[t].on = k.thread[t].members
    BY WaitsShow
  <2> QED BY <1>0, <2>1 DEF Promise!Waiters, Listeners
<1>10. \A t \in (UNION {Promise!Waiters(o) : o \in S}) \ G : Promise!Ends(t, r, S)
  BY <1>6, <1>9
<1>11. ((UNION {Promise!Waiters(o) : o \in S}) \ G) \cup G = Listeners(k, S) \cup G
  BY <1>9
<1>12. Promise!Others(((UNION {Promise!Waiters(o) : o \in S}) \ G) \cup G)
  BY <1>0, <1>11, OthersShow
<1>13. ShownObjects' = [o \in Slots |-> ShownObjects'[o]]
  BY <1>1 DEF Views
<1>14. Promise!Closes(r, S, G)
  <2>1. \A o \in S : \/ /\ ShownObjects[o].closed = ""
                      /\ ShownObjects'[o] = Promise!Closed(ShownObjects[o], r)
                   \/ ShownObjects'[o] = Promise!Absent
    BY <1>3 DEF Vanished
  <2> QED BY <2>1, <1>10, <1>12, <1>13 DEF Promise!Closes
<1>15. Promise!Close(r)
  BY <1>4, <1>8, <1>14 DEF Promise!Close
<1> QED BY <1>15 DEF Promised, Promise!Next

(* Objects are closed or gone, and no thread dies. *)
LEMMA SweptPromised ==
  ASSUME NEW k, NEW w, NEW v, NEW r \in {"CLOSED", "PEER_DEAD"}, NEW S, Swept(k, w, r, S),
         NEW T, T = Listeners(k, S), Follows(k, w, v, T)
  PROVE  Promised
<1>1. /\ S \subseteq Slots
      /\ \A o \in Slots \ S : Like(k.object[o], v.object[o])
      /\ \A o \in S : Finished(k.object[o], r, v.object[o])
      /\ \A t \in T : Answered(k.thread[t], v.thread[t], r, S)
  BY DEF Swept, Heard, Follows
<1>2. T \cup {} = T /\ T \ {} = T
  OBVIOUS
<1>3. Ending(k, v, r, S, {})
  BY <1>1, <1>2 DEF Ending, Follows
<1> QED BY <1>3, ClosePromised DEF Follows

(* What is not set does not come nearer. *)
LEMMA NearerZero ==
  ASSUME NEW x, x = 0, NEW d
  PROVE  Nearer(x, d) = 0
BY DEF Nearer

(* Ticks pass alike in both modules. *)
LEMMA NearerSame ==
  ASSUME NEW x, NEW d
  PROVE  Nearer(x, d) = Promise!Nearer(x, d)
BY DEF Nearer, Promise!Nearer

(* What is later is not due. *)
LEMMA LaterOutside ==
  ASSUME NEW n \in Nat, NEW d \in Nat, Later(n, d)
  PROVE  n \notin 1 .. d
<1>1. CASE n = 0
  BY <1>1
<1>2. CASE n > d
  BY <1>2
<1> QED BY <1>1, <1>2 DEF Later

(* A timer that has expired is rung in Waitables. *)
LEMMA RungShown ==
  ASSUME NEW x, NEW y, y.type = x.type, y.maximum = x.maximum, y.result = x.result
  PROVE  y.count = 1 /\ y.deadline = 0 => Shown(y) = Promise!Rung(Shown(x))
<1>1. PICK c, d : c = y.count /\ d = y.deadline
  OBVIOUS
<1>2. PICK z : z = [Shown(x) EXCEPT !.units = c]
  OBVIOUS
<1>3. z = [kind |-> x.type, units |-> c, limit |-> x.maximum,
           closed |-> x.result, alarm |-> x.deadline]
  BY <1>2 DEF Shown
<1>4. Shown(y) = [z EXCEPT !.alarm = d]
  BY <1>1, <1>3 DEF Shown
<1>5. Shown(y) = [Shown(x) EXCEPT !.units = c, !.alarm = d]
  BY <1>2, <1>4
<1> QED BY <1>1, <1>5 DEF Promise!Rung

(* An object that is only nearer its deadline. *)
LEMMA AgedShown ==
  ASSUME NEW x, NEW z, NEW y, NEW d, Like(x, z), Aged(z, y, d)
  PROVE  Shown(y) = [Shown(x) EXCEPT !.alarm = Promise!Nearer(@, d)]
<1>1. PICK n : n = Nearer(z.deadline, d)
  OBVIOUS
<1>2. /\ y.type = x.type /\ y.count = x.count /\ y.maximum = x.maximum
      /\ y.result = x.result /\ y.deadline = n /\ z.deadline = x.deadline
  BY <1>1 DEF Like, Aged
<1>3. n = Promise!Nearer(Shown(x).alarm, d)
  BY <1>1, <1>2, NearerSame, ShownIs
<1>4. Shown(y) = [Shown(x) EXCEPT !.alarm = n]
  BY <1>2 DEF Shown
<1> QED BY <1>3, <1>4

(* A thread that is only nearer its deadline. *)
LEMMA OlderShown ==
  ASSUME NEW x, NEW y, NEW d, OlderThread(x, y, d)
  PROVE  ShownWait(y) = [ShownWait(x) EXCEPT !.patience = Promise!Nearer(@, d)]
<1>1. PICK n : n = Nearer(x.deadline, d)
  OBVIOUS
<1>2. y.members = x.members /\ y.outcome = x.outcome /\ y.deadline = n
  BY <1>1 DEF OlderThread
<1>3. n = Promise!Nearer(ShownWait(x).patience, d)
  BY <1>1, NearerSame, ShownWaitIs
<1>4. ShownWait(y) = [ShownWait(x) EXCEPT !.patience = n]
  BY <1>2 DEF ShownWait
<1> QED BY <1>3, <1>4

(* A thread that was told before time passed. *)
LEMMA OlderTold ==
  ASSUME NEW r, NEW i, NEW d, NEW y, OlderThread(Told(r, i), y, d)
  PROVE  ShownWait(y) = [Promise!AtWork EXCEPT !.outcome = <<r, i>>]
<1>1. PICK x : x = Told(r, i) /\ OlderThread(x, y, d)
  OBVIOUS
<1>2. x.members = <<>> /\ x.deadline = 0 /\ x.outcome = <<r, i>>
  BY <1>1, ToldIs
<1>3. y.deadline = 0
  BY <1>1, <1>2, NearerZero DEF OlderThread
<1>4. y.members = <<>> /\ y.outcome = <<r, i>>
  BY <1>1, <1>2 DEF OlderThread
<1> QED BY <1>3, <1>4, OutcomeShown

(* Time passes: the deadlines of threads come first. *)
LEMMA PassPromised ==
  ASSUME NEW k \in States, NEW w, Shows(k, w), NEW d \in Amounts, NEW late, NEW S,
         Passing(k, w, d, late, S)
  PROVE  Promised
<1>0. PICK j, i : Elapsed(k, w, d, late, S, j, i)
  BY DEF Passing
<1>1. /\ j.object = k.object /\ GaveUp(k, j, late) /\ Rang(j, i, S, d)
      /\ NothingDue(i, d)
      /\ \A o \in Slots : Aged(i.object[o], w.object[o], d)
      /\ \A t \in Threads : OlderThread(i.thread[t], w.thread[t], d)
  BY <1>0 DEF Elapsed
<1>2. Views(k, w) /\ late = {t \in Threads : k.thread[t].deadline \in 1 .. d}
  BY DEF Shows, Passing
<1>3. /\ late \subseteq Threads /\ \A t \in late : j.thread[t] = Told("TIMED_OUT", 0)
      /\ \A t \in Threads \ late : j.thread[t] = k.thread[t]
  BY <1>1 DEF GaveUp, Rest
<1>4. /\ S \subseteq Slots /\ \A o \in Slots \ S : Like(j.object[o], i.object[o])
      /\ \A o \in S : Expired(j.object[o], i.object[o], d)
      /\ \A t \in Listeners(j, S) : Answered(j.thread[t], i.thread[t], "OK", S)
      /\ \A t \in Threads \ Listeners(j, S) : i.thread[t] = j.thread[t]
  BY <1>1 DEF Rang, Heard, Rest
<1>5. late = {t \in Threads : ShownWaits[t].patience \in 1 .. d}
  BY <1>2, WaitsShow
<1>6. \A o \in Slots : ShownObjects[o].alarm = k.object[o].deadline
  BY <1>2, ViewFields
<1>7. S = {o \in Slots : ShownObjects[o].alarm \in 1 .. d}
  <2>1. ASSUME NEW o \in S PROVE ShownObjects[o].alarm \in 1 .. d
    <3>1. k.object[o].deadline \in 1 .. d
      BY <1>1, <1>4 DEF Expired
    <3> QED BY <1>4, <1>6, <3>1
  <2>2. ASSUME NEW o \in Slots \ S PROVE ShownObjects[o].alarm \notin 1 .. d
    <3>1. i.object[o].deadline = k.object[o].deadline
      BY <1>1, <1>4 DEF Like
    <3>2. PICK n \in Nat : n = k.object[o].deadline
      BY ObjectAt, ObjectFields
    <3>3. Later(n, d)
      BY <1>1, <3>1, <3>2 DEF NothingDue
    <3>4. d \in Nat
      BY DEF Passing
    <3>5. n \notin 1 .. d
      BY <3>3, <3>4, LaterOutside
    <3> QED BY <1>6, <3>2, <3>5
  <2> QED BY <1>4, <2>1, <2>2
<1>8. ASSUME NEW o \in S PROVE ShownObjects'[o] = Promise!Rung(ShownObjects[o])
  <2>1. PICK x, y, z : /\ x = k.object[o] /\ y = w.object[o] /\ z = i.object[o]
                       /\ Expired(x, z, d) /\ Aged(z, y, d)
    BY <1>1, <1>4
  <2>2. /\ y.type = x.type /\ y.maximum = x.maximum /\ y.result = x.result /\ y.count = 1
        /\ y.deadline = Nearer(z.deadline, d) /\ z.deadline = 0
    BY <2>1 DEF Expired, Aged
  <2>3. y.deadline = 0
    BY <2>2, NearerZero
  <2>4. Shown(y) = Promise!Rung(Shown(x))
    BY <2>2, <2>3, RungShown
  <2>5. ShownObjects[o] = Shown(x) /\ ShownObjects'[o] = Shown(y)
    BY <1>2, <1>4, <2>1, ViewFields
  <2> QED BY <2>4, <2>5
<1>9. ASSUME NEW o \in Slots \ S
      PROVE  ShownObjects'[o] = [ShownObjects[o] EXCEPT !.alarm = Promise!Nearer(@, d)]
  <2>1. PICK x, y, z : /\ x = k.object[o] /\ y = w.object[o] /\ z = i.object[o]
                       /\ Like(x, z) /\ Aged(z, y, d)
    BY <1>1, <1>4
  <2>2. Shown(y) = [Shown(x) EXCEPT !.alarm = Promise!Nearer(@, d)]
    BY <2>1, AgedShown
  <2>3. ShownObjects[o] = Shown(x) /\ ShownObjects'[o] = Shown(y)
    BY <1>2, <2>1, ViewFields
  <2> QED BY <2>2, <2>3
<1>10. ShownObjects' = [o \in Slots |-> IF o \in S THEN Promise!Rung(ShownObjects[o])
                          ELSE [ShownObjects[o] EXCEPT !.alarm = Promise!Nearer(@, d)]]
  <2>1. PICK a : a = ShownObjects' /\ a = [o \in Slots |-> a[o]]
    BY <1>2 DEF Views
  <2> QED BY <1>8, <1>9, <2>1
<1>11. (UNION {Promise!Waiters(o) : o \in S}) = Listeners(k, S)
  <2>1. \A t \in Threads : ShownWaits[t].on = k.thread[t].members
    BY WaitsShow
  <2> QED BY <1>4, <2>1 DEF Promise!Waiters, Listeners
<1>12. Listeners(j, S) = Listeners(k, S) \ late
  <2>1. \A t \in late : j.thread[t].members = <<>>
    BY <1>3, ToldIs
  <2> QED BY <1>3, <2>1 DEF Listeners
<1>13. ASSUME NEW t \in late PROVE Promise!Leaves(t, "TIMED_OUT")
  <2>1. i.thread[t] = Told("TIMED_OUT", 0)
    BY <1>3, <1>4, <1>12
  <2>2. OlderThread(Told("TIMED_OUT", 0), w.thread[t], d)
    BY <1>1, <1>3, <2>1
  <2>3. ShownWait(w.thread[t]) = [Promise!AtWork EXCEPT !.outcome = <<"TIMED_OUT", 0>>]
    BY <2>2, OlderTold
  <2>4. ShownWaits'[t] = ShownWait(w.thread[t])
    BY <1>3, WaitsShow
  <2> QED BY <2>3, <2>4 DEF Promise!Leaves
<1>14. ASSUME NEW t \in Listeners(k, S) \ late PROVE Promise!Ends(t, "OK", S)
  <2>1. t \in Threads
    BY DEF Listeners
  <2>2. PICK m : m = k.thread[t].members /\ m = j.thread[t].members
    BY <1>3, <2>1
  <2>3. PICK l \in DOMAIN m : m[l] \in S /\ i.thread[t] = Told("OK", l)
    BY <1>4, <1>12, <2>2 DEF Answered
  <2>4. ShownWait(w.thread[t]) = [Promise!AtWork EXCEPT !.outcome = <<"OK", l>>]
    BY <1>1, <2>1, <2>3, OlderTold
  <2>5. ShownWaits'[t] = ShownWait(w.thread[t]) /\ ShownWaits[t].on = k.thread[t].members
    BY <2>1, WaitsShow
  <2>6. ShownWaits[t].on = m
    BY <2>2, <2>5
  <2> QED BY <2>3, <2>4, <2>5, <2>6 DEF Promise!Ends
<1>15. ASSUME NEW t \in Threads \ (late \cup Listeners(k, S))
       PROVE  ShownWaits'[t] = [ShownWaits[t] EXCEPT !.patience = Promise!Nearer(@, d)]
  <2>1. i.thread[t] = k.thread[t]
    BY <1>3, <1>4, <1>12
  <2>2. OlderThread(k.thread[t], w.thread[t], d)
    BY <1>1, <2>1
  <2>3. ShownWait(w.thread[t]) = [ShownWait(k.thread[t]) EXCEPT !.patience = Promise!Nearer(@, d)]
    BY <2>2, OlderShown
  <2> QED BY <2>3, WaitsShow
<1>16. /\ \A t \in (UNION {Promise!Waiters(o) : o \in S}) \ late : Promise!Ends(t, "OK", S)
       /\ \A t \in Threads \ (late \cup ((UNION {Promise!Waiters(o) : o \in S}) \ late)) :
            ShownWaits'[t] = [ShownWaits[t] EXCEPT !.patience = Promise!Nearer(@, d)]
  BY <1>11, <1>14, <1>15
<1>17. Promise!Passes(d, late, S)
  BY <1>10, <1>13, <1>16 DEF Promise!Passes
<1>18. Promise!Pass(d)
  BY <1>5, <1>7, <1>17 DEF Promise!Pass
<1> QED BY <1>18 DEF Promised, Promise!Next

----------------------------------------------------------------------------
(* Each call keeps the invariant, and the promise. *)

(* A call that nobody is told of. *)
LEMMA QuietCall ==
  ASSUME Inv, NEW k, Here(k), NEW t \in Threads, k.thread[t].state = "READY",
         NEW w, Good(w), w.panic = Healthy, Return(t, w), Beside(k, w, {})
  PROVE  Inv' /\ Acts(k, w, {}, "", {})
<1>1. Seen(k, w, {}, "", {})
  BY NobodySeen
<1> QED BY <1>1, ReturnedActs

(* A call that the threads of T are told of. *)
LEMMA HeardCall ==
  ASSUME Inv, NEW k, Here(k), NEW t \in Threads, k.thread[t].state = "READY",
         NEW w, Good(w), w.panic = Healthy, Return(t, w),
         NEW T, NEW r, NEW S, Heard(k, w, T, r, S)
  PROVE  Inv' /\ Acts(k, w, T, r, S)
BY HeardSeen, ReturnedActs

(* A call that closes objects. *)
LEMMA SweptCall ==
  ASSUME Inv, NEW k, Here(k), NEW t \in Threads, k.thread[t].state = "READY",
         NEW w, Good(w), w.panic = Healthy, Return(t, w),
         NEW r \in {"CLOSED", "PEER_DEAD"}, NEW S, Swept(k, w, r, S)
  PROVE  Inv' /\ Promised
<1>1. PICK T : T = Listeners(k, S)
  OBVIOUS
<1>2. k.thread[t].members = <<>>
  BY DEF Here, Good, Core, Body, WaitsIn, Sane
<1>3. T \subseteq Threads /\ t \notin T
  BY <1>1, <1>2 DEF Listeners
<1>4. Beside(k, w, T)
  BY <1>1, RestBeside DEF Swept, Heard
<1>5. PICK v : Follows(k, w, v, T)
  BY <1>3, <1>4, ReturnedShows
<1>6. Promised
  BY <1>1, <1>5, SweptPromised
<1>7. Inv'
  BY <1>3, <1>4, ReturnedShows
<1> QED BY <1>6, <1>7

(* A free object is seen as none. *)
LEMMA FreeLike ==
  ASSUME NEW k, Good(k), NEW o \in Slots, k.object[o].state = "FREE"
  PROVE  Like(FreeObject, k.object[o])
BY DEF Good, Core, Body, Shape, SameObject, Like

(* What a process holds is there. *)
LEMMA HeldThere ==
  ASSUME NEW k, Here(k), NEW t \in Threads, k.thread[t].state = "READY", NEW o \in Slots, Holds(t, o)
  PROVE  k.object[o].state # "FREE"
<1>1. Good(k) /\ k.handles = handles
  BY DEF Here
<1>2. PICK p \in Processes : p = ProcessOf[t]
  BY <1>1, Working
<1>3. PICK n \in Nat : n = k.handles[p][o] /\ n <= k.object[o].references /\ n > 0
  BY <1>1, <1>2, HandlesBound DEF Holds
<1>4. PICK x : x = k.object[o]
  OBVIOUS
<1>5. x.references # 0
  <2>1. x.references \in Nat
    BY <1>1, <1>4, ObjectAt, ObjectFields DEF Good, Core, Body
  <2> QED BY <1>3, <1>4, <2>1
<1>6. Shape(x)
  BY <1>1, <1>4 DEF Good, Core, Body
<1> QED BY <1>4, <1>5, <1>6 DEF Shape

(* Handles and references are not seen. *)
LEMMA RetainedUnseen ==
  ASSUME NEW k, NEW w, NEW p, NEW count, Retains(k, w, p, count)
  PROVE  Beside(k, w, {}) /\ \A o \in Slots : Like(k.object[o], w.object[o])
BY DEF Retains, MoreUsed, Beside, Kept, Like

(* A child is born at work. *)
LEMMA BornUnseen ==
  ASSUME NEW k, NEW w, NEW u \in Threads, Born(k, w, u)
  PROVE  Beside(k, w, {}) /\ \A o \in Slots : Like(k.object[o], w.object[o])
<1>1. w.thread[u].members = <<>> /\ w.thread[u].deadline = 0 /\ w.thread[u].outcome = None
  BY DEF Born, AtWork
<1> QED BY <1>1 DEF Born, Rest, Beside, Kept

(* A call that ends a process, in e, and closes what it made. *)
LEMMA DyingCall ==
  ASSUME Inv, NEW k, Here(k), NEW t \in Threads, k.thread[t].state = "READY",
         NEW w, Good(w), w.panic = Healthy, Return(t, w), NEW p \in Processes,
         NEW e, Dying(k, e, p), NEW S, Swept(e, w, "PEER_DEAD", S)
  PROVE  Inv' /\ Promised
<1>1. PICK D : D = {u \in Threads : ProcessOf[u] = p}
  OBVIOUS
<1>2. PICK G : G = {u \in D : k.thread[u].members # <<>>}
  OBVIOUS
<1>3. PICK T : T = Listeners(e, S) \cup G
  OBVIOUS
<1>4. /\ e.object = k.object /\ Rest(k, e, D)
      /\ \A u \in D : e.thread[u] = AtWork("DEAD")
  BY <1>1 DEF Dying, Gone
<1>5. AtWork("DEAD").members = <<>> /\ AtWork("DEAD").deadline = 0 /\ AtWork("DEAD").outcome = None
  BY DEF AtWork
<1>6. D \subseteq Threads /\ \A u \in Threads \ D : e.thread[u] = k.thread[u]
  BY <1>1, <1>4 DEF Rest
<1>7. Listeners(e, S) = Listeners(k, S) \ D
  BY <1>4, <1>5, <1>6 DEF Listeners
<1>8. Listeners(k, S) \ G = Listeners(e, S)
  BY <1>2, <1>7 DEF Listeners
<1>9. Listeners(k, S) \cup G = T
  BY <1>2, <1>3, <1>8
<1>10. /\ S \subseteq Slots /\ Heard(e, w, Listeners(e, S), "PEER_DEAD", S)
       /\ \A o \in Slots \ S : Like(k.object[o], w.object[o])
       /\ \A o \in S : Finished(k.object[o], "PEER_DEAD", w.object[o])
  BY <1>4 DEF Swept
<1>11. \A u \in D : w.thread[u] = AtWork("DEAD")
  BY <1>4, <1>6, <1>7, <1>10 DEF Heard, Rest
<1>12. \A u \in Threads \ (D \cup T) : w.thread[u] = k.thread[u]
  BY <1>3, <1>6, <1>10 DEF Heard, Rest
<1>13. Beside(k, w, T)
  <2>1. ASSUME NEW u \in Threads \ T PROVE Kept(k.thread[u], w.thread[u])
    <3>1. CASE u \in D
      BY <1>2, <1>3, <1>5, <1>11, <2>1, <3>1 DEF Kept
    <3>2. CASE u \notin D
      BY <1>12, <2>1, <3>2 DEF Kept
    <3> QED BY <3>1, <3>2
  <2> QED BY <2>1 DEF Beside
<1>14. T \subseteq Threads /\ t \notin T
  <2>1. k.thread[t].members = <<>>
    BY DEF Here, Good, Core, Body, WaitsIn, Sane
  <2>2. t \notin Listeners(k, S) /\ t \notin G
    BY <1>2, <2>1 DEF Listeners
  <2>3. T \subseteq Threads
    BY <1>2, <1>3, <1>6 DEF Listeners
  <2> QED BY <1>9, <2>2, <2>3
<1>15. PICK v : Follows(k, w, v, T)
  BY <1>13, <1>14, ReturnedShows
<1>16. Inv'
  BY <1>13, <1>14, ReturnedShows
<1>17. /\ Shows(k, v) /\ Beside(k, v, T)
       /\ v.object = w.object /\ \A u \in T : v.thread[u] = w.thread[u]
  BY <1>15 DEF Follows
<1>18. \A u \in G : /\ k.thread[u].members # <<>> /\ v.thread[u].members = <<>>
                    /\ v.thread[u].deadline = 0 /\ v.thread[u].outcome = None
  BY <1>2, <1>3, <1>5, <1>11, <1>17
<1>19. \A u \in Listeners(k, S) \ G : Answered(k.thread[u], v.thread[u], "PEER_DEAD", S)
  <2>1. ASSUME NEW u \in Listeners(e, S) PROVE Answered(k.thread[u], v.thread[u], "PEER_DEAD", S)
    <3>1. Answered(e.thread[u], w.thread[u], "PEER_DEAD", S)
      BY <1>10 DEF Heard
    <3>2. e.thread[u] = k.thread[u]
      BY <1>6, <1>7 DEF Listeners
    <3>3. v.thread[u] = w.thread[u]
      BY <1>3, <1>17
    <3> QED BY <3>1, <3>2, <3>3
  <2> QED BY <1>8, <2>1
<1>20. Ending(k, v, "PEER_DEAD", S, G)
  <2>1. G \subseteq Threads
    BY <1>2, <1>6
  <2>2. Beside(k, v, Listeners(k, S) \cup G)
    BY <1>9, <1>17
  <2>3. /\ \A o \in Slots \ S : Like(k.object[o], v.object[o])
        /\ \A o \in S : Finished(k.object[o], "PEER_DEAD", v.object[o])
    BY <1>10, <1>17
  <2> QED BY <1>10, <1>18, <1>19, <2>1, <2>2, <2>3 DEF Ending
<1> QED BY <1>16, <1>17, <1>20, ClosePromised

(* EVENT_CREATE, SEMAPHORE_CREATE and TIMER_CREATE keep the invariant. *)
LEMMA CreateKeeps ==
  ASSUME Inv, NEW t \in Threads, NEW x \in Load.creates, Create(t, x.type, x.count, x.maximum)
  PROVE  Inv' /\ Promised
<1>1. panic = Healthy /\ thread[t].state = "READY" /\ Free(K) # {}
  BY DEF Create, Calls
<1>2. PICK k : Here(k)
  BY <1>1, Hither
<1>3. k = K /\ Good(k) /\ k.panic = Healthy /\ k.thread[t].state = "READY"
  BY <1>1, <1>2 DEF Here
<1>4. PICK p \in Processes : p = ProcessOf[t] /\ k.process[p] = "RUNNING" /\ k \in States
  BY <1>3, Working
<1>5. PICK type \in Types \ {"NONE"}, maximum \in Nat, count \in Nat :
        type = x.type /\ maximum = x.maximum /\ count = x.count
  BY LoadFacts
<1>6. PICK S \in SUBSET Nat : S = Free(k) /\ S # {} /\ \A o \in S : o \in Slots /\ k.object[o].state = "FREE"
  <2>1. PICK n \in Slots : n = Load.slots
    BY LoadFacts
  <2>2. n \in Nat /\ 1 .. n \subseteq Slots
    <3>1. ObjectSlots \in Nat
      BY SyncAssumption
    <3> QED BY <3>1 DEF Slots
  <2>3. PICK S : S = {o \in 1 .. n : k.object[o].state = "FREE"}
    OBVIOUS
  <2>4. S = Free(k)
    BY <2>1, <2>3 DEF Free
  <2>5. S \in SUBSET Nat /\ \A o \in S : o \in Slots /\ k.object[o].state = "FREE"
    BY <2>2, <2>3
  <2> QED BY <1>1, <1>3, <2>4, <2>5
<1>7. PICK o \in Slots : o = Lowest(S) /\ k.object[o].state = "FREE"
  BY <1>6, LowestFacts
<1>8. PICK w : w = Install(k, p, o, type, count, maximum) /\ Good(w) /\ w.panic = k.panic
               /\ Installed(k, w, o, type, count, maximum)
  BY <1>3, <1>4, <1>7, InstallFacts
<1>9. Return(t, w)
  BY <1>3, <1>4, <1>5, <1>6, <1>7, <1>8 DEF Create
<1>10. Beside(k, w, {})
  BY <1>8 DEF Installed, Beside, Kept
<1>11. Inv' /\ Acts(k, w, {}, "", {})
  BY <1>2, <1>3, <1>8, <1>9, <1>10, QuietCall
<1>12. maximum \in Amounts
  BY <1>5, AmountsAre
<1>13. count \in 0 .. maximum
  BY <1>5 DEF Create
<1>14. Like(FreeObject, k.object[o])
  BY <1>3, <1>7, FreeLike
<1> QED BY <1>8, <1>11, <1>12, <1>13, <1>14, CreatePromised

(* HANDLE_CLOSE keeps the invariant, the last one of an object too. *)
LEMMA CloseKeeps ==
  ASSUME Inv, NEW t \in Threads, NEW o \in Slots, Close(t, o)
  PROVE  Inv' /\ Promised
<1>1. panic = Healthy /\ thread[t].state = "READY" /\ Holds(t, o)
  BY DEF Close, Calls
<1>2. PICK k : Here(k)
  BY <1>1, Hither
<1>3. k = K /\ Good(k) /\ k.panic = Healthy /\ k.thread[t].state = "READY"
  BY <1>1, <1>2 DEF Here
<1>4. PICK p \in Processes : p = ProcessOf[t]
  BY <1>3, Working
<1>5. k.handles[p][o] \in Nat /\ k.handles[p][o] <= k.object[o].references
  BY <1>3, HandlesBound
<1>6. k.handles[p][o] > 0
  BY <1>1, <1>2, <1>4 DEF Holds, Here
<1>7. PICK n \in Nat \ {0} : n = 1
  OBVIOUS
<1>8. n <= k.handles[p][o] /\ Core(k)
  BY <1>3, <1>5, <1>6, <1>7 DEF Good
<1>9. PICK w : w = Release(k, p, o, n) /\ Released(k, w, p, o, n)
  BY <1>5, <1>8, ReleaseFacts
<1>10. Good(w) /\ w.panic = k.panic
  <2>1. Good(w)
    BY <1>3, <1>8, <1>9, ReleasedGood
  <2> QED BY <1>9, <2>1 DEF Released
<1>11. Return(t, w)
  BY <1>3, <1>4, <1>7, <1>9 DEF Close
<1>12. PICK S : Swept(k, w, "CLOSED", S)
  BY <1>8, <1>9, ReleasedSwept
<1> QED BY <1>2, <1>3, <1>10, <1>11, <1>12, SweptCall

(* HANDLE_DUPLICATE keeps the invariant. *)
LEMMA DuplicateKeeps ==
  ASSUME Inv, NEW t \in Threads, NEW o \in Slots, Duplicate(t, o)
  PROVE  Inv' /\ Promised
<1>1. panic = Healthy /\ thread[t].state = "READY" /\ Live(K, o)
  BY DEF Duplicate, Calls
<1>2. PICK k : Here(k)
  BY <1>1, Hither
<1>3. /\ k = K /\ Good(k) /\ k.panic = Healthy /\ k.thread[t].state = "READY"
      /\ k.object[o].state = "LIVE"
  BY <1>1, <1>2 DEF Here, Live
<1>4. PICK p \in Processes : p = ProcessOf[t]
  BY <1>3, Working
<1>5. PICK c : c = [x \in Slots |-> IF x = o THEN 1 ELSE 0]
  OBVIOUS
<1>6. c \in [Slots -> Nat] /\ \A x \in Slots : c[x] # 0 => k.object[x].state = "LIVE"
  BY <1>3, <1>5
<1>7. PICK w : Retains(k, w, p, c)
  BY <1>3, <1>6, RetainedFacts
<1>8. w = Retained(k, p, c) /\ Good(w) /\ w.panic = Healthy
  BY <1>3, <1>7 DEF Retains
<1>9. Return(t, w)
  BY <1>3, <1>4, <1>5, <1>8 DEF Duplicate
<1>10. Beside(k, w, {}) /\ \A x \in Slots : Like(k.object[x], w.object[x])
  BY <1>7, RetainedUnseen
<1>11. Inv' /\ Acts(k, w, {}, "", {})
  BY <1>2, <1>3, <1>8, <1>9, <1>10, QuietCall
<1> QED BY <1>10, <1>11, UnseenPromised

(* Forking a process that holds objects keeps the invariant. *)
LEMMA ForkKeeps ==
  ASSUME Inv, NEW t \in Threads, NEW q \in Processes, Fork(t, q)
  PROVE  Inv' /\ Promised
<1>1. /\ panic = Healthy /\ thread[t].state = "READY" /\ process[q] = "UNBORN"
      /\ \A o \in Slots : Holds(t, o) => Live(K, o)
  BY DEF Fork, Calls
<1>2. PICK k : Here(k)
  BY <1>1, Hither
<1>3. /\ k = K /\ Good(k) /\ k.panic = Healthy /\ k.thread[t].state = "READY"
      /\ k.process[q] = "UNBORN" /\ k.handles = handles
  BY <1>1, <1>2 DEF Here
<1>4. PICK p \in Processes : p = ProcessOf[t]
  BY <1>3, Working
<1>5. ASSUME NEW o \in Slots, k.handles[p][o] # 0 PROVE k.object[o].state = "LIVE"
  <2>1. k.handles[p][o] \in Nat
    BY <1>3, HandlesBound
  <2>2. Holds(t, o)
    BY <1>3, <1>4, <1>5, <2>1 DEF Holds
  <2> QED BY <1>1, <1>3, <2>2 DEF Live
<1>6. PICK u \in Threads : u = (CHOOSE x \in Threads : ProcessOf[x] = q) /\ ProcessOf[u] = q
  <2>1. \E x \in Threads : ProcessOf[x] = q
    BY SyncAssumption
  <2> QED BY <2>1
<1>7. PICK w : w = Forked(k, p, q, u) /\ Good(w) /\ w.panic = k.panic /\ Born(k, w, u)
  BY <1>3, <1>4, <1>5, <1>6, ForkedFacts
<1>8. Beside(k, w, {}) /\ \A o \in Slots : Like(k.object[o], w.object[o])
  BY <1>6, <1>7, BornUnseen
<1>9. Return(t, w)
  BY <1>3, <1>4, <1>6, <1>7 DEF Fork, Forked
<1>10. Inv' /\ Acts(k, w, {}, "", {})
  BY <1>2, <1>3, <1>7, <1>8, <1>9, QuietCall
<1> QED BY <1>8, <1>10, UnseenPromised

(* A process that exits, or is killed, keeps the invariant. *)
LEMMA ExitKeeps ==
  ASSUME Inv, NEW t \in Threads, NEW p \in Processes, Exit(t, p)
  PROVE  Inv' /\ Promised
<1>1. panic = Healthy /\ thread[t].state = "READY"
  BY DEF Exit, Calls
<1>2. PICK k : Here(k)
  BY <1>1, Hither
<1>3. k = K /\ Good(k) /\ k.panic = Healthy /\ k.thread[t].state = "READY"
  BY <1>1, <1>2 DEF Here
<1>4. PICK w, e, S : /\ w = Retire(k, p) /\ Good(w) /\ w.panic = k.panic
                     /\ Dying(k, e, p) /\ Swept(e, w, "PEER_DEAD", S)
  BY <1>3, RetireFacts
<1>5. Return(t, w)
  BY <1>3, <1>4 DEF Exit
<1> QED BY <1>2, <1>3, <1>4, <1>5, DyingCall

(* The worker reaping a process keeps the invariant. *)
LEMMA ReapKeeps ==
  ASSUME Inv, NEW p \in Processes, Reap(p)
  PROVE  Inv' /\ Promised
<1>1. panic = Healthy /\ process[p] = "DEAD"
  BY DEF Reap
<1>2. PICK k : Here(k)
  BY <1>1, Hither
<1>3. k = K /\ Good(k) /\ k.panic = Healthy /\ k.process[p] = "DEAD"
  BY <1>1, <1>2 DEF Here
<1>4. PICK w, S : /\ w = [CloseHandles(k, p) EXCEPT !.process[p] = "UNBORN"] /\ Good(w)
                  /\ w.panic = k.panic /\ Swept(k, w, "CLOSED", S)
  BY <1>3, ReapFacts
<1>5. Commit(w)
  BY <1>3, <1>4 DEF Reap
<1>6. Inv' /\ Shows(k, w)
  BY <1>2, <1>3, <1>4, <1>5, CommittedShows
<1>7. PICK T : T = Listeners(k, S) /\ Follows(k, w, w, T)
  BY <1>4, <1>6, RestBeside DEF Swept, Heard, Follows
<1> QED BY <1>4, <1>6, <1>7, SweptPromised

(* WAIT_ONE and WAIT_MULTIPLE keep the invariant. *)
LEMMA WaitKeeps ==
  ASSUME Inv, NEW t \in Threads, NEW members \in Load.waits,
         NEW deadline \in Load.delays \cup {0}, Wait(t, members, deadline)
  PROVE  Inv' /\ Promised
<1>1. panic = Healthy /\ thread[t].state = "READY"
  BY DEF Wait, Calls
<1>2. PICK k : Here(k)
  BY <1>1, Hither
<1>3. k = K /\ Good(k) /\ k.panic = Healthy /\ k.thread[t].state = "READY"
  BY <1>1, <1>2 DEF Here
<1>4. members \in Seq(Slots) /\ members # <<>> /\ deadline \in Nat
  BY LoadFacts
<1>7. members \in WaitSets
  BY AmountsAre
<1>8. \A j \in DOMAIN members : k.object[members[j]].state # "FREE"
  <2> TAKE j \in DOMAIN members
  <2>1. members[j] \in Slots
    BY <1>4
  <2>2. Holds(t, members[j])
    BY DEF Wait
  <2> QED BY <1>2, <1>3, <2>1, <2>2, HeldThere
<1>5. CASE \E i \in DOMAIN members : Answers(k, members[i])
  <2>1. PICK w, i, S : /\ w = Poll(k, t, members) /\ Good(w) /\ w.panic = k.panic
                       /\ S = {j \in DOMAIN members : Answers(k, members[j])}
                       /\ i = Lowest(S) /\ i \in S /\ Polled(k, w, t, i, members[i])
    BY <1>3, <1>4, <1>5, PollFacts
  <2>2. Commit(w)
    BY <1>3, <1>5, <2>1 DEF Wait
  <2>3. Inv' /\ Shows(k, w)
    BY <1>2, <1>3, <2>1, <2>2, CommittedShows
  <2> QED BY <1>3, <1>4, <1>7, <1>8, <2>1, <2>3, TakePromised
<1>6. CASE ~(\E i \in DOMAIN members : Answers(k, members[i]))
  <2>1. PICK w : Begun(k, w, t, members, deadline)
    BY <1>3, <1>4, <1>6, BlockFacts
  <2>2. w = Block(k, t, members, deadline) /\ Good(w) /\ w.panic = k.panic
    BY <2>1 DEF Begun
  <2>3. Commit(w)
    BY <1>3, <1>6, <2>2 DEF Wait
  <2>4. Inv' /\ Shows(k, w)
    BY <1>2, <1>3, <2>2, <2>3, CommittedShows
  <2> QED BY <1>3, <1>4, <1>6, <1>8, <2>1, <2>4, SleepPromised
<1> QED BY <1>5, <1>6

(* A wait that polls and finds nothing keeps the invariant. *)
LEMMA WaitTimedOutKeeps ==
  ASSUME Inv, NEW t \in Threads, NEW members, WaitTimedOut(t, members)
  PROVE  Inv' /\ Promised
<1>1. panic = Healthy /\ thread[t].state = "READY"
  BY DEF WaitTimedOut, Calls
<1>2. PICK k : Here(k)
  BY <1>1, Hither
<1>3. k = K /\ Good(k) /\ k.panic = Healthy /\ k.thread[t].state = "READY"
  BY <1>1, <1>2 DEF Here
<1>4. PICK r \in Results, i \in Nat : r = "TIMED_OUT" /\ i = 0
  BY DEF Results
<1>5. PICK w : Noted(k, w, t, r, i)
  BY <1>3, NotedFacts
<1>6. w = [k EXCEPT !.thread[t].outcome = <<r, i>>] /\ Good(w) /\ w.panic = k.panic
  BY <1>5 DEF Noted
<1>7. Commit(w)
  BY <1>3, <1>4, <1>6 DEF WaitTimedOut
<1>8. Inv' /\ Shows(k, w)
  BY <1>2, <1>3, <1>6, <1>7, CommittedShows
<1>9. k.thread[t].members = <<>> /\ k.thread[t].deadline = 0
  BY <1>3 DEF Good, Core, Body, WaitsIn, Sane
<1>10. /\ w.object = k.object /\ w.thread[t].members = <<>> /\ w.thread[t].deadline = 0
       /\ w.thread[t].outcome = <<r, 0>> /\ Beside(k, w, {t})
  BY <1>4, <1>5, <1>9 DEF Noted, Beside, Kept
<1> QED BY <1>3, <1>4, <1>8, <1>10, LeftPromised

(* Cancelling the wait of another thread keeps the invariant. *)
LEMMA CancelWaitKeeps ==
  ASSUME Inv, NEW t \in Threads, NEW u \in Threads, CancelWait(t, u)
  PROVE  Inv' /\ Promised
<1>1. panic = Healthy /\ thread[u].state = "BLOCKED" /\ thread[t].state = "READY"
  BY DEF CancelWait, Calls
<1>2. PICK k : Here(k)
  BY <1>1, Hither
<1>3. /\ k = K /\ Good(k) /\ k.panic = Healthy /\ k.thread[u].state = "BLOCKED"
      /\ k.thread[t].state = "READY"
  BY <1>1, <1>2 DEF Here
<1>4. PICK r \in Results, i \in Nat : r = "CANCELLED" /\ i = 0
  BY DEF Results
<1>5. PICK w : /\ w = EndWait(k, u, r, i) /\ Good(w) /\ w.panic = k.panic
               /\ w.object = k.object /\ w.thread[u] = Told(r, i) /\ Rest(k, w, {u})
  BY <1>3, CancelFacts
<1>7. Return(t, w)
  BY <1>3, <1>4, <1>5 DEF CancelWait
<1>8. t \notin {u} /\ Beside(k, w, {u}) /\ {u} \subseteq Threads
  BY <1>3, <1>5, RestBeside
<1>9. PICK v : Follows(k, w, v, {u})
  BY <1>2, <1>3, <1>5, <1>7, <1>8, ReturnedShows
<1>10. Inv'
  BY <1>2, <1>3, <1>5, <1>7, <1>8, ReturnedShows
<1>11. /\ Shows(k, v) /\ v.object = k.object /\ Beside(k, v, {u}) /\ v.thread[u] = Told(r, 0)
  BY <1>4, <1>5, <1>9 DEF Follows
<1>12. v.thread[u].members = <<>> /\ v.thread[u].deadline = 0 /\ v.thread[u].outcome = <<r, 0>>
  BY <1>11, ToldIs
<1> QED BY <1>3, <1>4, <1>10, <1>11, <1>12, LeftPromised

(* Nothing is seen of a step that changes no object and no thread. *)
LEMMA StillPromised ==
  ASSUME object' = object, thread' = thread
  PROVE  Promised
BY DEF Promised, ShownObjects, ShownWaits

(* Those who listen, hear, whatever happened before that they do not see. *)
LEMMA HeardThrough ==
  ASSUME NEW k, NEW i, NEW w, i.thread = k.thread, NEW r, NEW S, Heard(i, w, Listeners(i, S), r, S)
  PROVE  Heard(k, w, Listeners(k, S), r, S)
<1>1. Listeners(i, S) = Listeners(k, S)
  BY DEF Listeners
<1> QED BY <1>1 DEF Heard, Rest

(* To arm a timer is to give it a deadline, and nobody hears of it. *)
LEMMA ArmedTurned ==
  ASSUME NEW k, NEW w, NEW o \in Slots, NEW d, Armed(k, w, o, d)
  PROVE  Turned(k, w, o, k.object[o].count, d) /\ Beside(k, w, {})
<1>1. ASSUME NEW q \in Slots \ {o} PROVE Like(k.object[q], w.object[q])
  BY DEF Armed, SameBut, SameObject, Like
<1>2. Turned(k, w, o, k.object[o].count, d)
  BY <1>1 DEF Armed, SameCore, Turned
<1> QED BY <1>2 DEF Armed, Aside, Beside, Kept

(* An open object has no result, and only a timer has a deadline. *)
LEMMA OpenShape ==
  ASSUME NEW k, Good(k), NEW o \in Slots, k.object[o].state = "LIVE"
  PROVE  /\ k.object[o].result = ""
         /\ k.object[o].type # "TIMER" => k.object[o].deadline = 0
BY DEF Good, Core, Body, Shape

(* The threads registered at an object are those that wait for it. *)
LEMMA Registering ==
  ASSUME NEW k, Good(k), NEW o \in Slots
  PROVE  /\ Listeners(k, {o}) = WaitersOf(k, o)
         /\ Cardinality(Listeners(k, {o})) \in Nat
         /\ k.queue[o] = <<>> => Listeners(k, {o}) = {}
         /\ Listeners(k, {o}) # {} => Cardinality(Listeners(k, {o})) # 0
<1>1. k \in States /\ Matched(k)
  BY DEF Good, Core, Body, WaitsIn
<1>2. PICK L : L = WaitersOf(k, o) /\ L = Listeners(k, {o})
  BY <1>1, WaitersListen
<1>3. IsFiniteSet(L)
  BY <1>1, <1>2, WaitersFinite
<1>4. Cardinality(L) \in Nat /\ (L # {} => Cardinality(L) # 0)
  BY <1>3, FS_CardinalityType, FS_EmptySet
<1>5. k.queue[o] = <<>> => L = {}
  <2>1. k.queue[o] = <<>> => \A e : ~In(e, k.queue[o])
    BY <1>1, QueueFacts
  <2> QED BY <1>2, <2>1 DEF WaitersOf
<1> QED BY <1>2, <1>4, <1>5

(* The lowest of two numbers. *)
LEMMA LowestOfTwo ==
  ASSUME NEW a \in Nat, NEW b \in Nat
  PROVE  Lowest({a, b}) = IF a <= b THEN a ELSE b
<1>1. PICK S \in SUBSET Nat : S = {a, b} /\ S # {}
  OBVIOUS
<1>2. PICK m : m = Lowest(S)
  OBVIOUS
<1>3. m \in S /\ \A y \in S : m <= y
  BY <1>1, <1>2, LowestFacts
<1>4. m = IF a <= b THEN a ELSE b
  BY <1>1, <1>3
<1> QED BY <1>1, <1>2, <1>4

(* One of none is none, and one of some is one. *)
LEMMA OneOfNone ==
  \E n \in Nat, g \in Nat : n = 1 /\ g = 0 /\ g = Lowest({n, g}) /\ \A c : c = 1 => c = 1 - g
<1>1. PICK n \in Nat, g \in Nat : n = 1 /\ g = 0
  OBVIOUS
<1>2. Lowest({n, g}) = IF n <= g THEN n ELSE g
  BY LowestOfTwo
<1>3. g = Lowest({n, g})
  BY <1>1, <1>2
<1>4. \A c : c = 1 => c = 1 - g
  BY <1>1
<1> QED BY <1>1, <1>3, <1>4

(* One of some is one. *)
LEMMA OneOfSome ==
  ASSUME NEW m \in Nat, m # 0
  PROVE  \E n \in Nat : n = 1 /\ n = Lowest({n, m}) /\ \A c : c = 0 => c = 1 - n
<1>1. PICK n \in Nat : n = 1
  OBVIOUS
<1>2. Lowest({n, m}) = IF n <= m THEN n ELSE m
  BY LowestOfTwo
<1>3. n <= m
  BY <1>1
<1>4. n = Lowest({n, m})
  BY <1>2, <1>3
<1>5. \A c : c = 0 => c = 1 - n
  BY <1>1
<1> QED BY <1>1, <1>4, <1>5

(* An automatic event keeps its unit when nobody waits. *)
LEMMA KeptPromised ==
  ASSUME NEW k, NEW w, NEW o \in Slots, NEW T, T = {}, Acts(k, w, T, "OK", {o}),
         Listeners(k, {o}) = {}, NEW c, c = 1, Turned(k, w, o, c, k.object[o].deadline),
         k.object[o].result = "", k.object[o].type = "EVENT_AUTO"
  PROVE  Promised
<1>1. PICK n \in Nat, g \in Nat : n = 1 /\ g = 0 /\ g = Lowest({n, g}) /\ \A x : x = 1 => x = 1 - g
  BY OneOfNone
<1>2. n \in Amounts \cup {1}
  BY <1>1
<1>3. Cardinality(T) = g /\ Cardinality(Listeners(k, {o})) = g /\ T \subseteq Listeners(k, {o})
  BY <1>1, FS_EmptySet
<1>4. g = Lowest({n, Cardinality(Listeners(k, {o}))})
  BY <1>1, <1>3
<1>5. c = 1 - g
  BY <1>1
<1> QED BY <1>1, <1>2, <1>3, <1>4, <1>5, ReleasePromised

(* An automatic event gives its unit to a waiter. *)
LEMMA GivenPromised ==
  ASSUME NEW k, NEW w, NEW o \in Slots, NEW T, NEW t, T = {t}, Acts(k, w, T, "OK", {o}),
         t \in Listeners(k, {o}), NEW m \in Nat, m = Cardinality(Listeners(k, {o})), m # 0,
         NEW c, c = 0, Turned(k, w, o, c, k.object[o].deadline),
         k.object[o].result = "", k.object[o].type = "EVENT_AUTO"
  PROVE  Promised
<1>1. PICK n \in Nat : n = 1 /\ n = Lowest({n, m}) /\ \A x : x = 0 => x = 1 - n
  BY OneOfSome
<1>2. n \in Amounts \cup {1}
  BY <1>1
<1>3. Cardinality(T) = n /\ T \subseteq Listeners(k, {o})
  BY <1>1, FS_Singleton
<1>4. n = Lowest({n, Cardinality(Listeners(k, {o}))})
  BY <1>1
<1>5. c = 1 - n
  BY <1>1
<1> QED BY <1>1, <1>2, <1>3, <1>4, <1>5, ReleasePromised

(* Signalling a manual event keeps the invariant. *)
LEMMA SignalManualKeeps ==
  ASSUME Inv, NEW t \in Threads, NEW o \in Slots, SignalManual(t, o)
  PROVE  Inv' /\ Promised
<1>1. panic = Healthy /\ thread[t].state = "READY" /\ Live(K, o) /\ object[o].type = "EVENT_MANUAL"
  BY DEF SignalManual, Calls
<1>2. PICK k : Here(k)
  BY <1>1, Hither
<1>3. /\ k = K /\ Good(k) /\ k.panic = Healthy /\ k.thread[t].state = "READY"
      /\ k.object[o].state = "LIVE" /\ k.object[o].type = "EVENT_MANUAL"
  BY <1>1, <1>2 DEF Here, Live
<1>4. k.object[o].deadline = 0
  BY <1>3 DEF Good, Core, Body, Shape
<1>5. PICK r \in Results, c \in Nat : r = "OK" /\ c = 1
  BY DEF Results
<1>6. PICK w : Rung(k, w, o, c, r)
  BY <1>3, <1>4, RungFacts
<1>7. w = WakeAll([k EXCEPT !.object[o].count = c], o, r) /\ Good(w) /\ w.panic = k.panic
  BY <1>6 DEF Rung
<1>8. Return(t, w)
  BY <1>3, <1>5, <1>7 DEF SignalManual
<1>9. Turned(k, w, o, c, k.object[o].deadline) /\ Heard(k, w, Listeners(k, {o}), r, {o})
  BY <1>3, <1>6, RungHeard
<1>10. Inv' /\ Acts(k, w, Listeners(k, {o}), r, {o})
  BY <1>2, <1>3, <1>7, <1>8, <1>9, HeardCall
<1>11. Turned(k, w, o, 1, 0) /\ Acts(k, w, Listeners(k, {o}), "OK", {o})
  BY <1>4, <1>5, <1>9, <1>10
<1>12. k.object[o].result = "" /\ k.object[o].type \in {"EVENT_MANUAL", "TIMER"}
  BY <1>3, OpenShape
<1> QED BY <1>10, <1>11, <1>12, SetPromised

(* Signalling an auto event keeps the invariant: the unit goes to the      *)
(* first waiter, or stays.                                                 *)
LEMMA SignalAutoKeeps ==
  ASSUME Inv, NEW t \in Threads, NEW o \in Slots, SignalAuto(t, o)
  PROVE  Inv' /\ Promised
<1>1. panic = Healthy /\ thread[t].state = "READY" /\ Live(K, o) /\ object[o].type = "EVENT_AUTO"
  BY DEF SignalAuto, Calls
<1>2. PICK k : Here(k)
  BY <1>1, Hither
<1>3. /\ k = K /\ Good(k) /\ k.panic = Healthy /\ k.thread[t].state = "READY" /\ k.queue = queue
      /\ k.object[o].state = "LIVE" /\ k.object[o].type = "EVENT_AUTO"
  BY <1>1, <1>2 DEF Here, Live
<1>6. k.object[o].result = "" /\ k.object[o].type = "EVENT_AUTO"
  BY <1>3, OpenShape
<1>4. CASE k.queue[o] = <<>>
  <2>1. k.object[o].deadline = 0 /\ k \in States /\ Core(k)
    BY <1>3 DEF Good, Core, Body, Shape
  <2>2. PICK c \in Nat : c = 1
    OBVIOUS
  <2>3. PICK w : w = [k EXCEPT !.object[o].count = c] /\ NewCount(k, w, o, c)
    BY <2>1, CountFacts
  <2>4. /\ Body(w) /\ SameUse(k, w) /\ w.panic = k.panic
        /\ \A p \in Slots \ {o} : Quiet(k, p) => Quiet(w, p)
    <3>1. Body(k) /\ k.object[o].state # "FREE"
      BY <1>3, <2>1 DEF Core
    <3> QED BY <2>1, <2>3, <3>1, CountBody
  <2>5. Quiet(w, o)
    <3>1. w.queue = k.queue
      BY <2>3 DEF NewCount, Put
    <3>2. \A e : ~In(e, k.queue[o])
      BY <1>4, <2>1, QueueFacts
    <3> QED BY <3>1, <3>2 DEF Quiet
  <2>6. Core(w)
    BY <2>1, <2>4, <2>5 DEF Core
  <2>7. Good(w)
    BY <1>3, <2>4, <2>6, SameUseGood
  <2>8. Return(t, w)
    BY <1>3, <1>4, <2>2, <2>3 DEF SignalAuto
  <2>9. Turned(k, w, o, c, k.object[o].deadline) /\ w.thread = k.thread
    BY <2>3, CountTurned
  <2>10. PICK T, r, S : T = {} /\ r = "OK" /\ S = {o}
    OBVIOUS
  <2>11. Heard(k, w, T, r, S)
    BY <2>9, <2>10, HeardNothing DEF Heard, Rest
  <2>12. Inv' /\ Acts(k, w, T, r, S)
    BY <1>2, <1>3, <2>4, <2>7, <2>8, <2>11, HeardCall
  <2>13. Listeners(k, {o}) = {}
    BY <1>3, <1>4, Registering
  <2>14. Acts(k, w, T, "OK", {o})
    BY <2>10, <2>12
  <2> QED BY <1>6, <2>2, <2>9, <2>10, <2>12, <2>13, <2>14, KeptPromised
<1>5. CASE k.queue[o] # <<>>
  <2>1. PICK w : Handed(k, w, o)
    BY <1>3, <1>5, HandedFacts
  <2>2. w = WakeOne([k EXCEPT !.object[o].count = 0], o, "OK") /\ Good(w) /\ w.panic = k.panic
    BY <2>1 DEF Handed
  <2>3. Return(t, w)
    BY <1>3, <1>5, <2>2 DEF SignalAuto
  <2>4. PICK u \in Listeners(k, {o}) : /\ Turned(k, w, o, 0, k.object[o].deadline)
                                       /\ Heard(k, w, {u}, "OK", {o})
    BY <1>3, <2>1, HandedHeard
  <2>5. PICK T, c : T = {u} /\ c = 0
    OBVIOUS
  <2>6. Inv' /\ Acts(k, w, T, "OK", {o})
    <3>1. Heard(k, w, T, "OK", {o})
      BY <2>4, <2>5
    <3> QED BY <1>2, <1>3, <2>2, <2>3, <3>1, HeardCall
  <2>7. Turned(k, w, o, c, k.object[o].deadline)
    BY <2>4, <2>5
  <2>8. PICK m \in Nat : m = Cardinality(Listeners(k, {o})) /\ m # 0
    BY <1>3, Registering
  <2> QED BY <1>6, <2>5, <2>6, <2>7, <2>8, GivenPromised
<1> QED BY <1>4, <1>5

(* Signalling a semaphore keeps the invariant. *)
LEMMA SignalSemaphoreKeeps ==
  ASSUME Inv, NEW t \in Threads, NEW o \in Slots, NEW n \in Load.releases, SignalSemaphore(t, o, n)
  PROVE  Inv' /\ Promised
<1>1. panic = Healthy /\ thread[t].state = "READY" /\ Live(K, o) /\ object[o].type = "SEMAPHORE"
  BY DEF SignalSemaphore, Calls
<1>2. PICK k : Here(k)
  BY <1>1, Hither
<1>3. /\ k = K /\ Good(k) /\ k.panic = Healthy /\ k.thread[t].state = "READY" /\ k \in States
      /\ k.object[o].state = "LIVE" /\ k.object[o].type = "SEMAPHORE"
  BY <1>1, <1>2 DEF Here, Live, Good, Core, Body
<1>4. k.object[o].deadline = 0
  BY <1>3 DEF Good, Core, Body, Shape
<1>5. n \in Nat
  BY LoadFacts
<1>6. PICK m \in Nat : m = Cardinality(WaitersOf(k, o)) /\ m = WaiterCount(k, o)
  <2>1. Waiters(k, o) = WaitersOf(k, o)
    BY <1>3, WaitersAre
  <2>2. Cardinality(WaitersOf(k, o)) \in Nat
    BY <1>3, WaitersFinite, FS_CardinalityType
  <2> QED BY <2>1, <2>2 DEF WaiterCount
<1>7. PICK h \in Nat : /\ h = Lowest({n, WaiterCount(k, o)}) /\ h <= m /\ h <= n
                       /\ h = m \/ h = n
  <2>1. Lowest({n, m}) = IF n <= m THEN n ELSE m
    BY <1>5, LowestOfTwo
  <2>2. PICK h : h = Lowest({n, WaiterCount(k, o)})
    OBVIOUS
  <2>3. h = IF n <= m THEN n ELSE m
    BY <1>6, <2>1, <2>2
  <2> QED BY <1>5, <2>2, <2>3
<1>8. PICK y \in Nat : y = k.object[o].count
  BY <1>3, ObjectAt, ObjectFields
<1>9. PICK c \in Nat : c = y + (n - h)
  BY <1>5, <1>7
<1>10. h = Cardinality(WaitersOf(k, o)) \/ c = k.object[o].count
  BY <1>5, <1>6, <1>7, <1>8, <1>9
<1>11. h <= Cardinality(WaitersOf(k, o))
  BY <1>6, <1>7
<1>12. PICK w : Shared(k, w, o, h, c)
  BY <1>3, <1>4, <1>10, <1>11, SharedFacts
<1>13. w = WakeSome([k EXCEPT !.object[o].count = c], o, h) /\ Good(w) /\ w.panic = k.panic
  BY <1>12 DEF Shared
<1>14. Return(t, w)
  <2>1. PICK j : j = [k EXCEPT !.object[o].count = c]
    OBVIOUS
  <2>2. j = [k EXCEPT !.object[o].count = @ + (n - h)]
    BY <1>8, <1>9, <2>1
  <2>3. Return(t, WakeSome([k EXCEPT !.object[o].count = @ + (n - h)], o, h))
    BY <1>3, <1>7 DEF SignalSemaphore
  <2> QED BY <1>13, <2>1, <2>2, <2>3
<1>15. PICK T \in SUBSET Listeners(k, {o}) :
          /\ Turned(k, w, o, c, k.object[o].deadline)
          /\ Heard(k, w, T, "OK", {o}) /\ Cardinality(T) = h
  BY <1>3, <1>12, SharedHeard
<1>16. Inv' /\ Acts(k, w, T, "OK", {o})
  BY <1>2, <1>3, <1>13, <1>14, <1>15, HeardCall
<1>17. PICK x \in Nat : x = k.object[o].maximum
  BY <1>3, ObjectAt, ObjectFields
<1>18. c <= x
  <2>1. n - h <= x - y
    <3>1. n - Lowest({n, WaiterCount(K, o)}) <= object[o].maximum - object[o].count
      BY DEF SignalSemaphore
    <3>2. object = k.object /\ K = k
      BY <1>2 DEF Here
    <3> QED BY <1>7, <1>8, <1>17, <3>1, <3>2
  <2> QED BY <1>5, <1>9, <2>1
<1>19. c = k.object[o].count + n - h
  <2>1. c = y + n - h
    BY <1>5, <1>9
  <2> QED BY <1>8, <2>1
<1>20. h = Lowest({n, Cardinality(Listeners(k, {o}))})
  BY <1>3, <1>6, <1>7, Registering
<1>21. c <= k.object[o].maximum
  BY <1>17, <1>18
<1>22. n \in Amounts \cup {1}
  BY AmountsAre
<1>23. k.object[o].result = ""
  BY <1>3, OpenShape
<1> QED BY <1>3, <1>15, <1>16, <1>19, <1>20, <1>21, <1>22, <1>23, ReleasePromised

(* EVENT_RESET keeps the invariant. *)
LEMMA EventResetKeeps ==
  ASSUME Inv, NEW t \in Threads, NEW o \in Slots, EventReset(t, o)
  PROVE  Inv' /\ Promised
<1>1. /\ panic = Healthy /\ thread[t].state = "READY" /\ Live(K, o)
      /\ object[o].type \in {"EVENT_AUTO", "EVENT_MANUAL"}
  BY DEF EventReset, Calls
<1>2. PICK k : Here(k)
  BY <1>1, Hither
<1>3. /\ k = K /\ Good(k) /\ k.panic = Healthy /\ k.thread[t].state = "READY" /\ k.object[o].state = "LIVE"
      /\ k.object[o].type \in {"EVENT_AUTO", "EVENT_MANUAL"}
  BY <1>1, <1>2 DEF Here, Live
<1>4. PICK w : Emptied(k, w, o)
  BY <1>3, EmptiedFacts
<1>5. w = [k EXCEPT !.object[o].count = 0] /\ Good(w) /\ w.panic = k.panic
  BY <1>4 DEF Emptied
<1>6. Return(t, w)
  BY <1>3, <1>5 DEF EventReset
<1>7. Turned(k, w, o, 0, k.object[o].deadline) /\ w.thread = k.thread
  BY <1>4, CountTurned DEF Emptied
<1>8. Beside(k, w, {})
  BY <1>7 DEF Beside, Kept
<1>9. Inv' /\ Acts(k, w, {}, "", {})
  BY <1>2, <1>3, <1>5, <1>6, <1>8, QuietCall
<1> QED BY <1>3, <1>7, <1>9, OpenShape, ResetPromised

(* A timer that is stopped and has no units. *)
LEMMA StoppedEmpty ==
  ASSUME NEW k, Good(k), k.panic = Healthy, NEW o \in Slots,
         k.object[o].state = "LIVE", k.object[o].type = "TIMER"
  PROVE  \E j, w : /\ Stopped(k, j, o) /\ Emptied(j, w, o)
                   /\ Good(j) /\ j.object[o].state = "LIVE" /\ j.object[o].deadline = 0
                   /\ w.object[o].state = "LIVE" /\ w.object[o].type = "TIMER"
                   /\ w.object[o].count = 0 /\ w.object[o].deadline = 0
                   /\ Good(w) /\ w.panic = Healthy /\ j.panic = Healthy
                   /\ w.thread = k.thread /\ Turned(k, w, o, 0, 0)
                   /\ j.thread = k.thread /\ Turned(k, j, o, k.object[o].count, 0)
<1>1. PICK j : Stopped(k, j, o)
  BY StoppedFacts
<1>2. /\ Good(j) /\ j.panic = Healthy /\ j.object[o].state = "LIVE"
      /\ j.object[o].type = "TIMER" /\ j.object[o].deadline = 0
  BY <1>1 DEF Stopped, Disarmed, SameCore
<1>3. PICK w : Emptied(j, w, o)
  BY <1>2, EmptiedFacts
<1>4. /\ Good(w) /\ w.panic = Healthy
      /\ w.object[o].state = "LIVE" /\ w.object[o].type = "TIMER"
      /\ w.object[o].count = 0 /\ w.object[o].deadline = 0
  BY <1>2, <1>3 DEF Emptied, NewCount, Put
<1>5. Turned(k, j, o, k.object[o].count, 0) /\ j.thread = k.thread
  BY <1>1, StoppedTurned
<1>6. Turned(j, w, o, 0, 0) /\ w.thread = j.thread
  BY <1>2, <1>3, CountTurned DEF Emptied
<1>7. Turned(k, w, o, 0, 0)
  BY <1>5, <1>6, TurnedTwice
<1> QED BY <1>1, <1>2, <1>3, <1>4, <1>5, <1>6, <1>7

(* TIMER_SET keeps the invariant, armed before or not, at once or later,   *)
(* with memory or without.                                                 *)
LEMMA TimerSetKeeps ==
  ASSUME Inv, NEW t \in Threads, NEW o \in Slots, NEW deadline \in Load.delays \cup {0},
         NEW memory \in BOOLEAN, TimerSet(t, o, deadline, memory)
  PROVE  Inv' /\ Promised
<1>1. panic = Healthy /\ thread[t].state = "READY" /\ Live(K, o) /\ object[o].type = "TIMER"
  BY DEF TimerSet, Calls
<1>2. PICK k : Here(k)
  BY <1>1, Hither
<1>3. /\ k = K /\ Good(k) /\ k.panic = Healthy /\ k.thread[t].state = "READY"
      /\ k.object[o].state = "LIVE" /\ k.object[o].type = "TIMER"
  BY <1>1, <1>2 DEF Here, Live
<1>4. PICK j, i : /\ Stopped(k, j, o) /\ Emptied(j, i, o)
                  /\ i.object[o].state = "LIVE" /\ i.object[o].type = "TIMER"
                  /\ i.object[o].count = 0 /\ i.object[o].deadline = 0
                  /\ Good(i) /\ i.panic = Healthy
                  /\ i.thread = k.thread /\ Turned(k, i, o, 0, 0)
  BY <1>3, StoppedEmpty
<1>5. j = TimerRemove(k, o) /\ i = [j EXCEPT !.object[o].count = 0]
  BY <1>4 DEF Stopped, Emptied
<1>6. Return(t, IF deadline = 0 THEN WakeAll([i EXCEPT !.object[o].count = 1], o, "OK")
                ELSE TimerInsert(i, o, deadline, memory))
  BY <1>3, <1>5 DEF TimerSet
<1>9. k.object[o].result = "" /\ k.object[o].type \in {"EVENT_MANUAL", "TIMER"}
  BY <1>3, OpenShape
<1>7. CASE deadline = 0
  <2>1. PICK r \in Results, c \in Nat : r = "OK" /\ c = 1
    BY DEF Results
  <2>2. PICK w : Rung(i, w, o, c, r)
    BY <1>4, RungFacts
  <2>3. w = WakeAll([i EXCEPT !.object[o].count = c], o, r) /\ Good(w) /\ w.panic = i.panic
    BY <2>2 DEF Rung
  <2>4. Return(t, w)
    BY <1>6, <1>7, <2>1, <2>3
  <2>5. Turned(i, w, o, c, i.object[o].deadline) /\ Heard(i, w, Listeners(i, {o}), r, {o})
    BY <1>4, <2>2, RungHeard
  <2>6. Turned(k, w, o, c, i.object[o].deadline)
    BY <1>4, <2>5, TurnedTwice
  <2>7. Turned(k, w, o, 1, 0)
    BY <1>4, <2>1, <2>6
  <2>8. Heard(k, w, Listeners(k, {o}), r, {o})
    BY <1>4, <2>5, HeardThrough
  <2>9. Inv' /\ Acts(k, w, Listeners(k, {o}), r, {o})
    BY <1>2, <1>3, <1>4, <2>3, <2>4, <2>8, HeardCall
  <2>10. Acts(k, w, Listeners(k, {o}), "OK", {o})
    BY <2>1, <2>9
  <2> QED BY <1>9, <2>7, <2>9, <2>10, SetPromised
<1>8. CASE deadline # 0
  <2>1. deadline \in Nat \ {0}
    BY <1>8, LoadFacts
  <2>2. PICK w : /\ w = TimerInsert(i, o, deadline, memory)
                 /\ \/ w.panic = "TIMER_SET: no memory" /\ w \in States
                    \/ w.panic = Healthy /\ Good(w) /\ Armed(i, w, o, deadline)
    BY <1>4, <2>1, InsertedFacts
  <2>3. Return(t, w)
    BY <1>6, <1>8, <2>2
  <2>4. CASE w.panic = Healthy /\ Good(w) /\ Armed(i, w, o, deadline)
    <3>1. PICK c, d : c = i.object[o].count /\ d = deadline /\ c = 0
      BY <1>4
    <3>2. Turned(i, w, o, c, d) /\ Beside(i, w, {})
      BY <2>4, <3>1, ArmedTurned
    <3>3. Turned(k, w, o, c, d) /\ Beside(k, w, {})
      BY <1>4, <3>2, TurnedTwice DEF Beside
    <3>4. PICK T, r, S : T = {} /\ r = "" /\ S = {}
      OBVIOUS
    <3>5. Inv' /\ Acts(k, w, T, r, S)
      BY <1>2, <1>3, <2>3, <2>4, <3>3, <3>4, QuietCall
    <3>6. d > 0
      BY <2>1, <3>1
    <3> QED BY <1>3, <1>9, <3>1, <3>3, <3>4, <3>5, <3>6, ArmPromised
  <2>5. CASE w.panic = "TIMER_SET: no memory" /\ w \in States
    <3>1. PICK v : v = Returns(w, t)
      OBVIOUS
    <3>2. v.panic = "TIMER_SET: no memory"
      BY <2>5, <3>1 DEF Returns, States
    <3>3. Commit(v)
      BY <2>3, <3>1 DEF Return, Returns
    <3>4. object' = object /\ thread' = thread
      BY <3>2, <3>3 DEF Commit, Healthy
    <3> QED BY <3>2, <3>3, <3>4, CommittedPanic, StillPromised
  <2> QED BY <2>2, <2>4, <2>5
<1> QED BY <1>7, <1>8

(* TIMER_CANCEL keeps the invariant. *)
LEMMA TimerCancelKeeps ==
  ASSUME Inv, NEW t \in Threads, NEW o \in Slots, TimerCancel(t, o)
  PROVE  Inv' /\ Promised
<1>1. panic = Healthy /\ thread[t].state = "READY" /\ Live(K, o) /\ object[o].type = "TIMER"
  BY DEF TimerCancel, Calls
<1>2. PICK k : Here(k)
  BY <1>1, Hither
<1>3. /\ k = K /\ Good(k) /\ k.panic = Healthy /\ k.thread[t].state = "READY"
      /\ k.object[o].state = "LIVE" /\ k.object[o].type = "TIMER"
  BY <1>1, <1>2 DEF Here, Live
<1>4. PICK j, i : /\ Stopped(k, j, o) /\ Emptied(j, i, o)
                  /\ Good(j) /\ j.object[o].state = "LIVE" /\ j.object[o].deadline = 0
                  /\ j.panic = Healthy
                  /\ j.thread = k.thread /\ Turned(k, j, o, k.object[o].count, 0)
  BY <1>3, StoppedEmpty
<1>5. j = TimerRemove(k, o)
  BY <1>4 DEF Stopped
<1>6. PICK r \in Results, c \in Nat : r = "CANCELLED" /\ c = 0
  BY DEF Results
<1>7. PICK w : Rung(j, w, o, c, r)
  BY <1>4, RungFacts
<1>8. w = WakeAll([j EXCEPT !.object[o].count = c], o, r) /\ Good(w) /\ w.panic = j.panic
  BY <1>7 DEF Rung
<1>9. Return(t, w)
  BY <1>3, <1>5, <1>6, <1>8 DEF TimerCancel
<1>10. Turned(j, w, o, c, j.object[o].deadline) /\ Heard(j, w, Listeners(j, {o}), r, {o})
  BY <1>4, <1>7, RungHeard
<1>11. Turned(k, w, o, c, j.object[o].deadline)
  BY <1>4, <1>10, TurnedTwice
<1>12. Turned(k, w, o, 0, 0)
  BY <1>4, <1>6, <1>11
<1>13. Heard(k, w, Listeners(k, {o}), r, {o})
  BY <1>4, <1>10, HeardThrough
<1>14. Inv' /\ Acts(k, w, Listeners(k, {o}), r, {o})
  BY <1>2, <1>3, <1>4, <1>8, <1>9, <1>13, HeardCall
<1>15. Acts(k, w, Listeners(k, {o}), "CANCELLED", {o})
  BY <1>6, <1>14
<1> QED BY <1>3, <1>12, <1>14, <1>15, OpenShape, DisarmPromised

(* The timer interrupt keeps the invariant. *)
LEMMA TickKeeps ==
  ASSUME Inv, NEW d \in Load.delays, Tick(d)
  PROVE  Inv' /\ Promised
<1>1. panic = Healthy
  BY DEF Tick
<1>2. PICK k : Here(k)
  BY <1>1, Hither
<1>3. k = K /\ Good(k) /\ k.panic = Healthy
  BY <1>2 DEF Here
<1>4. d \in Nat \ {0}
  BY LoadFacts
<1>9. PICK late : late = {t \in Threads : k.thread[t].deadline \in 1 .. d}
  OBVIOUS
<1>5. PICK j : /\ j = ExpireDeadlines(k, d) /\ Good(j) /\ j.panic = k.panic /\ NobodyLate(j, d)
               /\ j.object = k.object /\ GaveUp(k, j, {t \in Threads : k.thread[t].deadline \in 1 .. d})
  BY <1>3, <1>4, ExpireDeadlinesFacts
<1>6. PICK i : /\ i = ExpireTimers(j, d) /\ Good(i) /\ i.panic = Healthy
               /\ NobodyLate(i, d) /\ NothingDue(i, d) /\ \E S : Rang(j, i, S, d)
  BY <1>3, <1>4, <1>5, ExpireTimersFacts
<1>7. PICK w : /\ w = Advance(i, d) /\ Good(w) /\ w.panic = i.panic
               /\ \A o \in Slots : Aged(i.object[o], w.object[o], d)
               /\ \A t \in Threads : OlderThread(i.thread[t], w.thread[t], d)
  BY <1>4, <1>6, AdvanceFacts
<1>8. Commit(w)
  BY <1>3, <1>5, <1>6, <1>7 DEF Tick
<1>10. Inv' /\ Shows(k, w)
  BY <1>2, <1>3, <1>6, <1>7, <1>8, CommittedShows
<1>11. PICK S : Rang(j, i, S, d)
  BY <1>6
<1>12. GaveUp(k, j, late)
  BY <1>5, <1>9
<1>13. Elapsed(k, w, d, late, S, j, i)
  BY <1>5, <1>6, <1>7, <1>11, <1>12 DEF Elapsed
<1>14. Passing(k, w, d, late, S)
  BY <1>4, <1>9, <1>13 DEF Passing
<1>15. d \in Amounts /\ k \in States
  BY <1>3, AmountsAre DEF Good, Core, Body
<1> QED BY <1>10, <1>14, <1>15, PassPromised

----------------------------------------------------------------------------
(* The machine at boot. *)

(* One handle of each process of R. *)
LEMMA OneEach ==
  ASSUME NEW R \in SUBSET Processes, NEW c \in [Processes -> Nat],
         \A p \in Processes : c[p] = IF p \in R THEN 1 ELSE 0
  PROVE  Cardinality(Numbered(c)) = Cardinality(R)
<1>0. PICK f : f = [p \in R |-> <<p, 1>>]
  OBVIOUS
<1>1. IsFiniteSet(R)
  BY FS_Subset, SyncAssumption
<1>2. \A p \in R : f[p] \in Numbered(c)
  <2> TAKE p \in R
  <2>1. 1 \in 1 .. c[p] /\ f[p] = <<p, 1>>
    BY <1>0
  <2> QED BY <2>1, NumberedIs
<1>3. \A e \in Numbered(c) : \E p \in R : f[p] = e
  <2> TAKE e \in Numbered(c)
  <2>1. PICK x \in Processes : \E i \in 1 .. c[x] : e = <<x, i>>
    BY NumberedIs
  <2>2. PICK i \in 1 .. c[x] : e = <<x, i>>
    BY <2>1
  <2>3. x \in R /\ i = 1
    <3>1. CASE x \in R
      BY <3>1, <2>2
    <3>2. CASE x \notin R
      BY <3>2, <2>2
    <3> QED BY <3>1, <3>2
  <2> QED BY <1>0, <2>2, <2>3
<1>4. \A p, q \in R : f[p] = f[q] => p = q
  BY <1>0
<1>5. f \in Bijection(R, Numbered(c))
  <2>1. f \in [R -> Numbered(c)] /\ DOMAIN f = R
    BY <1>0, <1>2
  <2>2. IsInjective(f)
    BY <1>4, <2>1 DEF IsInjective
  <2>3. f \in Injection(R, Numbered(c))
    BY <2>1, <2>2 DEF Injection
  <2>4. f \in Surjection(R, Numbered(c))
    BY <1>3, <2>1 DEF Surjection
  <2> QED BY <2>3, <2>4 DEF Bijection
<1>6. ExistsBijection(R, Numbered(c))
  BY <1>5 DEF ExistsBijection
<1> QED BY <1>1, <1>6, FS_Bijection

Booting(k, w) ==
  /\ k.object = Boot(w)
  /\ k.heap = <<>> /\ k.pages = 0
  /\ k.queue = [o \in Slots |-> <<>>]
  /\ k.process = [p \in Processes |-> IF p \in w.running THEN "RUNNING" ELSE "UNBORN"]
  /\ k.thread = [t \in Threads |-> AtWork(IF ProcessOf[t] \in w.running THEN "READY" ELSE "DEAD")]
  /\ k.handles = [p \in Processes |-> [o \in Slots |->
                    IF p \in w.running /\ o \in DOMAIN w.boot THEN 1 ELSE 0]]
  /\ k.panic = Healthy

(* An object at boot, of the workload w. *)
Initially(w, o, x) ==
  /\ x \in ObjectRecords /\ Shape(x) /\ x.deadline = 0 /\ x.position = Unset
  /\ o \in DOMAIN w.boot => x.state = "LIVE" /\ x.owner \in w.running
                            /\ x.references = Cardinality(w.running)
  /\ o \notin DOMAIN w.boot => x.state = "FREE" /\ x.references = 0

(* What the processes and the objects of a workload are. *)
LEMMA Chosen ==
  ASSUME NEW name \in DOMAIN Workload
  PROVE  /\ Workload[name].running \subseteq Processes /\ Workload[name].running # {}
         /\ DOMAIN Workload[name].boot \subseteq Slots
         /\ \A o \in DOMAIN Workload[name].boot :
              /\ Workload[name].boot[o].type \in Types \ {"NONE"}
              /\ Workload[name].boot[o].maximum \in Nat
              /\ Workload[name].boot[o].count \in Nat
<1>1. PICK w : w = Workload[name]
  OBVIOUS
<1>2. /\ w.running \subseteq Processes /\ w.running # {}
      /\ w.slots \in Slots /\ DOMAIN w.boot \subseteq 1..w.slots
      /\ \A o \in DOMAIN w.boot :
           /\ w.boot[o].type \in Types \ {"NONE"}
           /\ w.boot[o].maximum \in Nat \ {0} /\ w.boot[o].count \in 0..w.boot[o].maximum
  BY <1>1, SyncAssumption
<1>3. ObjectSlots \in Nat
  BY SyncAssumption
<1>4. DOMAIN w.boot \subseteq Slots
  BY <1>2, <1>3 DEF Slots
<1>5. \A o \in DOMAIN w.boot : w.boot[o].count \in Nat /\ w.boot[o].maximum \in Nat
  BY <1>2
<1> QED BY <1>1, <1>2, <1>4, <1>5

(* Every object is sound at boot. *)
LEMMA BootFacts ==
  ASSUME NEW name \in DOMAIN Workload, NEW o \in Slots
  PROVE  Initially(Workload[name], o, Boot(Workload[name])[o])
<1>1. PICK w : w = Workload[name]
  OBVIOUS
<1>2. CASE o \notin DOMAIN w.boot
  <2>1. Boot(w)[o] = FreeObject
    BY <1>2 DEF Boot
  <2>2. FreeObject.position = Unset /\ FreeObject.deadline = 0 /\ FreeObject.references = 0
        /\ FreeObject.state = "FREE" /\ Shape(FreeObject) /\ FreeObject \in ObjectRecords
    BY FreeFields
  <2> QED BY <1>1, <1>2, <2>1, <2>2 DEF Initially
<1>3. CASE o \in DOMAIN w.boot
  <2>1. PICK p : p = CHOOSE q \in w.running : TRUE
    OBVIOUS
  <2>2. w.running \subseteq Processes /\ w.running # {} /\ p \in w.running
    BY <1>1, <2>1, Chosen
  <2>3. IsFiniteSet(w.running)
    BY <2>2, FS_Subset, SyncAssumption
  <2>4. PICK n \in Nat \ {0} : n = Cardinality(w.running)
    BY <2>2, <2>3, FS_CardinalityType, FS_EmptySet
  <2>5. /\ w.boot[o].type \in Types \ {"NONE"} /\ w.boot[o].maximum \in Nat
        /\ w.boot[o].count \in Nat
    BY <1>1, <1>3, Chosen
  <2>6. PICK x : x = Boot(w)[o]
    OBVIOUS
  <2>7. x = [FreeObject EXCEPT
             !.state = "LIVE", !.type = w.boot[o].type, !.count = w.boot[o].count,
             !.maximum = w.boot[o].maximum, !.owner = p, !.references = n]
    BY <1>3, <2>1, <2>4, <2>6 DEF Boot
  <2>8. x = [state |-> "LIVE", type |-> w.boot[o].type, count |-> w.boot[o].count,
             maximum |-> w.boot[o].maximum, owner |-> p, references |-> n,
             result |-> "", deadline |-> 0, position |-> Unset]
    BY <2>7 DEF FreeObject
  <2>9. /\ x.state = "LIVE" /\ x.type = w.boot[o].type /\ x.owner = p /\ x.references = n
        /\ x.result = "" /\ x.deadline = 0 /\ x.position = Unset
    BY <2>8
  <2>10. x \in ObjectRecords
    <3>1. "" \in Results
      BY DEF Results
    <3>2. Unset \in Nat
      BY DEF Unset
    <3> QED BY <2>2, <2>5, <2>8, <3>1, <3>2 DEF ObjectRecords
  <2>11. Shape(x)
    BY <2>2, <2>4, <2>5, <2>9 DEF Shape
  <2> QED BY <1>1, <1>3, <2>2, <2>4, <2>6, <2>9, <2>10, <2>11 DEF Initially
<1> QED BY <1>2, <1>3

(* The state at boot has its type. *)
LEMMA BootStates ==
  ASSUME NEW name \in DOMAIN Workload, NEW k, Booting(k, Workload[name]),
         k = [object |-> k.object, heap |-> k.heap, pages |-> k.pages, queue |-> k.queue,
              thread |-> k.thread, process |-> k.process, handles |-> k.handles,
              panic |-> k.panic]
  PROVE  k \in States
<1>1. k.object \in Objects
  <2>1. \A o \in Slots : Boot(Workload[name])[o] \in ObjectRecords
    BY BootFacts DEF Initially
  <2>2. k.object = Boot(Workload[name]) /\ k.object = [o \in Slots |-> k.object[o]]
    BY DEF Booting, Boot
  <2> QED BY <2>1, <2>2 DEF Objects
<1>2. k.heap \in Seq(Slots) /\ k.pages \in Nat
  BY DEF Booting
<1>3. k.queue \in Queues
  BY DEF Booting, Queues
<1>4. k.thread \in ThreadTables
  <2>1. \A t \in Threads : k.thread[t] \in ThreadRecords
    <3> TAKE t \in Threads
    <3>1. PICK s \in {"READY", "BLOCKED", "DEAD"} :
            s = IF ProcessOf[t] \in Workload[name].running THEN "READY" ELSE "DEAD"
      OBVIOUS
    <3>2. k.thread[t] = AtWork(s)
      BY <3>1 DEF Booting
    <3> QED BY <3>2, AtWorkFacts
  <2>2. k.thread = [t \in Threads |-> k.thread[t]]
    BY DEF Booting
  <2> QED BY <2>1, <2>2 DEF ThreadTables
<1>5. k.process \in ProcessTables
  BY DEF Booting, ProcessTables
<1>6. k.handles \in HandleTables
  BY DEF Booting, HandleTables
<1>7. k.panic \in Panics
  BY DEF Booting, Panics
<1> QED BY <1>1, <1>2, <1>3, <1>4, <1>5, <1>6, <1>7 DEF States

(* The state at boot is good. *)
LEMMA BootGood ==
  ASSUME NEW name \in DOMAIN Workload, NEW k \in States, Booting(k, Workload[name])
  PROVE  Good(k)
<1>1. PICK w : w = Workload[name]
  OBVIOUS
<1>2. w.running \subseteq Processes
  BY <1>1, Chosen
<1>3. \A o \in Slots : Initially(w, o, k.object[o])
  BY <1>1, BootFacts DEF Booting
<1>4. \A o \in Slots : Shape(k.object[o]) /\ k.object[o].deadline = 0 /\ k.object[o].position = Unset
  BY <1>3 DEF Initially
<1>5. \A o \in Slots : k.queue[o] = <<>> /\ \A e : ~In(e, k.queue[o])
  BY DEF Booting, In
<1>6. \A t \in Threads :
        /\ k.thread[t].members = <<>> /\ k.thread[t].deadline = 0
        /\ k.thread[t].state # "BLOCKED" /\ Sane(k.thread[t])
        /\ k.thread[t].state # "DEAD" => ProcessOf[t] \in w.running
  <2> TAKE t \in Threads
  <2>1. PICK s \in {"READY", "BLOCKED", "DEAD"} :
          s = IF ProcessOf[t] \in w.running THEN "READY" ELSE "DEAD"
    OBVIOUS
  <2>2. k.thread[t] = AtWork(s)
    BY <1>1, <2>1 DEF Booting
  <2>3. k.thread[t].members = <<>> /\ k.thread[t].deadline = 0 /\ k.thread[t].state = s
    BY <2>2, AtWorkFacts
  <2> QED BY <2>1, <2>3 DEF Sane
<1>7. WaitsIn(k)
  <2>1. Matched(k)
    BY <1>5, <1>6 DEF Matched
  <2>2. Housed(k)
    <3> SUFFICES ASSUME NEW t \in Threads, k.thread[t].state # "DEAD"
                 PROVE  k.process[ProcessOf[t]] = "RUNNING"
      BY DEF Housed
    <3>1. ProcessOf[t] \in w.running /\ ProcessOf[t] \in Processes
      BY <1>6, <1>2
    <3> QED BY <1>1, <3>1 DEF Booting
  <2> QED BY <2>1, <2>2, <1>6 DEF WaitsIn
<1>8. HeapIn(k)
  <2>1. k.heap = <<>> /\ k.pages = 0 /\ DOMAIN k.heap = {} /\ Len(k.heap) = 0
    BY DEF Booting
  <2>2. Linked(k) /\ Ordered(k)
    BY <1>4, <2>1 DEF Linked, Ordered
  <2>3. PageEntries \in Nat
    BY SyncAssumption
  <2> QED BY <1>4, <2>1, <2>2, <2>3 DEF HeapIn
<1>9. Core(k)
  <2>1. \A o \in Slots : Quiet(k, o)
    BY <1>5 DEF Quiet
  <2> QED BY <1>4, <1>7, <1>8, <2>1 DEF Core, Body
<1>10. ASSUME NEW o \in Slots
       PROVE  Owned(k, o)
  <2>1. CASE o \in DOMAIN w.boot
    <3>1. k.object[o].owner \in w.running /\ k.object[o].owner \in Processes
      BY <1>2, <1>3, <2>1 DEF Initially
    <3> QED BY <1>1, <3>1 DEF Owned, Booting
  <2>2. CASE o \notin DOMAIN w.boot
    BY <1>3, <2>2 DEF Owned, Initially
  <2> QED BY <2>1, <2>2
<1>11. ASSUME NEW o \in Slots
       PROVE  Counted(k, o)
  <2>1. PICK c \in [Processes -> Nat] : c = HandlesTo(k, o)
    BY HandlesAt
  <2>2. \A p \in Processes : c[p] = IF p \in w.running /\ o \in DOMAIN w.boot THEN 1 ELSE 0
    BY <1>1, <2>1, HandlesAt DEF Booting
  <2>3. CASE o \in DOMAIN w.boot
    <3>1. Cardinality(Numbered(c)) = Cardinality(w.running)
      BY <1>2, <2>2, <2>3, OneEach
    <3> QED BY <1>3, <2>1, <2>3, <3>1, HandlesAt DEF Initially
  <2>4. CASE o \notin DOMAIN w.boot
    <3>1. PICK R \in SUBSET Processes : R = {}
      OBVIOUS
    <3>2. Cardinality(Numbered(c)) = Cardinality(R)
      BY <2>2, <2>4, <3>1, OneEach
    <3>3. Cardinality(R) = 0
      BY <3>1, FS_EmptySet
    <3> QED BY <1>3, <2>1, <2>4, <3>2, <3>3, HandlesAt DEF Initially
  <2> QED BY <2>3, <2>4
<1> QED BY <1>9, <1>10, <1>11 DEF Good

(* The invariant holds when the machine starts (kernel_sync_init). *)
LEMMA InitInv ==
  ASSUME Init
  PROVE  Inv
<1>1. load \in DOMAIN Workload /\ panic = Healthy
  BY DEF Init
<1>2. PICK k : k = K
  OBVIOUS
<1>3. k = [object |-> k.object, heap |-> k.heap, pages |-> k.pages, queue |-> k.queue,
           thread |-> k.thread, process |-> k.process, handles |-> k.handles, panic |-> k.panic]
  BY <1>2 DEF K
<1>4. Booting(k, Workload[load])
  <2>1. /\ k.object = object /\ k.heap = heap /\ k.pages = pages /\ k.queue = queue
        /\ k.thread = thread /\ k.process = process /\ k.handles = handles /\ k.panic = panic
    BY <1>2, KFields
  <2> QED BY <2>1 DEF Booting, Init, Load
<1>5. k \in States
  BY <1>1, <1>3, <1>4, BootStates
<1>6. Good(k)
  BY <1>1, <1>4, <1>5, BootGood
<1> QED BY <1>1, <1>2, <1>6 DEF Inv

(* Every step of the synchronization objects keeps the invariant, and is a *)
(* step of Waitables or seems to be none.                                  *)
LEMMA NextInv ==
  ASSUME Inv, [Next]_vars
  PROVE  Inv' /\ Promised
<1>1. CASE UNCHANGED vars
  <2>1. PICK k : k = K
    OBVIOUS
  <2>2. K' = k
    BY <1>1, <2>1 DEF K, vars
  <2>3. Good(k)
    BY <2>1 DEF Inv
  <2>4. Good(K)'
    BY <2>2, <2>3
  <2>5. load' = load /\ panic' = panic
    BY <1>1 DEF vars
  <2>6. object' = object /\ thread' = thread
    BY <1>1 DEF vars
  <2> QED BY <2>4, <2>5, <2>6, StillPromised DEF Inv
<1>2. CASE \E t \in Threads, x \in Load.creates : Create(t, x.type, x.count, x.maximum)
  BY <1>2, CreateKeeps
<1>3. CASE \E t \in Threads, o \in Slots :
             \/ Close(t, o) \/ Duplicate(t, o)
             \/ SignalManual(t, o) \/ SignalAuto(t, o) \/ EventReset(t, o) \/ TimerCancel(t, o)
  BY <1>3, CloseKeeps, DuplicateKeeps, SignalManualKeeps, SignalAutoKeeps, EventResetKeeps,
     TimerCancelKeeps
<1>4. CASE \E t \in Threads, o \in Slots, n \in Load.releases : SignalSemaphore(t, o, n)
  BY <1>4, SignalSemaphoreKeeps
<1>5. CASE \E t \in Threads, o \in Slots, deadline \in Load.delays \cup {0}, memory \in BOOLEAN :
             TimerSet(t, o, deadline, memory)
  BY <1>5, TimerSetKeeps
<1>6. CASE \E t \in Threads, p \in Processes : Fork(t, p) \/ Exit(t, p)
  BY <1>6, ForkKeeps, ExitKeeps
<1>7. CASE \E t \in Threads, members \in Load.waits :
             \/ \E deadline \in Load.delays \cup {0} : Wait(t, members, deadline)
             \/ WaitTimedOut(t, members)
  BY <1>7, WaitKeeps, WaitTimedOutKeeps
<1>8. CASE \E t, u \in Threads : CancelWait(t, u)
  BY <1>8, CancelWaitKeeps
<1>9. CASE \E p \in Processes : Reap(p)
  BY <1>9, ReapKeeps
<1>10. CASE \E d \in Load.delays : Tick(d)
  BY <1>10, TickKeeps
<1> QED
  BY <1>1, <1>2, <1>3, <1>4, <1>5, <1>6, <1>7, <1>8, <1>9, <1>10 DEF Next

(* A record of fields from five sets. *)
LEMMA ViewIn ==
  ASSUME NEW A, NEW B, NEW C, NEW E, NEW F, NEW a \in A, NEW b \in B, NEW c \in C,
         NEW e \in E, NEW f \in F
  PROVE  [kind |-> a, units |-> b, limit |-> c, closed |-> e, alarm |-> f] \in
           [kind : A, units : B, limit : C, closed : E, alarm : F]
OBVIOUS

(* The objects and threads at boot are those of Waitables. *)
LEMMA InitPromised ==
  ASSUME Init
  PROVE  Promise!Init
<1>1. load \in DOMAIN Workload
  BY DEF Init
<1>2. PICK w : w = Workload[load] /\ w = Load
  BY DEF Load
<1>3. object = Boot(w) /\ object = [o \in Slots |-> object[o]]
  <2>1. object = Boot(Load)
    BY DEF Init
  <2>2. Boot(w) = [o \in Slots |-> Boot(w)[o]]
    BY DEF Boot
  <2> QED BY <1>2, <2>1, <2>2
<1>4. ASSUME NEW o \in Slots
      PROVE  Shown(object[o]) \in {Promise!Absent} \cup
               [kind : Types, units : Nat, limit : Amounts, closed : {""}, alarm : {0}]
  <2>1. CASE o \notin DOMAIN w.boot
    <3>1. object[o] = FreeObject
      BY <1>3, <2>1 DEF Boot
    <3>2. Shown(FreeObject) = Promise!Absent
      BY AbsentShown DEF Like
    <3> QED BY <3>1, <3>2
  <2>2. CASE o \in DOMAIN w.boot
    <3>1. PICK x : x = object[o]
      OBVIOUS
    <3>2. /\ x.type = w.boot[o].type /\ x.count = w.boot[o].count /\ x.maximum = w.boot[o].maximum
          /\ x.result = "" /\ x.deadline = 0
      <4>1. PICK p, n : p = (CHOOSE q \in w.running : TRUE) /\ n = Cardinality(w.running)
        OBVIOUS
      <4>2. x = [FreeObject EXCEPT
               !.state = "LIVE", !.type = w.boot[o].type, !.count = w.boot[o].count,
               !.maximum = w.boot[o].maximum, !.owner = p, !.references = n]
        BY <1>3, <2>2, <3>1, <4>1 DEF Boot
      <4>3. x = [state |-> "LIVE", type |-> w.boot[o].type, count |-> w.boot[o].count,
                 maximum |-> w.boot[o].maximum, owner |-> p, references |-> n,
                 result |-> "", deadline |-> 0, position |-> Unset]
        BY <4>2 DEF FreeObject
      <4> QED BY <4>3
    <3>3. w.boot[o].type \in Types /\ w.boot[o].count \in Nat
      BY <1>1, <1>2, <2>2, Chosen
    <3>4. w.boot[o].maximum \in Amounts
      <4>1. PICK name \in DOMAIN Workload : w = Workload[name]
        BY <1>1, <1>2
      <4>2. \A y \in {w.boot[q].maximum : q \in DOMAIN w.boot} \cup {z.maximum : z \in w.creates}
                    \cup w.releases \cup w.delays : y \in Amounts
        BY <4>1 DEF Amounts
      <4> QED BY <2>2, <4>2
    <3>5. Shown(x) = [kind |-> w.boot[o].type, units |-> w.boot[o].count,
                      limit |-> w.boot[o].maximum, closed |-> "", alarm |-> 0]
      BY <3>2 DEF Shown
    <3>9. PICK N, E, F : N = Nat /\ E = {""} /\ F = {0}
      OBVIOUS
    <3>6. PICK a \in Types, b \in N, c \in Amounts, e \in E, f \in F :
            a = w.boot[o].type /\ b = w.boot[o].count /\ c = w.boot[o].maximum
      BY <3>3, <3>4, <3>9
    <3>7. Shown(x) = [kind |-> a, units |-> b, limit |-> c, closed |-> e, alarm |-> f]
      BY <3>5, <3>6, <3>9
    <3>8. Shown(x) \in [kind : Types, units : N, limit : Amounts, closed : E, alarm : F]
      BY <3>7, ViewIn
    <3> QED BY <3>1, <3>8, <3>9
  <2> QED BY <2>1, <2>2
<1>5. ShownWaits = [t \in Threads |-> Promise!AtWork]
  <2>1. ASSUME NEW t \in Threads PROVE ShownWait(thread[t]) = Promise!AtWork
    <3>1. PICK s : thread[t] = AtWork(s)
      BY DEF Init
    <3> QED BY <3>1, ForgottenShown DEF AtWork
  <2> QED BY <2>1 DEF ShownWaits
<1> QED BY <1>4, <1>5 DEF Promise!Init, ShownObjects

----------------------------------------------------------------------------
(* What the invariant says of the objects and of the timers. *)

(* The invariant says where every thread is registered. *)
LEMMA RegisteredHolds ==
  ASSUME Inv
  PROVE  Registered
<1> SUFFICES ASSUME NEW o \in Slots, NEW t \in Threads
             PROVE  {i \in DOMAIN thread[t].members : thread[t].members[i] = o} =
                      {queue[o][j][2] : j \in {j \in DOMAIN queue[o] : queue[o][j][1] = t}}
  BY DEF Registered
<1>1. PICK k : k = K
  OBVIOUS
<1>2. k \in States /\ Matched(k) /\ k.thread = thread /\ k.queue = queue
  BY <1>1, KFields DEF Inv, Good, Core, Body, WaitsIn
<1>3. PICK m \in Seq(Slots) : m = thread[t].members
  BY <1>2, ThreadAt
<1>4. PICK q \in Seq(Threads \X Nat) : q = queue[o]
  BY <1>2, QueueFacts
<1>5. \A i \in Nat : (\E j \in DOMAIN q : q[j] = <<t, i>>) <=> i \in DOMAIN m /\ m[i] = o
  BY <1>2, <1>3, <1>4 DEF Matched, In
<1>6. ASSUME NEW i \in DOMAIN m, m[i] = o
      PROVE  \E j \in DOMAIN q : q[j][1] = t /\ q[j][2] = i
  <2>1. i \in Nat
    OBVIOUS
  <2>2. PICK j \in DOMAIN q : q[j] = <<t, i>>
    BY <1>5, <1>6, <2>1
  <2> QED BY <2>2
<1>7. ASSUME NEW j \in DOMAIN q, q[j][1] = t
      PROVE  q[j][2] \in DOMAIN m /\ m[q[j][2]] = o
  <2>1. q[j] \in Threads \X Nat
    OBVIOUS
  <2>2. PICK i \in Nat : i = q[j][2]
    BY <2>1
  <2>3. q[j] = <<t, i>>
    BY <1>7, <2>1, <2>2
  <2> QED BY <1>5, <2>2, <2>3
<1> QED BY <1>3, <1>4, <1>6, <1>7

(* The invariant says what keeps an object. *)
LEMMA HandlesCountedHolds ==
  ASSUME Inv
  PROVE  HandlesCounted
<1>1. PICK k : k = K
  OBVIOUS
<1>2. /\ k \in States /\ Good(k) /\ Core(k) /\ HeapIn(k)
      /\ k.object = object /\ k.queue = queue /\ k.process = process /\ k.handles = handles
  BY <1>1, KFields DEF Inv, Good, Core, Body
<1> SUFFICES ASSUME NEW o \in Slots
             PROVE  LET x == object[o] IN
                    /\ x.references = Cardinality(Numbered([p \in Processes |-> handles[p][o]]))
                    /\ x.state = "FREE" <=> x.references = 0
                    /\ x.state = "LIVE" => process[x.owner] = "RUNNING" /\ x.result = ""
                    /\ x.state # "LIVE" => queue[o] = <<>> /\ x.position = Unset
                    /\ x.state = "CLOSING" => x.result # ""
  BY DEF HandlesCounted
<1>3. PICK x : x = object[o]
  OBVIOUS
<1>4. Owned(k, o) /\ Counted(k, o) /\ Shape(x) /\ Quiet(k, o)
  BY <1>2, <1>3 DEF Good, Core, Body
<1>5. x.references = Cardinality(Numbered([p \in Processes |-> handles[p][o]]))
  BY <1>2, <1>3, <1>4 DEF Counted
<1>6. /\ x.state = "FREE" <=> x.references = 0
      /\ x.state = "LIVE" => x.result = ""
      /\ x.state = "CLOSING" => x.result # ""
      /\ x.state # "LIVE" => x.deadline = 0
  BY <1>4 DEF Shape
<1>7. x.state = "LIVE" => process[x.owner] = "RUNNING"
  BY <1>2, <1>3, <1>4 DEF Owned
<1>8. x.state # "LIVE" => x.position = Unset
  BY <1>2, <1>3, <1>6 DEF HeapIn
<1>9. x.state # "LIVE" => queue[o] = <<>>
  <2>1. queue[o] # <<>> => In(queue[o][1], queue[o])
    BY <1>2, QueueFacts
  <2> QED BY <1>2, <1>3, <1>4, <2>1 DEF Quiet
<1> QED BY <1>3, <1>5, <1>6, <1>7, <1>8, <1>9

(* The invariant says that nobody sleeps on a unit. *)
LEMMA NobodySleepsHolds ==
  ASSUME Inv
  PROVE  NobodySleepsOnUnits
<1> SUFFICES ASSUME NEW o \in Slots, queue[o] # <<>>
             PROVE  object[o].count = 0
  BY DEF NobodySleepsOnUnits
<1>1. PICK k : k = K
  OBVIOUS
<1>2. k \in States /\ k.object = object /\ k.queue = queue /\ Quiet(k, o)
  BY <1>1, KFields DEF Inv, Good, Core, Body
<1>3. In(queue[o][1], queue[o])
  BY <1>2, QueueFacts
<1> QED BY <1>2, <1>3 DEF Quiet

(* References, registrations and units agree in every state of the         *)
(* invariant (kernel_sync_pool_valid).                                     *)
LEMMA InvSound ==
  ASSUME Inv
  PROVE  ObjectsSound
<1>1. PoolHealthy
  BY DEF Inv, PoolHealthy
<1> QED BY <1>1, RegisteredHolds, HandlesCountedHolds, NobodySleepsHolds DEF ObjectsSound

(* The invariant says that the heap holds the armed timers in order        *)
(* (timer_insert, timer_remove).                                           *)
LEMMA InvTimers ==
  ASSUME Inv
  PROVE  TimersExact
<1>1. PICK k : k = K
  OBVIOUS
<1>2. /\ k \in States /\ HeapIn(k) /\ Linked(k) /\ Ordered(k)
      /\ k.object = object /\ k.heap = heap /\ k.pages = pages
      /\ \A o \in Slots : Shape(object[o])
  BY <1>1, KFields DEF Inv, Good, Core, Body, HeapIn
<1>3. PICK n \in Nat : /\ n = Len(heap) /\ DOMAIN heap = 1 .. n
                       /\ \A i \in 1 .. n : i \in Nat /\ heap[i] \in Slots
  BY <1>2, HeapFacts
<1>4. \A o \in Slots : object[o].position = Unset <=> object[o].deadline = 0
  BY <1>2 DEF HeapIn
<1>5. \A i \in DOMAIN heap : object[heap[i]].position = i
  BY <1>2 DEF Linked
<1>6. \A o \in Slots : object[o].position # Unset =>
        object[o].position \in DOMAIN heap /\ heap[object[o].position] = o
  BY <1>2 DEF Linked
<1>7. \A i \in DOMAIN heap : heap[i] \in Slots /\ object[heap[i]].position # Unset
  BY <1>3, <1>5 DEF Unset
<1>8. {o \in Slots : object[o].deadline # 0} = {heap[i] : i \in DOMAIN heap}
  BY <1>4, <1>6, <1>7
<1>9. \A i \in DOMAIN heap : object[heap[i]].count = 0 /\ object[heap[i]].state = "LIVE"
  BY <1>2, <1>4, <1>7 DEF Shape
<1>10. \A i \in DOMAIN heap \ {1} : ~Less(K, heap[i], heap[i \div 2])
  BY <1>1, <1>2 DEF Ordered, InOrder
<1>11. Len(heap) <= pages * PageEntries
  BY <1>2 DEF HeapIn
<1> QED BY <1>5, <1>6, <1>8, <1>9, <1>10, <1>11 DEF TimersExact

----------------------------------------------------------------------------
(* Theorems. *)

(* Inv is an inductive invariant: system calls, timer interrupts and the   *)
(* worker keep the objects, the handles, the registrations and the heap of *)
(* timers consistent (sync.c, process.c, thread.c).                        *)
THEOREM Sync_Invariant == Spec => []Inv
<1>1. Init => Inv
  BY InitInv
<1>2. Inv /\ [Next]_vars => Inv'
  BY NextInv
<1> QED BY <1>1, <1>2, PTL DEF Spec

(* In every state an object has as many references as handles, is open     *)
(* only while its maker lives, has the registrations of its waiters and no *)
(* others, nobody sleeps on a unit, and the pool's checks hold             *)
(* (kernel_sync_pool_valid, kernel_sync_signal, withdraw_wait_set).        *)
THEOREM Sync_ObjectsSound == Spec => []ObjectsSound
<1>1. Inv => ObjectsSound
  BY InvSound
<1> QED BY <1>1, Sync_Invariant, PTL

(* In every state the heap holds the armed timers, each where its object   *)
(* says and none before its parent, and fits its pages (timer_insert,      *)
(* timer_remove, kernel_sync_expire_timers).                               *)
THEOREM Sync_TimersExact == Spec => []TimersExact
<1>1. Inv => TimersExact
  BY InvTimers
<1> QED BY <1>1, Sync_Invariant, PTL

(* What waiting threads are told, and what objects have to give, is what   *)
(* Waitables promises, in every step of the calls, the timer interrupt and *)
(* the worker: a unit goes to one waiter or is kept, a wait ends once, and *)
(* nobody waits for what is ready (wake_one_waiter, complete_wait,         *)
(* kernel_sync_signal, kernel_sync_expire_timers).                         *)
THEOREM Sync_KeepsPromise == Spec => KeepsPromise
<1>1. Init => Promise!Init
  BY InitPromised
<1>2. Inv /\ [Next]_vars => [Promise!Next]_<<ShownObjects, ShownWaits>>
  BY NextInv DEF Promised
<1> QED BY <1>1, <1>2, Sync_Invariant, PTL DEF Spec, KeepsPromise, Promise!Spec

=============================================================================
