------------------------------- MODULE Ports -------------------------------
(***************************************************************************)
(* The message ports and handle tables of the Axiom kernel                 *)
(* (sw/kernel/port.c and handle.c, with the calls of process.c that use    *)
(* them): PORT_CREATE, PORT_SEND, PORT_RECEIVE, the waits for a port,      *)
(* CLOSE, HANDLE_DUPLICATE, fork, launch, and the end of a process.        *)
(*                                                                         *)
(* A handle is a name, a slot and a generation, in the table of one        *)
(* process.  It stands for one end of a port with some rights.  A handle   *)
(* sent in a message leaves its table and is "detached" until the message  *)
(* is received or discarded.  The ports count the handles they have, in    *)
(* tables and detached; every action below keeps the count, the tables,    *)
(* the message queue and the waiting threads in step.                      *)
(*                                                                         *)
(* Each action is one system call or event, from entry to exit: the kernel *)
(* runs them one at a time.  A call that fails changes nothing (the code   *)
(* undoes what it had begun) except where an action below says so.         *)
(*                                                                         *)
(* Abstractions.  Message bytes are a size.  The order of the threads in a *)
(* wait queue is left out, so that wake_one wakes any one of them.  The    *)
(* sequence number a refused sender keeps is the fact whether the queue    *)
(* has moved on since.  A port is created in the lowest free slot, where   *)
(* the code goes round the slots.  The right READ on a send handle is left *)
(* out, and so are handles of other kinds of object.                       *)
(* Receivers keep the kernel's contract for being woken: a thread woken    *)
(* for a message asks for it before it does anything else but close        *)
(* handles to make room.                                                   *)
(***************************************************************************)
EXTENDS Integers, Sequences, FiniteSets

CONSTANTS
  Processes, Nobody,
  First,            \* the process that runs at the start
  Threads,
  ProcessOf,        \* ProcessOf[t]: the process thread t belongs to
  PortSlots, MessageSlots, DetachedSlots,   \* the pools, 1 .. n each
  HandleSlots,      \* the slots of a handle table, 1 .. n
  MaxMessages,      \* the limits every port is created with
  MaxBytes,
  MaxReferences,    \* the largest count of send handles (UINT16_MAX)
  Sizes,            \* the sizes of messages; the least is 1
  MaxAttached,      \* handles in one message
  AttachMasks,      \* the masks a sender puts on the rights of a handle
  CopyRights,       \* the rights that copies are asked for
  MaxGeneration     \* bound: a slot's generations, before they wrap

ASSUME PortsAssumption ==
  /\ Nobody \notin Processes /\ First \in Processes /\ IsFiniteSet(Processes)
  /\ ProcessOf \in [Threads -> Processes]
  /\ \A S \in {PortSlots, MessageSlots, DetachedSlots, HandleSlots} :
        S \subseteq Nat \ {0} /\ IsFiniteSet(S)
  /\ MaxMessages \in Nat \ {0} /\ MaxBytes \in Nat \ {0}
  /\ MaxReferences \in Nat \ {0} /\ MaxGeneration \in Nat \ {0}
  /\ MaxAttached \in Nat /\ Sizes \subseteq 1 .. MaxBytes

VARIABLES
  port,       \* port[p]: the port records
  message,    \* message[m]: the message records, linked in queues
  detached,   \* detached[d]: the handle in a message, or None
  table,      \* table[p]: the handle table of process p
  issued,     \* issued[p]: history: the handle names p's memory may hold
  process,    \* process[p]: unused, live, exiting or dead
  thread      \* thread[t]: what thread t waits for, or was told

vars == <<port, message, detached, table, issued, process, thread>>

SendRights == {"signal", "wait", "transfer"}
ReceiveRights == {"read", "wait", "administer"}
Rights == SendRights \cup ReceiveRights

None == [kind |-> "none", port |-> 0, rights |-> {}]
End(kind, p, rights) == [kind |-> kind, port |-> p, rights |-> rights]

FreePort == [state |-> "free", owner |-> Nobody, references |-> 0,
             send |-> 0, receive |-> 0, head |-> 0, tail |-> 0,
             count |-> 0, bytes |-> 0]
FreeMessage == [port |-> 0, next |-> 0, size |-> 0, sender |-> Nobody,
                handles |-> <<>>]
NewTable == [s \in HandleSlots |-> [handle |-> None, generation |-> 1]]

NoProbe == [slot |-> 0, generation |-> 0, port |-> 0, current |-> FALSE]
Running == [state |-> "running", waits |-> {}, told |-> 0, probe |-> NoProbe]
Gone == [Running EXCEPT !.state = "gone"]

Active(p) == port[p].state \in {"open", "peer_closed"}
Handle(p, s) == table[p][s].handle
Name(p, s) == <<s, table[p][s].generation>>

(* The members of a finite set of numbers in their order. *)
Nth(S, i) == CHOOSE x \in S : Cardinality({y \in S : y < x}) = i - 1
Lowest(S) == Nth(S, 1)

FreeSlots(p) == {s \in HandleSlots : Handle(p, s) = None}
FreePorts == {p \in PortSlots : port[p].state = "free"}
FreeMessages == {m \in MessageSlots : message[m].port = 0}
FreeDetached == {d \in DetachedSlots : detached[d] = None}

TypeOK ==
  /\ \A p \in PortSlots :
        /\ port[p].state \in {"free", "open", "peer_closed", "closing"}
        /\ port[p].owner \in Processes \cup {Nobody}
        /\ port[p].count \in 0 .. MaxMessages /\ port[p].bytes \in 0 .. MaxBytes
        /\ port[p].send \in 0 .. MaxReferences /\ port[p].receive \in 0 .. 1
  /\ \A p \in Processes, s \in HandleSlots :
        /\ table[p][s].generation \in 1 .. MaxGeneration + 1
        /\ Handle(p, s).rights \subseteq Rights
  /\ process \in [Processes -> {"unused", "live", "exiting", "dead"}]
  /\ \A t \in Threads :
        /\ thread[t].state \in {"running", "blocked", "gone"}
        /\ thread[t].state = "blocked" <=> thread[t].waits # {}

Init ==
  /\ port = [p \in PortSlots |-> FreePort]
  /\ message = [m \in MessageSlots |-> FreeMessage]
  /\ detached = [d \in DetachedSlots |-> None]
  /\ table = [p \in Processes |-> NewTable]
  /\ issued = [p \in Processes |-> {}]
  /\ process = [p \in Processes |-> IF p = First THEN "live" ELSE "unused"]
  /\ thread \in {[t \in Threads |-> IF t \in L THEN Running ELSE Gone] :
                   L \in SUBSET {t \in Threads : ProcessOf[t] = First} \ {{}}}

----------------------------------------------------------------------------
(* Waiting threads.  A function from threads to their records is changed   *)
(* in steps: th is the one before.                                         *)

Waiting(th, p, kind) ==
  {t \in Threads : th[t].state = "blocked" /\ <<p, kind>> \in th[t].waits}

Woken(th, W, told) ==
  [t \in Threads |->
     IF t \in W THEN [th[t] EXCEPT !.state = "running", !.waits = {}, !.told = told]
     ELSE th[t]]

(* wake_one tells one waiting receiver, if there is one, of a message. *)
ToldNobody(th, p) == {th}                    \* mutant: nobody is told
ToldOne(th, p) ==
  IF Waiting(th, p, "receive") = {} THEN {th}
  ELSE {Woken(th, {t}, p) : t \in Waiting(th, p, "receive")}

(* wake_all on the writable queue moves its sequence number on. *)
StaysPut(th, p) == th                                 \* mutant
MovedOn(th, p) ==
  [t \in Threads |-> IF th[t].probe.port = p THEN [th[t] EXCEPT !.probe.current = FALSE]
                     ELSE th[t]]
RoomTold(th, p) == MovedOn(Woken(th, Waiting(th, p, "send"), 0), p)

(* Every entry into the kernel takes the probe the last call left. *)
Entered(t) == [thread EXCEPT ![t].probe = NoProbe]

(* A thread that may make a call that is not part of a duty to receive. *)
Acting(t) == thread[t].state = "running" /\ thread[t].told = 0

----------------------------------------------------------------------------
(* Letting go of handles.                                                  *)

(* How many handles of port p a set of places holds. *)
Sends(H, p) == Cardinality({x \in DOMAIN H : H[x].kind = "send" /\ H[x].port = p})
Receives(H, p) == Cardinality({x \in DOMAIN H : H[x].kind = "receive" /\ H[x].port = p})

Restricted(f, S) == [x \in S |-> f[x]]

Attached(m) == {message[m].handles[i] : i \in DOMAIN message[m].handles}
QueuedAt(P) == {m \in MessageSlots : message[m].port \in P}
NoneDiscarded(P) == {}                                \* mutant
Discarded(P) == UNION {Attached(m) : m \in QueuedAt(P)}

(* What becomes of a port that loses n send and r receive handles, and is *)
(* closed if shut.  The last receiver closes it, the last sender is told  *)
(* to the receivers, and a closed port is freed with its last handle.     *)
KeepsState(po, shut) == po.state                      \* mutant
HangsUpFirst(po, shut) ==                             \* mutant: closed or not
  IF po.state # "free" /\ po.send = 0 THEN "peer_closed"
  ELSE IF shut THEN "closing" ELSE po.state
StateAfter(po, shut) ==
  IF shut THEN "closing"
  ELSE IF po.state = "open" /\ po.send = 0 THEN "peer_closed"
  ELSE po.state

Fewer(po, n, r) ==
  [po EXCEPT !.send = @ - n, !.receive = @ - r, !.references = @ - n - r]

Emptied(po) == [po EXCEPT !.head = 0, !.tail = 0, !.count = 0, !.bytes = 0]

Dropped(po, n, r, shut) ==
  LET q == [Fewer(po, n, r) EXCEPT !.state = StateAfter(Fewer(po, n, r), shut)]
      e == IF shut THEN Emptied(q) ELSE q
  IN IF e.state = "closing" /\ e.references = 0 /\ e.count = 0 THEN FreePort ELSE e

(* The handles of H are let go, and the ports in P closed with them; th   *)
(* are the threads that are left.  The messages of a closed port are      *)
(* discarded with their handles, which may be the last of another port.   *)
LetGo(H, P, th) ==
  LET shut == {p \in PortSlots : p \in P \/ (Active(p) /\ Receives(H, p) > 0)}
      lost == Restricted(detached, Discarded(shut))
      after == [p \in PortSlots |->
                  Dropped(port[p], Sends(H, p) + Sends(lost, p), Receives(H, p), p \in shut)]
      hung == {p \in PortSlots : port[p].state = "open" /\ after[p].state = "peer_closed"}
      ended == {t \in Threads : th[t].state = "blocked" /\
                  \E w \in th[t].waits : w[1] \in shut \cup hung}
      told == {p \in hung : after[p].count > 0}
  IN /\ port' = after
     /\ message' = [m \in MessageSlots |->
                      IF m \in QueuedAt(shut) THEN FreeMessage ELSE message[m]]
     /\ detached' = [d \in DetachedSlots |->
                       IF d \in Discarded(shut) THEN None ELSE detached[d]]
     /\ thread' = [t \in Threads |->
          LET rest == {p \in told : <<p, "receive">> \in th[t].waits}
              u == IF t \in ended
                   THEN [th[t] EXCEPT !.state = "running", !.waits = {},
                                      !.told = IF rest = {} THEN 0 ELSE Lowest(rest)]
                   ELSE th[t]
          IN IF u.probe.port \in shut \cup hung THEN [u EXCEPT !.probe.current = FALSE] ELSE u]

----------------------------------------------------------------------------
(* Handle tables.                                                          *)

NextGeneration(n) == n + 1

Retired(tb, S) ==
  [s \in HandleSlots |->
     IF s \in S THEN [handle |-> None, generation |-> NextGeneration(tb[s].generation)]
     ELSE tb[s]]

(* The handles of the sequence L go into the lowest free slots, in order. *)
Installed(tb, L) ==
  LET free == {s \in HandleSlots : tb[s].handle = None}
      place(i) == Nth(free, i)
  IN [s \in HandleSlots |->
        IF \E i \in DOMAIN L : place(i) = s
        THEN [tb[s] EXCEPT !.handle = L[CHOOSE i \in DOMAIN L : place(i) = s]]
        ELSE tb[s]]

Names(tb) == {<<s, tb[s].generation>> : s \in {x \in HandleSlots : tb[x].handle # None}}

(* Process p's table becomes tb. *)
TableSet(p, tb) ==
  /\ table' = [table EXCEPT ![p] = tb]
  /\ issued' = [issued EXCEPT ![p] = @ \cup Names(tb)]

(* Bound: a slot is not used when its generations would wrap. *)
Fresh(p, S) == \A s \in S : table[p][s].generation <= MaxGeneration

----------------------------------------------------------------------------
(* Creating, sending and receiving.                                        *)

Create(t) ==
  LET p == ProcessOf[t] IN
  /\ Acting(t)
  /\ FreePorts # {} /\ Cardinality(FreeSlots(p)) >= 2
  /\ LET q == Lowest(FreePorts)
         tb == Installed(table[p], <<End("receive", q, ReceiveRights),
                                     End("send", q, SendRights)>>)
     IN /\ port' = [port EXCEPT ![q] =
                      [FreePort EXCEPT !.state = "open", !.owner = p,
                         !.references = 2, !.send = 1, !.receive = 1]]
        /\ TableSet(p, tb)
  /\ thread' = Entered(t)
  /\ UNCHANGED <<message, detached, process>>

(* What may be attached: a handle that may travel and can do more. *)
Useful(rights) == rights \ {"transfer"} # {}
Transferable(p) ==
  {s \in HandleSlots : /\ "transfer" \in Handle(p, s).rights
                       /\ Useful(Handle(p, s).rights)}

Lists(S) ==
  UNION {{L \in [1 .. n -> S] : \A i, j \in 1 .. n : i # j => L[i] # L[j]} : n \in 0 .. MaxAttached}

HasRoom(q, size) ==
  port[q].count < MaxMessages /\ size <= MaxBytes - port[q].bytes

(* The message is linked behind the queue's tail. *)
Linked(q, m, size, sender, handles) ==
  [message EXCEPT ![m] = [port |-> q, next |-> 0, size |-> size, sender |-> sender,
                          handles |-> handles],
                  ![IF port[q].tail = 0 THEN m ELSE port[q].tail].next =
                     IF port[q].tail = 0 THEN 0 ELSE m]
Lengthened(q, m, size) ==
  [port EXCEPT ![q].head = IF @ = 0 THEN m ELSE @, ![q].tail = m,
               ![q].count = @ + 1, ![q].bytes = @ + size]

Widened(rights, mask) == mask                         \* mutant: not narrowed
Narrowed(rights, mask) == rights \cap mask

Send(t, s, size, L) ==
  LET p == ProcessOf[t]
      q == Handle(p, s).port
      m == Lowest(FreeMessages)
      places == [i \in DOMAIN L |-> Nth(FreeDetached, i)]
  IN
  /\ Acting(t)
  /\ Handle(p, s).kind = "send" /\ "signal" \in Handle(p, s).rights
  /\ port[q].state = "open" /\ HasRoom(q, size)
  /\ FreeMessages # {} /\ Cardinality(FreeDetached) >= Len(L)
  /\ Fresh(p, {L[i] : i \in DOMAIN L})
  /\ \E masks \in [DOMAIN L -> AttachMasks] :
       /\ \A i \in DOMAIN L : Useful(Narrowed(Handle(p, L[i]).rights, masks[i]))
       /\ detached' = [d \in DetachedSlots |->
            IF \E i \in DOMAIN L : places[i] = d
            THEN LET i == CHOOSE j \in DOMAIN L : places[j] = d
                 IN [Handle(p, L[i]) EXCEPT !.rights = Narrowed(@, masks[i])]
            ELSE detached[d]]
  /\ message' = Linked(q, m, size, p, places)
  /\ port' = Lengthened(q, m, size)
  /\ TableSet(p, Retired(table[p], {L[i] : i \in DOMAIN L}))
  /\ thread' \in ToldOne(Entered(t), q)
  /\ UNCHANGED process

(* The queue is full: the thread keeps a probe, the queue's place now.     *)
SendRefused(t, s, size) ==
  LET p == ProcessOf[t]
      q == Handle(p, s).port
  IN
  /\ Acting(t)
  /\ Handle(p, s).kind = "send" /\ "signal" \in Handle(p, s).rights
  /\ port[q].state = "open" /\ ~HasRoom(q, size)
  /\ thread' = [thread EXCEPT ![t].probe =
                  [slot |-> s, generation |-> table[p][s].generation,
                   port |-> q, current |-> TRUE]]
  /\ UNCHANGED <<port, message, detached, table, issued, process>>

(* Another call: it fails, or returns at once without changing a thing.    *)
OtherCall(t) ==
  /\ Acting(t) /\ thread[t].probe # NoProbe
  /\ thread' = Entered(t)
  /\ UNCHANGED <<port, message, detached, table, issued, process>>

Receiver(t, s, q) ==
  /\ thread[t].state = "running" /\ thread[t].told \in {0, q}
  /\ Handle(ProcessOf[t], s).kind = "receive"
  /\ "read" \in Handle(ProcessOf[t], s).rights
  /\ Handle(ProcessOf[t], s).port = q
  /\ Active(q) /\ port[q].count > 0

KeepsTail(q, m) == port[q].tail                       \* mutant: tail not reset
TailAfter(q, m) == IF message[m].next = 0 THEN 0 ELSE port[q].tail

Shortened(q, m) ==
  [port EXCEPT ![q].head = message[m].next, ![q].tail = TailAfter(q, m),
               ![q].count = @ - 1, ![q].bytes = @ - message[m].size]

(* All senders are told of the room; then one receiver of the next         *)
(* message, or all of them that no more will come.                         *)
ToldAfterReceive(th, q) ==
  IF port'[q].count > 0 THEN ToldOne(th, q)
  ELSE IF port[q].state = "peer_closed" THEN {Woken(th, Waiting(th, q, "receive"), 0)}
  ELSE {th}

Receive(t, s) ==
  LET p == ProcessOf[t]
      q == Handle(p, s).port
      m == port[q].head
      handles == [i \in DOMAIN message[m].handles |-> detached[message[m].handles[i]]]
  IN
  /\ Receiver(t, s, q)
  /\ Cardinality(FreeSlots(p)) >= Len(handles)
  /\ TableSet(p, Installed(table[p], handles))
  /\ port' = Shortened(q, m)
  /\ message' = [message EXCEPT ![m] = FreeMessage]
  /\ detached' = [d \in DetachedSlots |-> IF d \in Attached(m) THEN None ELSE detached[d]]
  /\ thread' \in ToldAfterReceive(RoomTold([Entered(t) EXCEPT ![t].told = 0], q), q)
  /\ UNCHANGED process

(* The receiver's buffer cannot be written.  The message is put back at    *)
(* the head of the queue, and another receiver is told.                    *)
PutBack(th, q) == ToldOne(th, q)
ReceiveFaults(t, s) ==
  LET q == Handle(ProcessOf[t], s).port IN
  /\ Receiver(t, s, q)
  /\ Cardinality(FreeSlots(ProcessOf[t])) >= Len(message[port[q].head].handles)
  /\ thread' \in PutBack([Entered(t) EXCEPT ![t].told = 0], q)
  /\ UNCHANGED <<port, message, detached, table, issued, process>>

(* The message was taken by another thread, or the port closed. *)
ReceiveNothing(t) ==
  LET q == thread[t].told IN
  /\ thread[t].state = "running" /\ q # 0
  /\ ~ \E s \in HandleSlots : Receiver(t, s, q)
  /\ thread' = [Entered(t) EXCEPT ![t].told = 0]
  /\ UNCHANGED <<port, message, detached, table, issued, process>>

----------------------------------------------------------------------------
(* Waiting.                                                                *)

SendReady(q) == port[q].count < MaxMessages /\ port[q].bytes <= MaxBytes - 1

(* A wait right after a refused send goes by the probe, not by the room    *)
(* there is, which may be too little for the message.                      *)
MustWaitForRoom(t, s) ==
  LET p == ProcessOf[t] IN
  IF <<thread[t].probe.slot, thread[t].probe.generation>> = Name(p, s)
  THEN thread[t].probe.current
  ELSE ~SendReady(Handle(p, s).port)

MustWait(t, s) ==
  LET h == Handle(ProcessOf[t], s) IN
  /\ h.kind \in {"send", "receive"} /\ "wait" \in h.rights
  /\ port[h.port].state = "open"
  /\ IF h.kind = "send" THEN MustWaitForRoom(t, s) ELSE port[h.port].count = 0

Wait(t, S) ==
  /\ Acting(t) /\ S # {}
  /\ \A s \in S : MustWait(t, s)
  /\ thread' = [Entered(t) EXCEPT ![t].state = "blocked",
                  ![t].waits = {<<Handle(ProcessOf[t], s).port, Handle(ProcessOf[t], s).kind>> :
                                  s \in S}]
  /\ UNCHANGED <<port, message, detached, table, issued, process>>

(* The deadline passes, or the wait is cancelled. *)
WaitEnds(t) ==
  /\ thread[t].state = "blocked"
  /\ thread' = [thread EXCEPT ![t] = Running]
  /\ UNCHANGED <<port, message, detached, table, issued, process>>

----------------------------------------------------------------------------
(* Copying and closing handles.                                            *)

Close(t, s) ==
  LET p == ProcessOf[t] IN
  /\ thread[t].state = "running"
  /\ Handle(p, s) # None /\ Fresh(p, {s})
  /\ TableSet(p, Retired(table[p], {s}))
  /\ LetGo(Restricted([x \in HandleSlots |-> Handle(p, x)], {s}), {}, Entered(t))
  /\ UNCHANGED process

(* One more send handle, unless there are too many or nobody has one. *)
Retainable(po, n) == po.send > 0 /\ po.send + n <= MaxReferences
Retained(po, n) == [po EXCEPT !.send = @ + n, !.references = @ + n]

(* What a copy may carry: rights the source has, and it may travel. *)
MayCopy(h, rights) ==
  /\ h.kind = "send" /\ "transfer" \in h.rights
  /\ rights # {} /\ rights \subseteq h.rights

Duplicate(t, s, rights) ==
  LET p == ProcessOf[t]
      h == Handle(p, s)
  IN
  /\ Acting(t) /\ h.kind = "send" /\ MayCopy(h, rights)
  /\ FreeSlots(p) # {} /\ Retainable(port[h.port], 1)
  /\ port' = [port EXCEPT ![h.port] = Retained(@, 1)]
  /\ TableSet(p, Installed(table[p], <<[h EXCEPT !.rights = rights]>>))
  /\ thread' = Entered(t)
  /\ UNCHANGED <<message, detached, process>>

ThreadsOf(p) == {t \in Threads : ProcessOf[t] = p}

(* The new process c of thread t, with the table tb. *)
Started(t, c, tb) ==
  /\ table' = [table EXCEPT ![c] = tb]
  /\ process' = [process EXCEPT ![c] = "live"]
  /\ thread' = [u \in Threads |-> IF u \in ThreadsOf(c) THEN Running ELSE Entered(t)[u]]

(* The copy of a table for a child that has the same memory.  A handle     *)
(* that cannot be copied leaves a slot whose old name the child may still  *)
(* hold, and that must not name what is put there next.                    *)
SkipsGeneration(e) == [handle |-> None, generation |-> e.generation]  \* mutant
NotCloned(e) == [handle |-> None, generation |-> NextGeneration(e.generation)]
Cloned(tb) ==
  [s \in HandleSlots |->
     IF tb[s].handle = None THEN tb[s]
     ELSE IF tb[s].handle.kind = "send" THEN tb[s]
     ELSE NotCloned(tb[s])]

Handles(p) == [s \in HandleSlots |-> Handle(p, s)]

Fork(t, c) ==
  LET p == ProcessOf[t] IN
  /\ Acting(t) /\ process[c] = "unused"
  /\ \A u \in ThreadsOf(p) : u = t \/ thread[u].state = "gone"
  /\ Fresh(p, {s \in HandleSlots : Handle(p, s).kind = "receive"})
  /\ \A q \in PortSlots :
        Sends(Handles(p), q) = 0 \/ Retainable(port[q], Sends(Handles(p), q))
  /\ Started(t, c, Cloned(table[p]))
  /\ port' = [q \in PortSlots |-> Retained(port[q], Sends(Handles(p), q))]
  /\ issued' = [issued EXCEPT ![c] = issued[p] \cup Names(table'[c])]
  /\ UNCHANGED <<message, detached>>

(* A copy of a table stops at the first handle whose port has all the      *)
(* senders it can have.  What was copied before is let go again.           *)
KeepsCopies(p, n) == [q \in PortSlots |-> Retained(port[q], n[q])]  \* mutant
Undone(p, n) ==
  [q \in PortSlots |-> Dropped(Retained(port[q], n[q]), n[q], 0, FALSE)]

ForkFails(t) ==
  LET p == ProcessOf[t] IN
  /\ Acting(t)
  /\ \A u \in ThreadsOf(p) : u = t \/ thread[u].state = "gone"
  /\ \E s \in HandleSlots :
       LET n == [q \in PortSlots |->
                   Sends(Restricted(Handles(p), {x \in HandleSlots : x < s}), q)]
       IN /\ Handle(p, s).kind = "send"
          /\ ~Retainable(port[Handle(p, s).port], n[Handle(p, s).port] + 1)
          /\ \A x \in HandleSlots : x < s /\ Handle(p, x).kind = "send" =>
                Retainable(port[Handle(p, x).port], n[Handle(p, x).port])
          /\ port' = Undone(p, n)
  /\ thread' = Entered(t)
  /\ UNCHANGED <<message, detached, table, issued, process>>

(* A launch gives the new process copies of chosen handles, G, with chosen *)
(* rights, as many as its table has slots for.                             *)
Launch(t, c, G) ==
  LET p == ProcessOf[t] IN
  /\ Acting(t) /\ process[c] = "unused"
  /\ \A i, j \in DOMAIN G : i # j => G[i] # G[j]
  /\ Cardinality(DOMAIN G) <= Cardinality(HandleSlots)
  /\ \A i \in DOMAIN G : MayCopy(Handle(p, G[i][1]), G[i][2])
  /\ LET copies == [i \in DOMAIN G |-> [Handle(p, G[i][1]) EXCEPT !.rights = G[i][2]]]
     IN /\ \A q \in PortSlots : Sends(copies, q) = 0 \/ Retainable(port[q], Sends(copies, q))
        /\ port' = [q \in PortSlots |-> Retained(port[q], Sends(copies, q))]
        /\ Started(t, c, Installed(NewTable, copies))
  /\ issued' = [issued EXCEPT ![c] = Names(table'[c])]
  /\ UNCHANGED <<message, detached>>

----------------------------------------------------------------------------
(* The end of a process.  Its threads and the ports it created end at      *)
(* once; its handles are closed when the worker reaps it.                  *)

Exit(p) ==
  /\ process[p] = "live"
  /\ process' = [process EXCEPT ![p] = "exiting"]
  /\ LetGo(<<>>, {q \in PortSlots : Active(q) /\ port[q].owner = p},
           [t \in Threads |-> IF t \in ThreadsOf(p) THEN Gone ELSE thread[t]])
  /\ UNCHANGED <<table, issued>>

Reap(p) ==
  /\ process[p] = "exiting"
  /\ process' = [process EXCEPT ![p] = "dead"]
  /\ table' = [table EXCEPT ![p] = NewTable]
  /\ issued' = [issued EXCEPT ![p] = {}]
  /\ LetGo(Handles(p), {}, thread)

----------------------------------------------------------------------------

Next ==
  \/ \E t \in Threads :
       \/ Create(t) \/ OtherCall(t) \/ ReceiveNothing(t) \/ WaitEnds(t) \/ ForkFails(t)
       \/ \E s \in HandleSlots :
            \/ Receive(t, s) \/ ReceiveFaults(t, s) \/ Close(t, s)
            \/ \E rights \in CopyRights : Duplicate(t, s, rights)
            \/ \E size \in Sizes :
                 \/ SendRefused(t, s, size)
                 \/ \E L \in Lists(Transferable(ProcessOf[t])) : Send(t, s, size, L)
       \/ \E S \in SUBSET HandleSlots : Wait(t, S)
       \/ \E c \in Processes :
            \/ Fork(t, c)
            \/ \E n \in 0 .. MaxAttached : \E G \in [1 .. n -> HandleSlots \X CopyRights] : Launch(t, c, G)
  \/ \E p \in Processes : Exit(p) \/ Reap(p)

Spec == Init /\ [][Next]_vars

(* The worker reaps every process that has ended (kernel_process_reap_next *)
(* in the maintenance pass, which runs until nothing is left to reap).     *)
FairSpec == Spec /\ \A p \in Processes : WF_vars(Reap(p))

----------------------------------------------------------------------------
(* The promise, and its refinement.                                        *)

(* The queue of port q as its links give it: the next field of 0 is 0. *)
Walk(q) ==
  LET at[i \in 1 .. port[q].count] ==
        IF i = 1 THEN port[q].head
        ELSE IF at[i - 1] = 0 THEN 0 ELSE message[at[i - 1]].next
  IN at

Content(m) ==
  IF m = 0 THEN FreeMessage
  ELSE [message[m] EXCEPT !.next = 0,
          !.handles = [i \in DOMAIN message[m].handles |-> detached[message[m].handles[i]]]]

Contents(q) == [i \in DOMAIN Walk(q) |-> Content(Walk(q)[i])]

PortHandles == [kind : {"send"}, port : PortSlots, rights : SUBSET SendRights]
Messages ==
  [port : PortSlots, next : {0}, size : Sizes, sender : Processes,
   handles : UNION {[1 .. n -> PortHandles] : n \in 0 .. MaxAttached}]

Promise == INSTANCE Channels WITH
  channel <- [q \in PortSlots |-> [state |-> port[q].state, queue |-> Contents(q)]]

(* kernel_port_send, receive, close_port and mark_sender_closed keep the   *)
(* order of the messages and neither lose nor repeat one; a port that was  *)
(* closed is never open again before it was free.                          *)
KeepsPromise == Promise!Spec

----------------------------------------------------------------------------
(* Safety.                                                                 *)

AllHandles == [x \in Processes \X HandleSlots |-> Handle(x[1], x[2])]

(* A port has as many references as there are handles of it in tables and  *)
(* in queued messages, whatever was sent, copied, discarded or undone; so  *)
(* a port is freed when the last is gone, neither sooner nor never.  The   *)
(* receive handle stays with the process that created the port, and is one.*)
(* kernel_port_handle_retain and _release, kernel_handle_clone_table.      *)
ReferencesExact ==
  \A q \in PortSlots :
    /\ port[q].send = Sends(AllHandles, q) + Sends(detached, q)
    /\ port[q].receive = Receives(AllHandles, q)
    /\ port[q].references = port[q].send + port[q].receive
    /\ port[q].state = "free" => port[q].references = 0
    /\ port[q].state = "open" => port[q].send > 0
    /\ port[q].state = "closing" => port[q].references > 0
    /\ port[q].receive <= 1
    /\ \A p \in Processes, s \in HandleSlots :
         Handle(p, s).kind = "receive" /\ Handle(p, s).port = q => p = port[q].owner

(* The messages that the links of a port lead to are those that are in it; *)
(* the tail is the last, and the bytes are theirs.  A handle in transit is *)
(* in one message.  kernel_port_send, kernel_port_receive_commit.          *)
QueueWellFormed ==
  /\ TypeOK
  /\ \A q \in PortSlots :
       LET walk == Walk(q)
           n == port[q].count
       IN /\ {walk[i] : i \in 1 .. n} = QueuedAt({q})
          /\ Cardinality(QueuedAt({q})) = n
          /\ port[q].head = 0 <=> n = 0
          /\ port[q].tail = IF n = 0 THEN 0 ELSE walk[n]
  /\ \A d \in DetachedSlots :
       detached[d] # None <=> \E m \in MessageSlots : message[m].port # 0 /\ d \in Attached(m)
  /\ \A m, l \in MessageSlots : m # l => Attached(m) \cap Attached(l) = {}

(* When a message is queued and threads wait for the port's messages, one  *)
(* of the process's threads has been told and has yet to ask for it.       *)
(* wake_one in kernel_port_send, receive_commit and receive_cancel.        *)
NoLostWakeup ==
  \A q \in PortSlots :
    port[q].count > 0 /\ Waiting(thread, q, "receive") # {} =>
      \E t \in Threads : thread[t].state = "running" /\ thread[t].told = q

(* A thread that waits for room waits at a queue with messages in it, so   *)
(* that a receive or a close is there to wake it; and no thread waits at   *)
(* a port that is closed or has lost its other end.  The sequence number a *)
(* refused send leaves, kernel_port_prepare_wait_after.                    *)
NoStrandedWaiter ==
  \A t \in Threads : thread[t].state = "blocked" =>
    \A w \in thread[t].waits :
      /\ port[w[1]].state = "open"
      /\ w[2] = "send" => port[w[1]].count > 0
      /\ w[2] = "receive" => ProcessOf[t] = port[w[1]].owner

(* Nobody sleeps past a message, past room or past the end of a port.      *)
WaitersTold == NoLostWakeup /\ NoStrandedWaiter

(* When all processes are gone so are all ports, messages and handles.     *)
(* kernel_handle_close_all, kernel_port_owner_died, discard_messages.      *)
NothingLeaks ==
  (\A p \in Processes : process[p] \in {"unused", "dead"}) =>
    /\ \A q \in PortSlots : port[q] = FreePort
    /\ \A m \in MessageSlots : message[m] = FreeMessage
    /\ \A d \in DetachedSlots : detached[d] = None

(* Whatever cascade of closes ended, the references are exact; and in the  *)
(* end there are none.                                                     *)
HandlesExact == ReferencesExact /\ NothingLeaks

(* Who can do what to port q: the rights some handle of a kind has. *)
Held(q, kind) ==
  {Handle(x[1], x[2]).rights : x \in {y \in Processes \X HandleSlots :
                              Handle(y[1], y[2]).kind = kind /\ Handle(y[1], y[2]).port = q}}
  \cup {detached[d].rights : d \in {x \in DetachedSlots :
                              detached[x].kind = kind /\ detached[x].port = q}}

(* Every right to an existing port comes from a handle that had it, and    *)
(* that was allowed to travel or to be copied.  narrow_detached,           *)
(* kernel_handle_duplicate_into.                                           *)
NoAmplification ==
  [][\A q \in PortSlots : port[q].state # "free" /\ port'[q].state # "free" =>
       /\ \A r \in Held(q, "send")' \ Held(q, "send") :
            \E o \in Held(q, "send") : r \subseteq o /\ "transfer" \in o
       /\ Held(q, "receive")' \subseteq Held(q, "receive")]_vars

(* A handle name that becomes valid in a process was never valid there     *)
(* before, nor in the process whose memory it is a copy of: a stale name   *)
(* never names a new handle.  retire_entry, kernel_handle_clone_table      *)
(* (handle.c:571).                                                         *)
NamesOnce ==
  [][\A p \in Processes, s \in HandleSlots :
       Handle(p, s)' # None /\ Name(p, s)' \in issued[p] => Handle(p, s)' = Handle(p, s)]_vars

----------------------------------------------------------------------------
(* Liveness.                                                               *)

(* Nobody who still runs can send to port q, now or later. *)
Deserted(q) ==
  /\ Sends(detached, q) = 0
  /\ \A p \in Processes, s \in HandleSlots :
       Handle(p, s).kind = "send" /\ Handle(p, s).port = q => process[p] = "exiting"

Stranded(q) == Waiting(thread, q, "receive") # {} /\ Deserted(q)

(* A thread that waits for messages learns that all who could send some    *)
(* have ended, though their handles are closed only when they are reaped.  *)
(* kernel_handle_close_all, kernel_port_handle_release, mark_sender_closed.*)
PeerLearns == \A q \in PortSlots : []<>~Stranded(q)

=============================================================================
