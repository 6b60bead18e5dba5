---------------------------- MODULE Ports_proofs ----------------------------
(***************************************************************************)
(* What ports and handle tables promise, for any number of processes,      *)
(* threads, ports, messages and handles.                                   *)
(*                                                                         *)
(*   Typed        what the records may be                                  *)
(*   ProcessInv   whose threads run, and what ended processes have left    *)
(*   NameInv      that the names in use are the latest of their slots      *)
(*   PortInv      how the fields of one port agree                         *)
(*   QueueInv     the messages a port's links lead to                      *)
(*   TransitInv   which handle is in which message                         *)
(*   CountInv     that ports count their handles, and whose they are       *)
(*   ProbeInv     what a refused sender may believe                        *)
(*   WaitInv      that nobody sleeps past a message, room or a close       *)
(*                                                                         *)
(* Inv, all of them, is inductive.  A step lemma for each action keeps it; *)
(* the lemmas before them say what the operators of Ports do to counts,    *)
(* tables, queues and threads.  A receive, for one, needs QueueInv to know *)
(* what it takes, TransitInv that the handles it takes are there, CountInv *)
(* that its port still counts them, and WaitInv that those it leaves       *)
(* asleep have been told.                                                  *)
(***************************************************************************)
EXTENDS Ports, FiniteSetTheorems, FunctionTheorems, TLAPS

(* The handles in tables: a send end that may have lost rights, or the one *)
(* receive end as it was created.                                          *)
ReceiveEnds == [kind : {"receive"}, port : PortSlots, rights : {ReceiveRights}]
Ends == {None} \cup PortHandles \cup ReceiveEnds

PortRecords ==
  [state : {"free", "open", "peer_closed", "closing"}, owner : Processes \cup {Nobody},
   references : Int, send : Int, receive : Int,
   head : MessageSlots \cup {0}, tail : MessageSlots \cup {0}, count : Nat, bytes : Int]
MessageRecords ==
  [port : PortSlots \cup {0}, next : MessageSlots \cup {0}, size : Nat,
   sender : Processes \cup {Nobody}, handles : Seq(DetachedSlots)]
Entries == [handle : Ends, generation : 1 .. MaxGeneration + 1]
Probes == [slot : HandleSlots \cup {0}, generation : Nat, port : PortSlots \cup {0},
           current : BOOLEAN]
ThreadRecords ==
  [state : {"running", "blocked", "gone"}, waits : SUBSET (PortSlots \X {"send", "receive"}),
   told : PortSlots \cup {0}, probe : Probes]

Typed ==
  /\ port \in [PortSlots -> PortRecords]
  /\ message \in [MessageSlots -> MessageRecords]
  /\ detached \in [DetachedSlots -> PortHandles \cup {None}]
  /\ table \in [Processes -> [HandleSlots -> Entries]]
  /\ issued \in [Processes -> SUBSET (HandleSlots \X Nat)]
  /\ process \in [Processes -> {"unused", "live", "exiting", "dead"}]
  /\ thread \in [Threads -> ThreadRecords]

(* Who runs, and what is left of those who do not. *)
ProcessInv ==
  /\ \A t \in Threads : thread[t].state # "gone" => process[ProcessOf[t]] = "live"
  /\ \A t \in Threads : thread[t].state = "gone" => thread[t] = Gone
  /\ \A t \in Threads : thread[t].state = "blocked" <=> thread[t].waits # {}
  /\ \A p \in Processes : process[p] \in {"unused", "dead"} =>
        table[p] = NewTable /\ issued[p] = {}

(* The names a process may know are older than what its free slots will be called. *)
NameInv ==
  \A p \in Processes, n \in HandleSlots \X Nat :
    n \in issued[p] =>
      /\ n[2] <= table[p][n[1]].generation
      /\ Handle(p, n[1]) = None => n[2] < table[p][n[1]].generation

(* The queue of a port is the messages w, in order; rest[i] bytes are in those from w[i] on. *)
Links(q, w) ==
  LET n == port[q].count IN
  /\ \A i, j \in 1 .. n : w[i] = w[j] => i = j
  /\ QueuedAt({q}) = {w[i] : i \in 1 .. n}
  /\ n = 0 => port[q].head = 0 /\ port[q].tail = 0
  /\ n > 0 => port[q].head = w[1] /\ port[q].tail = w[n]
  /\ \A i \in 1 .. n : message[w[i]].next = IF i = n THEN 0 ELSE w[i + 1]

Bytes(q, w, rest) ==
  LET n == port[q].count IN
  /\ rest[n + 1] = 0 /\ port[q].bytes = rest[1]
  /\ \A i \in 1 .. n : rest[i] = message[w[i]].size + rest[i + 1]

QueueInv ==
  \A q \in PortSlots :
    \E w \in [1 .. port[q].count -> MessageSlots], rest \in [1 .. port[q].count + 1 -> Nat] :
      Links(q, w) /\ Bytes(q, w, rest)

(* What the fields of one port have to do with each other, and their limits. *)
Sound(po) ==
  /\ po.send \in 0 .. MaxReferences /\ po.receive \in 0 .. 1
  /\ po.references = po.send + po.receive
  /\ po.count <= MaxMessages /\ po.bytes <= MaxBytes
  /\ po.count = 0 => po.head = 0 /\ po.tail = 0 /\ po.bytes = 0
  /\ po.state = "free" => po = FreePort
  /\ po.state = "closing" => po.references > 0 /\ po.count = 0
  /\ po.state \in {"open", "peer_closed"} => po.receive = 1 /\ po.owner \in Processes
  /\ po.state = "open" => po.send > 0

PortInv == \A q \in PortSlots : Sound(port[q])

(* Which handle is in which message, and that messages are in ports that take them. *)
TransitInv ==
  /\ \A m \in MessageSlots :
        /\ message[m].port = 0 => message[m] = FreeMessage
        /\ message[m].port # 0 => Active(message[m].port)
        /\ \A i, j \in DOMAIN message[m].handles :
              message[m].handles[i] = message[m].handles[j] => i = j
  /\ \A d \in DetachedSlots :
       detached[d] # None <=> \E m \in MessageSlots : message[m].port # 0 /\ d \in Attached(m)
  /\ \A m, l \in MessageSlots : m # l => Attached(m) \cap Attached(l) = {}

(* The counts of a port are those of its handles, and who has it created it. *)
CountInv ==
  /\ \A q \in PortSlots :
       /\ port[q].send = Sends(AllHandles, q) + Sends(detached, q)
       /\ port[q].receive = Receives(AllHandles, q)
  /\ \A p \in Processes, s \in HandleSlots :
       Handle(p, s).kind = "receive" => p = port[Handle(p, s).port].owner

(* What a refused sender remembers: the handle it used, if it is still there, and *)
(* that nothing has left the queue since. *)
ProbeInv ==
  /\ \A t \in Threads : thread[t].probe # NoProbe =>
       LET pr == thread[t].probe
           p == ProcessOf[t]
       IN /\ pr.slot \in HandleSlots /\ pr.port \in PortSlots
          /\ pr.generation <= table[p][pr.slot].generation
          /\ pr.generation = table[p][pr.slot].generation =>
               Handle(p, pr.slot).kind = "send" /\ Handle(p, pr.slot).port = pr.port
  /\ \A t \in Threads : thread[t].probe.current => port[thread[t].probe.port].count > 0

WaitInv ==
  /\ NoStrandedWaiter
  /\ \A q \in PortSlots :
       port[q].count > 0 /\ Waiting(thread, q, "receive") # {} =>
         \E t \in Threads : /\ thread[t].state = "running" /\ thread[t].told = q
                            /\ ProcessOf[t] = port[q].owner

Inv ==
  /\ Typed /\ ProcessInv /\ NameInv /\ PortInv /\ QueueInv /\ TransitInv
  /\ CountInv /\ ProbeInv /\ WaitInv

----------------------------------------------------------------------------
(* Numbered members of finite sets.                                        *)

(* The i-th member of a finite set of numbers is a member with i - 1 below it. *)
LEMMA NthIn ==
  ASSUME NEW S \in SUBSET Nat, IsFiniteSet(S), NEW i \in 1 .. Cardinality(S)
  PROVE  Nth(S, i) \in S /\ Cardinality({y \in S : y < Nth(S, i)}) = i - 1
<1> DEFINE Below(x) == {y \in S : y < x}
           n == Cardinality(S)
           rank == [x \in S |-> Cardinality(Below(x)) + 1]
<1>1. n \in Nat
  BY FS_CardinalityType
<1>2. ASSUME NEW x \in S
      PROVE  IsFiniteSet(Below(x)) /\ Cardinality(Below(x)) \in Nat /\ Cardinality(Below(x)) < n
  <2>1. Below(x) \in SUBSET S /\ x \notin Below(x)
    OBVIOUS
  <2>2. IsFiniteSet(Below(x)) /\ Cardinality(Below(x)) <= n /\ Cardinality(Below(x)) # n
    BY <2>1, FS_Subset
  <2>3. Cardinality(Below(x)) \in Nat
    BY <2>2, FS_CardinalityType
  <2> QED BY <2>2, <2>3, <1>1
<1>3. rank \in [S -> 1 .. n]
  BY <1>1, <1>2
<1>4. ASSUME NEW x \in S, NEW y \in S, x < y
      PROVE  Cardinality(Below(x)) < Cardinality(Below(y))
  <2>1. Below(x) \in SUBSET Below(y) /\ x \in Below(y) /\ x \notin Below(x)
    <3>1. x \in Nat /\ y \in Nat /\ \A z \in S : z \in Nat
      OBVIOUS
    <3>2. \A k, l, m \in Nat : k < l /\ l < m => k < m
      OBVIOUS
    <3>3. ASSUME NEW z \in S, z < x PROVE z < y
      <4>1. z \in Nat
        BY <3>1
      <4>2. x < y
        BY <1>4
      <4> QED BY <3>1, <3>2, <3>3, <4>1, <4>2
    <3>4. Below(x) \subseteq Below(y)
      BY <3>3
    <3>5. x \in Below(y)
      BY <1>4
    <3>6. ~ x < x
      BY <3>1
    <3> QED BY <3>4, <3>5, <3>6
  <2>2. Cardinality(Below(x)) <= Cardinality(Below(y)) /\ Cardinality(Below(x)) # Cardinality(Below(y))
    BY <2>1, <1>2, FS_Subset
  <2> QED BY <2>2, <1>2
<1>5. \A x, y \in S : rank[x] = rank[y] => x = y
  <2> SUFFICES ASSUME NEW x \in S, NEW y \in S, rank[x] = rank[y] PROVE x = y
    OBVIOUS
  <2>1. Cardinality(Below(x)) = Cardinality(Below(y))
    BY <1>2
  <2>2. x \in Nat /\ y \in Nat
    OBVIOUS
  <2>3. CASE x < y
    BY <2>3, <2>1, <1>4, <1>2
  <2>4. CASE y < x
    BY <2>4, <2>1, <1>4, <1>2
  <2> QED BY <2>2, <2>3, <2>4
<1>6. rank \in Injection(S, 1 .. n)
  BY <1>3, <1>5, Fun_IsInj
<1>7. IsFiniteSet(1 .. n) /\ Cardinality(1 .. n) = n
  BY <1>1, FS_Interval
<1>8. rank \in Surjection(S, 1 .. n)
  BY <1>6, <1>7, FS_Injection
<1>9. PICK x \in S : rank[x] = i
  <2> HIDE DEF rank, n
  <2>1. \A t \in 1 .. n : \E x \in S : rank[x] = t
    BY <1>8, Fun_SurjectionProperties
  <2> QED BY <2>1 DEF n
<1>10. Cardinality(Below(x)) = i - 1
  BY <1>9, <1>2
<1> QED BY <1>10 DEF Nth

(* Different numbers name different members. *)
LEMMA NthInjective ==
  ASSUME NEW S \in SUBSET Nat, IsFiniteSet(S),
         NEW i \in 1 .. Cardinality(S), NEW j \in 1 .. Cardinality(S),
         Nth(S, i) = Nth(S, j)
  PROVE  i = j
<1>1. /\ Cardinality({y \in S : y < Nth(S, i)}) = i - 1
      /\ Cardinality({y \in S : y < Nth(S, j)}) = j - 1
  BY NthIn
<1>2. Cardinality(S) \in Nat
  BY FS_CardinalityType
<1> QED BY <1>1, <1>2

(* The lowest of some numbers is one of them. *)
LEMMA LowestIn ==
  ASSUME NEW S \in SUBSET Nat, IsFiniteSet(S), S # {}
  PROVE  Lowest(S) \in S
<1>1. Cardinality(S) \in Nat /\ Cardinality(S) # 0
  BY FS_CardinalityType, FS_EmptySet
<1>2. 1 \in 1 .. Cardinality(S)
  BY <1>1
<1> QED BY <1>2, NthIn DEF Lowest

----------------------------------------------------------------------------
(* Counting handles.                                                       *)

At(H, kind, q) == {x \in DOMAIN H : H[x].kind = kind /\ H[x].port = q}
Count(H, kind, q) == Cardinality(At(H, kind, q))

(* Sends and Receives are counts. *)
LEMMA Counts ==
  \A H, q : Sends(H, q) = Count(H, "send", q) /\ Receives(H, q) = Count(H, "receive", q)
BY DEF Sends, Receives, Count, At

(* A count is a number, and zero only if there is nothing. *)
LEMMA CountType ==
  ASSUME NEW H, IsFiniteSet(DOMAIN H), NEW kind, NEW q
  PROVE  /\ IsFiniteSet(At(H, kind, q))
         /\ Count(H, kind, q) \in Nat
         /\ Count(H, kind, q) = 0 <=> At(H, kind, q) = {}
<1>1. At(H, kind, q) \in SUBSET DOMAIN H
  BY DEF At
<1>2. IsFiniteSet(At(H, kind, q))
  BY <1>1, FS_Subset
<1> QED BY <1>2, FS_CardinalityType, FS_EmptySet DEF Count

(* As many as a one-to-one function has arguments, it has values. *)
LEMMA SameCount ==
  ASSUME NEW S, NEW T, IsFiniteSet(S), NEW f \in [S -> T],
         \A x, y \in S : f[x] = f[y] => x = y,
         \A z \in T : \E x \in S : f[x] = z
  PROVE  IsFiniteSet(T) /\ Cardinality(T) = Cardinality(S)
<1>1. f \in Bijection(S, T)
  BY Fun_IsBij
<1> QED BY <1>1, FS_Bijection DEF ExistsBijection

(* H has in its place what L has in each of its places, and else what G has. *)
Added(G, H, L, place, kind) ==
  /\ IsFiniteSet(DOMAIN G) /\ DOMAIN H = DOMAIN G /\ IsFiniteSet(DOMAIN L)
  /\ \A i \in DOMAIN L : place[i] \in DOMAIN G
  /\ \A i, j \in DOMAIN L : place[i] = place[j] => i = j
  /\ \A i \in DOMAIN L : G[place[i]].kind # kind
  /\ \A i \in DOMAIN L : H[place[i]].kind = L[i].kind /\ H[place[i]].port = L[i].port
  /\ \A x \in DOMAIN G : (\A i \in DOMAIN L : place[i] # x) => H[x] = G[x]

(* What lies in places that held nothing of the kind is added to the rest. *)
LEMMA CountAdded ==
  ASSUME NEW G, NEW H, NEW L, NEW place, NEW kind, NEW q, Added(G, H, L, place, kind)
  PROVE  Count(H, kind, q) = Count(G, kind, q) + Count(L, kind, q)
<1> USE DEF Added
<1> DEFINE A == At(G, kind, q)
           B == {place[i] : i \in At(L, kind, q)}
           f == [i \in At(L, kind, q) |-> place[i]]
<1>1. IsFiniteSet(A) /\ Count(G, kind, q) \in Nat /\ IsFiniteSet(At(L, kind, q)) /\ Count(L, kind, q) \in Nat
  BY CountType
<1>2. IsFiniteSet(B) /\ Cardinality(B) = Count(L, kind, q)
  <2>1. f \in [At(L, kind, q) -> B]
    OBVIOUS
  <2>2. \A x, y \in At(L, kind, q) : f[x] = f[y] => x = y
    BY DEF At
  <2>3. \A z \in B : \E x \in At(L, kind, q) : f[x] = z
    OBVIOUS
  <2> HIDE DEF f, B
  <2> QED BY <1>1, <2>1, <2>2, <2>3, SameCount DEF Count
<1>3. A \cap B = {}
  BY DEF At
<1>4. At(H, kind, q) = A \cup B
  <2>1. ASSUME NEW x \in At(H, kind, q) PROVE x \in A \cup B
    <3>1. CASE \E i \in DOMAIN L : place[i] = x
      BY <2>1, <3>1 DEF At
    <3>2. CASE \A i \in DOMAIN L : place[i] # x
      BY <2>1, <3>2 DEF At
    <3> QED BY <3>1, <3>2
  <2>2. ASSUME NEW x \in A PROVE x \in At(H, kind, q)
    <3>1. \A i \in DOMAIN L : place[i] # x
      BY <2>2 DEF At
    <3> QED BY <3>1, <2>2 DEF At
  <2>3. ASSUME NEW x \in B PROVE x \in At(H, kind, q)
    BY <2>3 DEF At
  <2> QED BY <2>1, <2>2, <2>3
<1> HIDE DEF A, B
<1>5. Cardinality(A \cup B) = Cardinality(A) + Cardinality(B) - Cardinality({})
  BY <1>1, <1>2, <1>3, FS_Union
<1>6. Cardinality({}) = 0
  BY FS_EmptySet
<1> QED BY <1>1, <1>2, <1>4, <1>5, <1>6 DEF Count, A

(* What is taken from some places is taken from the count. *)
LEMMA CountTaken ==
  ASSUME NEW G, NEW H, NEW S, NEW kind, NEW q,
         IsFiniteSet(DOMAIN G), DOMAIN H = DOMAIN G, S \subseteq DOMAIN G,
         \A x \in S : H[x].kind # kind,
         \A x \in DOMAIN G \ S : H[x] = G[x]
  PROVE  /\ Count(H, kind, q) = Count(G, kind, q) - Count(Restricted(G, S), kind, q)
         /\ Count(Restricted(G, S), kind, q) <= Count(G, kind, q)
         /\ Count(Restricted(G, S), kind, q) \in Nat
<1>1. IsFiniteSet(At(G, kind, q)) /\ Count(G, kind, q) \in Nat
  BY CountType
<1>2. At(Restricted(G, S), kind, q) = At(G, kind, q) \cap S
  BY DEF At, Restricted
<1>3. At(H, kind, q) = At(G, kind, q) \ S
  BY DEF At
<1>4. At(G, kind, q) \cap S \in SUBSET At(G, kind, q)
  OBVIOUS
<1>5. IsFiniteSet(At(G, kind, q) \cap S) /\ Cardinality(At(G, kind, q) \cap S) <= Cardinality(At(G, kind, q))
  BY <1>1, <1>4, FS_Subset
<1>6. Cardinality(At(G, kind, q) \cap S) \in Nat
  BY <1>5, FS_CardinalityType
<1>7. Cardinality(At(G, kind, q) \ S) = Cardinality(At(G, kind, q)) - Cardinality(At(G, kind, q) \cap S)
  BY <1>1, FS_Difference
<1> QED BY <1>1, <1>2, <1>3, <1>5, <1>6, <1>7 DEF Count

(* The handles in the tables T, and those in the table tb. *)
Flat(T) == [x \in Processes \X HandleSlots |-> T[x[1]][x[2]].handle]
HandlesOf(tb) == [s \in HandleSlots |-> tb[s].handle]

(* When one table changes, the count of all changes as its own does. *)
LEMMA CountFlat ==
  ASSUME NEW T, NEW U, NEW p \in Processes, NEW kind, NEW q,
         \A r \in Processes : r # p => U[r] = T[r]
  PROVE  /\ Count(Flat(U), kind, q) - Count(HandlesOf(U[p]), kind, q)
              = Count(Flat(T), kind, q) - Count(HandlesOf(T[p]), kind, q)
         /\ Count(HandlesOf(T[p]), kind, q) <= Count(Flat(T), kind, q)
<1> DEFINE Others(V) == {x \in At(Flat(V), kind, q) : x[1] # p}
           Own(V) == {x \in At(Flat(V), kind, q) : x[1] = p}
<1>1. IsFiniteSet(HandleSlots) /\ IsFiniteSet(Processes \X HandleSlots)
  BY PortsAssumption, FS_Product
<1>2. ASSUME NEW V
      PROVE  /\ IsFiniteSet(Others(V)) /\ Cardinality(Others(V)) \in Nat
             /\ Count(HandlesOf(V[p]), kind, q) \in Nat
             /\ Count(Flat(V), kind, q) = Cardinality(Others(V)) + Count(HandlesOf(V[p]), kind, q)
  <2> DEFINE A == At(HandlesOf(V[p]), kind, q)
             f == [s \in A |-> <<p, s>>]
  <2>1. IsFiniteSet(At(Flat(V), kind, q)) /\ IsFiniteSet(A) /\ Count(HandlesOf(V[p]), kind, q) \in Nat
    BY <1>1, CountType DEF Flat, HandlesOf
  <2>2. Others(V) \in SUBSET At(Flat(V), kind, q) /\ Own(V) \in SUBSET At(Flat(V), kind, q)
    OBVIOUS
  <2>3. IsFiniteSet(Others(V)) /\ IsFiniteSet(Own(V))
    BY <2>1, <2>2, FS_Subset
  <2>4. Cardinality(Others(V)) \in Nat
    BY <2>3, FS_CardinalityType
  <2>5. f \in [A -> Own(V)]
    BY DEF At, HandlesOf, Flat
  <2>6. \A x, y \in A : f[x] = f[y] => x = y
    OBVIOUS
  <2>7. \A z \in Own(V) : \E x \in A : f[x] = z
    BY DEF At, HandlesOf, Flat
  <2>8. Cardinality(Own(V)) = Count(HandlesOf(V[p]), kind, q)
    <3> HIDE DEF f, Own
    <3> QED BY <2>1, <2>5, <2>6, <2>7, SameCount DEF Count
  <2>9. At(Flat(V), kind, q) = Others(V) \cup Own(V) /\ Others(V) \cap Own(V) = {}
    OBVIOUS
  <2>10. Cardinality(Others(V) \cup Own(V)) = Cardinality(Others(V)) + Cardinality(Own(V)) - 0
    BY <2>3, <2>9, FS_Union, FS_EmptySet
  <2> QED BY <2>1, <2>3, <2>4, <2>8, <2>9, <2>10 DEF Count
<1>3. Others(U) = Others(T)
  BY DEF At, Flat
<1> HIDE DEF Others
<1> QED BY <1>2, <1>3

----------------------------------------------------------------------------
(* Records and tables.                                                     *)

(* The pools are finite sets of positive numbers. *)
LEMMA Pools ==
  /\ IsFiniteSet(PortSlots) /\ IsFiniteSet(MessageSlots)
  /\ IsFiniteSet(DetachedSlots) /\ IsFiniteSet(HandleSlots)
  /\ PortSlots \subseteq Nat /\ MessageSlots \subseteq Nat
  /\ DetachedSlots \subseteq Nat /\ HandleSlots \subseteq Nat
  /\ 0 \notin PortSlots /\ 0 \notin MessageSlots /\ 0 \notin DetachedSlots /\ 0 \notin HandleSlots
BY PortsAssumption

(* The records the module is built from have their types. *)
LEMMA Shapes ==
  /\ FreePort \in PortRecords
  /\ FreeMessage \in MessageRecords
  /\ NoProbe \in Probes
  /\ Running \in ThreadRecords /\ Gone \in ThreadRecords
  /\ NewTable \in [HandleSlots -> Entries]
  /\ \A q \in PortSlots : /\ End("receive", q, ReceiveRights) \in ReceiveEnds
                          /\ End("send", q, SendRights) \in PortHandles
<1>1. FreePort \in PortRecords
  BY DEF FreePort, PortRecords
<1>2. FreeMessage \in MessageRecords
  <2>1. <<>> \in Seq(DetachedSlots)
    OBVIOUS
  <2> QED BY <2>1 DEF FreeMessage, MessageRecords
<1>3. NoProbe \in Probes
  BY DEF NoProbe, Probes
<1>4. Running \in ThreadRecords
  BY <1>3 DEF Running, ThreadRecords
<1>5. Gone \in ThreadRecords
  BY <1>4 DEF Gone, ThreadRecords
<1>6. NewTable \in [HandleSlots -> Entries]
  BY PortsAssumption DEF NewTable, Entries, Ends
<1> QED BY <1>1, <1>2, <1>3, <1>4, <1>5, <1>6 DEF End, ReceiveEnds, PortHandles

(* An end of a port is a send handle, a receive handle, or none. *)
LEMMA EndKinds ==
  /\ None.kind = "none" /\ None.rights = {} /\ None.port = 0
  /\ \A h \in PortHandles : h.kind = "send" /\ h.port \in PortSlots /\ h.rights \subseteq SendRights
  /\ \A h \in ReceiveEnds : h.kind = "receive" /\ h.port \in PortSlots /\ h.rights = ReceiveRights
  /\ \A h \in Ends : /\ h.kind \in {"none", "send", "receive"}
                     /\ h.kind = "none" <=> h = None
                     /\ h.kind = "send" <=> h \in PortHandles
                     /\ h.kind = "receive" <=> h \in ReceiveEnds
                     /\ h.rights \subseteq Rights
BY DEF Ends, None, PortHandles, ReceiveEnds, Rights, ReceiveRights, SendRights

(* Each of the handles put into a table has a slot of its own that was free. *)
LEMMA InstalledIs ==
  ASSUME NEW tb \in [HandleSlots -> Entries], NEW n \in Nat, NEW L \in [1 .. n -> Ends],
         n <= Cardinality({s \in HandleSlots : tb[s].handle = None})
  PROVE  /\ Installed(tb, L) \in [HandleSlots -> Entries]
         /\ \A s \in HandleSlots : Installed(tb, L)[s].generation = tb[s].generation
         /\ \E place \in [1 .. n -> HandleSlots] :
              /\ \A i \in 1 .. n : tb[place[i]].handle = None
              /\ \A i, j \in 1 .. n : place[i] = place[j] => i = j
              /\ \A i \in 1 .. n : Installed(tb, L)[place[i]].handle = L[i]
              /\ \A s \in HandleSlots :
                    (\A i \in 1 .. n : place[i] # s) => Installed(tb, L)[s] = tb[s]
<1> DEFINE free == {s \in HandleSlots : tb[s].handle = None}
           place == [i \in 1 .. n |-> Nth(free, i)]
           new == Installed(tb, L)
<1>1. free \in SUBSET Nat /\ IsFiniteSet(free) /\ Cardinality(free) \in Nat
  <2>1. free \in SUBSET HandleSlots
    OBVIOUS
  <2> QED BY <2>1, Pools, FS_Subset, FS_CardinalityType
<1>2. \A i \in 1 .. n : i \in 1 .. Cardinality(free)
  BY <1>1
<1>3. \A i \in 1 .. n : Nth(free, i) \in free
  <2> HIDE DEF free
  <2> QED BY <1>1, <1>2, NthIn
<1>4. \A i, j \in 1 .. n : Nth(free, i) = Nth(free, j) => i = j
  <2> HIDE DEF free
  <2> QED BY <1>1, <1>2, NthInjective
<1>5. DOMAIN L = 1 .. n
  OBVIOUS
<1>6. \A s \in HandleSlots :
         new[s] = IF \E i \in 1 .. n : Nth(free, i) = s
                  THEN [tb[s] EXCEPT !.handle = L[CHOOSE i \in 1 .. n : Nth(free, i) = s]]
                  ELSE tb[s]
  BY <1>5 DEF Installed
<1>7. new = [s \in HandleSlots |-> new[s]]
  BY DEF Installed
<1> HIDE DEF new
<1>8. \A i \in 1 .. n : (CHOOSE j \in 1 .. n : Nth(free, j) = Nth(free, i)) = i
  BY <1>4
<1>9. \A i \in 1 .. n : new[place[i]] = [tb[place[i]] EXCEPT !.handle = L[i]]
  <2> SUFFICES ASSUME NEW i \in 1 .. n PROVE new[place[i]] = [tb[place[i]] EXCEPT !.handle = L[i]]
    OBVIOUS
  <2>1. place[i] \in HandleSlots /\ place[i] = Nth(free, i)
    BY <1>3
  <2> HIDE DEF free, place
  <2> QED BY <2>1, <1>6, <1>8
<1>10. \A s \in HandleSlots : (\A i \in 1 .. n : place[i] # s) => new[s] = tb[s]
  BY <1>6
<1>11. \A s \in HandleSlots, h \in Ends : /\ [tb[s] EXCEPT !.handle = h] \in Entries
                                         /\ [tb[s] EXCEPT !.handle = h].handle = h
                                         /\ [tb[s] EXCEPT !.handle = h].generation = tb[s].generation
  BY DEF Entries
<1>12. place \in [1 .. n -> HandleSlots] /\ \A i \in 1 .. n : tb[place[i]].handle = None
  BY <1>3
<1>13. \A i, j \in 1 .. n : place[i] = place[j] => i = j
  BY <1>4
<1> HIDE DEF place, free
<1>14. \A s \in HandleSlots : new[s] \in Entries /\ new[s].generation = tb[s].generation
  <2> SUFFICES ASSUME NEW s \in HandleSlots PROVE new[s] \in Entries /\ new[s].generation = tb[s].generation
    OBVIOUS
  <2>1. CASE \E i \in 1 .. n : place[i] = s
    <3>1. PICK i \in 1 .. n : place[i] = s
      BY <2>1
    <3>2. new[s] = [tb[s] EXCEPT !.handle = L[i]] /\ L[i] \in Ends
      BY <3>1, <1>9
    <3> QED BY <3>2, <1>11
  <2>2. CASE \A i \in 1 .. n : place[i] # s
    BY <2>2, <1>10
  <2> QED BY <2>1, <2>2
<1>15. \A i \in 1 .. n : new[place[i]].handle = L[i]
  <2> SUFFICES ASSUME NEW i \in 1 .. n PROVE new[place[i]].handle = L[i]
    OBVIOUS
  <2>1. place[i] \in HandleSlots /\ L[i] \in Ends
    BY <1>12
  <2>2. new[place[i]] = [tb[place[i]] EXCEPT !.handle = L[i]]
    BY <1>9
  <2> QED BY <2>1, <2>2, <1>11
<1> QED BY <1>7, <1>10, <1>12, <1>13, <1>14, <1>15 DEF new

(* Handles put into a table add to its count what they are themselves. *)
LEMMA InstalledCount ==
  ASSUME NEW tb \in [HandleSlots -> Entries], NEW n \in Nat, NEW L \in [1 .. n -> Ends],
         n <= Cardinality({s \in HandleSlots : tb[s].handle = None}),
         NEW kind \in {"send", "receive"}, NEW q
  PROVE  Count(HandlesOf(Installed(tb, L)), kind, q) = Count(HandlesOf(tb), kind, q) + Count(L, kind, q)
<1> DEFINE new == Installed(tb, L)
<1>1. PICK place \in [1 .. n -> HandleSlots] :
        /\ \A i \in 1 .. n : tb[place[i]].handle = None
        /\ \A i, j \in 1 .. n : place[i] = place[j] => i = j
        /\ \A i \in 1 .. n : new[place[i]].handle = L[i]
        /\ \A s \in HandleSlots : (\A i \in 1 .. n : place[i] # s) => new[s] = tb[s]
  BY InstalledIs
<1>2. DOMAIN L = 1 .. n /\ IsFiniteSet(1 .. n) /\ IsFiniteSet(HandleSlots)
  BY FS_Interval, Pools
<1>3. DOMAIN HandlesOf(tb) = HandleSlots /\ DOMAIN HandlesOf(new) = HandleSlots
  BY DEF HandlesOf
<1>4. \A s \in HandleSlots : HandlesOf(tb)[s] = tb[s].handle /\ HandlesOf(new)[s] = new[s].handle
  BY DEF HandlesOf
<1> HIDE DEF new
<1>5. \A i \in 1 .. n : place[i] \in HandleSlots /\ HandlesOf(tb)[place[i]].kind # kind
  BY <1>1, <1>4, EndKinds
<1>6. \A i \in 1 .. n : HandlesOf(new)[place[i]] = L[i]
  BY <1>1, <1>4
<1>7. \A s \in HandleSlots : (\A i \in 1 .. n : place[i] # s) => HandlesOf(new)[s] = HandlesOf(tb)[s]
  BY <1>1, <1>4
<1>8. Count(HandlesOf(new), kind, q) = Count(HandlesOf(tb), kind, q) + Count(L, kind, q)
  <2> DEFINE G == HandlesOf(tb)
             H == HandlesOf(new)
  <2>1. Added(G, H, L, place, kind)
    BY <1>1, <1>2, <1>3, <1>5, <1>6, <1>7 DEF Added
  <2> HIDE DEF G, H
  <2>3. Count(H, kind, q) = Count(G, kind, q) + Count(L, kind, q)
    BY <2>1, CountAdded
  <2> QED BY <2>3 DEF G, H
<1> QED BY <1>8 DEF new

(* Handles put into a table are those it had and the ones put there. *)
LEMMA InstalledEntry ==
  ASSUME NEW tb \in [HandleSlots -> Entries], NEW n \in Nat, NEW L \in [1 .. n -> Ends],
         n <= Cardinality({s \in HandleSlots : tb[s].handle = None}), NEW s \in HandleSlots
  PROVE  \/ Installed(tb, L)[s] = tb[s]
         \/ tb[s].handle = None /\ \E i \in 1 .. n : Installed(tb, L)[s].handle = L[i]
<1> DEFINE new == Installed(tb, L)
<1>1. PICK place \in [1 .. n -> HandleSlots] :
        /\ \A i \in 1 .. n : tb[place[i]].handle = None
        /\ \A i, j \in 1 .. n : place[i] = place[j] => i = j
        /\ \A i \in 1 .. n : new[place[i]].handle = L[i]
        /\ \A r \in HandleSlots : (\A i \in 1 .. n : place[i] # r) => new[r] = tb[r]
  BY InstalledIs
<1> HIDE DEF new
<1> QED BY <1>1 DEF new

(* A slot whose handle is gone is called by the next generation. *)
LEMMA RetiredIs ==
  ASSUME NEW tb \in [HandleSlots -> Entries], NEW S \in SUBSET HandleSlots,
         \A s \in S : tb[s].generation <= MaxGeneration
  PROVE  /\ Retired(tb, S) \in [HandleSlots -> Entries]
         /\ \A s \in S : /\ Retired(tb, S)[s].handle = None
                         /\ Retired(tb, S)[s].generation = tb[s].generation + 1
         /\ \A s \in HandleSlots \ S : Retired(tb, S)[s] = tb[s]
<1>1. \A s \in HandleSlots : tb[s] \in Entries
  OBVIOUS
<1>2. \A s \in S : [handle |-> None, generation |-> tb[s].generation + 1] \in Entries
  BY <1>1, PortsAssumption DEF Entries, Ends
<1> QED BY <1>1, <1>2 DEF Retired, NextGeneration

(* What is taken out of a table is taken from its count. *)
LEMMA RetiredCount ==
  ASSUME NEW tb \in [HandleSlots -> Entries], NEW S \in SUBSET HandleSlots,
         \A s \in S : tb[s].generation <= MaxGeneration,
         NEW kind \in {"send", "receive"}, NEW q
  PROVE  /\ Count(HandlesOf(Retired(tb, S)), kind, q) =
              Count(HandlesOf(tb), kind, q) - Count(Restricted(HandlesOf(tb), S), kind, q)
         /\ Count(Restricted(HandlesOf(tb), S), kind, q) <= Count(HandlesOf(tb), kind, q)
<1> DEFINE new == Retired(tb, S)
<1>1. DOMAIN HandlesOf(tb) = HandleSlots /\ DOMAIN HandlesOf(new) = HandleSlots /\ IsFiniteSet(HandleSlots)
  BY Pools DEF HandlesOf
<1>2. \A s \in HandleSlots : HandlesOf(tb)[s] = tb[s].handle /\ HandlesOf(new)[s] = new[s].handle
  BY DEF HandlesOf
<1>3. \A s \in S : HandlesOf(new)[s].kind # kind
  BY <1>2, RetiredIs, EndKinds
<1>4. \A s \in HandleSlots \ S : HandlesOf(new)[s] = HandlesOf(tb)[s]
  BY <1>2, RetiredIs
<1> HIDE DEF new
<1>5. Count(HandlesOf(new), kind, q) =
        Count(HandlesOf(tb), kind, q) - Count(Restricted(HandlesOf(tb), S), kind, q)
  BY <1>1, <1>3, <1>4, CountTaken
<1>6. Count(Restricted(HandlesOf(tb), S), kind, q) <= Count(HandlesOf(tb), kind, q)
  BY <1>1, <1>3, <1>4, CountTaken
<1> QED BY <1>5, <1>6 DEF new

----------------------------------------------------------------------------
(* A port that loses handles.                                              *)

Live == {"open", "peer_closed"}

(* Changing a field leaves the others what they are. *)
LEMMA PortExcept ==
  ASSUME NEW po \in PortRecords
  PROVE  /\ \A n \in Int : [po EXCEPT !.send = n] \in PortRecords
         /\ \A n \in Int : [po EXCEPT !.receive = n] \in PortRecords
         /\ \A n \in Int : [po EXCEPT !.references = n] \in PortRecords
         /\ \A n \in Int : [po EXCEPT !.bytes = n] \in PortRecords
         /\ \A m \in MessageSlots \cup {0} : [po EXCEPT !.head = m] \in PortRecords
         /\ \A m \in MessageSlots \cup {0} : [po EXCEPT !.tail = m] \in PortRecords
         /\ \A k \in Nat : [po EXCEPT !.count = k] \in PortRecords
<1>1. \A n \in Int : [po EXCEPT !.send = n] \in PortRecords
  BY DEF PortRecords
<1>2. \A n \in Int : [po EXCEPT !.receive = n] \in PortRecords
  BY DEF PortRecords
<1>3. \A n \in Int : [po EXCEPT !.references = n] \in PortRecords
  BY DEF PortRecords
<1>4. \A n \in Int : [po EXCEPT !.bytes = n] \in PortRecords
  BY DEF PortRecords
<1>5. \A m \in MessageSlots \cup {0} : [po EXCEPT !.head = m] \in PortRecords
  BY DEF PortRecords
<1>6. \A m \in MessageSlots \cup {0} : [po EXCEPT !.tail = m] \in PortRecords
  BY DEF PortRecords
<1>7. \A k \in Nat : [po EXCEPT !.count = k] \in PortRecords
  BY DEF PortRecords
<1> QED BY <1>1, <1>2, <1>3, <1>4, <1>5, <1>6, <1>7

(* What becomes of a port that loses handles is sound, and has the same queue or none. *)
LEMMA DroppedIs ==
  ASSUME NEW po \in PortRecords, Sound(po), NEW n \in Nat, NEW r \in Nat,
         n <= po.send, r <= po.receive, NEW shut \in BOOLEAN,
         shut => po.state \in Live,
         po.state \in Live /\ r > 0 => shut
  PROVE  LET d == Dropped(po, n, r, shut) IN
         /\ d \in PortRecords /\ Sound(d)
         /\ d.send = po.send - n /\ d.receive = po.receive - r
         /\ shut => d.state \in {"closing", "free"} /\ d.count = 0
         /\ ~shut => /\ d.head = po.head /\ d.tail = po.tail
                     /\ d.count = po.count /\ d.bytes = po.bytes
                     /\ po.state \in Live => d.owner = po.owner /\ d.state \in {po.state, "peer_closed"}
                     /\ po.state \notin Live => d.state \in {po.state, "free"}
         /\ d.receive = 1 => d.owner = po.owner
<1> DEFINE f == Fewer(po, n, r)
           q == [f EXCEPT !.state = StateAfter(f, shut)]
           e == IF shut THEN Emptied(q) ELSE q
           d == Dropped(po, n, r, shut)
<1>1. /\ f \in PortRecords
      /\ f.send = po.send - n /\ f.receive = po.receive - r /\ f.references = po.references - n - r
      /\ f.state = po.state /\ f.owner = po.owner /\ f.head = po.head /\ f.tail = po.tail
      /\ f.count = po.count /\ f.bytes = po.bytes
  <2>1. po.send \in Int /\ po.receive \in Int /\ po.references \in Int
    BY DEF PortRecords
  <2>2. f \in PortRecords
    <3>1. po.send - n \in Int /\ po.receive - r \in Int /\ po.references - n - r \in Int
      BY <2>1
    <3> DEFINE a == [po EXCEPT !.send = po.send - n]
               b == [a EXCEPT !.receive = po.receive - r]
               c == [b EXCEPT !.references = po.references - n - r]
    <3>2. a \in PortRecords
      BY <3>1, PortExcept
    <3>3. b \in PortRecords
      <4> HIDE DEF a
      <4> QED BY <3>1, <3>2, PortExcept
    <3>4. c \in PortRecords
      <4> HIDE DEF b
      <4> QED BY <3>1, <3>3, PortExcept
    <3>5. f = c
      BY DEF Fewer
    <3> QED BY <3>4, <3>5
  <2>3. f.send = po.send - n /\ f.receive = po.receive - r /\ f.references = po.references - n - r
    BY DEF Fewer, PortRecords
  <2>4. f.state = po.state /\ f.owner = po.owner /\ f.head = po.head /\ f.tail = po.tail
        /\ f.count = po.count /\ f.bytes = po.bytes
    BY DEF Fewer, PortRecords
  <2> HIDE DEF f
  <2> QED BY <2>2, <2>3, <2>4
<1>2. StateAfter(f, shut) \in {"free", "open", "peer_closed", "closing"}
  BY <1>1 DEF StateAfter, PortRecords
<1> HIDE DEF f
<1>3. /\ q \in PortRecords /\ q.state = StateAfter(f, shut)
      /\ q.send = f.send /\ q.receive = f.receive /\ q.references = f.references
      /\ q.owner = f.owner /\ q.head = f.head /\ q.tail = f.tail /\ q.count = f.count /\ q.bytes = f.bytes
  BY <1>1, <1>2 DEF PortRecords
<1> HIDE DEF q
<1>4. /\ Emptied(q) \in PortRecords /\ Emptied(q).state = q.state
      /\ Emptied(q).send = q.send /\ Emptied(q).receive = q.receive
      /\ Emptied(q).references = q.references /\ Emptied(q).owner = q.owner
      /\ Emptied(q).head = 0 /\ Emptied(q).tail = 0 /\ Emptied(q).count = 0 /\ Emptied(q).bytes = 0
  <2>1. q \in PortRecords
    BY <1>3
  <2> DEFINE g == Emptied(q)
  <2>2. g \in PortRecords
    <3> DEFINE a == [q EXCEPT !.head = 0]
               b == [a EXCEPT !.tail = 0]
               c == [b EXCEPT !.count = 0]
               z == [c EXCEPT !.bytes = 0]
    <3>2. a \in PortRecords
      BY <2>1, PortExcept
    <3>3. b \in PortRecords
      <4> HIDE DEF a
      <4> QED BY <3>2, PortExcept
    <3>4. c \in PortRecords
      <4> HIDE DEF b
      <4> QED BY <3>3, PortExcept
    <3>5. z \in PortRecords
      <4> HIDE DEF c
      <4> QED BY <3>4, PortExcept
    <3>6. g = z
      BY DEF Emptied
    <3> QED BY <3>5, <3>6
  <2>3. g.head = 0 /\ g.tail = 0 /\ g.count = 0 /\ g.bytes = 0
    BY <2>1 DEF PortRecords, Emptied
  <2>4. g.state = q.state /\ g.send = q.send /\ g.receive = q.receive
        /\ g.references = q.references /\ g.owner = q.owner
    BY <2>1 DEF PortRecords, Emptied
  <2> HIDE DEF g
  <2>5. g \in PortRecords /\ g.head = 0 /\ g.tail = 0 /\ g.count = 0 /\ g.bytes = 0
        /\ g.state = q.state /\ g.send = q.send /\ g.receive = q.receive
        /\ g.references = q.references /\ g.owner = q.owner
    BY <2>2, <2>3, <2>4
  <2> QED BY <2>5 DEF g
<1>5. /\ e \in PortRecords /\ e.state = q.state /\ e.send = q.send /\ e.receive = q.receive
      /\ e.references = q.references /\ e.owner = q.owner
  BY <1>3, <1>4
<1>6. /\ shut => e.head = 0 /\ e.tail = 0 /\ e.count = 0 /\ e.bytes = 0
      /\ ~shut => e.head = q.head /\ e.tail = q.tail /\ e.count = q.count /\ e.bytes = q.bytes
  BY <1>4
<1> HIDE DEF e
<1>7. d = IF e.state = "closing" /\ e.references = 0 /\ e.count = 0 THEN FreePort ELSE e
  BY DEF Dropped, e, q, f
<1> HIDE DEF d
<1>8. /\ FreePort \in PortRecords /\ FreePort.state = "free" /\ FreePort.send = 0 /\ FreePort.receive = 0
      /\ FreePort.references = 0 /\ FreePort.head = 0 /\ FreePort.tail = 0 /\ FreePort.count = 0
      /\ FreePort.bytes = 0
  BY Shapes DEF FreePort
<1>9. /\ po.send \in Nat /\ po.receive \in 0 .. 1 /\ po.references = po.send + po.receive
      /\ po.send <= MaxReferences /\ po.count \in Nat /\ MaxReferences \in Nat
      /\ po.state \in {"free", "open", "peer_closed", "closing"}
      /\ po.bytes \in Int /\ MaxMessages \in Nat /\ MaxBytes \in Nat
  BY PortsAssumption DEF Sound, PortRecords
<1>10. e.send = po.send - n /\ e.receive = po.receive - r /\ e.references = e.send + e.receive
       /\ e.send \in 0 .. MaxReferences /\ e.receive \in 0 .. 1 /\ e.owner = po.owner
  BY <1>1, <1>3, <1>5, <1>9
<1>11. e.state = StateAfter(f, shut)
  BY <1>3, <1>5
<1>12. CASE shut
  <2>1. e.state = "closing" /\ e.count = 0 /\ e.head = 0 /\ e.tail = 0 /\ e.bytes = 0
    BY <1>12, <1>11, <1>6 DEF StateAfter
  <2>2. CASE e.references = 0
    <3>1. d = FreePort /\ e.send = 0 /\ e.receive = 0
      BY <2>1, <2>2, <1>7, <1>10
    <3>2. Sound(d)
      BY <3>1, <1>8, <1>9 DEF Sound
    <3>3. d.send = po.send - n /\ d.receive = po.receive - r /\ d \in PortRecords
          /\ d.state = "free" /\ d.count = 0 /\ d.receive = 0
      BY <3>1, <1>8, <1>10
    <3>4. /\ d \in PortRecords /\ Sound(d)
          /\ d.send = po.send - n /\ d.receive = po.receive - r
      BY <3>2, <3>3
    <3>5. shut => d.state \in {"closing", "free"} /\ d.count = 0
      BY <3>3
    <3>6. ~(d.receive = 1)
      BY <3>3
    <3> QED BY <1>12, <3>4, <3>5, <3>6 DEF d
  <2>3. CASE e.references # 0
    <3>1. d = e
      BY <2>3, <1>7
    <3>2. Sound(d)
      BY <3>1, <2>1, <2>3, <1>9, <1>10 DEF Sound
    <3> QED BY <1>12, <3>1, <3>2, <2>1, <1>5, <1>10 DEF d
  <2> QED BY <2>2, <2>3
<1>13. CASE ~shut
  <2>1. e.count = po.count /\ e.head = po.head /\ e.tail = po.tail /\ e.bytes = po.bytes
    BY <1>13, <1>6, <1>3, <1>1
  <2>2. e.state = IF po.state = "open" /\ e.send = 0 THEN "peer_closed" ELSE po.state
    BY <1>13, <1>11, <1>1, <1>10 DEF StateAfter
  <2>3. CASE po.state \in Live
    <3>1. d = e /\ e.state \in {po.state, "peer_closed"} /\ e.state \in Live /\ e.receive = 1
          /\ po.owner \in Processes /\ (e.state = "open" => e.send > 0)
      BY <2>2, <2>3, <1>7, <1>9, <1>10, <1>13 DEF Live, Sound
    <3>2. Sound(d)
      BY <3>1, <2>1, <1>9, <1>10 DEF Sound, Live
    <3> QED BY <1>13, <2>1, <2>3, <3>1, <3>2, <1>5, <1>10 DEF d
  <2>4. CASE po.state = "closing"
    <3>1. e.state = "closing" /\ po.count = 0 /\ po.head = 0 /\ po.tail = 0 /\ po.bytes = 0
      BY <2>2, <2>4 DEF Sound
    <3>2. CASE e.references = 0
      <4>1. d = FreePort /\ e.send = 0 /\ e.receive = 0
        BY <3>1, <3>2, <2>1, <1>7, <1>10
      <4>2. Sound(d)
        BY <4>1, <1>8, <1>9 DEF Sound
      <4> QED BY <1>13, <4>1, <4>2, <3>1, <2>4, <1>8, <1>10 DEF d, Live
    <3>3. CASE e.references # 0
      <4>1. d = e
        BY <3>3, <1>7
      <4>2. Sound(d)
        BY <4>1, <3>1, <3>3, <2>1, <1>9, <1>10 DEF Sound
      <4> QED BY <1>13, <4>1, <4>2, <3>1, <2>1, <2>4, <1>5, <1>10 DEF d, Live
    <3> QED BY <3>2, <3>3
  <2>5. CASE po.state = "free"
    <3>a. po = FreePort /\ e.state = "free"
      BY <2>2, <2>5 DEF Sound
    <3>b. d = e
      BY <3>a, <1>7
    <3>1. d = e /\ po = FreePort /\ e.state = "free" /\ e.send = 0 /\ e.receive = 0 /\ e.references = 0
      BY <3>a, <3>b, <1>8, <1>9, <1>10
    <3>c. e.owner = FreePort.owner /\ e.head = FreePort.head /\ e.tail = FreePort.tail
          /\ e.count = FreePort.count /\ e.bytes = FreePort.bytes /\ e.state = FreePort.state
          /\ e.send = FreePort.send /\ e.receive = FreePort.receive /\ e.references = FreePort.references
      BY <3>1, <2>1, <1>8, <1>10
    <3>2. d = FreePort
      <4>1. e = [state |-> e.state, owner |-> e.owner, references |-> e.references,
                 send |-> e.send, receive |-> e.receive, head |-> e.head,
                 tail |-> e.tail, count |-> e.count, bytes |-> e.bytes]
        BY <1>5 DEF PortRecords
      <4> QED BY <3>1, <3>c, <4>1 DEF FreePort
    <3>3. Sound(d)
      BY <3>2, <1>8, <1>9 DEF Sound
    <3> QED BY <1>13, <3>1, <3>2, <3>3, <2>1, <2>5, <1>5, <1>8, <1>10 DEF d, Live
  <2> QED BY <2>3, <2>4, <2>5, <1>9 DEF Live
<1> QED BY <1>12, <1>13

----------------------------------------------------------------------------
(* Letting go of handles.                                                  *)

Shut(H, P) == {p \in PortSlots : p \in P \/ (Active(p) /\ Receives(H, p) > 0)}
Lost(H, P) == Restricted(detached, Discarded(Shut(H, P)))
After(H, P, p) ==
  Dropped(port[p], Sends(H, p) + Sends(Lost(H, P), p), Receives(H, p), p \in Shut(H, P))
Hung(H, P) == {p \in PortSlots : port[p].state = "open" /\ After(H, P, p).state = "peer_closed"}

(* The parts of LetGo by name. *)
LEMMA LetGoIs ==
  ASSUME NEW H, NEW P, NEW th, LetGo(H, P, th)
  PROVE  /\ port' = [p \in PortSlots |-> After(H, P, p)]
         /\ message' = [m \in MessageSlots |->
                          IF m \in QueuedAt(Shut(H, P)) THEN FreeMessage ELSE message[m]]
         /\ detached' = [d \in DetachedSlots |->
                           IF d \in Discarded(Shut(H, P)) THEN None ELSE detached[d]]
BY DEF LetGo, Shut, Lost, After

(* What may be let go: handles there are, and ports that exist. *)
MayLetGo(H, P) ==
  /\ IsFiniteSet(DOMAIN H)
  /\ P \subseteq {q \in PortSlots : Active(q)}
  /\ \A q \in PortSlots : /\ Sends(H, q) <= Sends(AllHandles, q)
                          /\ Receives(H, q) <= Receives(AllHandles, q)

(* The handles of a message are in places for handles. *)
LEMMA AttachedType ==
  ASSUME Typed, NEW m \in MessageSlots
  PROVE  /\ message[m].handles \in Seq(DetachedSlots)
         /\ DOMAIN message[m].handles = 1 .. Len(message[m].handles)
         /\ Attached(m) \subseteq DetachedSlots
<1>1. message[m].handles \in Seq(DetachedSlots)
  BY DEF Typed, MessageRecords
<1> QED BY <1>1 DEF Attached

(* Of the detached handles those in discarded messages are lost. *)
LEMMA LostCount ==
  ASSUME Typed, NEW S \in SUBSET DetachedSlots, NEW q,
         detached' = [d \in DetachedSlots |-> IF d \in S THEN None ELSE detached[d]]
  PROVE  /\ Sends(Restricted(detached, S), q) \in Nat
         /\ Sends(Restricted(detached, S), q) <= Sends(detached, q)
         /\ Sends(detached', q) = Sends(detached, q) - Sends(Restricted(detached, S), q)
         /\ detached' \in [DetachedSlots -> PortHandles \cup {None}]
<1> DEFINE G == detached
           new == detached'
<1>1. detached \in [DetachedSlots -> PortHandles \cup {None}]
  BY DEF Typed
<1>2. /\ DOMAIN G = DetachedSlots /\ DOMAIN new = DetachedSlots /\ IsFiniteSet(DetachedSlots)
      /\ \A x \in S : new[x].kind # "send"
      /\ \A x \in DOMAIN G \ S : new[x] = G[x]
  BY <1>1, Pools, EndKinds
<1>3. detached' \in [DetachedSlots -> PortHandles \cup {None}]
  BY <1>1
<1> HIDE DEF G, new
<1>4. /\ Count(new, "send", q) = Count(G, "send", q) - Count(Restricted(G, S), "send", q)
      /\ Count(Restricted(G, S), "send", q) <= Count(G, "send", q)
      /\ Count(Restricted(G, S), "send", q) \in Nat
  BY <1>2, CountTaken
<1> QED BY <1>3, <1>4, Counts DEF G, new

(* The counts of all the handles there are. *)
LEMMA AllCounts ==
  ASSUME Typed, NEW q
  PROVE  /\ Sends(AllHandles, q) \in Nat /\ Receives(AllHandles, q) \in Nat
         /\ Sends(detached, q) \in Nat
         /\ AllHandles = Flat(table)
<1>1. AllHandles = Flat(table)
  BY DEF AllHandles, Flat, Handle
<1>2. IsFiniteSet(Processes \X HandleSlots) /\ IsFiniteSet(DetachedSlots)
  BY Pools, PortsAssumption, FS_Product
<1>3. DOMAIN Flat(table) = Processes \X HandleSlots /\ DOMAIN detached = DetachedSlots
  BY DEF Flat, Typed
<1> QED BY <1>1, <1>2, <1>3, CountType, Counts

(* Every port is what it was, less the handles let go and lost. *)
LEMMA LetGoPorts ==
  ASSUME Typed, PortInv, CountInv, NEW H, NEW P, NEW th, LetGo(H, P, th), MayLetGo(H, P)
  PROVE  /\ port' \in [PortSlots -> PortRecords] /\ PortInv'
         /\ Shut(H, P) \subseteq {q \in PortSlots : Active(q)}
         /\ \A q \in PortSlots :
              /\ port'[q].send = port[q].send - Sends(H, q) - Sends(Lost(H, P), q)
              /\ port'[q].receive = port[q].receive - Receives(H, q)
              /\ q \in Shut(H, P) => port'[q].state \in {"closing", "free"} /\ port'[q].count = 0
              /\ q \notin Shut(H, P) =>
                    /\ port'[q].head = port[q].head /\ port'[q].tail = port[q].tail
                    /\ port'[q].count = port[q].count /\ port'[q].bytes = port[q].bytes
                    /\ Active(q) => /\ port'[q].owner = port[q].owner
                                    /\ port'[q].state \in {port[q].state, "peer_closed"}
                    /\ ~Active(q) => port'[q].state \in {port[q].state, "free"}
              /\ port'[q].receive = 1 => port'[q].owner = port[q].owner
              /\ q \in Hung(H, P) <=> port[q].state = "open" /\ port'[q].state = "peer_closed"
<1>1. /\ port' = [p \in PortSlots |-> After(H, P, p)]
      /\ detached' = [d \in DetachedSlots |->
                        IF d \in Discarded(Shut(H, P)) THEN None ELSE detached[d]]
  BY LetGoIs
<1>2. Shut(H, P) \subseteq {q \in PortSlots : Active(q)}
  BY DEF Shut, MayLetGo
<1>3. Discarded(Shut(H, P)) \in SUBSET DetachedSlots
  BY AttachedType DEF Discarded, QueuedAt
<1>4. ASSUME NEW q \in PortSlots
      PROVE  /\ port'[q] \in PortRecords /\ Sound(port'[q])
             /\ port'[q].send = port[q].send - Sends(H, q) - Sends(Lost(H, P), q)
             /\ port'[q].receive = port[q].receive - Receives(H, q)
             /\ q \in Shut(H, P) => port'[q].state \in {"closing", "free"} /\ port'[q].count = 0
             /\ q \notin Shut(H, P) =>
                   /\ port'[q].head = port[q].head /\ port'[q].tail = port[q].tail
                   /\ port'[q].count = port[q].count /\ port'[q].bytes = port[q].bytes
                   /\ Active(q) => /\ port'[q].owner = port[q].owner
                                   /\ port'[q].state \in {port[q].state, "peer_closed"}
                   /\ ~Active(q) => port'[q].state \in {port[q].state, "free"}
             /\ port'[q].receive = 1 => port'[q].owner = port[q].owner
             /\ q \in Hung(H, P) <=> port[q].state = "open" /\ port'[q].state = "peer_closed"
    <2> DEFINE po == port[q]
               n == Sends(H, q) + Sends(Lost(H, P), q)
               r == Receives(H, q)
               shut == q \in Shut(H, P)
               d == port'[q]
    <2>1. d = Dropped(po, n, r, shut)
      BY <1>1 DEF After
    <2>2. po \in PortRecords /\ Sound(po)
      BY DEF Typed, PortInv
    <2>3. Sends(Lost(H, P), q) \in Nat /\ Sends(Lost(H, P), q) <= Sends(detached, q)
      BY <1>1, <1>3, LostCount DEF Lost
    <2>4. Sends(H, q) \in Nat /\ Receives(H, q) \in Nat
      BY CountType, Counts DEF MayLetGo
    <2>5. Sends(H, q) <= Sends(AllHandles, q) /\ Receives(H, q) <= Receives(AllHandles, q)
      BY DEF MayLetGo
    <2>6. po.send = Sends(AllHandles, q) + Sends(detached, q) /\ po.receive = Receives(AllHandles, q)
      BY DEF CountInv
    <2>7. n \in Nat /\ r \in Nat /\ n <= po.send /\ r <= po.receive
      BY <2>3, <2>4, <2>5, <2>6, AllCounts
    <2>8. shut \in BOOLEAN /\ (shut => po.state \in Live) /\ (Active(q) <=> po.state \in Live)
      BY <1>2 DEF Active, Live
    <2>9. po.state \in Live /\ r > 0 => shut
      BY <2>8 DEF Shut
    <2>10. q \in Hung(H, P) <=> po.state = "open" /\ d.state = "peer_closed"
      BY <1>1 DEF Hung
    <2>11. po.send \in Int
      BY <2>2 DEF PortRecords
    <2> HIDE DEF po, n, r, shut, d
    <2>12. /\ d \in PortRecords /\ Sound(d)
           /\ d.send = po.send - n /\ d.receive = po.receive - r
           /\ shut => d.state \in {"closing", "free"} /\ d.count = 0
           /\ ~shut => /\ d.head = po.head /\ d.tail = po.tail
                       /\ d.count = po.count /\ d.bytes = po.bytes
                       /\ po.state \in Live => d.owner = po.owner /\ d.state \in {po.state, "peer_closed"}
                       /\ po.state \notin Live => d.state \in {po.state, "free"}
           /\ d.receive = 1 => d.owner = po.owner
      BY <2>1, <2>2, <2>7, <2>8, <2>9, DroppedIs
    <2>13. d.send = po.send - Sends(H, q) - Sends(Lost(H, P), q)
      BY <2>12, <2>3, <2>4, <2>11 DEF n
    <2> QED BY <2>8, <2>10, <2>12, <2>13 DEF po, r, shut, d
<1>5. port' \in [PortSlots -> PortRecords]
  BY <1>1, <1>4
<1>6. PortInv'
  BY <1>4 DEF PortInv
<1> QED BY <1>2, <1>4, <1>5, <1>6

(* The messages of the ports that stay open are what they were, and the others free. *)
LEMMA LetGoMessages ==
  ASSUME Typed, PortInv, CountInv, NEW H, NEW P, NEW th, LetGo(H, P, th), MayLetGo(H, P)
  PROVE  /\ message' \in [MessageSlots -> MessageRecords]
         /\ \A m \in MessageSlots :
              /\ message[m].port \in Shut(H, P) => message'[m] = FreeMessage
              /\ message[m].port \notin Shut(H, P) => message'[m] = message[m]
<1>1. message' = [m \in MessageSlots |->
                    IF m \in QueuedAt(Shut(H, P)) THEN FreeMessage ELSE message[m]]
  BY LetGoIs
<1>2. \A m \in MessageSlots : m \in QueuedAt(Shut(H, P)) <=> message[m].port \in Shut(H, P)
  BY DEF QueuedAt
<1>3. \A m \in MessageSlots : message'[m] = IF message[m].port \in Shut(H, P) THEN FreeMessage ELSE message[m]
  BY <1>1, <1>2
<1>4. message \in [MessageSlots -> MessageRecords] /\ FreeMessage \in MessageRecords
  BY Shapes DEF Typed
<1> QED BY <1>1, <1>3, <1>4

(* The queues of the ports that stay open are the same, and those of the others empty. *)
LEMMA LetGoQueues ==
  ASSUME Typed, PortInv, CountInv, QueueInv, NEW H, NEW P, NEW th, LetGo(H, P, th), MayLetGo(H, P)
  PROVE  QueueInv'
<1> SUFFICES ASSUME NEW q \in PortSlots
             PROVE  \E w \in [1 .. port'[q].count -> MessageSlots],
                       rest \in [1 .. port'[q].count + 1 -> Nat] : Links(q, w)' /\ Bytes(q, w, rest)'
  BY DEF QueueInv
<1>1. \A m \in MessageSlots :
        /\ message[m].port \in Shut(H, P) => message'[m] = FreeMessage
        /\ message[m].port \notin Shut(H, P) => message'[m] = message[m]
  BY LetGoMessages
<1>2. QueuedAt({q})' = {m \in MessageSlots : message'[m].port = q} /\ QueuedAt({q}) = {m \in MessageSlots : message[m].port = q}
  BY DEF QueuedAt
<1>3. FreeMessage.port = 0 /\ q # 0
  BY Pools DEF FreeMessage
<1>4. CASE q \in Shut(H, P)
  <2>1. port'[q].count = 0 /\ Sound(port'[q]) /\ port'[q] \in PortRecords
    BY <1>4, LetGoPorts DEF PortInv
  <2>2. port'[q].head = 0 /\ port'[q].tail = 0 /\ port'[q].bytes = 0
    BY <2>1 DEF Sound
  <2>3. QueuedAt({q})' = {}
    BY <1>1, <1>2, <1>3, <1>4
  <2> DEFINE w == [i \in 1 .. 0 |-> 0]
             rest == [i \in 1 .. 1 |-> 0]
  <2>4. w \in [1 .. port'[q].count -> MessageSlots] /\ rest \in [1 .. port'[q].count + 1 -> Nat]
    BY <2>1
  <2>5. Links(q, w)'
    BY <2>1, <2>2, <2>3 DEF Links
  <2>6. Bytes(q, w, rest)'
    BY <2>1, <2>2 DEF Bytes
  <2> QED BY <2>4, <2>5, <2>6
<1>5. CASE q \notin Shut(H, P)
  <2>1. /\ port'[q].head = port[q].head /\ port'[q].tail = port[q].tail
        /\ port'[q].count = port[q].count /\ port'[q].bytes = port[q].bytes
    BY <1>5, LetGoPorts
  <2>2. PICK w \in [1 .. port[q].count -> MessageSlots], rest \in [1 .. port[q].count + 1 -> Nat] :
           Links(q, w) /\ Bytes(q, w, rest)
    BY DEF QueueInv
  <2>3. \A m \in MessageSlots : message[m].port = q => message'[m] = message[m]
    BY <1>1, <1>5
  <2>4. QueuedAt({q})' = QueuedAt({q})
    BY <1>1, <1>2, <1>3, <1>5
  <2>5. ASSUME NEW i \in 1 .. port[q].count
        PROVE  message'[w[i]] = message[w[i]]
    <3>1. w[i] \in MessageSlots /\ w[i] \in QueuedAt({q})
      BY <2>2 DEF Links
    <3> QED BY <3>1, <2>3, <1>2
  <2>6. Links(q, w)'
    <3> DEFINE n == port[q].count
    <3>1. /\ \A i, j \in 1 .. n : w[i] = w[j] => i = j
          /\ QueuedAt({q}) = {w[i] : i \in 1 .. n}
          /\ n = 0 => port[q].head = 0 /\ port[q].tail = 0
          /\ n > 0 => port[q].head = w[1] /\ port[q].tail = w[n]
          /\ \A i \in 1 .. n : message[w[i]].next = IF i = n THEN 0 ELSE w[i + 1]
      BY <2>2 DEF Links
    <3>2. \A i \in 1 .. n : message'[w[i]].next = IF i = n THEN 0 ELSE w[i + 1]
      BY <3>1, <2>5
    <3> HIDE DEF n
    <3> QED BY <3>1, <3>2, <2>1, <2>4 DEF Links, n
  <2>7. Bytes(q, w, rest)'
    BY <2>1, <2>2, <2>5 DEF Bytes
  <2> QED BY <2>1, <2>2, <2>6, <2>7
<1> QED BY <1>4, <1>5

(* A handle in transit is lost with its message, and only with it. *)
LEMMA LetGoTransit ==
  ASSUME Typed, PortInv, CountInv, TransitInv, NEW H, NEW P, NEW th, LetGo(H, P, th), MayLetGo(H, P)
  PROVE  TransitInv'
<1> DEFINE S == Shut(H, P)
<1>1. \A m \in MessageSlots : /\ message[m].port \in S => message'[m] = FreeMessage
                              /\ message[m].port \notin S => message'[m] = message[m]
  BY LetGoMessages
<1>2. /\ \A q \in PortSlots : q \notin S /\ Active(q) => Active(q)'
      /\ 0 \notin S
  BY LetGoPorts, Pools DEF Active
<1>3. detached' = [d \in DetachedSlots |-> IF d \in Discarded(S) THEN None ELSE detached[d]]
  BY LetGoIs
<1>4. FreeMessage.port = 0 /\ FreeMessage.handles = <<>>
  BY DEF FreeMessage
<1>5. \A m \in MessageSlots : /\ message[m].port \in S => Attached(m)' = {}
                              /\ message[m].port \notin S => Attached(m)' = Attached(m)
  BY <1>1, <1>4 DEF Attached
<1>6. \A d : d \in Discarded(S) <=> \E m \in MessageSlots : message[m].port \in S /\ d \in Attached(m)
  BY DEF Discarded, QueuedAt
<1> HIDE DEF S
<1>7. ASSUME NEW m \in MessageSlots
      PROVE  /\ message'[m].port = 0 => message'[m] = FreeMessage
             /\ message'[m].port # 0 => Active(message[m].port)' /\ message'[m].port = message[m].port
             /\ \A i, j \in DOMAIN message'[m].handles :
                   message'[m].handles[i] = message'[m].handles[j] => i = j
  <2>1. CASE message[m].port \in S
    BY <2>1, <1>1, <1>4
  <2>2. CASE message[m].port \notin S
    <3>1. message'[m] = message[m] /\ message[m].port \in PortSlots \cup {0}
      BY <2>2, <1>1 DEF Typed, MessageRecords
    <3>2. message[m].port # 0 => Active(message[m].port)'
      BY <3>1, <2>2, <1>2 DEF TransitInv
    <3> QED BY <3>1, <3>2 DEF TransitInv
  <2> QED BY <2>1, <2>2
<1>8. ASSUME NEW d \in DetachedSlots
      PROVE  detached'[d] # None <=> \E m \in MessageSlots : message'[m].port # 0 /\ d \in Attached(m)'
  <2>1. CASE d \in Discarded(S)
    <3>1. PICK l \in MessageSlots : message[l].port \in S /\ d \in Attached(l)
      BY <2>1, <1>6
    <3>2. \A m \in MessageSlots : m # l => d \notin Attached(m)
      BY <3>1 DEF TransitInv
    <3>3. \A m \in MessageSlots : d \notin Attached(m)'
      BY <3>1, <3>2, <1>5
    <3> QED BY <2>1, <3>3, <1>3
  <2>2. CASE d \notin Discarded(S)
    <3>1. detached'[d] = detached[d]
      BY <2>2, <1>3
    <3>2. detached[d] # None <=> \E m \in MessageSlots : message[m].port # 0 /\ d \in Attached(m)
      BY DEF TransitInv
    <3>3. \A m \in MessageSlots : d \in Attached(m) => message[m].port \notin S
      BY <2>2, <1>6
    <3>4. \A m \in MessageSlots : message[m].port # 0 /\ d \in Attached(m) <=> message'[m].port # 0 /\ d \in Attached(m)'
      <4> SUFFICES ASSUME NEW m \in MessageSlots
                   PROVE  message[m].port # 0 /\ d \in Attached(m) <=> message'[m].port # 0 /\ d \in Attached(m)'
        OBVIOUS
      <4>1. CASE message[m].port \in S
        BY <4>1, <3>3, <1>5
      <4>2. CASE message[m].port \notin S
        BY <4>2, <1>1, <1>5
      <4> QED BY <4>1, <4>2
    <3> QED BY <3>1, <3>2, <3>4
  <2> QED BY <2>1, <2>2
<1>9. ASSUME NEW m \in MessageSlots, NEW l \in MessageSlots, m # l
      PROVE  Attached(m)' \cap Attached(l)' = {}
  <2>1. Attached(m) \cap Attached(l) = {}
    BY <1>9 DEF TransitInv
  <2>2. Attached(m)' \subseteq Attached(m) /\ Attached(l)' \subseteq Attached(l)
    BY <1>5
  <2> QED BY <2>1, <2>2
<1>10. \A m \in MessageSlots : message'[m].port # 0 => Active(message[m].port)' /\ message'[m].port = message[m].port
  BY <1>7
<1>11. \A m \in MessageSlots : message'[m].port # 0 => port'[message'[m].port].state \in Live
  <2> SUFFICES ASSUME NEW m \in MessageSlots, message'[m].port # 0
               PROVE  port'[message'[m].port].state \in Live
    OBVIOUS
  <2>1. Active(message[m].port)' /\ message'[m].port = message[m].port
    BY <1>10
  <2> QED BY <2>1, <1>1, <1>4 DEF Active, Live
<1> QED BY <1>7, <1>8, <1>9, <1>11 DEF TransitInv, Active, Live

(* The counts of all ports are exact again when the tables are without the handles let go. *)
LEMMA LetGoCounts ==
  ASSUME Typed, Typed', PortInv, CountInv, NEW H, NEW P, NEW th, LetGo(H, P, th), MayLetGo(H, P),
         \A q \in PortSlots : /\ Sends(AllHandles, q)' = Sends(AllHandles, q) - Sends(H, q)
                              /\ Receives(AllHandles, q)' = Receives(AllHandles, q) - Receives(H, q),
         \A p \in Processes, s \in HandleSlots :
            Handle(p, s)'.kind = "receive" => Handle(p, s)' = Handle(p, s)
  PROVE  CountInv'
<1>1. \A q \in PortSlots :
        /\ port'[q].send = port[q].send - Sends(H, q) - Sends(Lost(H, P), q)
        /\ port'[q].receive = port[q].receive - Receives(H, q)
        /\ port'[q].receive = 1 => port'[q].owner = port[q].owner
  BY LetGoPorts
<1>2. Discarded(Shut(H, P)) \in SUBSET DetachedSlots
  BY AttachedType DEF Discarded, QueuedAt
<1>3. detached' = [d \in DetachedSlots |-> IF d \in Discarded(Shut(H, P)) THEN None ELSE detached[d]]
  BY LetGoIs
<1>4. ASSUME NEW q \in PortSlots
      PROVE  /\ port'[q].send = Sends(AllHandles, q)' + Sends(detached', q)
             /\ port'[q].receive = Receives(AllHandles, q)'
  <2>1. port[q].send = Sends(AllHandles, q) + Sends(detached, q) /\ port[q].receive = Receives(AllHandles, q)
    BY DEF CountInv
  <2>2. /\ Sends(detached', q) = Sends(detached, q) - Sends(Lost(H, P), q)
        /\ Sends(Lost(H, P), q) \in Nat
    BY <1>2, <1>3, LostCount DEF Lost
  <2>3. Sends(H, q) \in Nat /\ Receives(H, q) \in Nat
    BY CountType, Counts DEF MayLetGo
  <2> QED BY <1>1, <2>1, <2>2, <2>3, AllCounts
<1>5. ASSUME NEW p \in Processes, NEW s \in HandleSlots, Handle(p, s)'.kind = "receive"
      PROVE  p = port'[Handle(p, s)'.port].owner
  <2> DEFINE q == Handle(p, s).port
  <2>1. Handle(p, s)' = Handle(p, s) /\ Handle(p, s).kind = "receive"
    BY <1>5
  <2>2. p = port[q].owner
    BY <2>1 DEF CountInv
  <2>3. q \in PortSlots
    <3>1. table[p][s] \in Entries
      BY DEF Typed
    <3>2. Handle(p, s) \in Ends
      BY <3>1 DEF Entries, Handle
    <3> QED BY <2>1, <3>2, EndKinds
  <2>4. port'[q].receive = 1
    <3>1. <<p, s>> \in At(AllHandles', "receive", q)
      BY <1>5, <2>1 DEF At, AllHandles
    <3>2. IsFiniteSet(DOMAIN AllHandles')
      BY Pools, PortsAssumption, FS_Product DEF AllHandles
    <3>3. Receives(AllHandles', q) \in Nat /\ Receives(AllHandles', q) # 0
      <4> HIDE DEF q
      <4> QED BY <3>1, <3>2, CountType, Counts
    <3>4. port'[q].receive \in 0 .. 1
      BY <2>3, LetGoPorts DEF PortInv, Sound
    <3>5. Receives(AllHandles', q) = Receives(AllHandles, q)'
      BY <2>1
    <3> QED BY <3>3, <3>4, <1>4, <2>3, <2>1
  <2> QED BY <2>1, <2>2, <2>3, <2>4, <1>1
<1> QED BY <1>4, <1>5 DEF CountInv

(* A thread that waits for what ends is woken, and its probe no longer current. *)
Ended(H, P, th, t) ==
  th[t].state = "blocked" /\ \E w \in th[t].waits : w[1] \in Shut(H, P) \cup Hung(H, P)

(* What letting go makes of a thread. *)
LEMMA LetGoThreads ==
  ASSUME NEW H, NEW P, NEW th \in [Threads -> ThreadRecords], LetGo(H, P, th)
  PROVE  /\ thread' \in [Threads -> ThreadRecords]
         /\ \A t \in Threads :
              /\ Ended(H, P, th, t) => thread'[t].state = "running" /\ thread'[t].waits = {}
              /\ ~Ended(H, P, th, t) => /\ thread'[t].state = th[t].state
                                        /\ thread'[t].waits = th[t].waits
                                        /\ thread'[t].told = th[t].told
              /\ thread'[t].probe.slot = th[t].probe.slot
              /\ thread'[t].probe.generation = th[t].probe.generation
              /\ thread'[t].probe.port = th[t].probe.port
              /\ th[t].probe.port \notin Shut(H, P) \cup Hung(H, P) => thread'[t].probe = th[t].probe
              /\ thread'[t].probe.current => /\ th[t].probe.current
                                             /\ th[t].probe.port \notin Shut(H, P) \cup Hung(H, P)
              /\ ~Ended(H, P, th, t) /\ th[t].probe = NoProbe => thread'[t] = th[t]
<1> DEFINE told == {p \in Hung(H, P) : After(H, P, p).count > 0}
           rest(t) == {p \in told : <<p, "receive">> \in th[t].waits}
           now(t) == IF rest(t) = {} THEN 0 ELSE Lowest(rest(t))
           u(t) == IF Ended(H, P, th, t)
                   THEN [th[t] EXCEPT !.state = "running", !.waits = {}, !.told = now(t)]
                   ELSE th[t]
           v(t) == IF u(t).probe.port \in Shut(H, P) \cup Hung(H, P)
                   THEN [u(t) EXCEPT !.probe.current = FALSE] ELSE u(t)
<1>1. thread' = [t \in Threads |-> v(t)]
  <2> DEFINE shut == Shut(H, P)
             after == [p \in PortSlots |-> After(H, P, p)]
             hung == {p \in PortSlots : port[p].state = "open" /\ after[p].state = "peer_closed"}
             ended == {t \in Threads : th[t].state = "blocked" /\
                         \E w \in th[t].waits : w[1] \in shut \cup hung}
             tell == {p \in hung : after[p].count > 0}
  <2>1. hung = Hung(H, P)
    BY DEF Hung
  <2>2. tell = told
    <3> HIDE DEF hung
    <3>1. \A p \in Hung(H, P) : after[p] = After(H, P, p)
      BY DEF Hung
    <3> HIDE DEF after
    <3> QED BY <2>1, <3>1
  <2>3. \A t \in Threads : t \in ended <=> Ended(H, P, th, t)
    <3> HIDE DEF hung
    <3> QED BY <2>1 DEF Ended
  <2>4. thread' = [t \in Threads |->
          LET rst == {p \in tell : <<p, "receive">> \in th[t].waits}
              x == IF t \in ended
                   THEN [th[t] EXCEPT !.state = "running", !.waits = {},
                                      !.told = IF rst = {} THEN 0 ELSE Lowest(rst)]
                   ELSE th[t]
          IN IF x.probe.port \in shut \cup hung THEN [x EXCEPT !.probe.current = FALSE] ELSE x]
    BY DEF LetGo, Shut, Lost, After
  <2> HIDE DEF tell, ended, hung
  <2> QED BY <2>1, <2>2, <2>3, <2>4
<1>2. ASSUME NEW t \in Threads
      PROVE  /\ v(t) \in ThreadRecords
             /\ Ended(H, P, th, t) => v(t).state = "running" /\ v(t).waits = {}
             /\ ~Ended(H, P, th, t) => /\ v(t).state = th[t].state
                                       /\ v(t).waits = th[t].waits
                                       /\ v(t).told = th[t].told
             /\ v(t).probe.slot = th[t].probe.slot
             /\ v(t).probe.generation = th[t].probe.generation
             /\ v(t).probe.port = th[t].probe.port
             /\ th[t].probe.port \notin Shut(H, P) \cup Hung(H, P) => v(t).probe = th[t].probe
             /\ v(t).probe.current => /\ th[t].probe.current
                                      /\ th[t].probe.port \notin Shut(H, P) \cup Hung(H, P)
             /\ ~Ended(H, P, th, t) /\ th[t].probe = NoProbe => v(t) = th[t]
  <2> DEFINE x == th[t]
             y == u(t)
             z == v(t)
             over == Shut(H, P) \cup Hung(H, P)
  <2>1. x \in ThreadRecords
    OBVIOUS
  <2>2. now(t) \in PortSlots \cup {0}
    <3>1. rest(t) \in SUBSET PortSlots
      BY DEF Hung
    <3>2. rest(t) # {} => Lowest(rest(t)) \in rest(t)
      <4>1. rest(t) \in SUBSET Nat /\ IsFiniteSet(rest(t))
        BY <3>1, Pools, FS_Subset
      <4> HIDE DEF rest
      <4> QED BY <4>1, LowestIn
    <3> HIDE DEF rest
    <3> QED BY <3>1, <3>2
  <2>3. Ended(H, P, th, t) => y = [x EXCEPT !.state = "running", !.waits = {}, !.told = now(t)]
    OBVIOUS
  <2>4. ~Ended(H, P, th, t) => y = x
    OBVIOUS
  <2>5. z = IF y.probe.port \in over THEN [y EXCEPT !.probe.current = FALSE] ELSE y
    OBVIOUS
  <2> HIDE DEF now, over, x, u, v
  <2>6. /\ y \in ThreadRecords /\ y.probe = x.probe
        /\ Ended(H, P, th, t) => y.state = "running" /\ y.waits = {}
        /\ ~Ended(H, P, th, t) => y = x
    BY <2>1, <2>2, <2>3, <2>4 DEF ThreadRecords
  <2> HIDE DEF y
  <2>7. y.probe \in Probes /\ x.probe \in Probes
    BY <2>1, <2>6 DEF ThreadRecords
  <2>8. CASE y.probe.port \in over
    <3>1. z = [y EXCEPT !.probe = [y.probe EXCEPT !.current = FALSE]]
      BY <2>5, <2>8
    <3> DEFINE pr == [y.probe EXCEPT !.current = FALSE]
    <3>2. pr \in Probes /\ pr.slot = y.probe.slot /\ pr.generation = y.probe.generation
          /\ pr.port = y.probe.port /\ pr.current = FALSE
      BY <2>7 DEF Probes
    <3> HIDE DEF pr
    <3>3. z \in ThreadRecords /\ z.probe = pr /\ z.state = y.state /\ z.waits = y.waits /\ z.told = y.told
      BY <3>1, <3>2, <2>6 DEF ThreadRecords, pr
    <3>4. 0 \notin over
      BY Pools DEF over, Shut, Hung
    <3>5. x.probe # NoProbe
      BY <3>4, <2>8, <2>6 DEF NoProbe
    <3> QED BY <2>6, <2>8, <3>2, <3>3, <3>5 DEF x, z, over
  <2>9. CASE y.probe.port \notin over
    <3>1. z = y
      BY <2>5, <2>9
    <3> QED BY <2>6, <2>9, <3>1 DEF x, z, over
  <2> QED BY <2>8, <2>9
<1> HIDE DEF v
<1> QED BY <1>1, <1>2

----------------------------------------------------------------------------
(* What is kept by most steps.                                             *)

(* Threads that still wait, wait for what can still come; and a message is *)
(* still the concern of the thread that was told, or another one is told.  *)
LEMMA WaitKept ==
  ASSUME Typed, WaitInv,
         \A t \in Threads : thread'[t].state = "blocked" =>
            /\ thread[t].state = "blocked" /\ thread'[t].waits = thread[t].waits
            /\ \A w \in thread[t].waits :
                  /\ port'[w[1]].state = "open" /\ port'[w[1]].owner = port[w[1]].owner
                  /\ w[2] = "send" => port'[w[1]].count > 0,
         \A q \in PortSlots :
            port'[q].count > 0 /\ Waiting(thread', q, "receive") # {} =>
              \/ /\ port[q].count > 0
                 /\ \A u \in Threads :
                      thread[u].state = "running" /\ thread[u].told = q /\ ProcessOf[u] = port[q].owner =>
                        thread'[u].state = "running" /\ thread'[u].told = q
              \/ \E u \in Threads : /\ thread'[u].state = "running" /\ thread'[u].told = q
                                    /\ ProcessOf[u] = port'[q].owner
  PROVE  WaitInv'
<1>1. ASSUME NEW t \in Threads, thread'[t].state = "blocked", NEW w \in thread'[t].waits
      PROVE  /\ port'[w[1]].state = "open"
             /\ w[2] = "send" => port'[w[1]].count > 0
             /\ w[2] = "receive" => ProcessOf[t] = port'[w[1]].owner
  <2>1. thread[t].state = "blocked" /\ w \in thread[t].waits
    BY <1>1
  <2>2. w[2] = "receive" => ProcessOf[t] = port[w[1]].owner
    BY <2>1 DEF WaitInv, NoStrandedWaiter
  <2> QED BY <1>1, <2>1, <2>2
<1>2. ASSUME NEW q \in PortSlots, port'[q].count > 0, Waiting(thread', q, "receive") # {}
      PROVE  \E u \in Threads : /\ thread'[u].state = "running" /\ thread'[u].told = q
                                /\ ProcessOf[u] = port'[q].owner
  <2>1. PICK t \in Threads : thread'[t].state = "blocked" /\ <<q, "receive">> \in thread'[t].waits
    BY <1>2 DEF Waiting
  <2>2. thread[t].state = "blocked" /\ <<q, "receive">> \in thread[t].waits
    BY <2>1
  <2>3. <<q, "receive">>[1] = q
    OBVIOUS
  <2>4. port'[q].owner = port[q].owner
    BY <2>1, <2>2, <2>3
  <2>5. t \in Waiting(thread, q, "receive")
    BY <2>2 DEF Waiting
  <2>6. CASE port[q].count > 0 /\ \A u \in Threads :
               thread[u].state = "running" /\ thread[u].told = q /\ ProcessOf[u] = port[q].owner =>
                 thread'[u].state = "running" /\ thread'[u].told = q
    <3>1. PICK u \in Threads : /\ thread[u].state = "running" /\ thread[u].told = q
                               /\ ProcessOf[u] = port[q].owner
      BY <2>5, <2>6 DEF WaitInv
    <3> QED BY <3>1, <2>4, <2>6
  <2> QED BY <1>2, <2>6
<1>3. NoStrandedWaiter'
  BY <1>1 DEF NoStrandedWaiter
<1>4. (\A q \in PortSlots :
        port[q].count > 0 /\ Waiting(thread, q, "receive") # {} =>
          \E t \in Threads : /\ thread[t].state = "running" /\ thread[t].told = q
                             /\ ProcessOf[t] = port[q].owner)'
  BY <1>2
<1> QED BY <1>3, <1>4 DEF WaitInv

(* A table's slots grow older, and a handle is there until then. *)
Ages(p) ==
  \A s \in HandleSlots :
    /\ table[p][s].generation <= table'[p][s].generation
    /\ table'[p][s].generation = table[p][s].generation =>
         table'[p][s].handle = Handle(p, s) \/ Handle(p, s) = None

(* Probes are kept or dropped, and are not current when something has left the queue. *)
LEMMA ProbesKept ==
  ASSUME Typed, Typed', ProbeInv,
         \A t \in Threads : thread'[t].probe # NoProbe =>
            /\ thread[t].probe # NoProbe
            /\ thread'[t].probe.slot = thread[t].probe.slot
            /\ thread'[t].probe.generation = thread[t].probe.generation
            /\ thread'[t].probe.port = thread[t].probe.port
            /\ thread'[t].probe.current =>
                 thread[t].probe.current /\ port'[thread[t].probe.port].count >= port[thread[t].probe.port].count
            /\ Ages(ProcessOf[t])
  PROVE  ProbeInv'
<1>1. ASSUME NEW t \in Threads, thread'[t].probe # NoProbe
      PROVE  LET pr == thread'[t].probe
                 p == ProcessOf[t]
             IN /\ pr.slot \in HandleSlots /\ pr.port \in PortSlots
                /\ pr.generation <= table'[p][pr.slot].generation
                /\ pr.generation = table'[p][pr.slot].generation =>
                     table'[p][pr.slot].handle.kind = "send" /\ table'[p][pr.slot].handle.port = pr.port
  <2> DEFINE pr == thread[t].probe
             p == ProcessOf[t]
             s == pr.slot
             g == pr.generation
             old == table[p][s].generation
             new == table'[p][s].generation
  <2>1. /\ thread[t].probe # NoProbe /\ thread'[t].probe.slot = s /\ thread'[t].probe.generation = g
        /\ thread'[t].probe.port = pr.port /\ Ages(p)
    BY <1>1
  <2>2. /\ s \in HandleSlots /\ pr.port \in PortSlots /\ g <= old
        /\ g = old => Handle(p, s).kind = "send" /\ Handle(p, s).port = pr.port
    BY <2>1 DEF ProbeInv
  <2>3. p \in Processes
    BY PortsAssumption
  <2>4. g \in Nat /\ old \in Nat /\ new \in Nat
    <3>1. table[p][s] \in Entries /\ table'[p][s] \in Entries /\ pr \in Probes
      BY <2>2, <2>3 DEF Typed, ThreadRecords
    <3> QED BY <3>1 DEF Entries, Probes
  <2>5. /\ old <= new
        /\ new = old => table'[p][s].handle = Handle(p, s) \/ Handle(p, s) = None
    BY <2>1, <2>2 DEF Ages
  <2>6. None.kind # "send"
    BY EndKinds
  <2> HIDE DEF g, old, new
  <2>7. g <= new /\ (g = new => g = old /\ new = old)
    BY <2>2, <2>4, <2>5
  <2>8. g = new => table'[p][s].handle.kind = "send" /\ table'[p][s].handle.port = pr.port
    <3> SUFFICES ASSUME g = new PROVE table'[p][s].handle.kind = "send" /\ table'[p][s].handle.port = pr.port
      OBVIOUS
    <3>1. Handle(p, s).kind = "send" /\ Handle(p, s).port = pr.port
      BY <2>2, <2>7
    <3>2. Handle(p, s) # None
      BY <3>1, <2>6
    <3>3. table'[p][s].handle = Handle(p, s)
      BY <3>2, <2>5, <2>7
    <3> QED BY <3>1, <3>3
  <2>9. thread'[t].probe.port \in PortSlots /\ thread'[t].probe.slot \in HandleSlots
    BY <2>1, <2>2
  <2>11. /\ thread'[t].probe.generation <= table'[p][thread'[t].probe.slot].generation
         /\ thread'[t].probe.generation = table'[p][thread'[t].probe.slot].generation => g = new
    BY <2>1, <2>7 DEF g, new
  <2> QED BY <2>1, <2>8, <2>9, <2>11
<1>2. ASSUME NEW t \in Threads, thread'[t].probe.current
      PROVE  port'[thread'[t].probe.port].count > 0
  <2>1. thread'[t].probe # NoProbe
    BY <1>2 DEF NoProbe
  <2> DEFINE q == thread[t].probe.port
  <2>2. thread[t].probe # NoProbe /\ thread[t].probe.current /\ thread'[t].probe.port = q
        /\ port'[q].count >= port[q].count
    BY <1>2, <2>1
  <2>3. port[q].count > 0 /\ q \in PortSlots
    BY <2>2 DEF ProbeInv
  <2>4. port[q].count \in Nat /\ port'[q].count \in Nat
    BY <2>3 DEF Typed, PortRecords
  <2> QED BY <2>2, <2>3, <2>4
<1>3. (\A t \in Threads : thread[t].probe # NoProbe =>
        LET pr == thread[t].probe
            p == ProcessOf[t]
        IN /\ pr.slot \in HandleSlots /\ pr.port \in PortSlots
           /\ pr.generation <= table[p][pr.slot].generation
           /\ pr.generation = table[p][pr.slot].generation =>
                Handle(p, pr.slot).kind = "send" /\ Handle(p, pr.slot).port = pr.port)'
  BY <1>1 DEF Handle
<1>4. (\A t \in Threads : thread[t].probe.current => port[thread[t].probe.port].count > 0)'
  BY <1>2
<1> QED BY <1>3, <1>4 DEF ProbeInv

(* What a table becomes: slots keep their handle, or are filled, or grow older. *)
Renews(old, new) ==
  \A s \in HandleSlots :
    \/ new[s] = old[s]
    \/ old[s].handle = None /\ new[s].generation = old[s].generation
    \/ new[s].handle = None /\ new[s].generation > old[s].generation

(* No name that was known stands for another handle now. *)
NamesStep ==
  \A p \in Processes, s \in HandleSlots :
    Handle(p, s)' # None /\ Name(p, s)' \in issued[p] => Handle(p, s)' = Handle(p, s)

(* A table that renews its entries keeps the names what they stand for. *)
LEMMA TableKept ==
  ASSUME Typed, NameInv, NEW p \in Processes, NEW tb \in [HandleSlots -> Entries],
         Renews(table[p], tb), TableSet(p, tb)
  PROVE  /\ table' \in [Processes -> [HandleSlots -> Entries]]
         /\ issued' \in [Processes -> SUBSET (HandleSlots \X Nat)]
         /\ NameInv' /\ NamesStep
         /\ table'[p] = tb
         /\ \A r \in Processes : /\ Ages(r)
                                 /\ r # p => table'[r] = table[r] /\ issued'[r] = issued[r]
<1>1. table \in [Processes -> [HandleSlots -> Entries]] /\ issued \in [Processes -> SUBSET (HandleSlots \X Nat)]
  BY DEF Typed
<1>2. table' = [table EXCEPT ![p] = tb] /\ issued' = [issued EXCEPT ![p] = @ \cup Names(tb)]
  BY DEF TableSet
<1>3. \A s \in HandleSlots : tb[s].generation \in Nat /\ table[p][s].generation \in Nat
  BY <1>1 DEF Entries
<1>4. Names(tb) \subseteq HandleSlots \X Nat
  BY <1>3 DEF Names
<1>5. /\ table' \in [Processes -> [HandleSlots -> Entries]]
      /\ issued' \in [Processes -> SUBSET (HandleSlots \X Nat)]
      /\ table'[p] = tb /\ issued'[p] = issued[p] \cup Names(tb)
      /\ \A r \in Processes : r # p => table'[r] = table[r] /\ issued'[r] = issued[r]
  BY <1>1, <1>2, <1>4
<1>6. ASSUME NEW r \in Processes PROVE Ages(r)
  <2>1. CASE r = p
    BY <2>1, <1>3, <1>5 DEF Ages, Renews, Handle
  <2>2. CASE r # p
    <3>1. \A s \in HandleSlots : table[r][s].generation \in Nat
      BY <1>1 DEF Entries
    <3> QED BY <2>2, <3>1, <1>5 DEF Ages, Handle
  <2> QED BY <2>1, <2>2
<1>7. ASSUME NEW r \in Processes, NEW n \in HandleSlots \X Nat, n \in issued'[r]
      PROVE  /\ n[2] <= table'[r][n[1]].generation
             /\ table'[r][n[1]].handle = None => n[2] < table'[r][n[1]].generation
  <2> DEFINE s == n[1]
  <2>0. s \in HandleSlots /\ n[2] \in Nat
    OBVIOUS
  <2>1. CASE r # p
    BY <2>1, <1>5, <1>7 DEF NameInv, Handle
  <2>2. CASE r = p /\ n \in issued[p]
    <3>1. n[2] <= table[p][s].generation /\ (table[p][s].handle = None => n[2] < table[p][s].generation)
      BY <2>2 DEF NameInv, Handle
    <3>2. \/ tb[s] = table[p][s]
          \/ table[p][s].handle = None /\ tb[s].generation = table[p][s].generation
          \/ tb[s].handle = None /\ tb[s].generation > table[p][s].generation
      BY <2>0 DEF Renews
    <3> QED BY <2>0, <2>2, <3>1, <3>2, <1>3, <1>5
  <2>3. CASE r = p /\ n \in Names(tb)
    <3>1. PICK x \in HandleSlots : tb[x].handle # None /\ n = <<x, tb[x].generation>>
      BY <2>3 DEF Names
    <3>2. x = s /\ n[2] = tb[s].generation
      BY <3>1
    <3> QED BY <2>0, <2>3, <3>1, <3>2, <1>3, <1>5
  <2> QED BY <2>1, <2>2, <2>3, <1>5, <1>7
<1>8. NameInv'
  BY <1>7 DEF NameInv, Handle
<1>9. ASSUME NEW r \in Processes, NEW s \in HandleSlots,
             table'[r][s].handle # None, <<s, table'[r][s].generation>> \in issued[r]
      PROVE  table'[r][s].handle = table[r][s].handle
  <2>1. CASE r # p
    BY <2>1, <1>5
  <2>2. CASE r = p
    <3> DEFINE g == tb[s].generation
               old == table[p][s].generation
    <3>1. <<s, g>> \in issued[p] /\ tb[s].handle # None
      BY <2>2, <1>5, <1>9
    <3>2. \A n \in HandleSlots \X Nat : n \in issued[p] =>
            n[2] <= table[p][n[1]].generation /\ (table[p][n[1]].handle = None => n[2] < table[p][n[1]].generation)
      BY DEF NameInv, Handle
    <3>3. <<s, g>> \in HandleSlots \X Nat /\ <<s, g>>[1] = s /\ <<s, g>>[2] = g
      BY <1>3
    <3>4. g <= old /\ (table[p][s].handle = None => g < old)
      BY <3>1, <3>2, <3>3
    <3>5. \/ tb[s] = table[p][s]
          \/ table[p][s].handle = None /\ g = old
          \/ tb[s].handle = None
      BY DEF Renews
    <3>6. g \in Nat /\ old \in Nat
      BY <1>3
    <3> HIDE DEF g, old
    <3> QED BY <2>2, <3>1, <3>4, <3>5, <3>6, <1>5
  <2> QED BY <2>1, <2>2
<1>10. NamesStep
  BY <1>9 DEF NamesStep, Handle, Name
<1> QED BY <1>5, <1>6, <1>8, <1>10

(* Tables that are not touched. *)
LEMMA TablesSame ==
  ASSUME Typed, NameInv, UNCHANGED <<table, issued>>
  PROVE  NameInv' /\ NamesStep /\ \A r \in Processes : Ages(r)
<1>1. NameInv'
  BY DEF NameInv, Handle
<1>2. NamesStep
  BY DEF NamesStep, Handle
<1>3. \A r \in Processes, s \in HandleSlots : table[r][s].generation \in Nat
  BY DEF Typed, Entries
<1>4. \A r \in Processes : Ages(r)
  BY <1>3 DEF Ages, Handle
<1> QED BY <1>1, <1>2, <1>4

(* Tables into which handles go, and from which they are taken. *)
LEMMA InstalledRenews ==
  ASSUME NEW tb \in [HandleSlots -> Entries], NEW n \in Nat, NEW L \in [1 .. n -> Ends],
         n <= Cardinality({s \in HandleSlots : tb[s].handle = None})
  PROVE  Renews(tb, Installed(tb, L))
BY InstalledIs, InstalledEntry DEF Renews

(* Handles that are retired renew their entries. *)
LEMMA RetiredRenews ==
  ASSUME NEW tb \in [HandleSlots -> Entries], NEW S \in SUBSET HandleSlots,
         \A s \in S : tb[s].generation <= MaxGeneration
  PROVE  Renews(tb, Retired(tb, S))
<1>1. \A s \in HandleSlots : tb[s].generation \in Nat
  BY DEF Entries
<1> QED BY <1>1, RetiredIs DEF Renews

(* The queues are what they were when the messages are, and the ports' fields for them. *)
LEMMA QueuesKept ==
  ASSUME Typed, QueueInv, message' = message,
         \A q \in PortSlots : /\ port'[q].head = port[q].head /\ port'[q].tail = port[q].tail
                              /\ port'[q].count = port[q].count /\ port'[q].bytes = port[q].bytes
  PROVE  QueueInv'
<1>1. \A q : QueuedAt({q})' = QueuedAt({q})
  BY DEF QueuedAt
<1>2. ASSUME NEW q \in PortSlots
      PROVE  \E w \in [1 .. port'[q].count -> MessageSlots],
                rest \in [1 .. port'[q].count + 1 -> Nat] : Links(q, w)' /\ Bytes(q, w, rest)'
  <2>1. PICK w \in [1 .. port[q].count -> MessageSlots], rest \in [1 .. port[q].count + 1 -> Nat] :
           Links(q, w) /\ Bytes(q, w, rest)
    BY DEF QueueInv
  <2>2. Links(q, w)'
    BY <2>1, <1>1 DEF Links
  <2>3. Bytes(q, w, rest)'
    BY <2>1 DEF Bytes
  <2> QED BY <2>1, <2>2, <2>3
<1> QED BY <1>2 DEF QueueInv

(* Handles in transit are what they were when no port closes. *)
LEMMA TransitKept ==
  ASSUME Typed, TransitInv, message' = message, detached' = detached,
         \A q \in PortSlots : Active(q) => Active(q)'
  PROVE  TransitInv'
<1>1. \A m : Attached(m)' = Attached(m)
  BY DEF Attached
<1>2. \A q \in PortSlots : port[q].state \in Live => port'[q].state \in Live
  BY DEF Active, Live
<1>3. \A m \in MessageSlots : message[m].port # 0 => message[m].port \in PortSlots
  BY DEF Typed, MessageRecords
<1>4. \A m \in MessageSlots : message[m].port # 0 => port'[message[m].port].state \in Live
  BY <1>2, <1>3 DEF TransitInv, Active, Live
<1> QED BY <1>1, <1>4 DEF TransitInv, Active, Live

(* Threads and processes are what they were, but for where the threads are. *)
LEMMA ProcessesKept ==
  ASSUME Typed, ProcessInv, process' = process,
         \A u \in Threads :
           /\ thread'[u].state # "gone" => thread[u].state # "gone"
           /\ thread'[u].state = "gone" => thread'[u] = Gone
           /\ thread'[u].state = "blocked" <=> thread'[u].waits # {},
         \A r \in Processes : process[r] \in {"unused", "dead"} =>
           table'[r] = table[r] /\ issued'[r] = issued[r]
  PROVE  ProcessInv'
BY DEF ProcessInv

(* A call takes the thread's probe. *)
LEMMA EnteredIs ==
  ASSUME Typed, NEW t \in Threads
  PROVE  /\ Entered(t) \in [Threads -> ThreadRecords]
         /\ \A u \in Threads :
              /\ Entered(t)[u].state = thread[u].state /\ Entered(t)[u].waits = thread[u].waits
              /\ Entered(t)[u].told = thread[u].told
              /\ u # t => Entered(t)[u] = thread[u]
         /\ Entered(t)[t].probe = NoProbe
<1>1. thread \in [Threads -> ThreadRecords]
  BY DEF Typed
<1>2. ASSUME NEW x \in ThreadRecords
      PROVE  /\ [x EXCEPT !.probe = NoProbe] \in ThreadRecords
             /\ [x EXCEPT !.probe = NoProbe].state = x.state
             /\ [x EXCEPT !.probe = NoProbe].waits = x.waits
             /\ [x EXCEPT !.probe = NoProbe].told = x.told
             /\ [x EXCEPT !.probe = NoProbe].probe = NoProbe
  BY Shapes DEF ThreadRecords
<1> QED BY <1>1, <1>2 DEF Entered

(* wake_one: one of the waiting receivers runs and was told, if there is one. *)
LEMMA ToldOneIs ==
  ASSUME NEW th \in [Threads -> ThreadRecords], NEW q \in PortSlots, NEW x \in ToldOne(th, q)
  PROVE  /\ x \in [Threads -> ThreadRecords]
         /\ \A u \in Threads :
              \/ x[u] = th[u]
              \/ /\ u \in Waiting(th, q, "receive") /\ x[u].state = "running" /\ x[u].waits = {}
                 /\ x[u].told = q /\ x[u].probe = th[u].probe
         /\ Waiting(th, q, "receive") # {} =>
              \E u \in Waiting(th, q, "receive") : x[u].state = "running" /\ x[u].told = q
<1>1. CASE Waiting(th, q, "receive") = {}
  BY <1>1 DEF ToldOne
<1>2. CASE Waiting(th, q, "receive") # {}
  <2>1. PICK t \in Waiting(th, q, "receive") : x = Woken(th, {t}, q)
    BY <1>2 DEF ToldOne
  <2>2. t \in Threads /\ th[t] \in ThreadRecords
    BY DEF Waiting
  <2> DEFINE y == [th[t] EXCEPT !.state = "running", !.waits = {}, !.told = q]
  <2>3. /\ y \in ThreadRecords /\ y.state = "running" /\ y.waits = {} /\ y.told = q
        /\ y.probe = th[t].probe
    BY <2>2 DEF ThreadRecords
  <2>4. x = [u \in Threads |-> IF u \in {t} THEN [th[u] EXCEPT !.state = "running", !.waits = {}, !.told = q] ELSE th[u]]
    BY <2>1 DEF Woken
  <2>5. x[t] = y /\ \A u \in Threads : u # t => x[u] = th[u]
    BY <2>2, <2>4
  <2> HIDE DEF y
  <2>6. x \in [Threads -> ThreadRecords]
    <3>1. x = [u \in Threads |-> x[u]]
      BY <2>4
    <3>2. \A u \in Threads : x[u] \in ThreadRecords
      BY <2>3, <2>5
    <3> QED BY <3>1, <3>2
  <2> QED BY <1>2, <2>2, <2>3, <2>5, <2>6
<1> QED BY <1>1, <1>2

(* A port with messages is open to its receiver, who has the handle. *)
LEMMA HasReceiver ==
  ASSUME Typed, PortInv, CountInv, NEW q \in PortSlots, Active(q)
  PROVE  \E s \in HandleSlots : LET h == Handle(port[q].owner, s) IN
           h.kind = "receive" /\ h.port = q /\ "read" \in h.rights
<1>1. port[q].receive = 1 /\ port[q].owner \in Processes
  BY DEF PortInv, Sound, Active
<1>2. Count(AllHandles, "receive", q) = 1
  BY <1>1, Counts DEF CountInv
<1>3. IsFiniteSet(DOMAIN AllHandles)
  BY Pools, PortsAssumption, FS_Product DEF AllHandles
<1>4. At(AllHandles, "receive", q) # {}
  BY <1>2, <1>3, CountType
<1>5. PICK y \in Processes \X HandleSlots : AllHandles[y].kind = "receive" /\ AllHandles[y].port = q
  BY <1>4 DEF At, AllHandles
<1> DEFINE p == y[1]
           s == y[2]
<1>6. p \in Processes /\ s \in HandleSlots /\ AllHandles[y] = Handle(p, s)
  BY DEF AllHandles
<1>7. table[p][s] \in Entries
  BY <1>6 DEF Typed
<1>8. Handle(p, s) \in Ends
  BY <1>7 DEF Handle, Entries
<1>9. Handle(p, s).kind = "receive" /\ Handle(p, s).port = q
  BY <1>5, <1>6
<1>10. Handle(p, s).rights = ReceiveRights
  BY <1>8, <1>9, EndKinds
<1>11. p = port[q].owner
  BY <1>6, <1>9 DEF CountInv
<1> QED BY <1>6, <1>9, <1>10, <1>11 DEF ReceiveRights

(* Only an active port has messages. *)
LEMMA CountActive ==
  ASSUME Typed, PortInv, NEW q \in PortSlots, port[q].count > 0
  PROVE  Active(q)
<1>1. port[q] \in PortRecords /\ Sound(port[q])
  BY DEF Typed, PortInv
<1>2. FreePort.count = 0
  BY DEF FreePort
<1> QED BY <1>1, <1>2 DEF Active, Sound, PortRecords

(* When only threads change, only what is said of threads has to be shown. *)
LEMMA ThreadsOnly ==
  ASSUME Inv, UNCHANGED <<port, message, detached, table, issued, process>>,
         thread' \in [Threads -> ThreadRecords],
         \A u \in Threads :
           /\ thread'[u].state # "gone" => thread[u].state # "gone"
           /\ thread'[u].state = "gone" => thread'[u] = Gone
           /\ thread'[u].state = "blocked" <=> thread'[u].waits # {},
         ProbeInv', WaitInv'
  PROVE  Inv' /\ NamesStep
<1>1. Typed'
  BY DEF Inv, Typed
<1>2. ProcessInv'
  BY ProcessesKept DEF Inv
<1>3. NameInv' /\ NamesStep
  BY TablesSame DEF Inv
<1>4. PortInv'
  BY DEF Inv, PortInv
<1>5. QueueInv'
  BY QueuesKept DEF Inv
<1>6. TransitInv'
  BY TransitKept DEF Inv, Active
<1>7. CountInv'
  BY DEF Inv, CountInv, AllHandles, Handle
<1> QED BY <1>1, <1>2, <1>3, <1>4, <1>5, <1>6, <1>7 DEF Inv

(* When the ports are the same, it is enough that those who were told still have been. *)
LEMMA WaitSame ==
  ASSUME Typed, WaitInv, port' = port,
         \A t \in Threads : thread'[t].state = "blocked" =>
            thread[t].state = "blocked" /\ thread'[t].waits = thread[t].waits,
         \A u \in Threads : thread[u].state = "running" /\ thread[u].told # 0 =>
            thread'[u].state = "running" /\ thread'[u].told = thread[u].told
  PROVE  WaitInv'
<1>1. ASSUME NEW t \in Threads, thread'[t].state = "blocked"
      PROVE  /\ thread[t].state = "blocked" /\ thread'[t].waits = thread[t].waits
             /\ \A w \in thread[t].waits :
                   /\ port'[w[1]].state = "open" /\ port'[w[1]].owner = port[w[1]].owner
                   /\ w[2] = "send" => port'[w[1]].count > 0
  BY <1>1 DEF WaitInv, NoStrandedWaiter
<1>2. ASSUME NEW q \in PortSlots, port'[q].count > 0
      PROVE  /\ port[q].count > 0
             /\ \A u \in Threads :
                  thread[u].state = "running" /\ thread[u].told = q /\ ProcessOf[u] = port[q].owner =>
                    thread'[u].state = "running" /\ thread'[u].told = q
  BY <1>2, Pools
<1> QED BY <1>1, <1>2, WaitKept

(* The probes when tables and ports are the same. *)
LEMMA ProbesSame ==
  ASSUME Inv, UNCHANGED <<port, table, issued>>, thread' \in [Threads -> ThreadRecords],
         UNCHANGED <<message, detached, process>>,
         \A u \in Threads : thread'[u].probe \in {thread[u].probe, NoProbe}
  PROVE  ProbeInv'
<1>1. Typed'
  BY DEF Inv, Typed
<1>2. \A r \in Processes : Ages(r)
  BY TablesSame DEF Inv
<1>3. ASSUME NEW t \in Threads, thread'[t].probe # NoProbe
      PROVE  /\ thread[t].probe # NoProbe /\ thread'[t].probe = thread[t].probe
             /\ thread'[t].probe.current =>
                  thread[t].probe.current /\ port'[thread[t].probe.port].count >= port[thread[t].probe.port].count
             /\ Ages(ProcessOf[t])
  <2>1. thread'[t].probe = thread[t].probe
    BY <1>3
  <2>2. thread[t].probe.port \in PortSlots
    BY <2>1, <1>3 DEF Inv, ProbeInv
  <2>3. port[thread[t].probe.port].count \in Nat
    BY <2>2 DEF Inv, Typed, PortRecords
  <2> QED BY <2>1, <2>3, <1>2, <1>3, PortsAssumption
<1> QED BY <1>1, <1>3, ProbesKept DEF Inv

----------------------------------------------------------------------------
(* The steps that change only threads.                                     *)

(* A thread that acts owes no answer to a message. *)
LEMMA ActingTold ==
  ASSUME NEW t \in Threads, Acting(t)
  PROVE  thread[t].state = "running" /\ thread[t].told = 0
BY DEF Acting

(* A table's entry is an end of a port. *)
LEMMA HandleIs ==
  ASSUME Typed, NEW p \in Processes, NEW s \in HandleSlots
  PROVE  /\ table[p][s] \in Entries /\ Handle(p, s) \in Ends
         /\ table[p][s].generation \in 1 .. MaxGeneration + 1
         /\ Handle(p, s).kind \in {"send", "receive"} => Handle(p, s).port \in PortSlots
<1>1. table[p][s] \in Entries
  BY DEF Typed
<1>2. Handle(p, s) \in Ends /\ table[p][s].generation \in 1 .. MaxGeneration + 1
  BY <1>1 DEF Entries, Handle
<1> QED BY <1>1, <1>2, EndKinds

(* Where there is not room for a message there is a message. *)
LEMMA NoRoom ==
  ASSUME Typed, PortInv, NEW q \in PortSlots,
         ~SendReady(q) \/ \E size \in Sizes : ~HasRoom(q, size)
  PROVE  port[q].count > 0
<1>1. port[q] \in PortRecords /\ Sound(port[q])
  BY DEF Typed, PortInv
<1>2. port[q].count \in Nat /\ port[q].bytes \in Int
  BY <1>1 DEF PortRecords
<1>3. port[q].count = 0 => port[q].bytes = 0
  BY <1>1 DEF Sound
<1> QED BY <1>2, <1>3, PortsAssumption DEF SendReady, HasRoom

(* A send is refused, for want of room. *)
LEMMA SendRefusedStep ==
  ASSUME Inv, NEW t \in Threads, NEW s \in HandleSlots, NEW size \in Sizes, SendRefused(t, s, size)
  PROVE  Inv' /\ NamesStep
<1> DEFINE p == ProcessOf[t]
           q == Handle(p, s).port
           pr == [slot |-> s, generation |-> table[p][s].generation, port |-> q, current |-> TRUE]
<1>1. /\ Acting(t) /\ Handle(p, s).kind = "send" /\ port[q].state = "open" /\ ~HasRoom(q, size)
      /\ thread' = [thread EXCEPT ![t].probe = pr]
      /\ UNCHANGED <<port, message, detached, table, issued, process>>
  BY DEF SendRefused
<1>2. Typed /\ ProcessInv /\ ProbeInv /\ PortInv /\ WaitInv
  BY DEF Inv
<1>3. p \in Processes
  BY PortsAssumption
<1>4. q \in PortSlots /\ table[p][s].generation \in Nat
  BY <1>1, <1>2, <1>3, HandleIs
<1>5. pr \in Probes /\ pr.slot = s /\ pr.port = q /\ pr.generation = table[p][s].generation
  BY <1>4 DEF Probes
<1>6. thread[t] \in ThreadRecords
  BY <1>2 DEF Typed
<1> HIDE DEF pr
<1> DEFINE x == [thread[t] EXCEPT !.probe = pr]
<1>7. /\ x \in ThreadRecords /\ x.state = thread[t].state /\ x.waits = thread[t].waits
      /\ x.told = thread[t].told /\ x.probe = pr
  BY <1>5, <1>6 DEF ThreadRecords
<1>8. thread' = [thread EXCEPT ![t] = x]
  BY <1>1
<1> HIDE DEF x
<1>9. /\ thread' \in [Threads -> ThreadRecords]
      /\ thread'[t] = x /\ \A u \in Threads : u # t => thread'[u] = thread[u]
  BY <1>2, <1>7, <1>8 DEF Typed
<1>10. thread[t].state = "running"
  BY <1>1, ActingTold
<1>11. \A u \in Threads :
         /\ thread'[u].state = thread[u].state /\ thread'[u].waits = thread[u].waits
         /\ thread'[u].told = thread[u].told
         /\ thread'[u].state = "gone" => thread'[u] = thread[u]
  BY <1>7, <1>9, <1>10
<1>12. ProbeInv'
  <2>1. ASSUME NEW u \in Threads, thread'[u].probe # NoProbe
        PROVE  LET b == thread'[u].probe
                   r == ProcessOf[u]
               IN /\ b.slot \in HandleSlots /\ b.port \in PortSlots
                  /\ b.generation <= table[r][b.slot].generation
                  /\ b.generation = table[r][b.slot].generation =>
                       table[r][b.slot].handle.kind = "send" /\ table[r][b.slot].handle.port = b.port
    <3>1. CASE u = t
      <4>1. thread'[u].probe = pr
        BY <3>1, <1>7, <1>9
      <4> QED BY <3>1, <4>1, <1>1, <1>4, <1>5 DEF Handle
    <3>2. CASE u # t
      BY <3>2, <2>1, <1>2, <1>9 DEF ProbeInv, Handle
    <3> QED BY <3>1, <3>2
  <2>2. ASSUME NEW u \in Threads, thread'[u].probe.current
        PROVE  port[thread'[u].probe.port].count > 0
    <3>1. CASE u = t
      <4>1. thread'[u].probe.port = q
        BY <3>1, <1>5, <1>7, <1>9
      <4>2. port[q].count > 0
        BY <1>1, <1>2, <1>4, NoRoom
      <4> QED BY <4>1, <4>2
    <3>2. CASE u # t
      BY <3>2, <2>2, <1>2, <1>9 DEF ProbeInv
    <3> QED BY <3>1, <3>2
  <2>3. (\A u \in Threads : thread[u].probe # NoProbe =>
          LET b == thread[u].probe
              r == ProcessOf[u]
          IN /\ b.slot \in HandleSlots /\ b.port \in PortSlots
             /\ b.generation <= table[r][b.slot].generation
             /\ b.generation = table[r][b.slot].generation =>
                  Handle(r, b.slot).kind = "send" /\ Handle(r, b.slot).port = b.port)'
    BY <2>1, <1>1 DEF Handle
  <2> QED BY <2>2, <2>3, <1>1 DEF ProbeInv
<1>13. WaitInv'
  BY <1>1, <1>2, <1>11, WaitSame
<1>14. \A u \in Threads :
         /\ thread'[u].state # "gone" => thread[u].state # "gone"
         /\ thread'[u].state = "gone" => thread'[u] = Gone
         /\ thread'[u].state = "blocked" <=> thread'[u].waits # {}
  BY <1>2, <1>11 DEF ProcessInv
<1> QED BY <1>1, <1>9, <1>12, <1>13, <1>14, ThreadsOnly

(* Another call drops the probe. *)
LEMMA OtherCallStep ==
  ASSUME Inv, NEW t \in Threads, OtherCall(t)
  PROVE  Inv' /\ NamesStep
<1>1. Acting(t) /\ thread' = Entered(t) /\ UNCHANGED <<port, message, detached, table, issued, process>>
  BY DEF OtherCall
<1>2. Typed /\ ProcessInv /\ WaitInv
  BY DEF Inv
<1>3. /\ thread' \in [Threads -> ThreadRecords]
      /\ \A u \in Threads :
           /\ thread'[u].state = thread[u].state /\ thread'[u].waits = thread[u].waits
           /\ thread'[u].told = thread[u].told
           /\ u # t => thread'[u] = thread[u]
      /\ thread'[t].probe = NoProbe
  BY <1>1, <1>2, EnteredIs
<1>4. ProbeInv'
  BY <1>1, <1>3, ProbesSame
<1>5. WaitInv'
  BY <1>1, <1>2, <1>3, WaitSame
<1>6. \A u \in Threads :
         /\ thread'[u].state # "gone" => thread[u].state # "gone"
         /\ thread'[u].state = "gone" => thread'[u] = Gone
         /\ thread'[u].state = "blocked" <=> thread'[u].waits # {}
  BY <1>1, <1>2, <1>3, ActingTold DEF ProcessInv
<1> QED BY <1>1, <1>3, <1>4, <1>5, <1>6, ThreadsOnly

(* A call that takes what its thread was told. *)
Answered(t) == [Entered(t) EXCEPT ![t].told = 0]

(* A thread that has asked for a message owes no answer any more. *)
LEMMA AnsweredIs ==
  ASSUME Typed, NEW t \in Threads
  PROVE  /\ Answered(t) \in [Threads -> ThreadRecords]
         /\ \A u \in Threads :
              /\ Answered(t)[u].state = thread[u].state /\ Answered(t)[u].waits = thread[u].waits
              /\ u # t => Answered(t)[u] = thread[u]
         /\ Answered(t)[t].probe = NoProbe /\ Answered(t)[t].told = 0
<1> DEFINE e == Entered(t)
           x == [e[t] EXCEPT !.told = 0]
<1>1. /\ e \in [Threads -> ThreadRecords]
      /\ \A u \in Threads : /\ e[u].state = thread[u].state /\ e[u].waits = thread[u].waits
                            /\ u # t => e[u] = thread[u]
      /\ e[t].probe = NoProbe
  BY EnteredIs
<1>2. Answered(t) = [e EXCEPT ![t] = x]
  BY DEF Answered
<1> HIDE DEF e
<1>3. e[t] \in ThreadRecords
  BY <1>1
<1>4. x \in ThreadRecords /\ x.state = e[t].state /\ x.waits = e[t].waits /\ x.told = 0 /\ x.probe = e[t].probe
  BY <1>3 DEF ThreadRecords
<1> HIDE DEF x
<1> QED BY <1>1, <1>2, <1>4

(* A receiver finds nothing. *)
LEMMA ReceiveNothingStep ==
  ASSUME Inv, NEW t \in Threads, ReceiveNothing(t)
  PROVE  Inv' /\ NamesStep
<1> DEFINE q == thread[t].told
<1>1. /\ thread[t].state = "running" /\ q # 0 /\ ~ \E s \in HandleSlots : Receiver(t, s, q)
      /\ thread' = Answered(t)
      /\ UNCHANGED <<port, message, detached, table, issued, process>>
  BY DEF ReceiveNothing, Answered
<1>2. Typed /\ ProcessInv /\ WaitInv /\ PortInv /\ CountInv
  BY DEF Inv
<1>3. /\ thread' \in [Threads -> ThreadRecords]
      /\ \A u \in Threads :
           /\ thread'[u].state = thread[u].state /\ thread'[u].waits = thread[u].waits
           /\ u # t => thread'[u] = thread[u]
      /\ thread'[t].probe = NoProbe
  BY <1>1, <1>2, AnsweredIs
<1>4. ProbeInv'
  BY <1>1, <1>3, ProbesSame
<1>5. q \in PortSlots
  <2>1. thread[t] \in ThreadRecords
    BY <1>2 DEF Typed
  <2> QED BY <2>1, <1>1 DEF ThreadRecords
<1>6. port[q].count > 0 => ProcessOf[t] # port[q].owner
  <2> SUFFICES ASSUME port[q].count > 0, ProcessOf[t] = port[q].owner PROVE FALSE
    OBVIOUS
  <2>1. Active(q)
    BY <1>2, <1>5, CountActive
  <2>2. PICK s \in HandleSlots : LET h == Handle(port[q].owner, s) IN
           h.kind = "receive" /\ h.port = q /\ "read" \in h.rights
    BY <1>2, <1>5, <2>1, HasReceiver
  <2>3. Receiver(t, s, q)
    BY <1>1, <2>1, <2>2 DEF Receiver
  <2> QED BY <1>1, <2>3
<1>7. ASSUME NEW r \in PortSlots, port'[r].count > 0
      PROVE  /\ port[r].count > 0
             /\ \A u \in Threads :
                  thread[u].state = "running" /\ thread[u].told = r /\ ProcessOf[u] = port[r].owner =>
                    thread'[u].state = "running" /\ thread'[u].told = r
  <2>1. port[r].count > 0
    BY <1>1, <1>7
  <2>2. ASSUME NEW u \in Threads, thread[u].state = "running", thread[u].told = r, ProcessOf[u] = port[r].owner
        PROVE  u # t
    BY <2>1, <2>2, <1>6
  <2> QED BY <2>1, <2>2, <1>3
<1>8. ASSUME NEW u \in Threads, thread'[u].state = "blocked"
      PROVE  /\ thread[u].state = "blocked" /\ thread'[u].waits = thread[u].waits
             /\ \A w \in thread[u].waits :
                   /\ port'[w[1]].state = "open" /\ port'[w[1]].owner = port[w[1]].owner
                   /\ w[2] = "send" => port'[w[1]].count > 0
  BY <1>1, <1>2, <1>3, <1>8 DEF WaitInv, NoStrandedWaiter
<1>9. WaitInv'
  BY <1>2, <1>7, <1>8, WaitKept
<1>10. \A u \in Threads :
         /\ thread'[u].state # "gone" => thread[u].state # "gone"
         /\ thread'[u].state = "gone" => thread'[u] = Gone
         /\ thread'[u].state = "blocked" <=> thread'[u].waits # {}
  BY <1>1, <1>2, <1>3 DEF ProcessInv
<1> QED BY <1>1, <1>3, <1>4, <1>9, <1>10, ThreadsOnly

(* A receive fails, and another receiver is told of the message. *)
LEMMA ReceiveFaultsStep ==
  ASSUME Inv, NEW t \in Threads, NEW s \in HandleSlots, ReceiveFaults(t, s)
  PROVE  Inv' /\ NamesStep
<1> DEFINE q == Handle(ProcessOf[t], s).port
           th == Answered(t)
<1>1. /\ Receiver(t, s, q) /\ thread' \in ToldOne(th, q)
      /\ UNCHANGED <<port, message, detached, table, issued, process>>
  BY DEF ReceiveFaults, PutBack, Answered
<1>2. Typed /\ ProcessInv /\ WaitInv /\ PortInv /\ CountInv
  BY DEF Inv
<1>3. /\ th \in [Threads -> ThreadRecords]
      /\ \A u \in Threads :
           /\ th[u].state = thread[u].state /\ th[u].waits = thread[u].waits
           /\ u # t => th[u] = thread[u]
      /\ th[t].probe = NoProbe
  BY <1>2, AnsweredIs
<1>4. thread[t].state = "running" /\ thread[t].told \in {0, q} /\ Handle(ProcessOf[t], s).kind = "receive"
  BY <1>1 DEF Receiver
<1>5. q \in PortSlots
  BY <1>2, <1>4, HandleIs, PortsAssumption
<1> HIDE DEF th, q
<1>6. Waiting(th, q, "receive") = Waiting(thread, q, "receive")
  BY <1>3 DEF Waiting
<1>7. /\ thread' \in [Threads -> ThreadRecords]
      /\ \A u \in Threads :
           \/ thread'[u] = th[u]
           \/ /\ u \in Waiting(thread, q, "receive") /\ thread'[u].state = "running" /\ thread'[u].waits = {}
              /\ thread'[u].told = q /\ thread'[u].probe = th[u].probe
      /\ Waiting(thread, q, "receive") # {} =>
           \E u \in Waiting(thread, q, "receive") : thread'[u].state = "running" /\ thread'[u].told = q
  BY <1>1, <1>3, <1>5, <1>6, ToldOneIs
<1>8. ProbeInv'
  <2>1. \A u \in Threads : thread'[u].probe \in {thread[u].probe, NoProbe}
    BY <1>3, <1>7
  <2> QED BY <1>1, <1>7, <2>1, ProbesSame
<1>9. ASSUME NEW u \in Threads, thread'[u].state = "blocked"
      PROVE  /\ thread[u].state = "blocked" /\ thread'[u].waits = thread[u].waits
             /\ \A w \in thread[u].waits :
                   /\ port'[w[1]].state = "open" /\ port'[w[1]].owner = port[w[1]].owner
                   /\ w[2] = "send" => port'[w[1]].count > 0
  <2>1. thread[u].state = "blocked" /\ thread'[u].waits = thread[u].waits
    BY <1>3, <1>7, <1>9
  <2> QED BY <2>1, <1>1, <1>2 DEF WaitInv, NoStrandedWaiter
<1>10. ASSUME NEW r \in PortSlots, port'[r].count > 0, Waiting(thread', r, "receive") # {}
       PROVE  \/ /\ port[r].count > 0
                 /\ \A u \in Threads :
                      thread[u].state = "running" /\ thread[u].told = r /\ ProcessOf[u] = port[r].owner =>
                        thread'[u].state = "running" /\ thread'[u].told = r
              \/ \E u \in Threads : /\ thread'[u].state = "running" /\ thread'[u].told = r
                                    /\ ProcessOf[u] = port'[r].owner
  <2>1. CASE r = q
    <3>1. Waiting(thread', q, "receive") \subseteq Waiting(thread, q, "receive")
      BY <1>9 DEF Waiting
    <3>2. PICK u \in Waiting(thread, q, "receive") : thread'[u].state = "running" /\ thread'[u].told = q
      BY <2>1, <3>1, <1>7, <1>10
    <3>3. u \in Threads /\ thread[u].state = "blocked" /\ <<q, "receive">> \in thread[u].waits
      BY <3>2 DEF Waiting
    <3>4. ProcessOf[u] = port[q].owner
      BY <3>3, <1>2 DEF WaitInv, NoStrandedWaiter
    <3> QED BY <2>1, <3>2, <3>3, <3>4, <1>1
  <2>2. CASE r # q
    <3>1. port[r].count > 0
      BY <1>1, <1>10
    <3>2. ASSUME NEW u \in Threads, thread[u].state = "running", thread[u].told = r
          PROVE  thread'[u].state = "running" /\ thread'[u].told = r
      <4>1. r # 0
        BY Pools
      <4>2. u # t
        BY <1>4, <2>2, <3>2, <4>1
      <4>3. u \notin Waiting(thread, q, "receive")
        BY <3>2 DEF Waiting
      <4> QED BY <3>2, <4>2, <4>3, <1>3, <1>7
    <3> QED BY <3>1, <3>2
  <2> QED BY <2>1, <2>2
<1>11. WaitInv'
  BY <1>2, <1>9, <1>10, WaitKept
<1>12. \A u \in Threads :
         /\ thread'[u].state # "gone" => thread[u].state # "gone"
         /\ thread'[u].state = "gone" => thread'[u] = Gone
         /\ thread'[u].state = "blocked" <=> thread'[u].waits # {}
  <2> SUFFICES ASSUME NEW u \in Threads
               PROVE  /\ thread'[u].state # "gone" => thread[u].state # "gone"
                      /\ thread'[u].state = "gone" => thread'[u] = Gone
                      /\ thread'[u].state = "blocked" <=> thread'[u].waits # {}
    OBVIOUS
  <2>1. CASE thread'[u] = th[u]
    <3>1. u # t => thread'[u] = thread[u]
      BY <2>1, <1>3
    <3>2. thread'[u].state = thread[u].state /\ thread'[u].waits = thread[u].waits
      BY <2>1, <1>3
    <3> QED BY <3>1, <3>2, <1>2, <1>4 DEF ProcessInv
  <2>2. CASE u \in Waiting(thread, q, "receive") /\ thread'[u].state = "running" /\ thread'[u].waits = {}
    BY <2>2 DEF Waiting
  <2> QED BY <2>1, <2>2, <1>7
<1> QED BY <1>1, <1>7, <1>8, <1>11, <1>12, ThreadsOnly

(* A thread waits: for what is not ready, and with something to wake it. *)
LEMMA WaitStep ==
  ASSUME Inv, NEW t \in Threads, NEW S \in SUBSET HandleSlots, Wait(t, S)
  PROVE  Inv' /\ NamesStep
<1> DEFINE p == ProcessOf[t]
           W == {<<Handle(p, s).port, Handle(p, s).kind>> : s \in S}
           e == Entered(t)
           x == [e[t] EXCEPT !.state = "blocked", !.waits = W]
<1>1. /\ Acting(t) /\ S # {} /\ \A s \in S : MustWait(t, s)
      /\ thread' = [Entered(t) EXCEPT ![t].state = "blocked", ![t].waits = W]
      /\ UNCHANGED <<port, message, detached, table, issued, process>>
  BY DEF Wait
<1>2. Typed /\ ProcessInv /\ ProbeInv /\ PortInv /\ WaitInv /\ CountInv
  BY DEF Inv
<1>3. p \in Processes
  BY PortsAssumption
<1>4. /\ e \in [Threads -> ThreadRecords]
      /\ \A u \in Threads : u # t => e[u] = thread[u]
      /\ e[t].probe = NoProbe /\ e[t].told = thread[t].told
  BY <1>2, EnteredIs
<1>5. ASSUME NEW s \in S
      PROVE  /\ Handle(p, s).kind \in {"send", "receive"} /\ Handle(p, s).port \in PortSlots
             /\ port[Handle(p, s).port].state = "open"
             /\ Handle(p, s).kind = "send" => port[Handle(p, s).port].count > 0
             /\ Handle(p, s).kind = "receive" => /\ port[Handle(p, s).port].count = 0
                                                 /\ p = port[Handle(p, s).port].owner
  <2> DEFINE h == Handle(p, s)
  <2>1. /\ h.kind \in {"send", "receive"} /\ port[h.port].state = "open"
        /\ IF h.kind = "send" THEN MustWaitForRoom(t, s) ELSE port[h.port].count = 0
    BY <1>1 DEF MustWait
  <2>2. h.port \in PortSlots /\ table[p][s].generation \in 1 .. MaxGeneration + 1
    BY <2>1, <1>2, <1>3, HandleIs
  <2>3. h.kind = "receive" => p = port[h.port].owner
    BY <1>2, <1>3 DEF CountInv
  <2>4. CASE h.kind = "send" /\ <<thread[t].probe.slot, thread[t].probe.generation>> = Name(p, s)
    <3>1. /\ thread[t].probe.current /\ thread[t].probe.slot = s
          /\ thread[t].probe.generation = table[p][s].generation
      BY <2>1, <2>4 DEF MustWaitForRoom, Name
    <3>2. thread[t].probe # NoProbe
      BY <3>1, Pools DEF NoProbe
    <3>3. h.port = thread[t].probe.port
      BY <3>1, <3>2, <1>2 DEF ProbeInv
    <3>4. port[thread[t].probe.port].count > 0
      BY <3>1, <1>2 DEF ProbeInv
    <3> QED BY <2>1, <2>2, <2>4, <3>3, <3>4
  <2>5. CASE h.kind = "send" /\ <<thread[t].probe.slot, thread[t].probe.generation>> # Name(p, s)
    <3>1. ~SendReady(h.port)
      BY <2>1, <2>5 DEF MustWaitForRoom
    <3>2. port[h.port].count > 0
      BY <3>1, <2>2, <1>2, NoRoom
    <3> QED BY <2>1, <2>2, <2>5, <3>2
  <2>6. CASE h.kind = "receive"
    BY <2>1, <2>2, <2>3, <2>6
  <2> QED BY <2>1, <2>4, <2>5, <2>6
<1>6. W \in SUBSET (PortSlots \X {"send", "receive"}) /\ W # {}
  <2>1. W # {}
    BY <1>1
  <2>2. ASSUME NEW s \in S
        PROVE  <<Handle(p, s).port, Handle(p, s).kind>> \in PortSlots \X {"send", "receive"}
    <3> HIDE DEF p
    <3> QED BY <1>5
  <2> QED BY <2>1, <2>2
<1>7. \A w \in W : /\ port[w[1]].state = "open"
                   /\ w[2] = "send" => port[w[1]].count > 0
                   /\ w[2] = "receive" => port[w[1]].count = 0 /\ p = port[w[1]].owner
  <2> SUFFICES ASSUME NEW w \in W
               PROVE  /\ port[w[1]].state = "open"
                      /\ w[2] = "send" => port[w[1]].count > 0
                      /\ w[2] = "receive" => port[w[1]].count = 0 /\ p = port[w[1]].owner
    OBVIOUS
  <2>1. PICK s \in S : w = <<Handle(p, s).port, Handle(p, s).kind>>
    OBVIOUS
  <2>2. w[1] = Handle(p, s).port /\ w[2] = Handle(p, s).kind
    BY <2>1
  <2> HIDE DEF W, p
  <2> QED BY <2>2, <1>5
<1> HIDE DEF W
<1>8. /\ x \in ThreadRecords /\ x.state = "blocked" /\ x.waits = W
      /\ x.probe = NoProbe /\ x.told = thread[t].told
  <2>1. e[t] \in ThreadRecords
    BY <1>4
  <2> HIDE DEF e
  <2> QED BY <2>1, <1>4, <1>6 DEF ThreadRecords
<1>9. thread' = [e EXCEPT ![t] = x]
  BY <1>1
<1> HIDE DEF x
<1>10. /\ thread' \in [Threads -> ThreadRecords] /\ thread'[t] = x
       /\ \A u \in Threads : u # t => thread'[u] = thread[u]
  BY <1>4, <1>8, <1>9
<1>11. ProbeInv'
  <2>1. \A u \in Threads : thread'[u].probe \in {thread[u].probe, NoProbe}
    BY <1>8, <1>10
  <2> QED BY <1>1, <1>10, <2>1, ProbesSame
<1>12. thread[t].state = "running" /\ thread[t].told = 0
  BY <1>1, ActingTold
<1>13. NoStrandedWaiter'
  <2>1. ASSUME NEW u \in Threads, thread'[u].state = "blocked", NEW w \in thread'[u].waits
        PROVE  /\ port[w[1]].state = "open"
               /\ w[2] = "send" => port[w[1]].count > 0
               /\ w[2] = "receive" => ProcessOf[u] = port[w[1]].owner
    <3>1. CASE u = t
      BY <2>1, <3>1, <1>7, <1>8, <1>10
    <3>2. CASE u # t
      BY <2>1, <3>2, <1>2, <1>10 DEF WaitInv, NoStrandedWaiter
    <3> QED BY <3>1, <3>2
  <2> QED BY <2>1, <1>1 DEF NoStrandedWaiter
<1>14. ASSUME NEW q \in PortSlots, port'[q].count > 0, Waiting(thread', q, "receive") # {}
       PROVE  \E u \in Threads : /\ thread'[u].state = "running" /\ thread'[u].told = q
                                 /\ ProcessOf[u] = port'[q].owner
  <2>1. PICK v \in Threads : thread'[v].state = "blocked" /\ <<q, "receive">> \in thread'[v].waits
    BY <1>14 DEF Waiting
  <2>2. v # t
    <3> SUFFICES ASSUME v = t PROVE FALSE
      OBVIOUS
    <3>1. <<q, "receive">> \in W
      BY <2>1, <1>8, <1>10
    <3>2. port[q].count = 0
      BY <3>1, <1>7
    <3> QED BY <3>2, <1>1, <1>14
  <2>3. v \in Waiting(thread, q, "receive")
    BY <2>1, <2>2, <1>10 DEF Waiting
  <2>4. PICK u \in Threads : /\ thread[u].state = "running" /\ thread[u].told = q
                             /\ ProcessOf[u] = port[q].owner
    BY <2>3, <1>1, <1>2, <1>14 DEF WaitInv
  <2>5. u # t
    BY <2>4, <1>12, Pools
  <2> QED BY <2>4, <2>5, <1>1, <1>10
<1>15. WaitInv'
  <2>1. (\A q \in PortSlots :
          port[q].count > 0 /\ Waiting(thread, q, "receive") # {} =>
            \E u \in Threads : /\ thread[u].state = "running" /\ thread[u].told = q
                               /\ ProcessOf[u] = port[q].owner)'
    BY <1>14
  <2> QED BY <2>1, <1>13 DEF WaitInv
<1>16. \A u \in Threads :
         /\ thread'[u].state # "gone" => thread[u].state # "gone"
         /\ thread'[u].state = "gone" => thread'[u] = Gone
         /\ thread'[u].state = "blocked" <=> thread'[u].waits # {}
  BY <1>2, <1>6, <1>8, <1>10, <1>12 DEF ProcessInv
<1> QED BY <1>1, <1>10, <1>11, <1>15, <1>16, ThreadsOnly

(* A wait ends by itself. *)
LEMMA WaitEndsStep ==
  ASSUME Inv, NEW t \in Threads, WaitEnds(t)
  PROVE  Inv' /\ NamesStep
<1>1. /\ thread[t].state = "blocked" /\ thread' = [thread EXCEPT ![t] = Running]
      /\ UNCHANGED <<port, message, detached, table, issued, process>>
  BY DEF WaitEnds
<1>2. Typed /\ ProcessInv /\ WaitInv
  BY DEF Inv
<1>3. Running \in ThreadRecords /\ Running.state = "running" /\ Running.waits = {} /\ Running.probe = NoProbe
  BY Shapes DEF Running
<1>4. /\ thread' \in [Threads -> ThreadRecords] /\ thread'[t] = Running
      /\ \A u \in Threads : u # t => thread'[u] = thread[u]
  BY <1>1, <1>2, <1>3 DEF Typed
<1>5. ProbeInv'
  BY <1>1, <1>3, <1>4, ProbesSame
<1>6. WaitInv'
  BY <1>1, <1>2, <1>3, <1>4, WaitSame
<1>7. \A u \in Threads :
         /\ thread'[u].state # "gone" => thread[u].state # "gone"
         /\ thread'[u].state = "gone" => thread'[u] = Gone
         /\ thread'[u].state = "blocked" <=> thread'[u].waits # {}
  BY <1>1, <1>2, <1>3, <1>4 DEF ProcessInv
<1> QED BY <1>1, <1>4, <1>5, <1>6, <1>7, ThreadsOnly

(* Ports with the same fields are the same. *)
LEMMA PortEqual ==
  ASSUME NEW a \in PortRecords, NEW b \in PortRecords,
         a.state = b.state, a.owner = b.owner, a.references = b.references, a.send = b.send,
         a.receive = b.receive, a.head = b.head, a.tail = b.tail, a.count = b.count, a.bytes = b.bytes
  PROVE  a = b
<1>1. \A c \in PortRecords :
        c = [state |-> c.state, owner |-> c.owner, references |-> c.references, send |-> c.send,
             receive |-> c.receive, head |-> c.head, tail |-> c.tail, count |-> c.count, bytes |-> c.bytes]
  BY DEF PortRecords
<1> QED BY <1>1

(* A port with more send handles. *)
LEMMA RetainedIs ==
  ASSUME NEW po \in PortRecords, NEW n \in Nat
  PROVE  /\ Retained(po, n) \in PortRecords
         /\ Retained(po, n).send = po.send + n /\ Retained(po, n).references = po.references + n
         /\ Retained(po, n).state = po.state /\ Retained(po, n).owner = po.owner
         /\ Retained(po, n).receive = po.receive /\ Retained(po, n).head = po.head
         /\ Retained(po, n).tail = po.tail /\ Retained(po, n).count = po.count
         /\ Retained(po, n).bytes = po.bytes
<1>1. po.send \in Int /\ po.references \in Int
  BY DEF PortRecords
<1> DEFINE a == [po EXCEPT !.send = po.send + n]
           b == [a EXCEPT !.references = po.references + n]
<1>2. Retained(po, n) = b
  BY DEF Retained
<1>3. a \in PortRecords
  BY <1>1, PortExcept
<1>4. /\ a.send = po.send + n /\ a.references = po.references /\ a.state = po.state /\ a.owner = po.owner
      /\ a.receive = po.receive /\ a.head = po.head /\ a.tail = po.tail /\ a.count = po.count
      /\ a.bytes = po.bytes
  BY DEF PortRecords
<1> HIDE DEF a
<1>5. b \in PortRecords
  BY <1>1, <1>3, PortExcept
<1>6. /\ b.references = po.references + n /\ b.send = a.send /\ b.state = a.state /\ b.owner = a.owner
      /\ b.receive = a.receive /\ b.head = a.head /\ b.tail = a.tail /\ b.count = a.count
      /\ b.bytes = a.bytes
  BY <1>3 DEF PortRecords
<1> HIDE DEF b
<1> QED BY <1>2, <1>4, <1>5, <1>6

(* What is retained and let go again leaves a port as it was. *)
LEMMA UndoneIs ==
  ASSUME NEW po \in PortRecords, Sound(po), NEW n \in Nat
  PROVE  Dropped(Retained(po, n), n, 0, FALSE) = po
<1> DEFINE k == Retained(po, n)
           a == [k EXCEPT !.send = k.send - n]
           b == [a EXCEPT !.receive = k.receive - 0]
           f == [b EXCEPT !.references = k.references - n - 0]
<1>1. /\ k \in PortRecords /\ k.send = po.send + n /\ k.references = po.references + n
      /\ k.state = po.state /\ k.owner = po.owner /\ k.receive = po.receive /\ k.head = po.head
      /\ k.tail = po.tail /\ k.count = po.count /\ k.bytes = po.bytes
  BY RetainedIs
<1>2. po.send \in Int /\ po.references \in Int /\ po.receive \in Int
  BY DEF PortRecords
<1> HIDE DEF k
<1>3. a \in PortRecords /\ a.send = po.send /\ a.receive = po.receive /\ a.references = k.references
      /\ a.state = k.state /\ a.owner = k.owner /\ a.head = k.head /\ a.tail = k.tail
      /\ a.count = k.count /\ a.bytes = k.bytes
  <2>1. k.send - n = po.send /\ k.send - n \in Int
    BY <1>1, <1>2
  <2>2. a \in PortRecords
    BY <1>1, <2>1, PortExcept
  <2>3. a.send = k.send - n /\ a.receive = k.receive /\ a.references = k.references
      /\ a.state = k.state /\ a.owner = k.owner /\ a.head = k.head /\ a.tail = k.tail
      /\ a.count = k.count /\ a.bytes = k.bytes
    BY <1>1 DEF PortRecords
  <2> HIDE DEF a
  <2> QED BY <1>1, <2>1, <2>2, <2>3
<1> HIDE DEF a
<1>4. b \in PortRecords /\ b.receive = po.receive /\ b.send = a.send /\ b.references = a.references
      /\ b.state = a.state /\ b.owner = a.owner /\ b.head = a.head /\ b.tail = a.tail
      /\ b.count = a.count /\ b.bytes = a.bytes
  <2>1. k.receive - 0 = po.receive /\ k.receive - 0 \in Int
    BY <1>1, <1>2
  <2>2. b \in PortRecords
    BY <1>3, <2>1, PortExcept
  <2>3. b.receive = k.receive - 0 /\ b.send = a.send /\ b.references = a.references
      /\ b.state = a.state /\ b.owner = a.owner /\ b.head = a.head /\ b.tail = a.tail
      /\ b.count = a.count /\ b.bytes = a.bytes
    BY <1>3 DEF PortRecords
  <2> HIDE DEF b
  <2> QED BY <2>1, <2>2, <2>3
<1> HIDE DEF b
<1>5. f \in PortRecords /\ f.references = po.references /\ f.send = b.send /\ f.receive = b.receive
      /\ f.state = b.state /\ f.owner = b.owner /\ f.head = b.head /\ f.tail = b.tail
      /\ f.count = b.count /\ f.bytes = b.bytes
  <2>1. k.references - n - 0 = po.references /\ k.references - n - 0 \in Int
    BY <1>1, <1>2
  <2>2. f \in PortRecords
    BY <1>4, <2>1, PortExcept
  <2>3. f.references = k.references - n - 0 /\ f.send = b.send /\ f.receive = b.receive
      /\ f.state = b.state /\ f.owner = b.owner /\ f.head = b.head /\ f.tail = b.tail
      /\ f.count = b.count /\ f.bytes = b.bytes
    BY <1>4 DEF PortRecords
  <2> HIDE DEF f
  <2> QED BY <2>1, <2>2, <2>3
<1>6. Fewer(k, n, 0) = f
  BY DEF Fewer, a, b
<1> HIDE DEF f
<1>7. f = po
  BY <1>1, <1>3, <1>4, <1>5, PortEqual
<1>8. StateAfter(po, FALSE) = po.state
  <2>1. po.state = "open" => po.send # 0
    BY <1>2 DEF Sound
  <2> QED BY <2>1 DEF StateAfter
<1>9. [po EXCEPT !.state = po.state] = po
  BY DEF PortRecords
<1>10. ~(po.state = "closing" /\ po.references = 0)
  BY <1>2 DEF Sound
<1>11. Dropped(k, n, 0, FALSE) =
         LET q == [f EXCEPT !.state = StateAfter(f, FALSE)]
         IN IF q.state = "closing" /\ q.references = 0 /\ q.count = 0 THEN FreePort ELSE q
  BY <1>6 DEF Dropped
<1>12. Dropped(k, n, 0, FALSE) = po
  BY <1>7, <1>8, <1>9, <1>10, <1>11
<1> QED BY <1>12 DEF k

(* A fork that fails leaves the ports as they were. *)
LEMMA ForkFailsPorts ==
  ASSUME Inv, NEW t \in Threads, ForkFails(t)
  PROVE  port' = port
<1> DEFINE p == ProcessOf[t]
           n(s) == [q \in PortSlots |->
                      Sends(Restricted(Handles(p), {x \in HandleSlots : x < s}), q)]
<1>1. PICK s \in HandleSlots : port' = Undone(p, n(s))
  BY DEF ForkFails
<1>2. Typed /\ PortInv
  BY DEF Inv
<1>3. \A q \in PortSlots : n(s)[q] \in Nat
  <2> DEFINE S == {x \in HandleSlots : x < s}
             H == Restricted(Handles(p), S)
  <2>1. DOMAIN H = S
    BY DEF Restricted
  <2>2. S \in SUBSET HandleSlots
    OBVIOUS
  <2>3. IsFiniteSet(S)
    BY <2>2, Pools, FS_Subset
  <2> HIDE DEF H, S
  <2>4. \A q : Sends(H, q) \in Nat
    BY <2>1, <2>3, CountType, Counts
  <2> QED BY <2>4 DEF H, S
<1> QED
  <2>1. ASSUME NEW q \in PortSlots PROVE Dropped(Retained(port[q], n(s)[q]), n(s)[q], 0, FALSE) = port[q]
    <3>1. port[q] \in PortRecords /\ Sound(port[q])
      BY <1>2 DEF Typed, PortInv
    <3> HIDE DEF n
    <3> QED BY <3>1, <1>3, UndoneIs
  <2>2. port = [q \in PortSlots |-> port[q]]
    BY <1>2 DEF Typed
  <2> HIDE DEF n
  <2> QED BY <1>1, <2>1, <2>2 DEF Undone

(* So it changes nothing but the probe. *)
LEMMA ForkFailsStep ==
  ASSUME Inv, NEW t \in Threads, ForkFails(t)
  PROVE  Inv' /\ NamesStep
<1>1. Acting(t) /\ thread' = Entered(t) /\ UNCHANGED <<message, detached, table, issued, process>>
  BY DEF ForkFails
<1>2. Typed /\ ProcessInv /\ WaitInv
  BY DEF Inv
<1>3. port' = port
  BY ForkFailsPorts
<1>4. /\ thread' \in [Threads -> ThreadRecords]
      /\ \A u \in Threads :
           /\ thread'[u].state = thread[u].state /\ thread'[u].waits = thread[u].waits
           /\ thread'[u].told = thread[u].told
           /\ u # t => thread'[u] = thread[u]
      /\ thread'[t].probe = NoProbe
  BY <1>1, <1>2, EnteredIs
<1>5. ProbeInv'
  BY <1>1, <1>3, <1>4, ProbesSame
<1>6. WaitInv'
  BY <1>2, <1>3, <1>4, WaitSame
<1>7. \A u \in Threads :
         /\ thread'[u].state # "gone" => thread[u].state # "gone"
         /\ thread'[u].state = "gone" => thread'[u] = Gone
         /\ thread'[u].state = "blocked" <=> thread'[u].waits # {}
  BY <1>1, <1>2, <1>4, ActingTold DEF ProcessInv
<1> QED BY <1>1, <1>3, <1>4, <1>5, <1>6, <1>7, ThreadsOnly

----------------------------------------------------------------------------
(* The steps that add handles.                                             *)

(* The handles of a table whose entries are handles. *)
LEMMA TableCounts ==
  ASSUME Typed, NEW p \in Processes, NEW tb \in [HandleSlots -> Entries],
         table' = [table EXCEPT ![p] = tb], NEW kind \in {"send", "receive"}, NEW q
  PROVE  /\ Count(AllHandles', kind, q) =
              Count(AllHandles, kind, q) - Count(HandlesOf(table[p]), kind, q) + Count(HandlesOf(tb), kind, q)
         /\ Count(HandlesOf(table[p]), kind, q) <= Count(AllHandles, kind, q)
         /\ Count(HandlesOf(table[p]), kind, q) \in Nat /\ Count(HandlesOf(tb), kind, q) \in Nat
         /\ Count(AllHandles, kind, q) \in Nat /\ Count(AllHandles', kind, q) \in Nat
<1>1. AllHandles = Flat(table) /\ AllHandles' = Flat(table')
  BY DEF AllHandles, Flat, Handle
<1>2. table'[p] = tb /\ \A r \in Processes : r # p => table'[r] = table[r]
  BY DEF Typed
<1>3. /\ Count(Flat(table'), kind, q) - Count(HandlesOf(table'[p]), kind, q)
           = Count(Flat(table), kind, q) - Count(HandlesOf(table[p]), kind, q)
      /\ Count(HandlesOf(table[p]), kind, q) <= Count(Flat(table), kind, q)
  <2> DEFINE U == table'
  <2>1. \A r \in Processes : r # p => U[r] = table[r]
    BY <1>2
  <2> HIDE DEF U
  <2>2. /\ Count(Flat(U), kind, q) - Count(HandlesOf(U[p]), kind, q)
             = Count(Flat(table), kind, q) - Count(HandlesOf(table[p]), kind, q)
        /\ Count(HandlesOf(table[p]), kind, q) <= Count(Flat(table), kind, q)
    BY <2>1, CountFlat
  <2> QED BY <2>2 DEF U
<1>4. IsFiniteSet(Processes \X HandleSlots) /\ IsFiniteSet(HandleSlots)
  BY Pools, PortsAssumption, FS_Product
<1>5. /\ DOMAIN Flat(table) = Processes \X HandleSlots /\ DOMAIN Flat(table') = Processes \X HandleSlots
      /\ DOMAIN HandlesOf(table[p]) = HandleSlots /\ DOMAIN HandlesOf(tb) = HandleSlots
  BY DEF Flat, HandlesOf
<1>6. /\ Count(Flat(table), kind, q) \in Nat /\ Count(Flat(table'), kind, q) \in Nat
      /\ Count(HandlesOf(table[p]), kind, q) \in Nat /\ Count(HandlesOf(tb), kind, q) \in Nat
  BY <1>4, <1>5, CountType
<1> QED BY <1>1, <1>2, <1>3, <1>6

(* When handles go into a table they are added to the counts of all. *)
LEMMA InstalledCounts ==
  ASSUME Typed, NEW p \in Processes, NEW n \in Nat, NEW L \in [1 .. n -> Ends],
         n <= Cardinality(FreeSlots(p)), table' = [table EXCEPT ![p] = Installed(table[p], L)],
         NEW q
  PROVE  /\ Sends(AllHandles', q) = Sends(AllHandles, q) + Sends(L, q)
         /\ Receives(AllHandles', q) = Receives(AllHandles, q) + Receives(L, q)
<1> DEFINE tb == table[p]
           new == Installed(tb, L)
<1>1. tb \in [HandleSlots -> Entries]
  BY DEF Typed
<1>2. FreeSlots(p) = {s \in HandleSlots : tb[s].handle = None}
  BY DEF FreeSlots, Handle
<1>3. new \in [HandleSlots -> Entries]
  <2> HIDE DEF tb
  <2> QED BY <1>1, <1>2, InstalledIs
<1>4. ASSUME NEW kind \in {"send", "receive"}
      PROVE  Count(AllHandles', kind, q) = Count(AllHandles, kind, q) + Count(L, kind, q)
  <2>1. Count(HandlesOf(new), kind, q) = Count(HandlesOf(tb), kind, q) + Count(L, kind, q)
    <3> HIDE DEF tb
    <3> QED BY <1>1, <1>2, InstalledCount
  <2> HIDE DEF new
  <2>2. /\ Count(AllHandles', kind, q) =
             Count(AllHandles, kind, q) - Count(HandlesOf(tb), kind, q) + Count(HandlesOf(new), kind, q)
        /\ Count(HandlesOf(tb), kind, q) \in Nat
        /\ Count(AllHandles, kind, q) \in Nat
    BY <1>3, TableCounts DEF new
  <2>3. Count(L, kind, q) \in Nat
    BY FS_Interval, CountType
  <2> QED BY <2>1, <2>2, <2>3
<1> QED BY <1>4, Counts

(* The counts are kept when the tables have as many more handles as the ports count. *)
LEMMA CountsKept ==
  ASSUME Typed, Typed', CountInv, detached' = detached,
         \A q \in PortSlots :
           /\ port'[q].send - port[q].send = Sends(AllHandles', q) - Sends(AllHandles, q)
           /\ port'[q].receive - port[q].receive = Receives(AllHandles', q) - Receives(AllHandles, q),
         \A p \in Processes, s \in HandleSlots :
           table'[p][s].handle.kind = "receive" =>
             \/ /\ table[p][s].handle = table'[p][s].handle
                /\ port'[table[p][s].handle.port].owner = port[table[p][s].handle.port].owner
             \/ port'[table'[p][s].handle.port].owner = p
  PROVE  CountInv'
<1>1. ASSUME NEW q \in PortSlots
      PROVE  port'[q].send = Sends(AllHandles', q) + Sends(detached', q) /\ port'[q].receive = Receives(AllHandles', q)
  <2>1. port[q].send = Sends(AllHandles, q) + Sends(detached, q) /\ port[q].receive = Receives(AllHandles, q)
    BY DEF CountInv
  <2>2. Sends(AllHandles, q) \in Nat /\ Receives(AllHandles, q) \in Nat /\ Sends(detached, q) \in Nat
    BY AllCounts
  <2>3. Sends(AllHandles', q) \in Nat /\ Receives(AllHandles', q) \in Nat
    <3>1. IsFiniteSet(DOMAIN AllHandles')
      BY Pools, PortsAssumption, FS_Product DEF AllHandles
    <3> QED BY <3>1, CountType, Counts
  <2>4. port'[q].send \in Int /\ port'[q].receive \in Int
    BY DEF Typed, PortRecords
  <2> QED BY <2>1, <2>2, <2>3, <2>4
<1>2. ASSUME NEW p \in Processes, NEW s \in HandleSlots, table'[p][s].handle.kind = "receive"
      PROVE  p = port'[table'[p][s].handle.port].owner
  BY <1>2 DEF CountInv, Handle
<1>3. ASSUME NEW q \in PortSlots
      PROVE  Sends(AllHandles, q)' = Sends(AllHandles', q) /\ Receives(AllHandles, q)' = Receives(AllHandles', q)
             /\ Sends(detached, q)' = Sends(detached', q)
  OBVIOUS
<1> QED BY <1>1, <1>2, <1>3 DEF CountInv, Handle

(* When no port closes, no queue gets shorter, and the told stay told, nobody sleeps past anything. *)
LEMMA WaitGrows ==
  ASSUME Typed, WaitInv,
         \A q \in PortSlots : port[q].state = "open" =>
           /\ port'[q].state = "open" /\ port'[q].owner = port[q].owner
           /\ port'[q].count = port[q].count,
         \A t \in Threads : thread'[t].state = "blocked" =>
            thread[t].state = "blocked" /\ thread'[t].waits = thread[t].waits,
         \A u \in Threads : thread[u].state = "running" /\ thread[u].told # 0 =>
            thread'[u].state = "running" /\ thread'[u].told = thread[u].told
  PROVE  WaitInv'
<1>0. \A t \in Threads : thread[t].waits \in SUBSET (PortSlots \X {"send", "receive"})
  BY DEF Typed, ThreadRecords
<1>1. ASSUME NEW t \in Threads, thread'[t].state = "blocked"
      PROVE  /\ thread[t].state = "blocked" /\ thread'[t].waits = thread[t].waits
             /\ \A w \in thread[t].waits :
                   /\ port'[w[1]].state = "open" /\ port'[w[1]].owner = port[w[1]].owner
                   /\ w[2] = "send" => port'[w[1]].count > 0
  <2>1. thread[t].state = "blocked" /\ thread'[t].waits = thread[t].waits
    BY <1>1
  <2>2. \A w \in thread[t].waits : w[1] \in PortSlots /\ port[w[1]].state = "open" /\ (w[2] = "send" => port[w[1]].count > 0)
    BY <2>1, <1>0 DEF WaitInv, NoStrandedWaiter
  <2> QED BY <2>1, <2>2
<1>2. ASSUME NEW q \in PortSlots, port'[q].count > 0, Waiting(thread', q, "receive") # {}
      PROVE  /\ port[q].count > 0
             /\ \A u \in Threads :
                  thread[u].state = "running" /\ thread[u].told = q /\ ProcessOf[u] = port[q].owner =>
                    thread'[u].state = "running" /\ thread'[u].told = q
  <2>1. PICK t \in Threads : thread'[t].state = "blocked" /\ <<q, "receive">> \in thread'[t].waits
    BY <1>2 DEF Waiting
  <2>2. thread[t].state = "blocked" /\ <<q, "receive">> \in thread[t].waits
    BY <2>1
  <2>3. <<q, "receive">>[1] = q
    OBVIOUS
  <2>4. port[q].state = "open"
    BY <2>2, <2>3 DEF WaitInv, NoStrandedWaiter
  <2> QED BY <2>4, <1>2, Pools
<1> QED BY <1>1, <1>2, WaitKept

(* The port of a receive handle counts it. *)
LEMMA ReceiverCounts ==
  ASSUME Typed, PortInv, CountInv, NEW p \in Processes, NEW s \in HandleSlots,
         Handle(p, s).kind = "receive"
  PROVE  Handle(p, s).port \in PortSlots /\ port[Handle(p, s).port].receive = 1
<1> DEFINE q == Handle(p, s).port
<1>1. q \in PortSlots
  BY HandleIs
<1>2. <<p, s>> \in At(AllHandles, "receive", q)
  BY DEF At, AllHandles, Handle
<1>3. IsFiniteSet(DOMAIN AllHandles)
  BY Pools, PortsAssumption, FS_Product DEF AllHandles
<1>4. Count(AllHandles, "receive", q) # 0 /\ Count(AllHandles, "receive", q) \in Nat
  BY <1>2, <1>3, CountType
<1>5. port[q].receive = Count(AllHandles, "receive", q)
  BY <1>1, Counts DEF CountInv
<1>6. port[q].receive \in 0 .. 1
  BY <1>1 DEF PortInv, Sound
<1> QED BY <1>1, <1>4, <1>5, <1>6

(* A step that puts handles into the table of the acting thread's process, and *)
(* changes no queue.                                                           *)
LEMMA GrowStep ==
  ASSUME Inv, NEW t \in Threads, Acting(t), NEW tb \in [HandleSlots -> Entries],
         TableSet(ProcessOf[t], tb), Renews(table[ProcessOf[t]], tb),
         thread' = Entered(t), UNCHANGED <<message, detached, process>>,
         port' \in [PortSlots -> PortRecords], PortInv',
         \A q \in PortSlots :
           /\ port'[q].head = port[q].head /\ port'[q].tail = port[q].tail
           /\ port'[q].count = port[q].count /\ port'[q].bytes = port[q].bytes
           /\ Active(q) => port'[q].state = port[q].state /\ port'[q].owner = port[q].owner
           /\ port'[q].send - port[q].send = Sends(AllHandles', q) - Sends(AllHandles, q)
           /\ port'[q].receive - port[q].receive = Receives(AllHandles', q) - Receives(AllHandles, q),
         \A s \in HandleSlots :
           tb[s].handle.kind = "receive" =>
             \/ tb[s].handle = Handle(ProcessOf[t], s)
             \/ port'[tb[s].handle.port].owner = ProcessOf[t],
         \A q \in PortSlots : port[q].receive = 1 => port'[q].owner = port[q].owner
  PROVE  Inv' /\ NamesStep
<1> DEFINE p == ProcessOf[t]
<1>1. /\ Typed /\ ProcessInv /\ NameInv /\ PortInv /\ QueueInv /\ TransitInv
      /\ CountInv /\ ProbeInv /\ WaitInv
  BY DEF Inv
<1>2. p \in Processes /\ thread[t].state = "running" /\ thread[t].told = 0
  BY PortsAssumption, ActingTold
<1>3. /\ table' \in [Processes -> [HandleSlots -> Entries]]
      /\ issued' \in [Processes -> SUBSET (HandleSlots \X Nat)]
      /\ NameInv' /\ NamesStep /\ table'[p] = tb
      /\ \A r \in Processes : /\ Ages(r)
                              /\ r # p => table'[r] = table[r] /\ issued'[r] = issued[r]
  BY <1>1, <1>2, TableKept
<1>4. /\ thread' \in [Threads -> ThreadRecords]
      /\ \A u \in Threads :
           /\ thread'[u].state = thread[u].state /\ thread'[u].waits = thread[u].waits
           /\ thread'[u].told = thread[u].told
           /\ u # t => thread'[u] = thread[u]
      /\ thread'[t].probe = NoProbe
  BY <1>1, EnteredIs
<1>5. Typed'
  BY <1>1, <1>3, <1>4 DEF Typed
<1>6. process[p] = "live"
  BY <1>1, <1>2 DEF ProcessInv
<1>7. ProcessInv'
  <2>1. \A u \in Threads :
          /\ thread'[u].state # "gone" => thread[u].state # "gone"
          /\ thread'[u].state = "gone" => thread'[u] = Gone
          /\ thread'[u].state = "blocked" <=> thread'[u].waits # {}
    BY <1>1, <1>2, <1>4 DEF ProcessInv
  <2>2. \A r \in Processes : process[r] \in {"unused", "dead"} =>
          table'[r] = table[r] /\ issued'[r] = issued[r]
    BY <1>3, <1>6
  <2> QED BY <1>1, <2>1, <2>2, ProcessesKept
<1>8. QueueInv'
  BY <1>1, QueuesKept
<1>9. TransitInv'
  <2>1. \A q \in PortSlots : Active(q) => Active(q)'
    BY DEF Active
  <2> QED BY <1>1, <2>1, TransitKept
<1>10. CountInv'
  <2>1. ASSUME NEW r \in Processes, NEW s \in HandleSlots, table'[r][s].handle.kind = "receive"
        PROVE  \/ /\ table[r][s].handle = table'[r][s].handle
                  /\ port'[table[r][s].handle.port].owner = port[table[r][s].handle.port].owner
               \/ port'[table'[r][s].handle.port].owner = r
    <3>1. CASE r # p
      <4>1. table'[r][s].handle = Handle(r, s)
        BY <1>3, <3>1 DEF Handle
      <4>2. Handle(r, s).port \in PortSlots
        BY <1>1, <2>1, <4>1, HandleIs
      <4>3. port[Handle(r, s).port].receive = 1
        BY <1>1, <2>1, <4>1, <4>2, ReceiverCounts
      <4> QED BY <4>1, <4>2, <4>3 DEF Handle
    <3>2. CASE r = p
      <4>1. table'[r][s].handle = tb[s].handle
        BY <1>3, <3>2
      <4>2. CASE tb[s].handle = Handle(p, s)
        <5>1. Handle(p, s).port \in PortSlots
          BY <1>1, <1>2, <2>1, <4>1, <4>2, HandleIs
        <5>2. port[Handle(p, s).port].receive = 1
          BY <1>1, <1>2, <2>1, <4>1, <4>2, <5>1, ReceiverCounts
        <5> QED BY <3>2, <4>1, <4>2, <5>1, <5>2 DEF Handle
      <4> QED BY <2>1, <3>2, <4>1, <4>2
    <3> QED BY <3>1, <3>2
  <2> QED BY <1>1, <1>5, <2>1, CountsKept
<1>11. ProbeInv'
  <2>1. ASSUME NEW u \in Threads, thread'[u].probe # NoProbe
        PROVE  /\ thread[u].probe # NoProbe
               /\ thread'[u].probe.slot = thread[u].probe.slot
               /\ thread'[u].probe.generation = thread[u].probe.generation
               /\ thread'[u].probe.port = thread[u].probe.port
               /\ thread'[u].probe.current =>
                    thread[u].probe.current /\ port'[thread[u].probe.port].count >= port[thread[u].probe.port].count
               /\ Ages(ProcessOf[u])
    <3>1. thread'[u] = thread[u] /\ ProcessOf[u] \in Processes
      BY <2>1, <1>4, PortsAssumption
    <3>2. thread[u].probe.port \in PortSlots
      BY <3>1, <2>1, <1>1 DEF ProbeInv
    <3>3. port'[thread[u].probe.port].count \in Nat /\ port'[thread[u].probe.port].count = port[thread[u].probe.port].count
      BY <3>2 DEF PortRecords
    <3> QED BY <2>1, <3>1, <3>3, <1>3
  <2> QED BY <1>1, <1>5, <2>1, ProbesKept
<1>12. WaitInv'
  <2>1. \A q \in PortSlots : port[q].state = "open" =>
           /\ port'[q].state = "open" /\ port'[q].owner = port[q].owner
           /\ port'[q].count = port[q].count
    BY DEF Active
  <2> QED BY <1>1, <1>4, <2>1, WaitGrows
<1> QED BY <1>3, <1>5, <1>7, <1>8, <1>9, <1>10, <1>11, <1>12 DEF Inv, PortInv

(* The port record that PORT_CREATE makes. *)
Opened(p) ==
  [FreePort EXCEPT !.state = "open", !.owner = p, !.references = 2, !.send = 1, !.receive = 1]

(* A new port has its type and is sound. *)
LEMMA OpenedIs ==
  ASSUME NEW p \in Processes
  PROVE  /\ Opened(p) \in PortRecords /\ Sound(Opened(p))
         /\ Opened(p).state = "open" /\ Opened(p).owner = p
         /\ Opened(p).send = 1 /\ Opened(p).receive = 1 /\ Opened(p).references = 2
         /\ Opened(p).head = 0 /\ Opened(p).tail = 0 /\ Opened(p).count = 0 /\ Opened(p).bytes = 0
<1> DEFINE rec(st, ow, ref, s, r) ==
             [state |-> st, owner |-> ow, references |-> ref, send |-> s, receive |-> r,
              head |-> 0, tail |-> 0, count |-> 0, bytes |-> 0]
<1>1. Opened(p) = rec("open", p, 2, 1, 1)
  <2>1. FreePort = rec("free", Nobody, 0, 0, 0)
    BY DEF FreePort
  <2>2. [rec("free", Nobody, 0, 0, 0) EXCEPT !.state = "open"] = rec("open", Nobody, 0, 0, 0)
    OBVIOUS
  <2>3. [rec("open", Nobody, 0, 0, 0) EXCEPT !.owner = p] = rec("open", p, 0, 0, 0)
    OBVIOUS
  <2>4. [rec("open", p, 0, 0, 0) EXCEPT !.references = 2] = rec("open", p, 2, 0, 0)
    OBVIOUS
  <2>5. [rec("open", p, 2, 0, 0) EXCEPT !.send = 1] = rec("open", p, 2, 1, 0)
    OBVIOUS
  <2>6. [rec("open", p, 2, 1, 0) EXCEPT !.receive = 1] = rec("open", p, 2, 1, 1)
    OBVIOUS
  <2>7. Opened(p) = [[[[[FreePort EXCEPT !.state = "open"] EXCEPT !.owner = p] EXCEPT !.references = 2]
                        EXCEPT !.send = 1] EXCEPT !.receive = 1]
    BY DEF Opened
  <2> HIDE DEF rec
  <2>8. [FreePort EXCEPT !.state = "open"] = rec("open", Nobody, 0, 0, 0)
    BY <2>1, <2>2
  <2>9. [[FreePort EXCEPT !.state = "open"] EXCEPT !.owner = p] = rec("open", p, 0, 0, 0)
    BY <2>3, <2>8
  <2>10. [[[FreePort EXCEPT !.state = "open"] EXCEPT !.owner = p] EXCEPT !.references = 2] = rec("open", p, 2, 0, 0)
    BY <2>4, <2>9
  <2>11. [[[[FreePort EXCEPT !.state = "open"] EXCEPT !.owner = p] EXCEPT !.references = 2] EXCEPT !.send = 1]
            = rec("open", p, 2, 1, 0)
    BY <2>5, <2>10
  <2> QED BY <2>6, <2>7, <2>11
<1>2. /\ Opened(p).state = "open" /\ Opened(p).owner = p
      /\ Opened(p).send = 1 /\ Opened(p).receive = 1 /\ Opened(p).references = 2
      /\ Opened(p).head = 0 /\ Opened(p).tail = 0 /\ Opened(p).count = 0 /\ Opened(p).bytes = 0
  BY <1>1
<1>3. Opened(p) \in PortRecords
  BY <1>1 DEF PortRecords
<1>4. Sound(Opened(p))
  BY <1>2, PortsAssumption DEF Sound
<1> QED BY <1>2, <1>3, <1>4

(* A port is created. *)
LEMMA CreateStep ==
  ASSUME Inv, NEW t \in Threads, Create(t)
  PROVE  Inv' /\ NamesStep
<1> DEFINE p == ProcessOf[t]
           q == Lowest(FreePorts)
           L == <<End("receive", q, ReceiveRights), End("send", q, SendRights)>>
           tb == Installed(table[p], L)
<1>1. /\ Typed /\ PortInv /\ CountInv
  BY DEF Inv
<1>2. /\ Acting(t) /\ FreePorts # {} /\ Cardinality(FreeSlots(p)) >= 2
      /\ port' = [port EXCEPT ![q] = Opened(p)]
      /\ TableSet(p, tb) /\ thread' = Entered(t) /\ UNCHANGED <<message, detached, process>>
  BY DEF Create, Opened
<1>3. p \in Processes
  BY PortsAssumption
<1>4. q \in PortSlots /\ port[q].state = "free"
  <2>1. FreePorts \in SUBSET Nat /\ IsFiniteSet(FreePorts)
    BY Pools, FS_Subset DEF FreePorts
  <2>2. q \in FreePorts
    BY <1>2, <2>1, LowestIn
  <2> QED BY <2>2 DEF FreePorts
<1> HIDE DEF q, p
<1>5. port[q] = FreePort
  BY <1>1, <1>4 DEF PortInv, Sound
<1>6. L \in [1 .. 2 -> Ends] /\ L[1].kind = "receive" /\ L[2].kind = "send"
      /\ L[1].port = q /\ L[2].port = q
  <2>1. /\ End("receive", q, ReceiveRights) \in Ends /\ End("send", q, SendRights) \in Ends
    BY <1>4, Shapes DEF Ends
  <2>2. /\ End("receive", q, ReceiveRights).kind = "receive" /\ End("receive", q, ReceiveRights).port = q
        /\ End("send", q, SendRights).kind = "send" /\ End("send", q, SendRights).port = q
    BY DEF End
  <2> QED BY <2>1, <2>2
<1> HIDE DEF L
<1>7. table[p] \in [HandleSlots -> Entries]
  BY <1>1, <1>3 DEF Typed
<1>8. FreeSlots(p) = {s \in HandleSlots : table[p][s].handle = None}
  BY DEF FreeSlots, Handle
<1>9. Cardinality(FreeSlots(p)) \in Nat
  BY Pools, FS_Subset, FS_CardinalityType DEF FreeSlots
<1>10. 2 <= Cardinality({s \in HandleSlots : table[p][s].handle = None})
  BY <1>2, <1>8, <1>9
<1>11. tb \in [HandleSlots -> Entries] /\ Renews(table[p], tb)
  BY <1>6, <1>7, <1>10, InstalledIs, InstalledRenews
<1>12. ASSUME NEW s \in HandleSlots
       PROVE  \/ tb[s] = table[p][s]
              \/ table[p][s].handle = None /\ \E i \in 1 .. 2 : tb[s].handle = L[i]
  BY <1>6, <1>7, <1>10, InstalledEntry
<1>13. ASSUME NEW x
       PROVE  /\ Sends(AllHandles', x) = Sends(AllHandles, x) + Sends(L, x)
              /\ Receives(AllHandles', x) = Receives(AllHandles, x) + Receives(L, x)
  <2>1. table' = [table EXCEPT ![p] = Installed(table[p], L)]
    BY <1>2 DEF TableSet
  <2> QED BY <1>1, <1>3, <1>6, <1>8, <1>10, <2>1, InstalledCounts
<1>14. ASSUME NEW x \in PortSlots
       PROVE  /\ Sends(L, x) = IF x = q THEN 1 ELSE 0
              /\ Receives(L, x) = IF x = q THEN 1 ELSE 0
  <2>1. DOMAIN L = {1, 2}
    BY <1>6
  <2>2. {i \in DOMAIN L : L[i].kind = "send" /\ L[i].port = x} = IF x = q THEN {2} ELSE {}
    BY <1>6, <2>1
  <2>3. {i \in DOMAIN L : L[i].kind = "receive" /\ L[i].port = x} = IF x = q THEN {1} ELSE {}
    BY <1>6, <2>1
  <2>4. Cardinality({1}) = 1 /\ Cardinality({2}) = 1 /\ Cardinality({}) = 0
    BY FS_Singleton, FS_EmptySet
  <2> QED BY <2>2, <2>3, <2>4 DEF Sends, Receives
<1>15. ASSUME NEW x
       PROVE  Sends(AllHandles, x) \in Nat /\ Receives(AllHandles, x) \in Nat
  BY <1>1, AllCounts
<1> HIDE DEF tb
<1>16. port \in [PortSlots -> PortRecords]
  BY <1>1 DEF Typed
<1>17. /\ port' \in [PortSlots -> PortRecords] /\ port'[q] = Opened(p)
       /\ \A x \in PortSlots : x # q => port'[x] = port[x]
  BY <1>2, <1>3, <1>4, <1>16, OpenedIs
<1>18. PortInv'
  BY <1>1, <1>3, <1>17, OpenedIs DEF PortInv
<1>19. /\ port[q].head = 0 /\ port[q].tail = 0 /\ port[q].count = 0 /\ port[q].bytes = 0
       /\ port[q].send = 0 /\ port[q].receive = 0
  BY <1>5 DEF FreePort
<1>20. ASSUME NEW x \in PortSlots
       PROVE  /\ port'[x].head = port[x].head /\ port'[x].tail = port[x].tail
              /\ port'[x].count = port[x].count /\ port'[x].bytes = port[x].bytes
              /\ Active(x) => port'[x].state = port[x].state /\ port'[x].owner = port[x].owner
              /\ port'[x].send - port[x].send = Sends(AllHandles', x) - Sends(AllHandles, x)
              /\ port'[x].receive - port[x].receive = Receives(AllHandles', x) - Receives(AllHandles, x)
              /\ port[x].receive = 1 => port'[x].owner = port[x].owner
  <2>1. CASE x = q
    <3>1. /\ port'[x].head = 0 /\ port'[x].tail = 0 /\ port'[x].count = 0 /\ port'[x].bytes = 0
          /\ port'[x].send = 1 /\ port'[x].receive = 1
      BY <2>1, <1>3, <1>17, OpenedIs
    <3>2. ~Active(x)
      BY <2>1, <1>4 DEF Active
    <3>3. Sends(AllHandles', x) - Sends(AllHandles, x) = 1 /\ Receives(AllHandles', x) - Receives(AllHandles, x) = 1
      BY <2>1, <1>13, <1>14, <1>15
    <3> QED BY <2>1, <3>1, <3>2, <3>3, <1>19
  <2>2. CASE x # q
    <3>1. port'[x] = port[x] /\ port[x].send \in Int /\ port[x].receive \in Int
      BY <2>2, <1>16, <1>17 DEF PortRecords
    <3>2. Sends(AllHandles', x) - Sends(AllHandles, x) = 0 /\ Receives(AllHandles', x) - Receives(AllHandles, x) = 0
      BY <2>2, <1>13, <1>14, <1>15
    <3> QED BY <3>1, <3>2
  <2> QED BY <2>1, <2>2
<1>21. ASSUME NEW s \in HandleSlots, tb[s].handle.kind = "receive"
       PROVE  tb[s].handle = Handle(p, s) \/ port'[tb[s].handle.port].owner = p
  <2>1. CASE tb[s] = table[p][s]
    BY <2>1 DEF Handle
  <2>2. CASE \E i \in 1 .. 2 : tb[s].handle = L[i]
    <3>1. tb[s].handle.port = q
      BY <2>2, <1>6
    <3>2. port'[q].owner = p
      BY <1>3, <1>17, OpenedIs
    <3> QED BY <3>1, <3>2
  <2> QED BY <2>1, <2>2, <1>12
<1> QED BY <1>2, <1>11, <1>17, <1>18, <1>20, <1>21, GrowStep DEF p

(* A port stays sound when it gets send handles that it may get. *)
LEMMA RetainedSound ==
  ASSUME NEW po \in PortRecords, Sound(po), NEW n \in Nat, n = 0 \/ Retainable(po, n)
  PROVE  Sound(Retained(po, n))
<1> DEFINE d == Retained(po, n)
<1>1. /\ d \in PortRecords
      /\ d.send = po.send + n /\ d.references = po.references + n
      /\ d.state = po.state /\ d.owner = po.owner
      /\ d.receive = po.receive /\ d.head = po.head
      /\ d.tail = po.tail /\ d.count = po.count
      /\ d.bytes = po.bytes
  BY RetainedIs
<1> HIDE DEF d
<1>2. po.send \in Int /\ po.references \in Int /\ po.receive \in Int
  BY DEF PortRecords
<1>3. CASE n = 0
  <2>1. d = po
    BY <1>1, <1>2, <1>3, PortEqual
  <2> QED BY <2>1 DEF d
<1>4. CASE n # 0
  <2>1. po.send > 0 /\ po.send + n <= MaxReferences /\ n > 0
    BY <1>4 DEF Retainable
  <2>2. po.state # "free"
    BY <2>1 DEF Sound, FreePort
  <2>3. Sound(d)
    BY <1>1, <1>2, <2>1, <2>2, PortsAssumption DEF Sound
  <2> QED BY <2>3 DEF d
<1> QED BY <1>3, <1>4

(* The copy of a send handle with fewer rights is a send handle of the same port. *)
LEMMA CopyIs ==
  ASSUME Typed, NEW p \in Processes, NEW s \in HandleSlots, NEW rights, MayCopy(Handle(p, s), rights)
  PROVE  LET h == Handle(p, s) IN
         /\ [h EXCEPT !.rights = rights] \in PortHandles
         /\ [h EXCEPT !.rights = rights].kind = "send"
         /\ [h EXCEPT !.rights = rights].port = h.port
         /\ h.kind = "send" /\ h.port \in PortSlots
<1> DEFINE h == Handle(p, s)
<1>1. h \in Ends /\ h.kind = "send" /\ rights \subseteq h.rights
  BY HandleIs DEF MayCopy
<1>2. h \in PortHandles /\ h.rights \subseteq SendRights /\ h.port \in PortSlots
  BY <1>1, EndKinds
<1> HIDE DEF h
<1>3. [h EXCEPT !.rights = rights] \in PortHandles
  BY <1>1, <1>2 DEF PortHandles
<1>4. [h EXCEPT !.rights = rights].kind = "send" /\ [h EXCEPT !.rights = rights].port = h.port
  BY <1>1, <1>2 DEF PortHandles
<1> QED BY <1>1, <1>2, <1>3, <1>4 DEF h

(* A handle is duplicated. *)
LEMMA DuplicateStep ==
  ASSUME Inv, NEW t \in Threads, NEW s \in HandleSlots, NEW rights, Duplicate(t, s, rights)
  PROVE  Inv' /\ NamesStep
<1> DEFINE p == ProcessOf[t]
           h == Handle(p, s)
           q == h.port
           c == [h EXCEPT !.rights = rights]
           L == <<c>>
           tb == Installed(table[p], L)
<1>1. /\ Typed /\ PortInv /\ CountInv
  BY DEF Inv
<1>2. /\ Acting(t) /\ MayCopy(h, rights) /\ FreeSlots(p) # {} /\ Retainable(port[q], 1)
      /\ port' = [port EXCEPT ![q] = Retained(port[q], 1)]
      /\ TableSet(p, tb) /\ thread' = Entered(t) /\ UNCHANGED <<message, detached, process>>
  BY DEF Duplicate
<1>3. p \in Processes
  BY PortsAssumption
<1> HIDE DEF p
<1>4. c \in PortHandles /\ c.kind = "send" /\ c.port = q /\ q \in PortSlots
  BY <1>1, <1>2, <1>3, CopyIs
<1> HIDE DEF c, q
<1>5. L \in [1 .. 1 -> Ends] /\ L[1] = c
  <2>1. c \in Ends
    BY <1>4 DEF Ends
  <2> QED BY <2>1
<1> HIDE DEF L
<1>7. table[p] \in [HandleSlots -> Entries]
  BY <1>1, <1>3 DEF Typed
<1>8. FreeSlots(p) = {x \in HandleSlots : table[p][x].handle = None}
  BY DEF FreeSlots, Handle
<1>10. 1 <= Cardinality({x \in HandleSlots : table[p][x].handle = None})
  <2>1. IsFiniteSet(FreeSlots(p))
    BY Pools, FS_Subset DEF FreeSlots
  <2>2. Cardinality(FreeSlots(p)) \in Nat
    BY <2>1, FS_CardinalityType
  <2>3. Cardinality(FreeSlots(p)) # 0
    BY <2>1, <1>2, FS_EmptySet
  <2>4. 1 <= Cardinality(FreeSlots(p))
    BY <2>2, <2>3
  <2> QED BY <2>4, <1>8
<1>11. tb \in [HandleSlots -> Entries] /\ Renews(table[p], tb)
  BY <1>5, <1>7, <1>10, InstalledIs, InstalledRenews
<1>12. ASSUME NEW x \in HandleSlots
       PROVE  tb[x] = table[p][x] \/ tb[x].handle = c
  <2> DEFINE n == 1
  <2>1. n \in Nat /\ L \in [1 .. n -> Ends]
        /\ n <= Cardinality({y \in HandleSlots : table[p][y].handle = None})
    BY <1>5, <1>10
  <2>2. \A i \in 1 .. n : L[i] = c
    BY <1>5
  <2> HIDE DEF n
  <2>3. \/ tb[x] = table[p][x]
        \/ table[p][x].handle = None /\ \E i \in 1 .. n : tb[x].handle = L[i]
    BY <1>7, <2>1, InstalledEntry
  <2> QED BY <2>2, <2>3
<1>13. ASSUME NEW x
       PROVE  /\ Sends(AllHandles', x) = Sends(AllHandles, x) + Sends(L, x)
              /\ Receives(AllHandles', x) = Receives(AllHandles, x) + Receives(L, x)
  <2>1. table' = [table EXCEPT ![p] = Installed(table[p], L)]
    BY <1>2 DEF TableSet
  <2> QED BY <1>1, <1>3, <1>5, <1>8, <1>10, <2>1, InstalledCounts
<1>14. ASSUME NEW x \in PortSlots
       PROVE  Sends(L, x) = (IF x = q THEN 1 ELSE 0) /\ Receives(L, x) = 0
  <2>1. DOMAIN L = {1}
    BY <1>5
  <2>2. {i \in DOMAIN L : L[i].kind = "send" /\ L[i].port = x} = IF x = q THEN {1} ELSE {}
    BY <1>4, <1>5, <2>1
  <2>3. {i \in DOMAIN L : L[i].kind = "receive" /\ L[i].port = x} = {}
    BY <1>4, <1>5, <2>1
  <2>4. Cardinality({1}) = 1 /\ Cardinality({}) = 0
    BY FS_Singleton, FS_EmptySet
  <2> QED BY <2>2, <2>3, <2>4 DEF Sends, Receives
<1>15. ASSUME NEW x
       PROVE  Sends(AllHandles, x) \in Nat /\ Receives(AllHandles, x) \in Nat
  BY <1>1, AllCounts
<1> HIDE DEF tb
<1>16. port \in [PortSlots -> PortRecords]
  BY <1>1 DEF Typed
<1> DEFINE d == Retained(port[q], 1)
<1>17. /\ d \in PortRecords
       /\ d.send = port[q].send + 1 /\ d.receive = port[q].receive
       /\ d.state = port[q].state /\ d.owner = port[q].owner
       /\ d.head = port[q].head /\ d.tail = port[q].tail
       /\ d.count = port[q].count /\ d.bytes = port[q].bytes
  BY <1>4, <1>16, RetainedIs
<1>18. Sound(d)
  BY <1>1, <1>2, <1>4, <1>16, RetainedSound DEF PortInv
<1>19. port' = [port EXCEPT ![q] = d]
  BY <1>2
<1> HIDE DEF d
<1>20. /\ port' \in [PortSlots -> PortRecords] /\ port'[q] = d
       /\ \A x \in PortSlots : x # q => port'[x] = port[x]
  BY <1>4, <1>16, <1>17, <1>19
<1>21. PortInv'
  BY <1>1, <1>18, <1>20 DEF PortInv
<1>22. ASSUME NEW x \in PortSlots
       PROVE  /\ port'[x].head = port[x].head /\ port'[x].tail = port[x].tail
              /\ port'[x].count = port[x].count /\ port'[x].bytes = port[x].bytes
              /\ port'[x].state = port[x].state /\ port'[x].owner = port[x].owner
              /\ port'[x].send - port[x].send = Sends(AllHandles', x) - Sends(AllHandles, x)
              /\ port'[x].receive - port[x].receive = Receives(AllHandles', x) - Receives(AllHandles, x)
  <2>0. port[x].send \in Int /\ port[x].receive \in Int
    BY <1>16 DEF PortRecords
  <2>1. CASE x = q
    <3>1. Sends(AllHandles', x) - Sends(AllHandles, x) = 1 /\ Receives(AllHandles', x) - Receives(AllHandles, x) = 0
      BY <2>1, <1>13, <1>14, <1>15
    <3> QED BY <2>0, <2>1, <3>1, <1>17, <1>20
  <2>2. CASE x # q
    <3>2. Sends(AllHandles', x) - Sends(AllHandles, x) = 0 /\ Receives(AllHandles', x) - Receives(AllHandles, x) = 0
      BY <2>2, <1>13, <1>14, <1>15
    <3> QED BY <2>0, <2>2, <3>2, <1>20
  <2> QED BY <2>1, <2>2
<1>23. ASSUME NEW x \in HandleSlots, tb[x].handle.kind = "receive"
       PROVE  tb[x].handle = Handle(p, x)
  BY <1>4, <1>12, <1>23 DEF Handle
<1> QED BY <1>2, <1>11, <1>20, <1>21, <1>22, <1>23, GrowStep DEF p

(* A table in which nothing is of a kind counts nothing of it. *)
LEMMA NoneCounted ==
  ASSUME NEW tb, NEW kind, NEW q, \A s \in HandleSlots : tb[s].handle.kind # kind
  PROVE  Count(HandlesOf(tb), kind, q) = 0
<1>1. At(HandlesOf(tb), kind, q) = {}
  BY DEF At, HandlesOf
<1> QED BY <1>1, FS_EmptySet DEF Count

(* A new table is empty. *)
LEMMA NewTableIs ==
  /\ NewTable \in [HandleSlots -> Entries]
  /\ \A s \in HandleSlots : NewTable[s].handle = None /\ NewTable[s].generation = 1
  /\ \A q : Count(HandlesOf(NewTable), "send", q) = 0 /\ Count(HandlesOf(NewTable), "receive", q) = 0
<1>1. NewTable \in [HandleSlots -> Entries]
  BY Shapes
<1>2. \A s \in HandleSlots : NewTable[s].handle = None /\ NewTable[s].generation = 1
  BY DEF NewTable
<1>3. \A s \in HandleSlots : NewTable[s].handle.kind # "send" /\ NewTable[s].handle.kind # "receive"
  BY <1>2, EndKinds
<1> HIDE DEF NewTable
<1> QED BY <1>1, <1>2, <1>3, NoneCounted

(* The names of a new process are older than what its free slots will be called. *)
FirstNames(tb, X) ==
  \A n \in X : /\ n[2] <= tb[n[1]].generation
               /\ tb[n[1]].handle = None => n[2] < tb[n[1]].generation

(* A step that starts a process c with the send handles in tb, k[q] of port q. *)
LEMMA StartStep ==
  ASSUME Inv, NEW t \in Threads, Acting(t), NEW c \in Processes, process[c] = "unused",
         NEW tb \in [HandleSlots -> Entries], Started(t, c, tb),
         NEW X \in SUBSET (HandleSlots \X Nat), issued' = [issued EXCEPT ![c] = X], FirstNames(tb, X),
         UNCHANGED <<message, detached>>,
         \A s \in HandleSlots : tb[s].handle.kind # "receive",
         NEW k \in [PortSlots -> Nat],
         \A q \in PortSlots : /\ k[q] = 0 \/ Retainable(port[q], k[q])
                              /\ Count(HandlesOf(tb), "send", q) = k[q],
         port' = [q \in PortSlots |-> Retained(port[q], k[q])]
  PROVE  Inv' /\ NamesStep
<1>1. /\ Typed /\ ProcessInv /\ NameInv /\ PortInv /\ QueueInv /\ TransitInv
      /\ CountInv /\ ProbeInv /\ WaitInv
  BY DEF Inv
<1>2. /\ table' = [table EXCEPT ![c] = tb]
      /\ process' = [process EXCEPT ![c] = "live"]
      /\ thread' = [u \in Threads |-> IF u \in ThreadsOf(c) THEN Running ELSE Entered(t)[u]]
  BY DEF Started
<1>3. thread[t].state = "running" /\ thread[t].told = 0
  BY ActingTold
<1>4. /\ table \in [Processes -> [HandleSlots -> Entries]] /\ port \in [PortSlots -> PortRecords]
      /\ issued \in [Processes -> SUBSET (HandleSlots \X Nat)]
      /\ process \in [Processes -> {"unused", "live", "exiting", "dead"}]
      /\ thread \in [Threads -> ThreadRecords]
  BY <1>1 DEF Typed
<1>5. table[c] = NewTable /\ issued[c] = {}
  BY <1>1 DEF ProcessInv
<1>6. ASSUME NEW u \in Threads
      PROVE  /\ ProcessOf[u] = c => thread[u].state = "gone" /\ thread'[u] = Running /\ u # t
             /\ ProcessOf[u] # c => /\ thread'[u] = Entered(t)[u]
                                    /\ thread'[u].state = thread[u].state
                                    /\ thread'[u].waits = thread[u].waits
                                    /\ thread'[u].told = thread[u].told
             /\ u # t /\ ProcessOf[u] # c => thread'[u] = thread[u]
  <2>1. ProcessOf[u] = c => thread[u].state = "gone"
    BY <1>1 DEF ProcessInv
  <2>2. ProcessOf[u] = c => u # t
    BY <2>1, <1>3
  <2>3. ProcessOf[u] = c => thread'[u] = Running
    BY <1>2 DEF ThreadsOf
  <2>4. ProcessOf[u] # c => thread'[u] = Entered(t)[u]
    BY <1>2 DEF ThreadsOf
  <2> QED BY <2>1, <2>2, <2>3, <2>4, <1>1, EnteredIs
<1>7. thread' \in [Threads -> ThreadRecords]
  <2>1. Entered(t) \in [Threads -> ThreadRecords] /\ Running \in ThreadRecords
    BY <1>1, EnteredIs, Shapes
  <2> QED BY <2>1, <1>2
<1>8. thread'[t].probe = NoProbe
  BY <1>1, <1>3, <1>6, EnteredIs DEF Gone, Running
<1>9. /\ table' \in [Processes -> [HandleSlots -> Entries]] /\ table'[c] = tb
      /\ issued' \in [Processes -> SUBSET (HandleSlots \X Nat)] /\ issued'[c] = X
      /\ process' \in [Processes -> {"unused", "live", "exiting", "dead"}] /\ process'[c] = "live"
      /\ \A r \in Processes : r # c => table'[r] = table[r] /\ issued'[r] = issued[r] /\ process'[r] = process[r]
  BY <1>2, <1>4
<1>10. ASSUME NEW q \in PortSlots
       PROVE  /\ port'[q] \in PortRecords /\ Sound(port'[q])
              /\ port'[q].send = port[q].send + k[q]
              /\ port'[q].state = port[q].state /\ port'[q].owner = port[q].owner
              /\ port'[q].receive = port[q].receive /\ port'[q].head = port[q].head
              /\ port'[q].tail = port[q].tail /\ port'[q].count = port[q].count
              /\ port'[q].bytes = port[q].bytes
  <2>1. port[q] \in PortRecords /\ Sound(port[q])
    BY <1>1, <1>4 DEF PortInv
  <2> QED BY <2>1, RetainedIs, RetainedSound
<1>11. port' \in [PortSlots -> PortRecords] /\ PortInv'
  BY <1>10 DEF PortInv
<1>12. Typed'
  BY <1>1, <1>7, <1>9, <1>11 DEF Typed
<1>13. ProcessInv'
  <2>1. ASSUME NEW u \in Threads
        PROVE  /\ thread'[u].state # "gone" => process'[ProcessOf[u]] = "live"
               /\ thread'[u].state = "gone" => thread'[u] = Gone
               /\ thread'[u].state = "blocked" <=> thread'[u].waits # {}
    <3>1. CASE ProcessOf[u] = c
      BY <3>1, <1>6, <1>9 DEF Running
    <3>2. CASE ProcessOf[u] # c
      <4>1. ProcessOf[u] \in Processes
        BY PortsAssumption
      <4> QED BY <3>2, <4>1, <1>1, <1>3, <1>6, <1>9 DEF ProcessInv
    <3> QED BY <3>1, <3>2
  <2>2. ASSUME NEW r \in Processes, process'[r] \in {"unused", "dead"}
        PROVE  table'[r] = NewTable /\ issued'[r] = {}
    BY <2>2, <1>1, <1>9 DEF ProcessInv
  <2> QED BY <2>1, <2>2 DEF ProcessInv
<1>14. NameInv'
  <2>1. ASSUME NEW r \in Processes, NEW n \in HandleSlots \X Nat, n \in issued'[r]
        PROVE  /\ n[2] <= table'[r][n[1]].generation
               /\ table'[r][n[1]].handle = None => n[2] < table'[r][n[1]].generation
    <3>1. CASE r = c
      BY <2>1, <3>1, <1>9 DEF FirstNames
    <3>2. CASE r # c
      BY <2>1, <3>2, <1>1, <1>9 DEF NameInv, Handle
    <3> QED BY <3>1, <3>2
  <2> QED BY <2>1 DEF NameInv, Handle
<1>15. NamesStep
  <2>1. ASSUME NEW r \in Processes, NEW s \in HandleSlots,
               <<s, table'[r][s].generation>> \in issued[r]
        PROVE  table'[r][s].handle = table[r][s].handle
    <3>1. r # c
      BY <2>1, <1>5
    <3> QED BY <3>1, <1>9
  <2> QED BY <2>1 DEF NamesStep, Handle, Name
<1>16. QueueInv'
  BY <1>1, <1>10, QueuesKept
<1>17. TransitInv'
  <2>1. \A q \in PortSlots : Active(q) => Active(q)'
    BY <1>10 DEF Active
  <2> QED BY <1>1, <2>1, TransitKept
<1>18. CountInv'
  <2>1. ASSUME NEW q \in PortSlots
        PROVE  /\ port'[q].send - port[q].send = Sends(AllHandles', q) - Sends(AllHandles, q)
               /\ port'[q].receive - port[q].receive = Receives(AllHandles', q) - Receives(AllHandles, q)
    <3>1. ASSUME NEW kind \in {"send", "receive"}
          PROVE  /\ Count(AllHandles', kind, q) = Count(AllHandles, kind, q) + Count(HandlesOf(tb), kind, q)
                 /\ Count(AllHandles, kind, q) \in Nat
      <4>1. /\ Count(AllHandles', kind, q) =
                 Count(AllHandles, kind, q) - Count(HandlesOf(table[c]), kind, q) + Count(HandlesOf(tb), kind, q)
            /\ Count(AllHandles, kind, q) \in Nat /\ Count(HandlesOf(tb), kind, q) \in Nat
        BY <1>1, <1>2, TableCounts
      <4>2. Count(HandlesOf(table[c]), kind, q) = 0
        BY <1>5, NewTableIs
      <4> QED BY <4>1, <4>2
    <3>2. Count(HandlesOf(tb), "receive", q) = 0
      BY NoneCounted
    <3>3. port[q].send \in Int /\ port[q].receive \in Int
      BY <1>4 DEF PortRecords
    <3>4. port'[q].send = port[q].send + k[q] /\ port'[q].receive = port[q].receive /\ k[q] \in Nat
      BY <1>10
    <3> QED BY <3>1, <3>2, <3>3, <3>4, Counts
  <2>2. ASSUME NEW r \in Processes, NEW s \in HandleSlots, table'[r][s].handle.kind = "receive"
        PROVE  /\ table[r][s].handle = table'[r][s].handle
               /\ port'[table[r][s].handle.port].owner = port[table[r][s].handle.port].owner
    <3>1. r # c
      BY <2>2, <1>9
    <3>2. table'[r][s].handle = Handle(r, s)
      BY <3>1, <1>9 DEF Handle
    <3>3. Handle(r, s).port \in PortSlots
      BY <1>1, <2>2, <3>2, HandleIs
    <3> QED BY <3>2, <3>3, <1>10 DEF Handle
  <2> QED BY <1>1, <1>12, <2>1, <2>2, CountsKept
<1>19. ProbeInv'
  <2>1. ASSUME NEW u \in Threads, thread'[u].probe # NoProbe
        PROVE  /\ thread[u].probe # NoProbe
               /\ thread'[u].probe.slot = thread[u].probe.slot
               /\ thread'[u].probe.generation = thread[u].probe.generation
               /\ thread'[u].probe.port = thread[u].probe.port
               /\ thread'[u].probe.current =>
                    thread[u].probe.current /\ port'[thread[u].probe.port].count >= port[thread[u].probe.port].count
               /\ Ages(ProcessOf[u])
    <3>1. u # t
      BY <2>1, <1>8
    <3>2. ProcessOf[u] # c
      BY <2>1, <1>6 DEF Running
    <3>3. thread'[u] = thread[u] /\ ProcessOf[u] \in Processes
      BY <3>1, <3>2, <1>6, PortsAssumption
    <3>4. thread[u].probe.port \in PortSlots
      BY <3>3, <2>1, <1>1 DEF ProbeInv
    <3>5. port'[thread[u].probe.port].count \in Nat /\ port'[thread[u].probe.port].count = port[thread[u].probe.port].count
      BY <3>4, <1>10 DEF PortRecords
    <3>6. Ages(ProcessOf[u])
      <4>1. table'[ProcessOf[u]] = table[ProcessOf[u]]
        BY <3>2, <3>3, <1>9
      <4>2. \A s \in HandleSlots : table[ProcessOf[u]][s].generation \in Nat
        BY <3>3, <1>1, <1>4, HandleIs DEF Entries
      <4> QED BY <4>1, <4>2 DEF Ages, Handle
    <3> QED BY <2>1, <3>3, <3>5, <3>6
  <2> QED BY <1>1, <1>12, <2>1, ProbesKept
<1>20. WaitInv'
  <2>1. \A q \in PortSlots : port[q].state = "open" =>
           /\ port'[q].state = "open" /\ port'[q].owner = port[q].owner
           /\ port'[q].count = port[q].count
    BY <1>10
  <2>2. \A u \in Threads : thread'[u].state = "blocked" =>
          thread[u].state = "blocked" /\ thread'[u].waits = thread[u].waits
    BY <1>6 DEF Running
  <2>3. \A u \in Threads : thread[u].state = "running" /\ thread[u].told # 0 =>
          thread'[u].state = "running" /\ thread'[u].told = thread[u].told
    BY <1>6
  <2> QED BY <1>1, <2>1, <2>2, <2>3, WaitGrows
<1> QED BY <1>12, <1>13, <1>14, <1>15, <1>11, <1>16, <1>17, <1>18, <1>19, <1>20 DEF Inv

(* What a forked process gets: the send handles under their names, and for *)
(* the others slots whose next name is a new one.                          *)
LEMMA ClonedIs ==
  ASSUME NEW tb \in [HandleSlots -> Entries],
         \A s \in HandleSlots : tb[s].handle.kind = "receive" => tb[s].generation <= MaxGeneration
  PROVE  /\ Cloned(tb) \in [HandleSlots -> Entries]
         /\ \A s \in HandleSlots :
              /\ tb[s].handle.kind = "receive" => /\ Cloned(tb)[s].handle = None
                                                  /\ Cloned(tb)[s].generation = tb[s].generation + 1
              /\ tb[s].handle.kind # "receive" => Cloned(tb)[s] = tb[s]
<1>1. ASSUME NEW s \in HandleSlots
      PROVE  /\ Cloned(tb)[s] \in Entries
             /\ tb[s].handle.kind = "receive" => /\ Cloned(tb)[s].handle = None
                                                 /\ Cloned(tb)[s].generation = tb[s].generation + 1
             /\ tb[s].handle.kind # "receive" => Cloned(tb)[s] = tb[s]
  <2>1. /\ tb[s] \in Entries /\ tb[s].handle \in Ends /\ tb[s].generation \in 1 .. MaxGeneration + 1
        /\ MaxGeneration \in Nat
    BY PortsAssumption DEF Entries
  <2>2. tb[s].handle.kind \in {"none", "send", "receive"} /\ (tb[s].handle = None <=> tb[s].handle.kind = "none")
    BY <2>1, EndKinds
  <2>3. CASE tb[s].handle.kind = "receive"
    <3>1. Cloned(tb)[s] = [handle |-> None, generation |-> tb[s].generation + 1]
      BY <2>2, <2>3 DEF Cloned, NotCloned, NextGeneration
    <3>2. tb[s].generation + 1 \in 1 .. MaxGeneration + 1 /\ None \in Ends
      BY <2>1, <2>3 DEF Ends
    <3>3. [handle |-> None, generation |-> tb[s].generation + 1] \in Entries
      BY <3>2 DEF Entries
    <3> QED BY <2>3, <3>1, <3>3
  <2>4. CASE tb[s].handle.kind # "receive"
    <3>1. Cloned(tb)[s] = tb[s]
      BY <2>2, <2>4 DEF Cloned
    <3> QED BY <2>1, <2>4, <3>1
  <2> QED BY <2>3, <2>4
<1>2. Cloned(tb) = [s \in HandleSlots |-> Cloned(tb)[s]]
  BY DEF Cloned
<1> QED BY <1>1, <1>2

(* A process forks. *)
LEMMA ForkStep ==
  ASSUME Inv, NEW t \in Threads, NEW c \in Processes, Fork(t, c)
  PROVE  Inv' /\ NamesStep
<1> DEFINE p == ProcessOf[t]
           tb == Cloned(table[p])
           k == [q \in PortSlots |-> Sends(Handles(p), q)]
           X == issued[p] \cup Names(table'[c])
<1>1. Typed /\ NameInv /\ ProcessInv
  BY DEF Inv
<1>2. /\ Acting(t) /\ process[c] = "unused"
      /\ Fresh(p, {s \in HandleSlots : Handle(p, s).kind = "receive"})
      /\ \A q \in PortSlots :
            Sends(Handles(p), q) = 0 \/ Retainable(port[q], Sends(Handles(p), q))
      /\ Started(t, c, tb)
      /\ port' = [q \in PortSlots |-> Retained(port[q], Sends(Handles(p), q))]
      /\ issued' = [issued EXCEPT ![c] = X] /\ UNCHANGED <<message, detached>>
  BY DEF Fork
<1>3. p \in Processes
  BY PortsAssumption
<1> HIDE DEF p
<1>4. table[p] \in [HandleSlots -> Entries] /\ issued[p] \in SUBSET (HandleSlots \X Nat)
  BY <1>1, <1>3 DEF Typed
<1>5. \A s \in HandleSlots : table[p][s].handle.kind = "receive" => table[p][s].generation <= MaxGeneration
  BY <1>2 DEF Fresh, Handle
<1>6. /\ tb \in [HandleSlots -> Entries]
      /\ \A s \in HandleSlots :
           /\ table[p][s].handle.kind = "receive" => /\ tb[s].handle = None
                                                     /\ tb[s].generation = table[p][s].generation + 1
           /\ table[p][s].handle.kind # "receive" => tb[s] = table[p][s]
  BY <1>4, <1>5, ClonedIs
<1> HIDE DEF tb
<1>7. \A s \in HandleSlots : tb[s].handle.kind # "receive"
  BY <1>6, EndKinds
<1>8. table'[c] = tb
  BY <1>1, <1>2 DEF Started, Typed
<1>9. \A s \in HandleSlots : /\ table[p][s].generation \in Nat /\ tb[s].generation \in Nat
                             /\ table[p][s].handle \in Ends
  BY <1>4, <1>6 DEF Entries
<1>10. X \in SUBSET (HandleSlots \X Nat)
  <2>1. Names(tb) \in SUBSET (HandleSlots \X Nat)
    BY <1>9 DEF Names
  <2> QED BY <1>4, <1>8, <2>1
<1>11. FirstNames(tb, X)
  <2>1. ASSUME NEW n \in issued[p]
        PROVE  n[2] <= tb[n[1]].generation /\ (tb[n[1]].handle = None => n[2] < tb[n[1]].generation)
    <3>1. n \in HandleSlots \X Nat /\ n[1] \in HandleSlots /\ n[2] \in Nat
      BY <1>4
    <3>2. /\ n[2] <= table[p][n[1]].generation
          /\ table[p][n[1]].handle = None => n[2] < table[p][n[1]].generation
      BY <1>1, <1>3, <3>1 DEF NameInv, Handle
    <3> QED BY <3>1, <3>2, <1>6, <1>9
  <2>2. ASSUME NEW n \in Names(tb)
        PROVE  n[2] <= tb[n[1]].generation /\ (tb[n[1]].handle = None => n[2] < tb[n[1]].generation)
    <3>1. PICK s \in HandleSlots : n = <<s, tb[s].generation>> /\ tb[s].handle # None
      BY DEF Names
    <3>2. n[1] = s /\ n[2] = tb[s].generation
      BY <3>1
    <3> QED BY <3>1, <3>2, <1>9
  <2> QED BY <2>1, <2>2, <1>8 DEF FirstNames
<1>12. ASSUME NEW q \in PortSlots
       PROVE  Count(HandlesOf(tb), "send", q) = Sends(Handles(p), q) /\ Sends(Handles(p), q) \in Nat
  <2>1. Handles(p) = HandlesOf(table[p])
    BY DEF Handles, HandlesOf, Handle
  <2>2. \A s \in HandleSlots :
           tb[s].handle.kind = "send" /\ tb[s].handle.port = q <=>
             table[p][s].handle.kind = "send" /\ table[p][s].handle.port = q
    BY <1>6, <1>7, EndKinds
  <2>3. At(HandlesOf(tb), "send", q) = At(HandlesOf(table[p]), "send", q)
    BY <2>2 DEF At, HandlesOf
  <2>4. IsFiniteSet(DOMAIN HandlesOf(table[p]))
    BY Pools DEF HandlesOf
  <2> QED BY <2>1, <2>3, <2>4, CountType, Counts DEF Count
<1>13. /\ k \in [PortSlots -> Nat]
       /\ \A q \in PortSlots : /\ k[q] = 0 \/ Retainable(port[q], k[q])
                               /\ Count(HandlesOf(tb), "send", q) = k[q]
       /\ port' = [q \in PortSlots |-> Retained(port[q], k[q])]
  BY <1>2, <1>12
<1> HIDE DEF k, X
<1> QED BY <1>2, <1>6, <1>7, <1>10, <1>11, <1>13, StartStep

(* A process is launched with copies of some handles. *)
LEMMA LaunchStep ==
  ASSUME Inv, NEW t \in Threads, NEW c \in Processes, NEW n \in Nat,
         NEW G \in [1 .. n -> HandleSlots \X CopyRights], Launch(t, c, G)
  PROVE  Inv' /\ NamesStep
<1> DEFINE p == ProcessOf[t]
           L == [i \in DOMAIN G |-> [Handle(p, G[i][1]) EXCEPT !.rights = G[i][2]]]
           tb == Installed(NewTable, L)
           k == [q \in PortSlots |-> Sends(L, q)]
           X == Names(table'[c])
<1>1. Typed
  BY DEF Inv
<1>2. /\ Acting(t) /\ process[c] = "unused"
      /\ Cardinality(DOMAIN G) <= Cardinality(HandleSlots)
      /\ \A i \in DOMAIN G : MayCopy(Handle(p, G[i][1]), G[i][2])
      /\ \A q \in PortSlots : Sends(L, q) = 0 \/ Retainable(port[q], Sends(L, q))
      /\ port' = [q \in PortSlots |-> Retained(port[q], Sends(L, q))]
      /\ Started(t, c, tb)
      /\ issued' = [issued EXCEPT ![c] = X] /\ UNCHANGED <<message, detached>>
  BY DEF Launch
<1>3. p \in Processes
  BY PortsAssumption
<1> HIDE DEF p
<1>4. DOMAIN G = 1 .. n /\ n <= Cardinality(HandleSlots)
  <2>1. DOMAIN G = 1 .. n
    OBVIOUS
  <2>2. Cardinality(1 .. n) = n
    BY FS_Interval
  <2> QED BY <2>1, <2>2, <1>2
<1>5. ASSUME NEW i \in 1 .. n
      PROVE  [Handle(p, G[i][1]) EXCEPT !.rights = G[i][2]] \in PortHandles
  <2>1. G[i] \in HandleSlots \X CopyRights
    OBVIOUS
  <2>2. G[i][1] \in HandleSlots
    BY <2>1
  <2> QED BY <1>1, <1>2, <1>3, <1>4, <2>2, CopyIs
<1>6. L \in [1 .. n -> PortHandles]
  BY <1>4, <1>5
<1> HIDE DEF L
<1>7. L \in [1 .. n -> Ends] /\ \A i \in 1 .. n : L[i].kind = "send"
  <2>1. PortHandles \subseteq Ends
    BY DEF Ends
  <2> QED BY <1>6, <2>1, EndKinds
<1>8. NewTable \in [HandleSlots -> Entries]
      /\ {s \in HandleSlots : NewTable[s].handle = None} = HandleSlots
  BY NewTableIs
<1>9. n <= Cardinality({s \in HandleSlots : NewTable[s].handle = None})
  BY <1>4, <1>8
<1>10. /\ tb \in [HandleSlots -> Entries]
       /\ \A s \in HandleSlots : tb[s].generation = NewTable[s].generation
  BY <1>7, <1>8, <1>9, InstalledIs
<1>11. ASSUME NEW s \in HandleSlots
       PROVE  tb[s].handle.kind # "receive"
  <2>1. \/ tb[s] = NewTable[s]
        \/ NewTable[s].handle = None /\ \E i \in 1 .. n : tb[s].handle = L[i]
    BY <1>7, <1>8, <1>9, InstalledEntry
  <2> QED BY <2>1, <1>7, NewTableIs, EndKinds
<1>12. ASSUME NEW q
       PROVE  Count(HandlesOf(tb), "send", q) = Sends(L, q) /\ Sends(L, q) \in Nat
  <2>1. Count(HandlesOf(tb), "send", q) = Count(HandlesOf(NewTable), "send", q) + Count(L, "send", q)
    BY <1>7, <1>8, <1>9, InstalledCount
  <2>2. Count(HandlesOf(NewTable), "send", q) = 0
    BY NewTableIs
  <2>3. Count(L, "send", q) \in Nat
    BY <1>6, FS_Interval, CountType
  <2> QED BY <2>1, <2>2, <2>3, Counts
<1> HIDE DEF tb
<1>13. table'[c] = tb
  BY <1>1, <1>2 DEF Started, Typed
<1>14. \A s \in HandleSlots : tb[s].generation \in Nat
  BY <1>10 DEF Entries
<1>15. X \in SUBSET (HandleSlots \X Nat)
  <2>1. Names(tb) \in SUBSET (HandleSlots \X Nat)
    BY <1>14 DEF Names
  <2> QED BY <1>13, <2>1
<1>16. FirstNames(tb, X)
  <2>2. ASSUME NEW m \in Names(tb)
        PROVE  m[2] <= tb[m[1]].generation /\ (tb[m[1]].handle = None => m[2] < tb[m[1]].generation)
    <3>1. PICK s \in HandleSlots : m = <<s, tb[s].generation>> /\ tb[s].handle # None
      BY DEF Names
    <3>2. m[1] = s /\ m[2] = tb[s].generation
      BY <3>1
    <3> QED BY <3>1, <3>2, <1>14
  <2> QED BY <2>2, <1>13 DEF FirstNames
<1>17. /\ k \in [PortSlots -> Nat]
       /\ \A q \in PortSlots : /\ k[q] = 0 \/ Retainable(port[q], k[q])
                               /\ Count(HandlesOf(tb), "send", q) = k[q]
       /\ port' = [q \in PortSlots |-> Retained(port[q], k[q])]
  BY <1>2, <1>12
<1> HIDE DEF k, X
<1> QED BY <1>2, <1>10, <1>11, <1>15, <1>16, <1>17, StartStep
----------------------------------------------------------------------------
(* Sending.                                                                *)

(* The tail of a queue is a message of the port, or 0 when there is none. *)
LEMMA TailIs ==
  ASSUME Typed, QueueInv, NEW q \in PortSlots
  PROVE  /\ port[q].count \in Nat /\ port[q].head \in MessageSlots \cup {0}
         /\ port[q].tail \in MessageSlots \cup {0}
         /\ port[q].count = 0 => port[q].tail = 0 /\ port[q].head = 0
         /\ port[q].count > 0 => /\ port[q].tail \in MessageSlots /\ message[port[q].tail].port = q
                                 /\ port[q].head \in MessageSlots /\ message[port[q].head].port = q
<1>1. port[q] \in PortRecords
  BY DEF Typed
<1>2. /\ port[q].count \in Nat /\ port[q].head \in MessageSlots \cup {0}
      /\ port[q].tail \in MessageSlots \cup {0}
  BY <1>1 DEF PortRecords
<1>3. PICK w \in [1 .. port[q].count -> MessageSlots], rest \in [1 .. port[q].count + 1 -> Nat] : Links(q, w)
  BY DEF QueueInv
<1>4. port[q].count = 0 => port[q].tail = 0 /\ port[q].head = 0
  BY <1>3 DEF Links
<1>5. ASSUME port[q].count > 0
      PROVE  /\ port[q].tail \in MessageSlots /\ message[port[q].tail].port = q
             /\ port[q].head \in MessageSlots /\ message[port[q].head].port = q
  <2>1. 1 \in 1 .. port[q].count /\ port[q].count \in 1 .. port[q].count
    BY <1>2, <1>5
  <2>2. QueuedAt({q}) = {w[i] : i \in 1 .. port[q].count} /\ port[q].head = w[1] /\ port[q].tail = w[port[q].count]
    BY <1>3, <1>5 DEF Links
  <2>3. port[q].head \in QueuedAt({q}) /\ port[q].tail \in QueuedAt({q})
    BY <2>1, <2>2
  <2> QED BY <2>3 DEF QueuedAt
<1> QED BY <1>2, <1>4, <1>5

(* The message is put behind the tail, and nothing else changes. *)
LEMMA LinkedIs ==
  ASSUME Typed, QueueInv, NEW q \in PortSlots, NEW m \in MessageSlots, message[m].port = 0,
         NEW size \in Nat, NEW p \in Processes, NEW hs \in Seq(DetachedSlots),
         message' = Linked(q, m, size, p, hs)
  PROVE  /\ message' \in [MessageSlots -> MessageRecords]
         /\ message'[m].port = q /\ message'[m].next = 0 /\ message'[m].size = size
         /\ message'[m].sender = p /\ message'[m].handles = hs
         /\ \A l \in MessageSlots : l # m =>
              /\ message'[l].port = message[l].port /\ message'[l].size = message[l].size
              /\ message'[l].sender = message[l].sender /\ message'[l].handles = message[l].handles
              /\ message'[l].next = IF l = port[q].tail THEN m ELSE message[l].next
              /\ l # port[q].tail => message'[l] = message[l]
<1> DEFINE tail == port[q].tail
           new == [port |-> q, next |-> 0, size |-> size, sender |-> p, handles |-> hs]
           one == [message EXCEPT ![m] = new]
           two == [one EXCEPT ![IF tail = 0 THEN m ELSE tail].next = IF tail = 0 THEN 0 ELSE m]
<1>1. message \in [MessageSlots -> MessageRecords]
  BY DEF Typed
<1>2. new \in MessageRecords
  BY DEF MessageRecords
<1>3. new.port = q /\ new.next = 0 /\ new.size = size /\ new.sender = p /\ new.handles = hs
  OBVIOUS
<1>4. message' = two
  BY DEF Linked
<1>5. tail # 0 => tail \in MessageSlots /\ tail # m
  <2>1. q # 0
    BY Pools
  <2> QED BY <2>1, TailIs
<1> HIDE DEF new, tail
<1>6. one \in [MessageSlots -> MessageRecords] /\ one[m] = new /\ \A l \in MessageSlots : l # m => one[l] = message[l]
  BY <1>1, <1>2
<1> HIDE DEF one
<1>7. CASE tail = 0
  <2> DEFINE a == [one[m] EXCEPT !.next = 0]
  <2>1. two = [one EXCEPT ![m] = a]
    BY <1>7
  <2>2. a \in MessageRecords /\ a.port = q /\ a.next = 0 /\ a.size = size /\ a.sender = p /\ a.handles = hs
    BY <1>2, <1>3, <1>6 DEF MessageRecords
  <2> HIDE DEF a, two
  <2>3. message' \in [MessageSlots -> MessageRecords] /\ message'[m] = a
        /\ \A l \in MessageSlots : l # m => message'[l] = message[l]
    BY <1>4, <1>6, <2>1, <2>2
  <2>4. \A l \in MessageSlots : l # tail
    BY <1>7, Pools
  <2> QED BY <2>2, <2>3, <2>4 DEF tail
<1>8. CASE tail # 0
  <2> DEFINE a == [one[tail] EXCEPT !.next = m]
  <2>1. two = [one EXCEPT ![tail] = a]
    BY <1>8
  <2>2. one[tail] = message[tail] /\ one[tail] \in MessageRecords
    BY <1>5, <1>6, <1>8
  <2>3. a \in MessageRecords /\ a.port = message[tail].port /\ a.next = m /\ a.size = message[tail].size
        /\ a.sender = message[tail].sender /\ a.handles = message[tail].handles
    BY <2>2 DEF MessageRecords
  <2> HIDE DEF a, two
  <2>4. message' \in [MessageSlots -> MessageRecords] /\ message'[tail] = a /\ message'[m] = new
        /\ \A l \in MessageSlots : l # m /\ l # tail => message'[l] = message[l]
    BY <1>4, <1>5, <1>6, <1>8, <2>1, <2>3
  <2> QED BY <1>3, <1>5, <1>8, <2>3, <2>4 DEF tail
<1> QED BY <1>7, <1>8

(* The port of a message that was put in. *)
LEMMA LengthenedIs ==
  ASSUME Typed, PortInv, NEW q \in PortSlots, NEW m \in MessageSlots, NEW size \in Nat,
         Active(q), HasRoom(q, size), port' = Lengthened(q, m, size)
  PROVE  /\ port' \in [PortSlots -> PortRecords] /\ PortInv'
         /\ \A x \in PortSlots : x # q => port'[x] = port[x]
         /\ \A x \in PortSlots :
              /\ port'[x].state = port[x].state /\ port'[x].owner = port[x].owner
              /\ port'[x].send = port[x].send /\ port'[x].receive = port[x].receive
         /\ port'[q].head = (IF port[q].head = 0 THEN m ELSE port[q].head) /\ port'[q].tail = m
         /\ port'[q].count = port[q].count + 1 /\ port'[q].bytes = port[q].bytes + size
<1> DEFINE po == port[q]
           a == [po EXCEPT !.head = IF po.head = 0 THEN m ELSE po.head]
           b == [a EXCEPT !.tail = m]
           c == [b EXCEPT !.count = po.count + 1]
           d == [c EXCEPT !.bytes = po.bytes + size]
<1>1. port \in [PortSlots -> PortRecords] /\ po \in PortRecords
  BY DEF Typed
<1>2. /\ po.head \in MessageSlots \cup {0} /\ po.count \in Nat /\ po.bytes \in Int
      /\ po.send \in Int /\ po.receive \in Int /\ po.references \in Int
  BY <1>1 DEF PortRecords
<1>3. port' = [port EXCEPT ![q] = d]
  <2> DEFINE c0 == [b EXCEPT !.count = b.count + 1]
             d0 == [c0 EXCEPT !.bytes = c0.bytes + size]
  <2>1. port' = [port EXCEPT ![q] = d0]
    BY <1>1 DEF Lengthened
  <2>2. d0 = d
    OBVIOUS
  <2> HIDE DEF d0, d
  <2> QED BY <2>1, <2>2
<1>4. po.count < MaxMessages /\ size <= MaxBytes - po.bytes
  BY DEF HasRoom
<1>5. Sound(po) /\ po.state \in {"open", "peer_closed"}
  BY DEF PortInv, Active
<1> HIDE DEF po
<1>6. a \in PortRecords
  BY <1>1, <1>2, PortExcept
<1>7. /\ a.head = (IF po.head = 0 THEN m ELSE po.head) /\ a.state = po.state /\ a.owner = po.owner
      /\ a.references = po.references /\ a.send = po.send /\ a.receive = po.receive
  BY <1>1 DEF PortRecords
<1> HIDE DEF a
<1>8. b \in PortRecords
  BY <1>6, PortExcept
<1>9. /\ b.head = a.head /\ b.tail = m /\ b.state = a.state /\ b.owner = a.owner
      /\ b.references = a.references /\ b.send = a.send /\ b.receive = a.receive
  BY <1>6 DEF PortRecords
<1> HIDE DEF b
<1>10. c \in PortRecords
  <2>1. po.count + 1 \in Nat
    BY <1>2
  <2> QED BY <1>8, <2>1, PortExcept
<1>11. /\ c.head = b.head /\ c.tail = b.tail /\ c.state = b.state /\ c.owner = b.owner
       /\ c.references = b.references /\ c.send = b.send /\ c.receive = b.receive
       /\ c.count = po.count + 1
  BY <1>8 DEF PortRecords
<1> HIDE DEF c
<1>12. d \in PortRecords
  <2>1. po.bytes + size \in Int
    BY <1>2
  <2> QED BY <1>10, <2>1, PortExcept
<1>13. /\ d.head = c.head /\ d.tail = c.tail /\ d.state = c.state /\ d.owner = c.owner
       /\ d.references = c.references /\ d.send = c.send /\ d.receive = c.receive
       /\ d.count = c.count /\ d.bytes = po.bytes + size
  BY <1>10 DEF PortRecords
<1> HIDE DEF d
<1>14. Sound(d)
  <2>1. d.state \in {"open", "peer_closed"}
    BY <1>5, <1>7, <1>9, <1>11, <1>13
  <2>2. d.count = po.count + 1 /\ d.count # 0 /\ d.count <= MaxMessages
    BY <1>2, <1>4, <1>11, <1>13, PortsAssumption
  <2>3. d.bytes <= MaxBytes
    BY <1>2, <1>4, <1>13, PortsAssumption
  <2>4. d.send = po.send /\ d.receive = po.receive /\ d.references = po.references /\ d.owner = po.owner
        /\ d.state = po.state
    BY <1>7, <1>9, <1>11, <1>13
  <2> QED BY <2>1, <2>2, <2>3, <2>4, <1>5 DEF Sound
<1>15. /\ port' \in [PortSlots -> PortRecords] /\ port'[q] = d
       /\ \A x \in PortSlots : x # q => port'[x] = port[x]
  BY <1>1, <1>3, <1>12
<1>16. PortInv'
  BY <1>14, <1>15 DEF PortInv
<1> QED BY <1>7, <1>9, <1>11, <1>13, <1>15, <1>16 DEF po

(* What a queue and its messages are after a message was put in. *)
Enqueued(q, m, size, hs) ==
  /\ message' \in [MessageSlots -> MessageRecords] /\ port' \in [PortSlots -> PortRecords]
  /\ message[m].port = 0
  /\ message'[m].port = q /\ message'[m].next = 0 /\ message'[m].size = size
  /\ message'[m].sender \in Processes /\ message'[m].handles = hs
  /\ \A l \in MessageSlots : l # m =>
       /\ message'[l].port = message[l].port /\ message'[l].size = message[l].size
       /\ message'[l].sender = message[l].sender /\ message'[l].handles = message[l].handles
       /\ message'[l].next = IF l = port[q].tail THEN m ELSE message[l].next
       /\ l # port[q].tail => message'[l] = message[l]
  /\ \A x \in PortSlots : x # q => port'[x] = port[x]
  /\ port'[q].head = (IF port[q].head = 0 THEN m ELSE port[q].head) /\ port'[q].tail = m
  /\ port'[q].count = port[q].count + 1 /\ port'[q].bytes = port[q].bytes + size

(* A walk with one more message at its end. *)
Longer(w, n, m) == [i \in 1 .. n + 1 |-> IF i = n + 1 THEN m ELSE w[i]]

(* The queue that got a message has its old ones and then the new one. *)
LEMMA EnqueuedLinks ==
  ASSUME Typed, NEW q \in PortSlots, NEW m \in MessageSlots, NEW size, NEW hs, Enqueued(q, m, size, hs),
         NEW n, n = port[q].count, NEW w \in [1 .. n -> MessageSlots], Links(q, w),
         NEW v, v = Longer(w, n, m)
  PROVE  /\ v \in [1 .. port'[q].count -> MessageSlots] /\ v[n + 1] = m
         /\ \A i \in 1 .. n : v[i] = w[i]
         /\ Links(q, v)'
<1>2. n \in Nat
  BY DEF Typed, PortRecords
<1>3. /\ \A i, j \in 1 .. n : w[i] = w[j] => i = j
      /\ QueuedAt({q}) = {w[i] : i \in 1 .. n}
      /\ n = 0 => port[q].head = 0 /\ port[q].tail = 0
      /\ n > 0 => port[q].head = w[1] /\ port[q].tail = w[n]
      /\ \A i \in 1 .. n : message[w[i]].next = IF i = n THEN 0 ELSE w[i + 1]
  BY DEF Links
<1>5. port'[q].count = n + 1 /\ port'[q].tail = m
      /\ port'[q].head = (IF port[q].head = 0 THEN m ELSE port[q].head)
  BY DEF Enqueued
<1>6. \A l \in MessageSlots :
        /\ message'[l].port = q <=> l = m \/ message[l].port = q
        /\ l # m => message'[l].next = IF l = port[q].tail THEN m ELSE message[l].next
  BY DEF Enqueued
<1>7. message'[m].next = 0
  BY DEF Enqueued
<1>8. ASSUME NEW i \in 1 .. n
      PROVE  w[i] \in MessageSlots /\ message[w[i]].port = q /\ w[i] # m
  <2>0. QueuedAt({q}) = {w[j] : j \in 1 .. n}
    BY <1>3
  <2>1. w[i] \in QueuedAt({q})
    BY <2>0
  <2>2. message[m].port = 0 /\ q # 0
    BY Pools DEF Enqueued
  <2> QED BY <2>1, <2>2 DEF QueuedAt
<1>9. /\ v \in [1 .. n + 1 -> MessageSlots] /\ v[n + 1] = m /\ \A i \in 1 .. n : v[i] = w[i]
  <2>1. \A i \in 1 .. n + 1 : i # n + 1 => i \in 1 .. n
    BY <1>2
  <2> QED BY <2>1, <1>2 DEF Longer
<1>11. \A i, j \in 1 .. n + 1 : v[i] = v[j] => i = j
  <2>1. ASSUME NEW i \in 1 .. n + 1, NEW j \in 1 .. n + 1, v[i] = v[j]
        PROVE  i = j
    <3>1. (i = n + 1 \/ i \in 1 .. n) /\ (j = n + 1 \/ j \in 1 .. n)
      BY <1>2
    <3> QED BY <3>1, <2>1, <1>3, <1>8, <1>9
  <2> QED BY <2>1
<1>12. {l \in MessageSlots : message'[l].port \in {q}} = {v[i] : i \in 1 .. n + 1}
  <2>1. ASSUME NEW l \in MessageSlots, message'[l].port \in {q}
        PROVE  \E i \in 1 .. n + 1 : l = v[i]
    <3>1. CASE l = m
      BY <3>1, <1>2, <1>9
    <3>2. CASE l # m
      <4>1. l \in QueuedAt({q})
        BY <2>1, <3>2, <1>6 DEF QueuedAt
      <4>2. PICK i \in 1 .. n : l = w[i]
        BY <4>1, <1>3
      <4> QED BY <4>2, <1>2, <1>9
    <3> QED BY <3>1, <3>2
  <2>2. ASSUME NEW i \in 1 .. n + 1
        PROVE  v[i] \in MessageSlots /\ message'[v[i]].port = q
    <3>1. i = n + 1 \/ i \in 1 .. n
      BY <1>2
    <3> QED BY <3>1, <1>6, <1>8, <1>9
  <2> QED BY <2>1, <2>2
<1>13. port'[q].head = v[1]
  <2>1. CASE n = 0
    BY <2>1, <1>3, <1>5, <1>9
  <2>2. CASE n > 0
    <3>1. 1 \in 1 .. n
      BY <2>2, <1>2
    <3>2. w[1] # 0
      BY <3>1, <1>8, Pools
    <3> QED BY <2>2, <3>1, <3>2, <1>3, <1>5, <1>9
  <2> QED BY <2>1, <2>2, <1>2
<1>14. ASSUME NEW i \in 1 .. n + 1
       PROVE  message'[v[i]].next = IF i = n + 1 THEN 0 ELSE v[i + 1]
  <2>1. CASE i = n + 1
    BY <2>1, <1>7, <1>9
  <2>2. CASE i # n + 1
    <3>1. i \in 1 .. n
      BY <2>2, <1>2
    <3>2. message'[w[i]].next = IF w[i] = port[q].tail THEN m ELSE message[w[i]].next
      BY <3>1, <1>6, <1>8
    <3>3. n > 0 /\ n \in 1 .. n
      BY <3>1, <1>2
    <3>4. CASE i = n
      BY <2>2, <3>1, <3>2, <3>3, <3>4, <1>3, <1>9
    <3>5. CASE i # n
      <4>1. i + 1 \in 1 .. n /\ i + 1 # n + 1
        BY <3>1, <3>5, <1>2
      <4>2. w[i] # port[q].tail
        BY <3>1, <3>3, <3>5, <1>3
      <4> QED BY <2>2, <3>1, <3>2, <3>5, <4>1, <4>2, <1>3, <1>9
    <3> QED BY <3>4, <3>5
  <2> QED BY <2>1, <2>2
<1> DEFINE k == port'[q].count
<1>15. Links(q, v)'
  <2>1. k = n + 1 /\ k # 0 /\ k > 0
    BY <1>2, <1>5
  <2> HIDE DEF k
  <2>2. /\ \A i, j \in 1 .. k : v[i] = v[j] => i = j
        /\ {l \in MessageSlots : message'[l].port \in {q}} = {v[i] : i \in 1 .. k}
        /\ k = 0 => port'[q].head = 0 /\ port'[q].tail = 0
        /\ k > 0 => port'[q].head = v[1] /\ port'[q].tail = v[k]
        /\ \A i \in 1 .. k : message'[v[i]].next = IF i = k THEN 0 ELSE v[i + 1]
    BY <2>1, <1>5, <1>9, <1>11, <1>12, <1>13, <1>14
  <2> QED BY <2>2 DEF k, Links, QueuedAt
<1>16. v \in [1 .. k -> MessageSlots]
  <2>1. k = n + 1
    BY <1>5
  <2> HIDE DEF k
  <2> QED BY <2>1, <1>9
<1> QED BY <1>9, <1>15, <1>16

(* Its bytes are theirs and the new one's. *)
LEMMA EnqueuedHere ==
  ASSUME Typed, QueueInv, NEW q \in PortSlots, NEW m \in MessageSlots, NEW size \in Nat, NEW hs,
         Enqueued(q, m, size, hs)
  PROVE  \E w \in [1 .. port'[q].count -> MessageSlots], rest \in [1 .. port'[q].count + 1 -> Nat] :
           Links(q, w)' /\ Bytes(q, w, rest)'
<1>0. PICK n : n = port[q].count
  OBVIOUS
<1>1. PICK w \in [1 .. n -> MessageSlots], rest \in [1 .. n + 1 -> Nat] : Links(q, w) /\ Bytes(q, w, rest)
  BY <1>0 DEF QueueInv
<1>2. n \in Nat /\ port[q].bytes \in Int
  BY <1>0 DEF Typed, PortRecords
<1>20. PICK v : v = Longer(w, n, m)
  OBVIOUS
<1>21. PICK sum : sum = [i \in 1 .. n + 2 |-> IF i = n + 2 THEN 0 ELSE rest[i] + size]
  OBVIOUS
<1>3. /\ v \in [1 .. port'[q].count -> MessageSlots] /\ v[n + 1] = m
      /\ \A i \in 1 .. n : v[i] = w[i] /\ w[i] \in MessageSlots /\ w[i] # m
      /\ Links(q, v)'
  <2>1. Links(q, w)
    BY <1>1
  <2>2. v \in [1 .. port'[q].count -> MessageSlots]
    BY <1>0, <1>20, <2>1, EnqueuedLinks
  <2>3. v[n + 1] = m
    BY <1>0, <1>20, <2>1, EnqueuedLinks
  <2>4. ASSUME NEW i \in 1 .. n
        PROVE  v[i] = w[i] /\ w[i] \in MessageSlots /\ w[i] # m
    <3>1. v[i] = w[i] /\ w[i] \in MessageSlots
      BY <1>2, <1>20 DEF Longer
    <3>2. w[i] # m
      <4>1. QueuedAt({q}) = {w[j] : j \in 1 .. n}
        BY <1>0, <2>1 DEF Links
      <4>2. w[i] \in QueuedAt({q})
        BY <4>1
      <4>3. message[w[i]].port = q /\ message[m].port = 0 /\ q # 0
        BY <4>2, Pools DEF QueuedAt, Enqueued
      <4> QED BY <4>3
    <3> QED BY <3>1, <3>2
  <2>5. Links(q, v)'
    BY <1>0, <1>20, <2>1, EnqueuedLinks
  <2> QED BY <2>2, <2>3, <2>4, <2>5
<1>4. /\ rest[n + 1] = 0 /\ port[q].bytes = rest[1]
      /\ \A i \in 1 .. n : rest[i] = message[w[i]].size + rest[i + 1]
  BY <1>0, <1>1 DEF Bytes
<1>5. port'[q].count = n + 1 /\ port'[q].bytes = port[q].bytes + size
  BY <1>0 DEF Enqueued
<1>6. \A l \in MessageSlots : l # m => message'[l].size = message[l].size
  BY DEF Enqueued
<1>7. message'[m].size = size
  BY DEF Enqueued
<1>10. /\ sum \in [1 .. (n + 1) + 1 -> Nat] /\ sum[n + 2] = 0 /\ \A i \in 1 .. n + 1 : sum[i] = rest[i] + size
  <2>1. \A i \in 1 .. n + 2 : i # n + 2 => i \in 1 .. n + 1
    BY <1>2
  <2>2. (n + 1) + 1 = n + 2 /\ n + 2 \in 1 .. n + 2
    BY <1>2
  <2>3. \A i \in 1 .. n + 1 : i \in 1 .. n + 2 /\ i # n + 2
    BY <1>2
  <2>4. \A i \in 1 .. n + 2 : sum[i] \in Nat
    BY <2>1, <1>21
  <2> QED BY <2>2, <2>3, <2>4, <1>21
<1> DEFINE k == port'[q].count
<1>16. ASSUME NEW i \in 1 .. n + 1
       PROVE  sum[i] = message'[v[i]].size + sum[i + 1]
  <2>1. CASE i = n + 1
    <3>1. sum[i] = 0 + size /\ sum[i + 1] = 0
      <4>1. (n + 1) + 1 = n + 2
        BY <1>2
      <4> QED BY <2>1, <4>1, <1>4, <1>10
    <3> QED BY <2>1, <3>1, <1>7, <1>3
  <2>2. CASE i # n + 1
    <3>1. i \in 1 .. n /\ i + 1 \in 1 .. n + 1
      BY <2>2, <1>2
    <3>2. sum[i] = rest[i] + size /\ sum[i + 1] = rest[i + 1] + size
      BY <3>1, <1>10
    <3>3. rest[i] = message[w[i]].size + rest[i + 1] /\ rest[i + 1] \in Nat
      BY <3>1, <1>1, <1>4
    <3>4. message'[v[i]].size = message[w[i]].size
      BY <3>1, <1>6, <1>3, <1>3
    <3>5. message[w[i]].size \in Nat
      BY <3>1, <1>3 DEF Typed, MessageRecords
    <3> QED BY <3>2, <3>3, <3>4, <3>5
  <2> QED BY <2>1, <2>2
<1>17. Bytes(q, v, sum)'
  <2>1. (n + 1) + 1 = n + 2 /\ 1 \in 1 .. n + 1 /\ k = n + 1
    BY <1>2, <1>5
  <2>2. port'[q].bytes = sum[1]
    BY <2>1, <1>4, <1>5, <1>10
  <2> HIDE DEF k
  <2>3. /\ sum[k + 1] = 0 /\ port'[q].bytes = sum[1]
        /\ \A i \in 1 .. k : sum[i] = message'[v[i]].size + sum[i + 1]
    BY <2>1, <2>2, <1>10, <1>16
  <2> QED BY <2>3 DEF k, Bytes
<1>18. sum \in [1 .. k + 1 -> Nat]
  <2>1. k = n + 1
    BY <1>5
  <2> HIDE DEF k
  <2> QED BY <2>1, <1>10
<1> QED BY <1>3, <1>17, <1>18

(* All queues are well formed after a message was put into one. *)
LEMMA EnqueuedQueues ==
  ASSUME Typed, QueueInv, NEW q \in PortSlots, NEW m \in MessageSlots, NEW size \in Nat, NEW hs,
         Enqueued(q, m, size, hs)
  PROVE  QueueInv'
<1>1. ASSUME NEW x \in PortSlots, x # q
      PROVE  \E w \in [1 .. port'[x].count -> MessageSlots], rest \in [1 .. port'[x].count + 1 -> Nat] :
               Links(x, w)' /\ Bytes(x, w, rest)'
  <2>1. PICK w \in [1 .. port[x].count -> MessageSlots], rest \in [1 .. port[x].count + 1 -> Nat] :
          Links(x, w) /\ Bytes(x, w, rest)
    BY DEF QueueInv
  <2>2. port'[x] = port[x] /\ x # 0
    BY <1>1, Pools DEF Enqueued
  <2>3. QueuedAt({x})' = QueuedAt({x})
    <3>1. \A l \in MessageSlots : message'[l].port = x <=> message[l].port = x
      BY <1>1, <2>2 DEF Enqueued
    <3> QED BY <3>1 DEF QueuedAt
  <2>4. ASSUME NEW i \in 1 .. port[x].count
        PROVE  message'[w[i]] = message[w[i]]
    <3>1. w[i] \in MessageSlots /\ message[w[i]].port = x
      <4>1. w[i] \in QueuedAt({x})
        BY <2>1 DEF Links
      <4> QED BY <4>1 DEF QueuedAt
    <3>2. w[i] # m
      BY <3>1, <2>2 DEF Enqueued
    <3>3. w[i] # port[q].tail
      <4>1. port[q].tail \in MessageSlots => message[port[q].tail].port = q
        BY TailIs, Pools
      <4> QED BY <3>1, <4>1, <1>1
    <3> QED BY <3>1, <3>2, <3>3 DEF Enqueued
  <2> DEFINE k == port[x].count
  <2>7. port'[x].count = k
    BY <2>2
  <2>5. Links(x, w)'
    <3>1. /\ \A i, j \in 1 .. k : w[i] = w[j] => i = j
          /\ QueuedAt({x})' = {w[i] : i \in 1 .. k}
          /\ k = 0 => port'[x].head = 0 /\ port'[x].tail = 0
          /\ k > 0 => port'[x].head = w[1] /\ port'[x].tail = w[k]
          /\ \A i \in 1 .. k : message'[w[i]].next = IF i = k THEN 0 ELSE w[i + 1]
      BY <2>1, <2>2, <2>3, <2>4 DEF Links
    <3> HIDE DEF k
    <3> QED BY <3>1, <2>7 DEF Links
  <2>6. Bytes(x, w, rest)'
    <3>1. /\ rest[k + 1] = 0 /\ port'[x].bytes = rest[1]
          /\ \A i \in 1 .. k : rest[i] = message'[w[i]].size + rest[i + 1]
      BY <2>1, <2>2, <2>4 DEF Bytes
    <3> HIDE DEF k
    <3> QED BY <3>1, <2>7 DEF Bytes
  <2> QED BY <2>1, <2>2, <2>5, <2>6
<1> QED BY <1>1, EnqueuedHere DEF QueueInv

(* The handles of the new message were free, and nothing else changes. *)
LEMMA EnqueuedTransit ==
  ASSUME Typed, QueueInv, TransitInv, NEW q \in PortSlots, NEW m \in MessageSlots, NEW size \in Nat,
         NEW n \in Nat, NEW hs \in [1 .. n -> DetachedSlots], Enqueued(q, m, size, hs),
         \A i, j \in 1 .. n : hs[i] = hs[j] => i = j,
         \A i \in 1 .. n : detached[hs[i]] = None,
         \A d \in DetachedSlots : IF \E i \in 1 .. n : hs[i] = d THEN detached'[d] # None
                                                                 ELSE detached'[d] = detached[d],
         Active(q), \A x \in PortSlots : Active(x) => Active(x)'
  PROVE  TransitInv'
<1>1. message[m].port = 0 /\ message'[m].port = q /\ message'[m].handles = hs /\ q # 0
  BY Pools DEF Enqueued
<1>2. \A l \in MessageSlots : l # m => message'[l].port = message[l].port /\ message'[l].handles = message[l].handles
  BY DEF Enqueued
<1>3. DOMAIN hs = 1 .. n
  OBVIOUS
<1>4. \A l \in MessageSlots : l # m => Attached(l)' = Attached(l)
  BY <1>2 DEF Attached
<1>5. Attached(m)' = {hs[i] : i \in 1 .. n}
  BY <1>1, <1>3 DEF Attached
<1>6. \A l \in MessageSlots : message[l].port = 0 => Attached(l) = {}
  <2>1. \A l \in MessageSlots : message[l].port = 0 => message[l] = FreeMessage
    BY DEF TransitInv
  <2>2. FreeMessage.handles = <<>> /\ DOMAIN <<>> = {}
    BY DEF FreeMessage
  <2> QED BY <2>1, <2>2 DEF Attached
<1>7. \A d \in DetachedSlots :
        detached[d] # None <=> \E l \in MessageSlots : message[l].port # 0 /\ d \in Attached(l)
  BY DEF TransitInv
<1>8. ASSUME NEW l \in MessageSlots
      PROVE  /\ message'[l].port = 0 => message'[l] = FreeMessage
             /\ message'[l].port # 0 => port'[message'[l].port].state \in Live
             /\ \A i, j \in DOMAIN message'[l].handles :
                   message'[l].handles[i] = message'[l].handles[j] => i = j
  <2>1. CASE l = m
    <3>1. port'[q].state \in Live
      BY DEF Active, Live
    <3> QED BY <2>1, <3>1, <1>1, <1>3
  <2>2. CASE l # m
    <3>1. message'[l].port = 0 => message'[l] = FreeMessage
      <4>1. SUFFICES ASSUME message'[l].port = 0 PROVE message'[l] = FreeMessage
        OBVIOUS
      <4>2. message[l].port = 0
        BY <2>2, <4>1, <1>2
      <4>3. l # port[q].tail
        BY <4>2, <1>1, TailIs, Pools
      <4>4. message'[l] = message[l]
        BY <2>2, <4>3 DEF Enqueued
      <4> QED BY <4>2, <4>4 DEF TransitInv
    <3>2. message'[l].port # 0 => port'[message'[l].port].state \in Live
      <4>1. SUFFICES ASSUME message'[l].port # 0 PROVE port'[message'[l].port].state \in Live
        OBVIOUS
      <4> DEFINE x == message[l].port
      <4>2. message'[l].port = x /\ x # 0
        BY <2>2, <4>1, <1>2
      <4>3. Active(x) /\ x \in PortSlots
        BY <4>2 DEF TransitInv, Typed, MessageRecords
      <4>4. port'[x].state \in Live
        BY <4>3 DEF Active, Live
      <4> QED BY <4>2, <4>4
    <3>3. \A i, j \in DOMAIN message'[l].handles :
                   message'[l].handles[i] = message'[l].handles[j] => i = j
      BY <2>2, <1>2 DEF TransitInv
    <3> QED BY <3>1, <3>2, <3>3
  <2> QED BY <2>1, <2>2
<1>9. ASSUME NEW d \in DetachedSlots
      PROVE  detached'[d] # None <=> \E l \in MessageSlots : message'[l].port # 0 /\ d \in Attached(l)'
  <2>1. CASE \E i \in 1 .. n : hs[i] = d
    <3>1. detached'[d] # None /\ d \in Attached(m)'
      BY <2>1, <1>5
    <3> QED BY <3>1, <1>1
  <2>2. CASE ~ \E i \in 1 .. n : hs[i] = d
    <3>1. detached'[d] = detached[d] /\ d \notin Attached(m)'
      BY <2>2, <1>5
    <3>2. \A l \in MessageSlots : message'[l].port # 0 /\ d \in Attached(l)' => message[l].port # 0 /\ d \in Attached(l)
      BY <3>1, <1>2, <1>4
    <3>3. \A l \in MessageSlots : message[l].port # 0 /\ d \in Attached(l) => message'[l].port # 0 /\ d \in Attached(l)'
      BY <1>1, <1>2, <1>4
    <3> QED BY <3>1, <3>2, <3>3, <1>7
  <2> QED BY <2>1, <2>2
<1>10. \A l \in MessageSlots : l # m => Attached(m)' \cap Attached(l)' = {}
  <2>1. ASSUME NEW l \in MessageSlots, l # m, NEW i \in 1 .. n, hs[i] \in Attached(l)
        PROVE  FALSE
    <3>1. message[l].port # 0
      BY <2>1, <1>6
    <3> QED BY <2>1, <3>1, <1>7
  <2> QED BY <2>1, <1>4, <1>5
<1>11. \A l, k \in MessageSlots : l # k => Attached(l)' \cap Attached(k)' = {}
  BY <1>4, <1>10 DEF TransitInv
<1>12. \A l \in MessageSlots : message'[l].port # 0 => port'[message'[l].port].state \in {"open", "peer_closed"}
  BY <1>8 DEF Live
<1> QED BY <1>8, <1>9, <1>11, <1>12 DEF TransitInv, Active

(* The table of p becomes tb. *)
Becomes(p, tb) == table' = [table EXCEPT ![p] = tb]

(* What the counts of all handles are after one table changed. *)
LEMMA TableBecomes ==
  ASSUME Typed, NEW p \in Processes, NEW tb \in [HandleSlots -> Entries],
         Becomes(p, tb), NEW kind \in {"send", "receive"}, NEW q
  PROVE  /\ Count(AllHandles', kind, q) =
              Count(AllHandles, kind, q) - Count(HandlesOf(table[p]), kind, q) + Count(HandlesOf(tb), kind, q)
         /\ Count(HandlesOf(table[p]), kind, q) <= Count(AllHandles, kind, q)
         /\ Count(HandlesOf(table[p]), kind, q) \in Nat /\ Count(HandlesOf(tb), kind, q) \in Nat
         /\ Count(AllHandles, kind, q) \in Nat /\ Count(AllHandles', kind, q) \in Nat
<1>1. table' = [table EXCEPT ![p] = tb]
  BY DEF Becomes
<1> QED BY <1>1, TableCounts

(* When handles leave a table they are taken from the counts of all. *)
LEMMA RetiredCounts ==
  ASSUME Typed, NEW p \in Processes, NEW S \in SUBSET HandleSlots,
         \A s \in S : table[p][s].generation <= MaxGeneration,
         Becomes(p, Retired(table[p], S)),
         NEW kind \in {"send", "receive"}, NEW q
  PROVE  /\ Count(AllHandles', kind, q) =
              Count(AllHandles, kind, q) - Count(HandlesOf(table[p]), kind, q)
                + Count(HandlesOf(Retired(table[p], S)), kind, q)
         /\ Count(HandlesOf(table[p]), kind, q) <= Count(AllHandles, kind, q)
         /\ Count(HandlesOf(table[p]), kind, q) \in Nat
         /\ Count(HandlesOf(Retired(table[p], S)), kind, q) \in Nat
         /\ Count(AllHandles, kind, q) \in Nat /\ Count(AllHandles', kind, q) \in Nat
<1>1. Retired(table[p], S) \in [HandleSlots -> Entries]
  <2>1. table[p] \in [HandleSlots -> Entries]
    BY DEF Typed
  <2> QED BY <2>1, RetiredIs
<1> QED BY <1>1, TableBecomes

(* The n handles L of p, free to go, are in the places of a message. *)
Moved(p, n, L, place) ==
  /\ L \in [1 .. n -> HandleSlots] /\ place \in [1 .. n -> DetachedSlots]
  /\ \A i, j \in 1 .. n : L[i] = L[j] => i = j
  /\ \A i, j \in 1 .. n : place[i] = place[j] => i = j
  /\ \A i \in 1 .. n : /\ Handle(p, L[i]).kind = "send"
                       /\ table[p][L[i]].generation <= MaxGeneration
                       /\ detached[place[i]] = None
                       /\ detached'[place[i]].kind = "send"
                       /\ detached'[place[i]].port = Handle(p, L[i]).port
  /\ \A d \in DetachedSlots : (\A i \in 1 .. n : place[i] # d) => detached'[d] = detached[d]
  /\ detached' \in [DetachedSlots -> PortHandles \cup {None}]

(* They go from the table into the message, and a port counts as many as before. *)
LEMMA SentCounts ==
  ASSUME Typed, NEW p \in Processes, NEW n \in Nat, NEW L, NEW place, Moved(p, n, L, place),
         NEW S, S = {L[i] : i \in 1 .. n}, Becomes(p, Retired(table[p], S)), NEW x
  PROVE  /\ Sends(AllHandles', x) + Sends(detached', x) = Sends(AllHandles, x) + Sends(detached, x)
         /\ Receives(AllHandles', x) = Receives(AllHandles, x)
<1> DEFINE tb == table[p]
           new == Retired(tb, S)
           M == [i \in 1 .. n |-> HandlesOf(tb)[L[i]]]
           D == detached'
<1>1. tb \in [HandleSlots -> Entries] /\ S \in SUBSET HandleSlots
      /\ \A s \in S : tb[s].generation <= MaxGeneration
  BY DEF Typed, Moved
<1>2. /\ new \in [HandleSlots -> Entries]
      /\ \A s \in S : new[s].handle = None
      /\ \A s \in HandleSlots \ S : new[s] = tb[s]
  <2> HIDE DEF tb
  <2> QED BY <1>1, RetiredIs
<1>3. \A i \in 1 .. n : L[i] \in S /\ M[i] = tb[L[i]].handle /\ M[i].kind = "send" /\ M[i].port = Handle(p, L[i]).port
  BY DEF Handle, HandlesOf, Moved
<1>4. DOMAIN M = 1 .. n /\ IsFiniteSet(DOMAIN M)
  <2>1. DOMAIN M = 1 .. n
    OBVIOUS
  <2>2. IsFiniteSet(1 .. n)
    BY FS_Interval
  <2> HIDE DEF M
  <2> QED BY <2>1, <2>2
<1>5. \A s \in HandleSlots : (\A i \in 1 .. n : L[i] # s) => s \notin S
  OBVIOUS
<1> HIDE DEF M, new
<1>6. /\ DOMAIN HandlesOf(new) = HandleSlots /\ DOMAIN HandlesOf(tb) = HandleSlots
      /\ \A s \in HandleSlots : HandlesOf(new)[s] = new[s].handle /\ HandlesOf(tb)[s] = tb[s].handle
  BY DEF HandlesOf
<1>7. ASSUME NEW kind \in {"send", "receive"}
      PROVE  Added(HandlesOf(new), HandlesOf(tb), M, L, kind)
  <2>1. \A i \in 1 .. n : L[i] \in HandleSlots /\ HandlesOf(new)[L[i]].kind # kind
    <3>1. None.kind # kind
      BY EndKinds
    <3> QED BY <1>2, <1>3, <1>6, <3>1 DEF Moved
  <2>2. \A s \in HandleSlots : (\A i \in 1 .. n : L[i] # s) => HandlesOf(tb)[s] = HandlesOf(new)[s]
    BY <1>2, <1>5, <1>6
  <2>3. \A i \in 1 .. n : HandlesOf(tb)[L[i]].kind = M[i].kind /\ HandlesOf(tb)[L[i]].port = M[i].port
    BY <1>3, <1>6, <2>1
  <2>4. \A i, j \in 1 .. n : L[i] = L[j] => i = j
    BY DEF Moved
  <2> QED BY <1>4, <1>6, <2>1, <2>2, <2>3, <2>4, Pools DEF Added
<1>8. \A kind \in {"send", "receive"} :
        Count(HandlesOf(tb), kind, x) = Count(HandlesOf(new), kind, x) + Count(M, kind, x)
  BY <1>7, CountAdded
<1>9. Added(detached, D, M, place, "send")
  <2>1. DOMAIN detached = DetachedSlots /\ DOMAIN D = DetachedSlots /\ IsFiniteSet(DetachedSlots)
    BY Pools DEF Typed, Moved
  <2>2. \A i \in 1 .. n : place[i] \in DetachedSlots /\ detached[place[i]].kind # "send"
    BY EndKinds DEF Moved
  <2>3. \A i \in 1 .. n : D[place[i]].kind = M[i].kind /\ D[place[i]].port = M[i].port
    BY <1>3 DEF Moved
  <2>4. /\ \A d \in DetachedSlots : (\A i \in 1 .. n : place[i] # d) => D[d] = detached[d]
        /\ \A i, j \in 1 .. n : place[i] = place[j] => i = j
    BY DEF Moved
  <2> HIDE DEF D
  <2> QED BY <1>4, <2>1, <2>2, <2>3, <2>4 DEF Added
<1>10. Count(detached', "send", x) = Count(detached, "send", x) + Count(M, "send", x)
  <2>1. Count(D, "send", x) = Count(detached, "send", x) + Count(M, "send", x)
    <3> HIDE DEF D
    <3> QED BY <1>9, CountAdded
  <2> QED BY <2>1
<1>11. Count(M, "receive", x) = 0
  <2>1. At(M, "receive", x) = {}
    BY <1>3, <1>4 DEF At
  <2> QED BY <2>1, FS_EmptySet DEF Count
<1>12. ASSUME NEW kind \in {"send", "receive"}
       PROVE  /\ Count(AllHandles', kind, x) =
                   Count(AllHandles, kind, x) - Count(HandlesOf(tb), kind, x) + Count(HandlesOf(new), kind, x)
              /\ Count(HandlesOf(tb), kind, x) \in Nat /\ Count(HandlesOf(new), kind, x) \in Nat
              /\ Count(AllHandles, kind, x) \in Nat /\ Count(AllHandles', kind, x) \in Nat
  <2>2. S \in SUBSET HandleSlots /\ \A s \in S : table[p][s].generation <= MaxGeneration
    BY <1>1
  <2>3. /\ Count(AllHandles', kind, x) =
              Count(AllHandles, kind, x) - Count(HandlesOf(table[p]), kind, x)
                + Count(HandlesOf(Retired(table[p], S)), kind, x)
        /\ Count(HandlesOf(table[p]), kind, x) <= Count(AllHandles, kind, x)
        /\ Count(HandlesOf(table[p]), kind, x) \in Nat
        /\ Count(HandlesOf(Retired(table[p], S)), kind, x) \in Nat
        /\ Count(AllHandles, kind, x) \in Nat /\ Count(AllHandles', kind, x) \in Nat
    BY <2>2, RetiredCounts
  <2> QED BY <2>3 DEF new
<1>13. Count(M, "send", x) \in Nat /\ Count(detached, "send", x) \in Nat
  <2>1. IsFiniteSet(DOMAIN detached)
    BY Pools DEF Typed
  <2> QED BY <2>1, <1>4, CountType
<1>14. /\ Sends(AllHandles', x) = Count(AllHandles', "send", x)
       /\ Sends(detached', x) = Count(detached', "send", x)
       /\ Sends(AllHandles, x) = Count(AllHandles, "send", x)
       /\ Sends(detached, x) = Count(detached, "send", x)
       /\ Receives(AllHandles', x) = Count(AllHandles', "receive", x)
       /\ Receives(AllHandles, x) = Count(AllHandles, "receive", x)
  BY Counts
<1>15. Sends(AllHandles', x) + Sends(detached', x) = Sends(AllHandles, x) + Sends(detached, x)
  <2>1. Count(HandlesOf(tb), "send", x) = Count(HandlesOf(new), "send", x) + Count(M, "send", x)
    BY <1>8
  <2>2. /\ Count(AllHandles', "send", x) =
             Count(AllHandles, "send", x) - Count(HandlesOf(tb), "send", x) + Count(HandlesOf(new), "send", x)
        /\ Count(HandlesOf(tb), "send", x) \in Nat /\ Count(HandlesOf(new), "send", x) \in Nat
        /\ Count(AllHandles, "send", x) \in Nat /\ Count(AllHandles', "send", x) \in Nat
    BY <1>12
  <2>3. Count(AllHandles', "send", x) + Count(detached', "send", x) = Count(AllHandles, "send", x) + Count(detached, "send", x)
    BY <2>1, <2>2, <1>10, <1>13
  <2> QED BY <2>3, <1>14
<1>16. Receives(AllHandles', x) = Receives(AllHandles, x)
  BY <1>8, <1>11, <1>12, <1>14
<1> QED BY <1>15, <1>16

(* The places the handles of a message go into are free and different. *)
LEMMA PlacesIs ==
  ASSUME Typed, NEW n \in Nat, n <= Cardinality(FreeDetached),
         NEW place, place = [i \in 1 .. n |-> Nth(FreeDetached, i)]
  PROVE  /\ place \in [1 .. n -> DetachedSlots]
         /\ \A i, j \in 1 .. n : place[i] = place[j] => i = j
         /\ \A i \in 1 .. n : detached[place[i]] = None
<1>1. FreeDetached \in SUBSET Nat /\ IsFiniteSet(FreeDetached) /\ FreeDetached \subseteq DetachedSlots
  BY Pools, FS_Subset DEF FreeDetached
<1>2. Cardinality(FreeDetached) \in Nat
  BY <1>1, FS_CardinalityType
<1>3. \A i \in 1 .. n : i \in 1 .. Cardinality(FreeDetached)
  BY <1>2
<1>4. \A i \in 1 .. n : Nth(FreeDetached, i) \in FreeDetached
  BY <1>1, <1>3, NthIn
<1>5. \A i, j \in 1 .. n : Nth(FreeDetached, i) = Nth(FreeDetached, j) => i = j
  BY <1>1, <1>3, NthInjective
<1>6. \A i \in 1 .. n : place[i] = Nth(FreeDetached, i)
  OBVIOUS
<1>7. \A d \in FreeDetached : detached[d] = None
  BY DEF FreeDetached
<1>8. place \in [1 .. n -> DetachedSlots]
  BY <1>1, <1>4
<1> QED BY <1>4, <1>5, <1>6, <1>7, <1>8

(* The handle h has no more rights than o, which may travel. *)
Narrows(h, o) ==
  /\ o \in PortHandles /\ h.kind = "send" /\ h.port = o.port
  /\ h.rights \subseteq o.rights /\ "transfer" \in o.rights

(* The names, the handles and the places of a message that can be sent. *)
LEMMA SendMoves ==
  ASSUME Inv, NEW t \in Threads, NEW s \in HandleSlots, NEW size \in Sizes,
         NEW L \in Lists(Transferable(ProcessOf[t])), Send(t, s, size, L)
  PROVE  \E n \in Nat : \E place \in [1 .. n -> DetachedSlots] :
           /\ Moved(ProcessOf[t], n, L, place)
           /\ \A i \in 1 .. n : /\ detached'[place[i]] \in PortHandles
                                /\ Narrows(detached'[place[i]], Handle(ProcessOf[t], L[i]))
           /\ DOMAIN L = 1 .. n
           /\ place = [i \in DOMAIN L |-> Nth(FreeDetached, i)]
<1> DEFINE p == ProcessOf[t]
<1>1. Typed
  BY DEF Inv
<1>2. p \in Processes
  BY PortsAssumption
<1> DEFINE places == [i \in DOMAIN L |-> Nth(FreeDetached, i)]
<1>3. /\ Cardinality(FreeDetached) >= Len(L)
      /\ Fresh(p, {L[i] : i \in DOMAIN L})
      /\ \E masks \in [DOMAIN L -> AttachMasks] :
           detached' = [d \in DetachedSlots |->
             IF \E i \in DOMAIN L : places[i] = d
             THEN LET i == CHOOSE j \in DOMAIN L : places[j] = d
                  IN [Handle(p, L[i]) EXCEPT !.rights = Narrowed(@, masks[i])]
             ELSE detached[d]]
  BY DEF Send
<1> HIDE DEF p
<1>4. PICK n \in 0 .. MaxAttached : L \in [1 .. n -> Transferable(p)] /\ \A i, j \in 1 .. n : i # j => L[i] # L[j]
  BY DEF Lists, p
<1>5. n \in Nat /\ DOMAIN L = 1 .. n /\ Len(L) = n
  BY <1>4, PortsAssumption
<1>6. PICK place : place = [i \in 1 .. n |-> Nth(FreeDetached, i)]
  OBVIOUS
<1>7. n <= Cardinality(FreeDetached)
  <2>1. Cardinality(FreeDetached) \in Nat
    BY Pools, FS_Subset, FS_CardinalityType DEF FreeDetached
  <2> QED BY <2>1, <1>3, <1>5
<1>8. /\ place \in [1 .. n -> DetachedSlots]
      /\ \A i, j \in 1 .. n : place[i] = place[j] => i = j
      /\ \A i \in 1 .. n : detached[place[i]] = None
  BY <1>1, <1>5, <1>6, <1>7, PlacesIs
<1>10. ASSUME NEW i \in 1 .. n
       PROVE  /\ L[i] \in HandleSlots /\ Handle(p, L[i]) \in PortHandles
              /\ "transfer" \in Handle(p, L[i]).rights
              /\ table[p][L[i]].generation <= MaxGeneration
  <2>1. L[i] \in HandleSlots /\ "transfer" \in Handle(p, L[i]).rights
    BY <1>4 DEF Transferable
  <2>2. Handle(p, L[i]) \in Ends
    BY <2>1, <1>1, <1>2, HandleIs
  <2>3. Handle(p, L[i]) \in PortHandles
    <3>1. Handle(p, L[i]) # None
      BY <2>1, EndKinds
    <3>2. Handle(p, L[i]) \notin ReceiveEnds
      BY <2>1, EndKinds DEF ReceiveRights
    <3> QED BY <2>2, <3>1, <3>2 DEF Ends
  <2>4. table[p][L[i]].generation <= MaxGeneration
    BY <1>3, <1>5 DEF Fresh
  <2> QED BY <2>1, <2>3, <2>4
<1>20. place = places
  BY <1>5, <1>6
<1> HIDE DEF places
<1>11. PICK masks \in [DOMAIN L -> AttachMasks] :
         detached' = [d \in DetachedSlots |->
           IF \E i \in DOMAIN L : places[i] = d
           THEN LET i == CHOOSE j \in DOMAIN L : places[j] = d
                IN [Handle(p, L[i]) EXCEPT !.rights = Narrowed(@, masks[i])]
           ELSE detached[d]]
  BY <1>3
<1>21. /\ places \in [1 .. n -> DetachedSlots]
       /\ \A i, j \in 1 .. n : places[i] = places[j] => i = j
  BY <1>8, <1>20
<1>12. ASSUME NEW i \in 1 .. n
       PROVE  detached'[place[i]] = [Handle(p, L[i]) EXCEPT !.rights = Narrowed(Handle(p, L[i]).rights, masks[i])]
  <2> DEFINE c == CHOOSE j \in DOMAIN L : places[j] = places[i]
  <2>1. c = i
    BY <1>5, <1>21
  <2>2. places[i] \in DetachedSlots /\ \E j \in DOMAIN L : places[j] = places[i]
    BY <1>5, <1>21
  <2>3. detached'[places[i]] = [Handle(p, L[c]) EXCEPT !.rights = Narrowed(Handle(p, L[c]).rights, masks[c])]
    BY <2>2, <1>11
  <2> HIDE DEF c
  <2> QED BY <2>1, <2>3, <1>20
<1>13. ASSUME NEW i \in 1 .. n
       PROVE  /\ detached'[place[i]] \in PortHandles
              /\ detached'[place[i]].kind = "send" /\ detached'[place[i]].port = Handle(p, L[i]).port
              /\ Handle(p, L[i]).kind = "send"
              /\ Narrows(detached'[place[i]], Handle(p, L[i]))
  <2> DEFINE h == Handle(p, L[i])
             r == Narrowed(h.rights, masks[i])
  <2>1. h \in PortHandles
    BY <1>10
  <2>2. h.rights \subseteq SendRights /\ h.kind = "send"
    BY <2>1, EndKinds
  <2>3. r \subseteq SendRights /\ r \subseteq h.rights
    BY <2>2 DEF Narrowed
  <2>6. "transfer" \in h.rights
    BY <1>10
  <2>4. detached'[place[i]] = [h EXCEPT !.rights = r]
    BY <1>12
  <2> HIDE DEF h, r
  <2>5. [h EXCEPT !.rights = r] \in PortHandles /\ [h EXCEPT !.rights = r].kind = h.kind
        /\ [h EXCEPT !.rights = r].port = h.port /\ [h EXCEPT !.rights = r].rights = r
    BY <2>1, <2>3 DEF PortHandles
  <2>7. Narrows(detached'[place[i]], h)
    BY <2>1, <2>2, <2>3, <2>4, <2>5, <2>6 DEF Narrows
  <2> QED BY <2>2, <2>4, <2>5, <2>7 DEF h
<1>14. \A d \in DetachedSlots : (\A i \in 1 .. n : place[i] # d) => detached'[d] = detached[d]
  BY <1>5, <1>11, <1>20
<1>15. detached' \in [DetachedSlots -> PortHandles \cup {None}]
  <2>1. ASSUME NEW d \in DetachedSlots
        PROVE  detached'[d] \in PortHandles \cup {None}
    <3>1. CASE \E i \in 1 .. n : place[i] = d
      BY <3>1, <1>13
    <3>2. CASE \A i \in 1 .. n : place[i] # d
      BY <3>2, <1>1, <1>14 DEF Typed
    <3> QED BY <3>1, <3>2
  <2>2. detached' = [d \in DetachedSlots |-> detached'[d]]
    BY <1>11
  <2> QED BY <2>1, <2>2
<1>16. L \in [1 .. n -> HandleSlots]
  BY <1>4, <1>10
<1>17. \A i, j \in 1 .. n : L[i] = L[j] => i = j
  BY <1>4
<1>18. Moved(p, n, L, place)
  BY <1>8, <1>10, <1>13, <1>14, <1>15, <1>16, <1>17 DEF Moved
<1>19. place = [i \in DOMAIN L |-> Nth(FreeDetached, i)]
  BY <1>5, <1>6
<1> QED BY <1>5, <1>8, <1>13, <1>18, <1>19 DEF p

(* A message is sent. *)
LEMMA SendStep ==
  ASSUME Inv, NEW t \in Threads, NEW s \in HandleSlots, NEW size \in Sizes,
         NEW L \in Lists(Transferable(ProcessOf[t])), Send(t, s, size, L)
  PROVE  Inv' /\ NamesStep
<1> DEFINE p == ProcessOf[t]
           q == Handle(p, s).port
           m == Lowest(FreeMessages)
<1>1. /\ Typed /\ ProcessInv /\ NameInv /\ PortInv /\ QueueInv /\ TransitInv
      /\ CountInv /\ ProbeInv /\ WaitInv
  BY DEF Inv
<1>2. /\ Acting(t) /\ Handle(p, s).kind = "send"
      /\ port[q].state = "open" /\ HasRoom(q, size) /\ FreeMessages # {}
      /\ Fresh(p, {L[i] : i \in DOMAIN L})
      /\ message' = Linked(q, m, size, p, [i \in DOMAIN L |-> Nth(FreeDetached, i)])
      /\ port' = Lengthened(q, m, size)
      /\ TableSet(p, Retired(table[p], {L[i] : i \in DOMAIN L}))
      /\ thread' \in ToldOne(Entered(t), q)
      /\ UNCHANGED process
  BY DEF Send
<1>3. PICK n \in Nat : \E place \in [1 .. n -> DetachedSlots] :
           /\ Moved(p, n, L, place)
           /\ \A i \in 1 .. n : /\ detached'[place[i]] \in PortHandles
                                /\ Narrows(detached'[place[i]], Handle(p, L[i]))
           /\ DOMAIN L = 1 .. n
           /\ place = [i \in DOMAIN L |-> Nth(FreeDetached, i)]
  BY SendMoves
<1>4. PICK place \in [1 .. n -> DetachedSlots] :
           /\ Moved(p, n, L, place)
           /\ \A i \in 1 .. n : /\ detached'[place[i]] \in PortHandles
                                /\ Narrows(detached'[place[i]], Handle(p, L[i]))
           /\ DOMAIN L = 1 .. n
           /\ place = [i \in DOMAIN L |-> Nth(FreeDetached, i)]
  BY <1>3
<1>5. p \in Processes
  BY PortsAssumption
<1>6. q \in PortSlots /\ q # 0
  BY <1>1, <1>2, <1>5, HandleIs, Pools
<1>7. m \in MessageSlots /\ message[m].port = 0
  <2>1. FreeMessages \in SUBSET Nat /\ IsFiniteSet(FreeMessages)
    BY Pools, FS_Subset DEF FreeMessages
  <2>2. m \in FreeMessages
    BY <1>2, <2>1, LowestIn
  <2> QED BY <2>2 DEF FreeMessages
<1>8. size \in Nat
  BY PortsAssumption
<1>9. message' = Linked(q, m, size, p, place)
  BY <1>2, <1>4
<1>10. place \in Seq(DetachedSlots)
  BY <1>4
<1> HIDE DEF m, q, p
<1>11. Active(q)
  BY <1>2 DEF Active
<1>12. /\ port' \in [PortSlots -> PortRecords] /\ PortInv'
       /\ \A x \in PortSlots : x # q => port'[x] = port[x]
       /\ \A x \in PortSlots :
            /\ port'[x].state = port[x].state /\ port'[x].owner = port[x].owner
            /\ port'[x].send = port[x].send /\ port'[x].receive = port[x].receive
       /\ port'[q].head = (IF port[q].head = 0 THEN m ELSE port[q].head) /\ port'[q].tail = m
       /\ port'[q].count = port[q].count + 1 /\ port'[q].bytes = port[q].bytes + size
  BY <1>1, <1>2, <1>6, <1>7, <1>8, <1>11, LengthenedIs
<1>13. Enqueued(q, m, size, place)
  BY <1>1, <1>5, <1>6, <1>7, <1>8, <1>9, <1>10, <1>12, LinkedIs DEF Enqueued
<1>14. QueueInv'
  BY <1>1, <1>6, <1>7, <1>8, <1>13, EnqueuedQueues
<1>15. TransitInv'
  <2>1. /\ \A i, j \in 1 .. n : place[i] = place[j] => i = j
        /\ \A i \in 1 .. n : detached[place[i]] = None
        /\ \A d \in DetachedSlots : (\A i \in 1 .. n : place[i] # d) => detached'[d] = detached[d]
    BY <1>4 DEF Moved
  <2>2. \A i \in 1 .. n : detached'[place[i]] # None
    BY <1>4, EndKinds
  <2>3. \A d \in DetachedSlots : IF \E i \in 1 .. n : place[i] = d THEN detached'[d] # None
                                                                   ELSE detached'[d] = detached[d]
    BY <2>1, <2>2
  <2>4. \A x \in PortSlots : Active(x) => Active(x)'
    BY <1>12 DEF Active
  <2> QED BY <1>1, <1>6, <1>7, <1>8, <1>11, <1>13, <2>1, <2>3, <2>4, EnqueuedTransit
<1> DEFINE S == {L[i] : i \in 1 .. n}
           tb == Retired(table[p], S)
<1>16. S \in SUBSET HandleSlots /\ \A x \in S : table[p][x].generation <= MaxGeneration
  BY <1>4 DEF Moved
<1>17. TableSet(p, tb)
  BY <1>2, <1>4
<1>18. Becomes(p, tb)
  BY <1>17 DEF Becomes, TableSet
<1>19. \A x : /\ Sends(AllHandles', x) + Sends(detached', x) = Sends(AllHandles, x) + Sends(detached, x)
              /\ Receives(AllHandles', x) = Receives(AllHandles, x)
  BY <1>1, <1>4, <1>5, <1>18, SentCounts
<1>20. table[p] \in [HandleSlots -> Entries]
  BY <1>1, <1>5 DEF Typed
<1> HIDE DEF S
<1>21. tb \in [HandleSlots -> Entries] /\ Renews(table[p], tb)
  BY <1>16, <1>20, RetiredIs, RetiredRenews
<1>22. /\ \A x \in S : tb[x].handle = None
       /\ \A x \in HandleSlots \ S : tb[x] = table[p][x]
  BY <1>16, <1>20, RetiredIs
<1> HIDE DEF tb
<1>23. /\ table' \in [Processes -> [HandleSlots -> Entries]]
       /\ issued' \in [Processes -> SUBSET (HandleSlots \X Nat)]
       /\ NameInv' /\ NamesStep /\ table'[p] = tb
       /\ \A r \in Processes : /\ Ages(r)
                               /\ r # p => table'[r] = table[r] /\ issued'[r] = issued[r]
  BY <1>1, <1>5, <1>17, <1>21, TableKept
<1>24. /\ Entered(t) \in [Threads -> ThreadRecords]
       /\ \A u \in Threads :
            /\ Entered(t)[u].state = thread[u].state /\ Entered(t)[u].waits = thread[u].waits
            /\ Entered(t)[u].told = thread[u].told
            /\ u # t => Entered(t)[u] = thread[u]
       /\ Entered(t)[t].probe = NoProbe
  BY <1>1, EnteredIs
<1> DEFINE th == Entered(t)
<1>25. /\ thread' \in [Threads -> ThreadRecords]
       /\ \A u \in Threads :
            \/ thread'[u] = th[u]
            \/ /\ u \in Waiting(th, q, "receive") /\ thread'[u].state = "running" /\ thread'[u].waits = {}
               /\ thread'[u].told = q /\ thread'[u].probe = th[u].probe
       /\ Waiting(th, q, "receive") # {} =>
            \E u \in Waiting(th, q, "receive") : thread'[u].state = "running" /\ thread'[u].told = q
  <2> HIDE DEF th
  <2>1. th \in [Threads -> ThreadRecords] /\ thread' \in ToldOne(th, q)
    BY <1>2, <1>24 DEF th
  <2>2. PICK x \in ToldOne(th, q) : thread' = x
    BY <2>1
  <2> QED BY <2>1, <2>2, <1>6, ToldOneIs
<1>26. \A u \in Threads : u \in Waiting(th, q, "receive") <=>
                            thread[u].state = "blocked" /\ <<q, "receive">> \in thread[u].waits
  BY <1>24 DEF Waiting
<1> HIDE DEF th
<1>27. thread[t].state = "running" /\ thread[t].told = 0
  BY <1>2, ActingTold
<1>28. ASSUME NEW u \in Threads
       PROVE  /\ thread'[u].state # "gone" => thread[u].state # "gone"
              /\ thread'[u].state = "gone" => thread'[u] = Gone
              /\ thread'[u].state = "blocked" <=> thread'[u].waits # {}
              /\ thread'[u].state = "blocked" => thread[u].state = "blocked" /\ thread'[u].waits = thread[u].waits
              /\ thread[u].state = "running" => thread'[u].state = "running" /\ thread'[u].told = thread[u].told
              /\ thread'[u].probe \in {thread[u].probe, NoProbe}
  <2>1. CASE thread'[u] = th[u]
    BY <2>1, <1>1, <1>24, <1>27 DEF ProcessInv, th
  <2>2. CASE /\ u \in Waiting(th, q, "receive") /\ thread'[u].state = "running" /\ thread'[u].waits = {}
             /\ thread'[u].told = q /\ thread'[u].probe = th[u].probe
    <3>1. thread[u].state = "blocked" /\ u # t
      BY <2>2, <1>26, <1>27
    <3>2. thread'[u].probe = thread[u].probe
      BY <2>2, <3>1, <1>24 DEF th
    <3> QED BY <2>2, <3>1, <3>2
  <2> QED BY <2>1, <2>2, <1>25
<1>29. detached' \in [DetachedSlots -> PortHandles \cup {None}]
  BY <1>4 DEF Moved
<1>30. message' \in [MessageSlots -> MessageRecords]
  BY <1>13 DEF Enqueued
<1>31. Typed'
  BY <1>1, <1>2, <1>12, <1>23, <1>25, <1>29, <1>30 DEF Typed
<1>32. ProcessInv'
  <2>1. process[p] = "live"
    BY <1>1, <1>27 DEF ProcessInv, p
  <2>2. \A r \in Processes : process[r] \in {"unused", "dead"} =>
          table'[r] = table[r] /\ issued'[r] = issued[r]
    BY <1>23, <2>1
  <2> QED BY <1>1, <1>2, <1>28, <2>2, ProcessesKept
<1>33. CountInv'
  <2>1. ASSUME NEW x \in PortSlots
        PROVE  port'[x].send = Sends(AllHandles', x) + Sends(detached', x) /\ port'[x].receive = Receives(AllHandles', x)
    BY <1>1, <1>12, <1>19 DEF CountInv
  <2>2. ASSUME NEW r \in Processes, NEW x \in HandleSlots, table'[r][x].handle.kind = "receive"
        PROVE  r = port'[table'[r][x].handle.port].owner
    <3>1. table'[r][x].handle = Handle(r, x)
      <4>1. CASE r # p
        BY <4>1, <1>23 DEF Handle
      <4>2. CASE r = p
        BY <4>2, <2>2, <1>22, <1>23, EndKinds DEF Handle
      <4> QED BY <4>1, <4>2
    <3>2. Handle(r, x).port \in PortSlots /\ r = port[Handle(r, x).port].owner
      BY <2>2, <3>1, <1>1, HandleIs DEF CountInv
    <3> QED BY <3>1, <3>2, <1>12
  <2>3. \A x \in PortSlots : /\ Sends(AllHandles, x)' = Sends(AllHandles', x)
                             /\ Receives(AllHandles, x)' = Receives(AllHandles', x)
                             /\ Sends(detached, x)' = Sends(detached', x)
    OBVIOUS
  <2> QED BY <2>1, <2>2, <2>3 DEF CountInv, Handle
<1>34. \A x \in PortSlots : port[x].count \in Nat /\ port'[x].count \in Nat /\ port'[x].count >= port[x].count
  <2>1. \A x \in PortSlots : port[x].count \in Nat /\ port'[x].count \in Nat
    BY <1>1, <1>12 DEF Typed, PortRecords
  <2>2. port'[q].count >= port[q].count
    BY <2>1, <1>6, <1>12
  <2>3. ASSUME NEW x \in PortSlots, x # q
        PROVE  port'[x].count >= port[x].count
    BY <2>1, <2>3, <1>12
  <2> QED BY <2>1, <2>2, <2>3
<1>35. ProbeInv'
  <2>1. ASSUME NEW u \in Threads, thread'[u].probe # NoProbe
        PROVE  /\ thread[u].probe # NoProbe
               /\ thread'[u].probe.slot = thread[u].probe.slot
               /\ thread'[u].probe.generation = thread[u].probe.generation
               /\ thread'[u].probe.port = thread[u].probe.port
               /\ thread'[u].probe.current =>
                    thread[u].probe.current /\ port'[thread[u].probe.port].count >= port[thread[u].probe.port].count
               /\ Ages(ProcessOf[u])
    <3>1. thread'[u].probe = thread[u].probe /\ ProcessOf[u] \in Processes
      BY <2>1, <1>28, PortsAssumption
    <3>2. thread[u].probe.port \in PortSlots
      BY <3>1, <2>1, <1>1 DEF ProbeInv
    <3> QED BY <2>1, <3>1, <3>2, <1>23, <1>34
  <2> QED BY <1>1, <1>31, <2>1, ProbesKept
<1>36. WaitInv'
  <2>1. ASSUME NEW u \in Threads, thread'[u].state = "blocked"
        PROVE  /\ thread[u].state = "blocked" /\ thread'[u].waits = thread[u].waits
               /\ \A w \in thread[u].waits :
                     /\ port'[w[1]].state = "open" /\ port'[w[1]].owner = port[w[1]].owner
                     /\ w[2] = "send" => port'[w[1]].count > 0
    <3>1. thread[u].state = "blocked" /\ thread'[u].waits = thread[u].waits
      BY <2>1, <1>28
    <3>2. thread[u].waits \in SUBSET (PortSlots \X {"send", "receive"})
      BY <1>1 DEF Typed, ThreadRecords
    <3>3. ASSUME NEW w \in thread[u].waits
          PROVE  /\ port'[w[1]].state = "open" /\ port'[w[1]].owner = port[w[1]].owner
                 /\ w[2] = "send" => port'[w[1]].count > 0
      <4>1. w[1] \in PortSlots /\ port[w[1]].state = "open" /\ (w[2] = "send" => port[w[1]].count > 0)
        BY <3>1, <3>2, <3>3, <1>1 DEF WaitInv, NoStrandedWaiter
      <4>2. port'[w[1]].count >= port[w[1]].count /\ port'[w[1]].count \in Nat /\ port[w[1]].count \in Nat
        BY <4>1, <1>34
      <4> QED BY <4>1, <4>2, <1>12
    <3> QED BY <3>1, <3>3
  <2>2. ASSUME NEW x \in PortSlots, port'[x].count > 0, Waiting(thread', x, "receive") # {}
        PROVE  \/ /\ port[x].count > 0
                  /\ \A u \in Threads :
                       thread[u].state = "running" /\ thread[u].told = x /\ ProcessOf[u] = port[x].owner =>
                         thread'[u].state = "running" /\ thread'[u].told = x
               \/ \E u \in Threads : /\ thread'[u].state = "running" /\ thread'[u].told = x
                                     /\ ProcessOf[u] = port'[x].owner
    <3>1. CASE x # q
      BY <2>2, <3>1, <1>12, <1>28
    <3>2. CASE x = q
      <4>1. PICK v \in Threads : thread'[v].state = "blocked" /\ <<q, "receive">> \in thread'[v].waits
        BY <2>2, <3>2 DEF Waiting
      <4>2. v \in Waiting(th, q, "receive")
        BY <4>1, <1>26, <1>28
      <4>3. PICK u \in Waiting(th, q, "receive") : thread'[u].state = "running" /\ thread'[u].told = q
        BY <4>2, <1>25
      <4>4. u \in Threads /\ thread[u].state = "blocked" /\ <<q, "receive">> \in thread[u].waits
        BY <1>26 DEF Waiting
      <4>5. <<q, "receive">>[1] = q /\ <<q, "receive">>[2] = "receive"
        OBVIOUS
      <4>6. ProcessOf[u] = port[q].owner
        BY <4>4, <4>5, <1>1 DEF WaitInv, NoStrandedWaiter
      <4> QED BY <3>2, <4>3, <4>4, <4>6, <1>6, <1>12
    <3> QED BY <3>1, <3>2
  <2> QED BY <1>1, <2>1, <2>2, WaitKept
<1> QED BY <1>12, <1>14, <1>15, <1>23, <1>31, <1>32, <1>33, <1>35, <1>36 DEF Inv
----------------------------------------------------------------------------
(* Receiving.                                                              *)

(* The head of a queue that is not empty. *)
LEMMA HeadIs ==
  ASSUME Typed, QueueInv, NEW q \in PortSlots, port[q].count > 0
  PROVE  LET m == port[q].head IN
         /\ m \in MessageSlots /\ message[m].port = q
         /\ message[m].next \in MessageSlots \cup {0} /\ message[m].size \in Nat
         /\ message[m].next = 0 <=> port[q].count = 1
         /\ port[q].count = 1 => port[q].bytes = message[m].size
<1> DEFINE n == port[q].count
           m == port[q].head
<1>1. PICK w \in [1 .. n -> MessageSlots], rest \in [1 .. n + 1 -> Nat] : Links(q, w) /\ Bytes(q, w, rest)
  BY DEF QueueInv
<1>2. n \in Nat /\ n > 0
  BY DEF Typed, PortRecords
<1>3. m \in MessageSlots /\ message[m].port = q
  BY <1>2, TailIs
<1>4. message[m].next \in MessageSlots \cup {0} /\ message[m].size \in Nat
  BY <1>3 DEF Typed, MessageRecords
<1>5. m = w[1] /\ message[w[1]].next = (IF 1 = n THEN 0 ELSE w[1 + 1])
  <2>1. 1 \in 1 .. n
    BY <1>2
  <2> QED BY <2>1, <1>1, <1>2 DEF Links
<1>6. rest[n + 1] = 0 /\ port[q].bytes = rest[1] /\ rest[1] = message[w[1]].size + rest[1 + 1]
  <2>1. 1 \in 1 .. n
    BY <1>2
  <2> QED BY <2>1, <1>1 DEF Bytes
<1> HIDE DEF n, m
<1>7. message[m].next = 0 <=> n = 1
  <2>1. CASE n = 1
    BY <2>1, <1>5
  <2>2. CASE n # 1
    <3>1. 1 + 1 \in 1 .. n
      BY <2>2, <1>2
    <3>2. w[1 + 1] \in MessageSlots
      BY <3>1
    <3> QED BY <2>2, <3>2, <1>5, Pools
  <2> QED BY <2>1, <2>2
<1>8. n = 1 => port[q].bytes = message[m].size
  BY <1>4, <1>5, <1>6
<1> QED BY <1>3, <1>4, <1>7, <1>8 DEF n, m

(* Four fields of a port are changed one after the other. *)
Changed(q, next, tail, size) ==
  port' = [port EXCEPT ![q].head = next, ![q].tail = tail, ![q].count = @ - 1, ![q].bytes = @ - size]

(* What the port is then. *)
LEMMA ChangedIs ==
  ASSUME Typed, NEW q \in PortSlots, port[q].count > 0, NEW next \in MessageSlots \cup {0},
         NEW tail \in MessageSlots \cup {0}, NEW size \in Nat, Changed(q, next, tail, size)
  PROVE  /\ port' \in [PortSlots -> PortRecords]
         /\ \A x \in PortSlots : x # q => port'[x] = port[x]
         /\ \A x \in PortSlots :
              /\ port'[x].state = port[x].state /\ port'[x].owner = port[x].owner
              /\ port'[x].send = port[x].send /\ port'[x].receive = port[x].receive
              /\ port'[x].references = port[x].references
         /\ port'[q].head = next /\ port'[q].tail = tail
         /\ port'[q].count = port[q].count - 1 /\ port'[q].bytes = port[q].bytes - size
<1> DEFINE po == port[q]
           a == [po EXCEPT !.head = next]
           b == [a EXCEPT !.tail = tail]
           c == [b EXCEPT !.count = po.count - 1]
           d == [c EXCEPT !.bytes = po.bytes - size]
<1>1. port \in [PortSlots -> PortRecords] /\ po \in PortRecords
  BY DEF Typed
<1>2. po.count \in Nat /\ po.count > 0 /\ po.bytes \in Int
  BY <1>1 DEF PortRecords
<1>5. port' = [port EXCEPT ![q] = d]
  <2> DEFINE c0 == [b EXCEPT !.count = b.count - 1]
             d0 == [c0 EXCEPT !.bytes = c0.bytes - size]
  <2>1. port' = [port EXCEPT ![q] = d0]
    BY <1>1 DEF Changed
  <2>2. d0 = d
    OBVIOUS
  <2> HIDE DEF d0, d
  <2> QED BY <2>1, <2>2
<1> HIDE DEF po
<1>6. a \in PortRecords
  BY <1>1, PortExcept
<1>7. /\ a.head = next /\ a.state = po.state /\ a.owner = po.owner
      /\ a.references = po.references /\ a.send = po.send /\ a.receive = po.receive
  BY <1>1 DEF PortRecords
<1> HIDE DEF a
<1>8. b \in PortRecords
  BY <1>6, PortExcept
<1>9. /\ b.head = a.head /\ b.tail = tail /\ b.state = a.state /\ b.owner = a.owner
      /\ b.references = a.references /\ b.send = a.send /\ b.receive = a.receive
  BY <1>6 DEF PortRecords
<1> HIDE DEF b
<1>10. c \in PortRecords
  <2>1. po.count - 1 \in Nat
    BY <1>2
  <2> QED BY <1>8, <2>1, PortExcept
<1>11. /\ c.head = b.head /\ c.tail = b.tail /\ c.state = b.state /\ c.owner = b.owner
       /\ c.references = b.references /\ c.send = b.send /\ c.receive = b.receive
       /\ c.count = po.count - 1
  BY <1>8 DEF PortRecords
<1> HIDE DEF c
<1>12. d \in PortRecords
  <2>1. po.bytes - size \in Int
    BY <1>2
  <2> QED BY <1>10, <2>1, PortExcept
<1>13. /\ d.head = c.head /\ d.tail = c.tail /\ d.state = c.state /\ d.owner = c.owner
       /\ d.references = c.references /\ d.send = c.send /\ d.receive = c.receive
       /\ d.count = c.count /\ d.bytes = po.bytes - size
  BY <1>10 DEF PortRecords
<1> HIDE DEF d
<1>14. /\ port' \in [PortSlots -> PortRecords] /\ port'[q] = d
       /\ \A x \in PortSlots : x # q => port'[x] = port[x]
  BY <1>1, <1>5, <1>12
<1> QED BY <1>7, <1>9, <1>11, <1>13, <1>14 DEF po

(* What a port is after its first message was taken. *)
LEMMA ShortenedIs ==
  ASSUME Typed, PortInv, QueueInv, NEW q \in PortSlots, port[q].count > 0,
         NEW m, m = port[q].head, port' = Shortened(q, m)
  PROVE  /\ port' \in [PortSlots -> PortRecords]
         /\ \A x \in PortSlots : x # q => port'[x] = port[x]
         /\ \A x \in PortSlots :
              /\ port'[x].state = port[x].state /\ port'[x].owner = port[x].owner
              /\ port'[x].send = port[x].send /\ port'[x].receive = port[x].receive
              /\ port'[x].references = port[x].references
         /\ port'[q].head = message[m].next /\ port'[q].tail = TailAfter(q, m)
         /\ port'[q].count = port[q].count - 1 /\ port'[q].bytes = port[q].bytes - message[m].size
<1>1. message[m].next \in MessageSlots \cup {0} /\ message[m].size \in Nat
  BY HeadIs
<1>2. TailAfter(q, m) \in MessageSlots \cup {0}
  <2>1. port[q].tail \in MessageSlots \cup {0}
    BY DEF Typed, PortRecords
  <2> QED BY <2>1 DEF TailAfter
<1>3. Changed(q, message[m].next, TailAfter(q, m), message[m].size)
  BY DEF Shortened, Changed
<1> QED BY <1>1, <1>2, <1>3, ChangedIs

(* It is sound. *)
LEMMA ShortenedSound ==
  ASSUME Typed, PortInv, QueueInv, NEW q \in PortSlots, Active(q), port[q].count > 0,
         NEW m, m = port[q].head, port' = Shortened(q, m)
  PROVE  PortInv'
<1>1. /\ port' \in [PortSlots -> PortRecords]
      /\ \A x \in PortSlots : x # q => port'[x] = port[x]
      /\ port'[q].state = port[q].state /\ port'[q].owner = port[q].owner
      /\ port'[q].send = port[q].send /\ port'[q].receive = port[q].receive
      /\ port'[q].references = port[q].references
      /\ port'[q].head = message[m].next /\ port'[q].tail = TailAfter(q, m)
      /\ port'[q].count = port[q].count - 1 /\ port'[q].bytes = port[q].bytes - message[m].size
  BY ShortenedIs
<1>2. /\ message[m].size \in Nat /\ (message[m].next = 0 <=> port[q].count = 1)
      /\ port[q].count = 1 => port[q].bytes = message[m].size
  BY HeadIs
<1>3. port[q].count \in Nat /\ port[q].bytes \in Int /\ Sound(port[q]) /\ port[q].state \in {"open", "peer_closed"}
  BY DEF Typed, PortRecords, PortInv, Active
<1>4. port'[q].count = 0 => port'[q].head = 0 /\ port'[q].tail = 0 /\ port'[q].bytes = 0
  BY <1>1, <1>2, <1>3 DEF TailAfter
<1>5. port'[q].count <= MaxMessages /\ port'[q].bytes <= MaxBytes
  BY <1>1, <1>2, <1>3, PortsAssumption DEF Sound
<1>6. Sound(port'[q])
  BY <1>1, <1>3, <1>4, <1>5 DEF Sound
<1> QED BY <1>1, <1>6 DEF PortInv

(* What a queue and its messages are after the message at its head was taken. *)
Dequeued(q, m) ==
  /\ port[q].count > 0 /\ m = port[q].head
  /\ message' = [message EXCEPT ![m] = FreeMessage]
  /\ port' \in [PortSlots -> PortRecords]
  /\ \A x \in PortSlots : x # q => port'[x] = port[x]
  /\ port'[q].head = message[m].next /\ port'[q].tail = TailAfter(q, m)
  /\ port'[q].count = port[q].count - 1 /\ port'[q].bytes = port[q].bytes - message[m].size

(* The record of the message that was taken is free, and the others are as they were. *)
LEMMA DequeuedMessages ==
  ASSUME Typed, QueueInv, NEW q \in PortSlots, NEW m, Dequeued(q, m)
  PROVE  /\ m \in MessageSlots /\ message[m].port = q
         /\ message' \in [MessageSlots -> MessageRecords] /\ message'[m] = FreeMessage
         /\ \A l \in MessageSlots : l # m => message'[l] = message[l]
<1>1. port[q].count > 0 /\ m = port[q].head /\ message' = [message EXCEPT ![m] = FreeMessage]
  BY DEF Dequeued
<1>2. m \in MessageSlots /\ message[m].port = q
  BY <1>1, HeadIs
<1>3. message \in [MessageSlots -> MessageRecords]
  BY DEF Typed
<1> QED BY <1>1, <1>2, <1>3, Shapes

(* A walk without its first message. *)
Shorter(w, n) == [i \in 1 .. n - 1 |-> w[i + 1]]

(* The queue has the messages it had but the first. *)
LEMMA DequeuedLinks ==
  ASSUME Typed, QueueInv, NEW q \in PortSlots, NEW m, Dequeued(q, m),
         NEW n, n = port[q].count, NEW w \in [1 .. n -> MessageSlots], Links(q, w),
         NEW v, v = Shorter(w, n)
  PROVE  /\ v \in [1 .. port'[q].count -> MessageSlots] /\ m = w[1]
         /\ \A i \in 1 .. n - 1 : v[i] # m
         /\ Links(q, v)'
<1>1. PICK k : k = port'[q].count
  OBVIOUS
<1>2. n \in Nat /\ n > 0 /\ k = n - 1 /\ k \in Nat /\ k + 1 = n /\ m = port[q].head
  BY <1>1 DEF Typed, PortRecords, Dequeued
<1>3. /\ \A i, j \in 1 .. n : w[i] = w[j] => i = j
      /\ QueuedAt({q}) = {w[i] : i \in 1 .. n}
      /\ n > 0 => port[q].head = w[1] /\ port[q].tail = w[n]
      /\ \A i \in 1 .. n : message[w[i]].next = IF i = n THEN 0 ELSE w[i + 1]
  BY DEF Links
<1>5. port'[q].head = message[m].next /\ port'[q].tail = TailAfter(q, m)
  BY DEF Dequeued
<1>6. /\ m \in MessageSlots /\ message[m].port = q /\ message'[m] = FreeMessage
      /\ \A l \in MessageSlots : l # m => message'[l] = message[l]
  BY DequeuedMessages
<1>10. \A i \in 1 .. k : i + 1 \in 1 .. n /\ i \in 1 .. n
  BY <1>2
<1>11. v \in [1 .. k -> MessageSlots] /\ \A i \in 1 .. k : v[i] = w[i + 1]
  BY <1>2, <1>10 DEF Shorter
<1>13. m = w[1] /\ 1 \in 1 .. n /\ n \in 1 .. n
  BY <1>2, <1>3
<1>14. ASSUME NEW i \in 1 .. k
       PROVE  v[i] # m /\ v[i] \in MessageSlots /\ message'[v[i]] = message[w[i + 1]]
  <2>1. i + 1 # 1 /\ i + 1 \in 1 .. n
    BY <1>10
  <2>2. w[i + 1] # w[1]
    BY <2>1, <1>3, <1>13
  <2> QED BY <2>2, <1>6, <1>11, <1>13
<1>15. \A i, j \in 1 .. k : v[i] = v[j] => i = j
  <2>1. ASSUME NEW i \in 1 .. k, NEW j \in 1 .. k, v[i] = v[j]
        PROVE  i = j
    <3>1. i + 1 = j + 1
      BY <2>1, <1>3, <1>10, <1>11
    <3> QED BY <3>1
  <2> QED BY <2>1
<1>16. {l \in MessageSlots : message'[l].port \in {q}} = {v[i] : i \in 1 .. k}
  <2>0. message'[m].port = 0 /\ q # 0
    BY <1>6, Pools DEF FreeMessage
  <2>1. ASSUME NEW l \in MessageSlots, message'[l].port \in {q}
        PROVE  \E i \in 1 .. k : l = v[i]
    <3>1. l # m
      BY <2>0, <2>1
    <3>2. l \in QueuedAt({q})
      BY <2>1, <3>1, <1>6 DEF QueuedAt
    <3>3. PICK i \in 1 .. n : l = w[i]
      BY <3>2, <1>3
    <3>4. i # 1
      BY <3>1, <3>3, <1>13
    <3>5. i - 1 \in 1 .. k /\ (i - 1) + 1 = i
      BY <3>4, <1>2
    <3>6. l = v[i - 1]
      BY <3>3, <3>5, <1>11
    <3> QED BY <3>5, <3>6
  <2>2. ASSUME NEW i \in 1 .. k
        PROVE  v[i] \in MessageSlots /\ message'[v[i]].port = q
    <3>1. w[i + 1] \in QueuedAt({q})
      BY <1>3, <1>10
    <3> QED BY <3>1, <1>14 DEF QueuedAt
  <2> QED BY <2>1, <2>2
<1>17. message[m].next = IF 1 = n THEN 0 ELSE w[1 + 1]
  BY <1>3, <1>13
<1>18. /\ k = 0 => port'[q].head = 0 /\ port'[q].tail = 0
       /\ k > 0 => port'[q].head = v[1] /\ port'[q].tail = v[k]
  <2>1. CASE k = 0
    BY <2>1, <1>2, <1>5, <1>17 DEF TailAfter
  <2>2. CASE k > 0
    <3>1. 1 \in 1 .. k /\ k \in 1 .. k /\ 1 # n
      BY <2>2, <1>2
    <3>2. v[1] = w[1 + 1] /\ v[k] = w[n] /\ v[1] # 0
      BY <3>1, <1>2, <1>11, <1>14, Pools
    <3>3. message[m].next = v[1]
      BY <3>1, <3>2, <1>17
    <3>4. port'[q].tail = port[q].tail
      BY <3>2, <3>3, <1>5 DEF TailAfter
    <3> QED BY <2>2, <3>2, <3>3, <3>4, <1>2, <1>3, <1>5
  <2> QED BY <2>1, <2>2, <1>2
<1>19. ASSUME NEW i \in 1 .. k
       PROVE  message'[v[i]].next = IF i = k THEN 0 ELSE v[i + 1]
  <2>1. message'[v[i]].next = IF i + 1 = n THEN 0 ELSE w[(i + 1) + 1]
    BY <1>3, <1>10, <1>14
  <2>2. CASE i = k
    BY <2>1, <2>2, <1>2
  <2>3. CASE i # k
    <3>1. i + 1 \in 1 .. k /\ i + 1 # n
      BY <2>3, <1>2
    <3> QED BY <2>1, <2>3, <3>1, <1>11
  <2> QED BY <2>2, <2>3
<1>20. Links(q, v)'
  BY <1>1, <1>15, <1>16, <1>18, <1>19 DEF Links, QueuedAt
<1> QED BY <1>1, <1>2, <1>11, <1>13, <1>14, <1>20

(* Its bytes are what they were without those of that message. *)
LEMMA DequeuedHere ==
  ASSUME Typed, QueueInv, NEW q \in PortSlots, NEW m, Dequeued(q, m)
  PROVE  \E w \in [1 .. port'[q].count -> MessageSlots], rest \in [1 .. port'[q].count + 1 -> Nat] :
           Links(q, w)' /\ Bytes(q, w, rest)'
<1>0. PICK n, k : n = port[q].count /\ k = port'[q].count
  OBVIOUS
<1>1. PICK w \in [1 .. n -> MessageSlots], rest \in [1 .. n + 1 -> Nat] : Links(q, w) /\ Bytes(q, w, rest)
  BY <1>0 DEF QueueInv
<1>2. n \in Nat /\ n > 0 /\ k = n - 1 /\ k \in Nat /\ k + 1 = n /\ port[q].bytes \in Int
  BY <1>0 DEF Typed, PortRecords, Dequeued
<1>4. /\ rest[n + 1] = 0 /\ port[q].bytes = rest[1]
      /\ \A i \in 1 .. n : rest[i] = message[w[i]].size + rest[i + 1]
  BY <1>0, <1>1 DEF Bytes
<1>5. port'[q].bytes = port[q].bytes - message[m].size
  BY DEF Dequeued
<1>6. m \in MessageSlots /\ \A l \in MessageSlots : l # m => message'[l] = message[l]
  BY DequeuedMessages
<1>7. message[m].size \in Nat
  BY <1>6 DEF Typed, MessageRecords
<1>8. PICK v : v = Shorter(w, n)
  OBVIOUS
<1>9. PICK sum : sum = [i \in 1 .. k + 1 |-> rest[i + 1]]
  OBVIOUS
<1>10. \A i \in 1 .. k : i + 1 \in 1 .. n /\ i \in 1 .. n
  BY <1>2
<1>11. /\ v \in [1 .. port'[q].count -> MessageSlots] /\ m = w[1]
       /\ \A i \in 1 .. n - 1 : v[i] # m
       /\ Links(q, v)'
  <2>1. n = port[q].count /\ Links(q, w)
    BY <1>0, <1>1
  <2>2. v \in [1 .. port'[q].count -> MessageSlots] /\ m = w[1] /\ Links(q, v)'
    BY <1>8, <2>1, DequeuedLinks
  <2>3. \A i \in 1 .. n - 1 : v[i] # m
    BY <1>8, <2>1, DequeuedLinks
  <2> QED BY <2>2, <2>3
<1>12. sum \in [1 .. k + 1 -> Nat] /\ \A i \in 1 .. k + 1 : sum[i] = rest[i + 1]
  <2>1. \A i \in 1 .. k + 1 : i + 1 \in 1 .. n + 1
    BY <1>2
  <2> QED BY <2>1, <1>9
<1>13. m = w[1] /\ 1 \in 1 .. n
  BY <1>2, <1>11
<1>14. ASSUME NEW i \in 1 .. k
       PROVE  message'[v[i]] = message[w[i + 1]]
  <2>1. v[i] = w[i + 1] /\ v[i] # m /\ v[i] \in MessageSlots
    BY <1>2, <1>8, <1>10, <1>11 DEF Shorter
  <2> QED BY <2>1, <1>6
<1>21. Bytes(q, v, sum)'
  <2>1. sum[k + 1] = 0
    <3>1. k + 1 \in 1 .. k + 1 /\ (k + 1) + 1 = n + 1
      BY <1>2
    <3> QED BY <3>1, <1>4, <1>12
  <2>2. port'[q].bytes = sum[1]
    <3>1. 1 \in 1 .. k + 1 /\ sum[1] = rest[1 + 1] /\ rest[1 + 1] \in Nat
      BY <1>2, <1>12
    <3>2. rest[1] = message[m].size + rest[1 + 1]
      BY <1>4, <1>13
    <3> QED BY <3>1, <3>2, <1>4, <1>5, <1>7
  <2>3. ASSUME NEW i \in 1 .. k
        PROVE  sum[i] = message'[v[i]].size + sum[i + 1]
    <3>1. i \in 1 .. k + 1 /\ i + 1 \in 1 .. k + 1
      BY <1>2
    <3>2. rest[i + 1] = message[w[i + 1]].size + rest[(i + 1) + 1]
      BY <1>4, <1>10
    <3> QED BY <3>1, <3>2, <1>12, <1>14
  <2> QED BY <1>0, <2>1, <2>2, <2>3 DEF Bytes
<1> QED BY <1>0, <1>11, <1>12, <1>21

(* All queues are well formed after a message was taken. *)
LEMMA DequeuedQueues ==
  ASSUME Typed, QueueInv, NEW q \in PortSlots, NEW m, Dequeued(q, m)
  PROVE  QueueInv'
<1>0. /\ m \in MessageSlots /\ message[m].port = q /\ message'[m] = FreeMessage
      /\ \A l \in MessageSlots : l # m => message'[l] = message[l]
  BY DequeuedMessages
<1>1. ASSUME NEW x \in PortSlots, x # q
      PROVE  \E w \in [1 .. port'[x].count -> MessageSlots], rest \in [1 .. port'[x].count + 1 -> Nat] :
               Links(x, w)' /\ Bytes(x, w, rest)'
  <2>1. PICK w \in [1 .. port[x].count -> MessageSlots], rest \in [1 .. port[x].count + 1 -> Nat] :
          Links(x, w) /\ Bytes(x, w, rest)
    BY DEF QueueInv
  <2>2. port'[x] = port[x] /\ x # 0
    BY <1>1, Pools DEF Dequeued
  <2>3. QueuedAt({x})' = QueuedAt({x})
    <3>1. \A l \in MessageSlots : message'[l].port = x <=> message[l].port = x
      BY <1>0, <1>1, <2>2 DEF FreeMessage
    <3> QED BY <3>1 DEF QueuedAt
  <2>4. ASSUME NEW i \in 1 .. port[x].count
        PROVE  message'[w[i]] = message[w[i]]
    <3>1. w[i] \in QueuedAt({x})
      BY <2>1 DEF Links
    <3>2. w[i] \in MessageSlots /\ message[w[i]].port = x
      BY <3>1 DEF QueuedAt
    <3> QED BY <3>2, <1>0, <1>1
  <2> DEFINE k == port[x].count
  <2>5. port'[x].count = k
    BY <2>2
  <2>6. Links(x, w)'
    <3>1. /\ \A i, j \in 1 .. k : w[i] = w[j] => i = j
          /\ QueuedAt({x})' = {w[i] : i \in 1 .. k}
          /\ k = 0 => port'[x].head = 0 /\ port'[x].tail = 0
          /\ k > 0 => port'[x].head = w[1] /\ port'[x].tail = w[k]
          /\ \A i \in 1 .. k : message'[w[i]].next = IF i = k THEN 0 ELSE w[i + 1]
      BY <2>1, <2>2, <2>3, <2>4 DEF Links
    <3> HIDE DEF k
    <3> QED BY <3>1, <2>5 DEF Links
  <2>7. Bytes(x, w, rest)'
    <3>1. /\ rest[k + 1] = 0 /\ port'[x].bytes = rest[1]
          /\ \A i \in 1 .. k : rest[i] = message'[w[i]].size + rest[i + 1]
      BY <2>1, <2>2, <2>4 DEF Bytes
    <3> HIDE DEF k
    <3> QED BY <3>1, <2>5 DEF Bytes
  <2> QED BY <2>1, <2>2, <2>6, <2>7
<1> QED BY <1>1, DequeuedHere DEF QueueInv

(* The message has left its queue, and its handles are no longer in transit. *)
LEMMA DequeuedTransit ==
  ASSUME Typed, QueueInv, TransitInv, NEW q \in PortSlots, NEW m, Dequeued(q, m),
         \A x \in PortSlots : Active(x) => port'[x].state \in Live,
         detached' = [d \in DetachedSlots |-> IF d \in Attached(m) THEN None ELSE detached[d]]
  PROVE  TransitInv'
<1>1. /\ m \in MessageSlots /\ message[m].port = q /\ message'[m] = FreeMessage
      /\ \A l \in MessageSlots : l # m => message'[l] = message[l]
  BY DequeuedMessages
<1>2. FreeMessage.port = 0 /\ FreeMessage.handles = <<>> /\ DOMAIN <<>> = {} /\ q # 0
  BY Pools DEF FreeMessage
<1>3. Attached(m)' = {}
  BY <1>1, <1>2 DEF Attached
<1>4. \A l \in MessageSlots : l # m => Attached(l)' = Attached(l)
  BY <1>1 DEF Attached
<1>5. ASSUME NEW l \in MessageSlots
      PROVE  /\ message'[l].port = 0 => message'[l] = FreeMessage
             /\ message'[l].port # 0 => port'[message'[l].port].state \in Live
             /\ \A i, j \in DOMAIN message'[l].handles :
                   message'[l].handles[i] = message'[l].handles[j] => i = j
  <2>1. CASE l = m
    BY <2>1, <1>1, <1>2
  <2>2. CASE l # m
    <3> DEFINE x == message[l].port
    <3>1. message'[l] = message[l]
      BY <2>2, <1>1
    <3>2. x # 0 => Active(x) /\ x \in PortSlots
      BY DEF TransitInv, Typed, MessageRecords
    <3>3. x # 0 => port'[x].state \in Live
      BY <3>2
    <3> QED BY <3>1, <3>3 DEF TransitInv
  <2> QED BY <2>1, <2>2
<1>6. ASSUME NEW d \in DetachedSlots
      PROVE  detached'[d] # None <=> \E l \in MessageSlots : message'[l].port # 0 /\ d \in Attached(l)'
  <2>0. detached[d] # None <=> \E l \in MessageSlots : message[l].port # 0 /\ d \in Attached(l)
    BY DEF TransitInv
  <2>1. CASE d \in Attached(m)
    <3>1. detached'[d] = None
      BY <2>1
    <3>2. \A l \in MessageSlots : l # m => d \notin Attached(l)'
      BY <2>1, <1>1, <1>4 DEF TransitInv
    <3> QED BY <3>1, <3>2, <1>3
  <2>2. CASE d \notin Attached(m)
    <3>1. detached'[d] = detached[d]
      BY <2>2
    <3>2. \A l \in MessageSlots : message'[l].port # 0 /\ d \in Attached(l)' <=> message[l].port # 0 /\ d \in Attached(l)
      BY <2>2, <1>1, <1>3, <1>4
    <3> QED BY <2>0, <3>1, <3>2
  <2> QED BY <2>1, <2>2
<1>7. \A l, k \in MessageSlots : l # k => Attached(l)' \cap Attached(k)' = {}
  BY <1>3, <1>4 DEF TransitInv
<1>8. \A l \in MessageSlots : message'[l].port # 0 => port'[message'[l].port].state \in {"open", "peer_closed"}
  BY <1>5 DEF Live
<1> QED BY <1>5, <1>6, <1>7, <1>8 DEF TransitInv, Active

(* The n handles L in the places of a message are in transit no longer. *)
Taken(n, place, L) ==
  /\ place \in [1 .. n -> DetachedSlots] /\ L \in [1 .. n -> PortHandles]
  /\ \A i, j \in 1 .. n : place[i] = place[j] => i = j
  /\ \A i \in 1 .. n : L[i] = detached[place[i]] /\ detached'[place[i]] = None
  /\ \A d \in DetachedSlots : (\A i \in 1 .. n : place[i] # d) => detached'[d] = detached[d]
  /\ detached' \in [DetachedSlots -> PortHandles \cup {None}]

(* So are those of the message at the head. *)
LEMMA TakenIs ==
  ASSUME Typed, TransitInv, NEW m \in MessageSlots, message[m].port # 0,
         detached' = [d \in DetachedSlots |-> IF d \in Attached(m) THEN None ELSE detached[d]]
  PROVE  LET place == message[m].handles
             L == [i \in DOMAIN message[m].handles |-> detached[message[m].handles[i]]]
         IN Len(place) \in Nat /\ Len(L) = Len(place) /\ Taken(Len(place), place, L)
<1> DEFINE place == message[m].handles
           n == Len(place)
           L == [i \in DOMAIN place |-> detached[place[i]]]
<1>1. place \in Seq(DetachedSlots) /\ DOMAIN place = 1 .. n /\ Attached(m) \subseteq DetachedSlots
  BY AttachedType
<1>2. n \in Nat /\ place \in [1 .. n -> DetachedSlots]
  BY <1>1
<1>3. \A i, j \in 1 .. n : place[i] = place[j] => i = j
  BY <1>1 DEF TransitInv
<1>4. Attached(m) = {place[i] : i \in 1 .. n}
  BY <1>1 DEF Attached
<1>5. \A d \in Attached(m) : detached[d] # None
  BY <1>1 DEF TransitInv
<1>6. detached \in [DetachedSlots -> PortHandles \cup {None}]
  BY DEF Typed
<1>7. L = [i \in 1 .. n |-> detached[place[i]]]
  BY <1>1
<1> HIDE DEF place, n, L
<1>8. \A i \in 1 .. n : place[i] \in Attached(m) /\ detached[place[i]] \in PortHandles
  BY <1>2, <1>4, <1>5, <1>6
<1>9. L \in [1 .. n -> PortHandles] /\ \A i \in 1 .. n : L[i] = detached[place[i]]
  BY <1>7, <1>8
<1>10. \A i \in 1 .. n : detached'[place[i]] = None
  BY <1>2, <1>8
<1>11. \A d \in DetachedSlots : (\A i \in 1 .. n : place[i] # d) => detached'[d] = detached[d]
  BY <1>4
<1>12. detached' \in [DetachedSlots -> PortHandles \cup {None}]
  BY <1>6
<1>13. Len(L) = n
  BY <1>2, <1>9
<1> QED BY <1>2, <1>3, <1>9, <1>10, <1>11, <1>12, <1>13 DEF Taken, place, n, L

(* They go from the message into the table, and a port counts as many as before. *)
LEMMA ReceivedCounts ==
  ASSUME Typed, NEW p \in Processes, NEW n \in Nat, NEW place, NEW L, Taken(n, place, L),
         n <= Cardinality(FreeSlots(p)), Becomes(p, Installed(table[p], L)), NEW x
  PROVE  /\ Sends(AllHandles', x) + Sends(detached', x) = Sends(AllHandles, x) + Sends(detached, x)
         /\ Receives(AllHandles', x) = Receives(AllHandles, x)
<1> DEFINE D == detached'
<1>1. L \in [1 .. n -> Ends] /\ \A i \in 1 .. n : L[i].kind = "send"
  BY EndKinds DEF Taken, Ends
<1>2. /\ Sends(AllHandles', x) = Sends(AllHandles, x) + Sends(L, x)
      /\ Receives(AllHandles', x) = Receives(AllHandles, x) + Receives(L, x)
  <2>1. table' = [table EXCEPT ![p] = Installed(table[p], L)]
    BY DEF Becomes
  <2> QED BY <1>1, <2>1, InstalledCounts
<1>3. DOMAIN L = 1 .. n /\ IsFiniteSet(1 .. n)
  BY <1>1, FS_Interval
<1>4. Receives(L, x) = 0
  <2>1. {y \in DOMAIN L : L[y].kind = "receive" /\ L[y].port = x} = {}
    BY <1>1, <1>3
  <2> QED BY <2>1, FS_EmptySet DEF Receives
<1>5. Added(D, detached, L, place, "send")
  <2>1. DOMAIN detached = DetachedSlots /\ DOMAIN D = DetachedSlots /\ IsFiniteSet(DetachedSlots)
    BY Pools DEF Typed, Taken
  <2>2. \A i \in 1 .. n : place[i] \in DetachedSlots /\ D[place[i]].kind # "send"
    BY EndKinds DEF Taken
  <2>3. \A i \in 1 .. n : detached[place[i]].kind = L[i].kind /\ detached[place[i]].port = L[i].port
    BY DEF Taken
  <2>4. /\ \A d \in DetachedSlots : (\A i \in 1 .. n : place[i] # d) => detached[d] = D[d]
        /\ \A i, j \in 1 .. n : place[i] = place[j] => i = j
    BY DEF Taken
  <2> HIDE DEF D
  <2> QED BY <1>3, <2>1, <2>2, <2>3, <2>4 DEF Added
<1>6. Count(detached, "send", x) = Count(D, "send", x) + Count(L, "send", x)
  <2> HIDE DEF D
  <2> QED BY <1>5, CountAdded
<1>7. Count(L, "send", x) \in Nat /\ Count(D, "send", x) \in Nat
  <2>1. IsFiniteSet(DOMAIN D)
    BY Pools DEF Taken
  <2> HIDE DEF D
  <2> QED BY <2>1, <1>3, CountType
<1>8. Sends(AllHandles, x) \in Nat /\ Receives(AllHandles, x) \in Nat
  BY AllCounts
<1>9. Sends(detached', x) = Count(D, "send", x) /\ Sends(detached, x) = Count(detached, "send", x)
      /\ Sends(L, x) = Count(L, "send", x)
  BY Counts
<1> QED BY <1>2, <1>4, <1>6, <1>7, <1>8, <1>9

(* Threads that are woken and told of nothing run, and wait for nothing. *)
LEMMA WokenForNothing ==
  ASSUME NEW th \in [Threads -> ThreadRecords], NEW W, W \subseteq Threads
  PROVE  /\ Woken(th, W, 0) \in [Threads -> ThreadRecords]
         /\ \A u \in W : /\ Woken(th, W, 0)[u].state = "running" /\ Woken(th, W, 0)[u].waits = {}
                         /\ Woken(th, W, 0)[u].probe = th[u].probe
         /\ \A u \in Threads \ W : Woken(th, W, 0)[u] = th[u]
<1> DEFINE y(u) == [th[u] EXCEPT !.state = "running", !.waits = {}, !.told = 0]
<1>1. Woken(th, W, 0) = [u \in Threads |-> IF u \in W THEN y(u) ELSE th[u]]
  BY DEF Woken
<1>2. ASSUME NEW u \in Threads
      PROVE  /\ y(u) \in ThreadRecords /\ y(u).state = "running" /\ y(u).waits = {}
             /\ y(u).told = 0 /\ y(u).probe = th[u].probe
  <2> DEFINE x == th[u]
  <2>1. x \in ThreadRecords /\ y(u) = [x EXCEPT !.state = "running", !.waits = {}, !.told = 0]
    OBVIOUS
  <2> HIDE DEF x, y
  <2> QED BY <2>1 DEF ThreadRecords, x
<1> HIDE DEF y
<1>3. \A u \in Threads : Woken(th, W, 0)[u] = IF u \in W THEN y(u) ELSE th[u]
  BY <1>1
<1>4. Woken(th, W, 0) \in [Threads -> ThreadRecords]
  BY <1>1, <1>2
<1> QED BY <1>2, <1>3, <1>4

(* When a queue moves on no probe of it is current, and nothing else changes. *)
LEMMA MovedOnIs ==
  ASSUME NEW th \in [Threads -> ThreadRecords], NEW q \in PortSlots
  PROVE  /\ MovedOn(th, q) \in [Threads -> ThreadRecords]
         /\ \A u \in Threads :
              LET x == MovedOn(th, q)[u] IN
              /\ x.state = th[u].state /\ x.waits = th[u].waits /\ x.told = th[u].told
              /\ x.probe.slot = th[u].probe.slot /\ x.probe.generation = th[u].probe.generation
              /\ x.probe.port = th[u].probe.port
              /\ x.probe.current => th[u].probe.current /\ th[u].probe.port # q
              /\ th[u].probe.port # q => x = th[u]
<1> DEFINE y(u) == [th[u] EXCEPT !.probe.current = FALSE]
           z(u) == IF th[u].probe.port = q THEN y(u) ELSE th[u]
<1>1. MovedOn(th, q) = [u \in Threads |-> z(u)]
  BY DEF MovedOn
<1>2. ASSUME NEW u \in Threads
      PROVE  /\ y(u) \in ThreadRecords
             /\ y(u).state = th[u].state /\ y(u).waits = th[u].waits /\ y(u).told = th[u].told
             /\ y(u).probe.slot = th[u].probe.slot /\ y(u).probe.generation = th[u].probe.generation
             /\ y(u).probe.port = th[u].probe.port /\ y(u).probe.current = FALSE
  <2> DEFINE x == th[u]
             pr == [x.probe EXCEPT !.current = FALSE]
  <2>1. x \in ThreadRecords /\ y(u) = [x EXCEPT !.probe = pr]
    OBVIOUS
  <2> HIDE DEF x, y
  <2>2. x.probe \in Probes
    BY <2>1 DEF ThreadRecords
  <2>3. pr \in Probes /\ pr.slot = x.probe.slot /\ pr.generation = x.probe.generation
        /\ pr.port = x.probe.port /\ pr.current = FALSE
    BY <2>2 DEF Probes
  <2> HIDE DEF pr
  <2>4. y(u) \in ThreadRecords /\ y(u).probe = pr /\ y(u).state = x.state /\ y(u).waits = x.waits /\ y(u).told = x.told
    BY <2>1, <2>3 DEF ThreadRecords
  <2> QED BY <2>3, <2>4 DEF x
<1> HIDE DEF y
<1>3. \A u \in Threads : z(u) \in ThreadRecords
  BY <1>2
<1>4. \A u \in Threads : MovedOn(th, q)[u] = z(u)
  BY <1>1
<1>5. MovedOn(th, q) \in [Threads -> ThreadRecords]
  <2> HIDE DEF z
  <2> QED BY <1>1, <1>3
<1>6. ASSUME NEW u \in Threads
      PROVE  LET x == MovedOn(th, q)[u] IN
             /\ x.state = th[u].state /\ x.waits = th[u].waits /\ x.told = th[u].told
             /\ x.probe.slot = th[u].probe.slot /\ x.probe.generation = th[u].probe.generation
             /\ x.probe.port = th[u].probe.port
             /\ x.probe.current => th[u].probe.current /\ th[u].probe.port # q
             /\ th[u].probe.port # q => x = th[u]
  BY <1>2, <1>4
<1> QED BY <1>5, <1>6

(* Those who wait for room are woken, and no probe of the queue is current. *)
LEMMA RoomToldIs ==
  ASSUME NEW th \in [Threads -> ThreadRecords], NEW q \in PortSlots
  PROVE  /\ RoomTold(th, q) \in [Threads -> ThreadRecords]
         /\ \A u \in Threads :
              LET x == RoomTold(th, q)[u] IN
              /\ u \in Waiting(th, q, "send") => x.state = "running" /\ x.waits = {}
              /\ u \notin Waiting(th, q, "send") =>
                   /\ x.state = th[u].state /\ x.waits = th[u].waits /\ x.told = th[u].told
                   /\ th[u].probe = NoProbe => x = th[u]
              /\ x.probe.slot = th[u].probe.slot /\ x.probe.generation = th[u].probe.generation
              /\ x.probe.port = th[u].probe.port
              /\ x.probe.current => th[u].probe.current /\ th[u].probe.port # q
              /\ th[u].probe = NoProbe => x.probe = NoProbe
<1> DEFINE W == Waiting(th, q, "send")
           a == Woken(th, W, 0)
           b == MovedOn(a, q)
<1>1. RoomTold(th, q) = b
  BY DEF RoomTold
<1>2. W \subseteq Threads
  BY DEF Waiting
<1> HIDE DEF W
<1>3. /\ a \in [Threads -> ThreadRecords]
      /\ \A u \in W : a[u].state = "running" /\ a[u].waits = {} /\ a[u].probe = th[u].probe
      /\ \A u \in Threads \ W : a[u] = th[u]
  BY <1>2, WokenForNothing
<1> HIDE DEF a
<1>4. /\ b \in [Threads -> ThreadRecords]
      /\ \A u \in Threads :
           /\ b[u].state = a[u].state /\ b[u].waits = a[u].waits /\ b[u].told = a[u].told
           /\ b[u].probe.slot = a[u].probe.slot /\ b[u].probe.generation = a[u].probe.generation
           /\ b[u].probe.port = a[u].probe.port
           /\ b[u].probe.current => a[u].probe.current /\ a[u].probe.port # q
           /\ a[u].probe.port # q => b[u] = a[u]
  BY <1>3, MovedOnIs
<1> HIDE DEF b
<1>5. NoProbe.port # q
  BY Pools DEF NoProbe
<1>6. \A u \in Threads : a[u].probe = th[u].probe
  BY <1>3
<1>7. \A u \in Threads : th[u].probe = NoProbe => b[u] = a[u]
  BY <1>4, <1>5, <1>6
<1> QED BY <1>1, <1>3, <1>4, <1>6, <1>7 DEF W

(* If there is another message one of those who wait is told, and others are only woken. *)
LEMMA ToldAfterIs ==
  ASSUME NEW th \in [Threads -> ThreadRecords], NEW q \in PortSlots, NEW x \in ToldAfterReceive(th, q)
  PROVE  /\ x \in [Threads -> ThreadRecords]
         /\ \A u \in Threads :
              \/ x[u] = th[u]
              \/ /\ u \in Waiting(th, q, "receive") /\ x[u].state = "running" /\ x[u].waits = {}
                 /\ x[u].probe = th[u].probe
         /\ port'[q].count > 0 /\ Waiting(th, q, "receive") # {} =>
              \E u \in Waiting(th, q, "receive") : x[u].state = "running" /\ x[u].told = q
<1>1. CASE port'[q].count > 0
  <2>1. x \in ToldOne(th, q)
    BY <1>1 DEF ToldAfterReceive
  <2> QED BY <2>1, ToldOneIs
<1>2. CASE ~(port'[q].count > 0)
  <2>1. CASE port[q].state = "peer_closed"
    <3> DEFINE W == Waiting(th, q, "receive")
    <3>1. x = Woken(th, W, 0)
      BY <1>2, <2>1 DEF ToldAfterReceive
    <3>2. W \subseteq Threads
      BY DEF Waiting
    <3> HIDE DEF W
    <3>3. /\ x \in [Threads -> ThreadRecords]
          /\ \A u \in W : x[u].state = "running" /\ x[u].waits = {} /\ x[u].probe = th[u].probe
          /\ \A u \in Threads \ W : x[u] = th[u]
      BY <3>1, <3>2, WokenForNothing
    <3> QED BY <1>2, <3>3 DEF W
  <2>2. CASE port[q].state # "peer_closed"
    <3>1. x = th
      BY <1>2, <2>2 DEF ToldAfterReceive
    <3> QED BY <1>2, <3>1
  <2> QED BY <2>1, <2>2
<1> QED BY <1>1, <1>2

(* What the threads are after t took a message from q. *)
LEMMA ReceiveThreads ==
  ASSUME Typed, ProcessInv, NEW t \in Threads, thread[t].state = "running", NEW q \in PortSlots,
         thread' \in ToldAfterReceive(RoomTold(Answered(t), q), q)
  PROVE  /\ thread' \in [Threads -> ThreadRecords]
         /\ \A u \in Threads :
              /\ thread'[u].state # "gone" => thread[u].state # "gone"
              /\ thread'[u].state = "gone" => thread'[u] = Gone
              /\ thread'[u].state = "blocked" <=> thread'[u].waits # {}
              /\ thread'[u].state = "blocked" =>
                   /\ thread[u].state = "blocked" /\ thread'[u].waits = thread[u].waits
                   /\ <<q, "send">> \notin thread[u].waits
              /\ thread[u].state = "running" /\ u # t =>
                   thread'[u].state = "running" /\ thread'[u].told = thread[u].told
              /\ thread'[u].probe # NoProbe =>
                   /\ thread[u].probe # NoProbe
                   /\ thread'[u].probe.slot = thread[u].probe.slot
                   /\ thread'[u].probe.generation = thread[u].probe.generation
                   /\ thread'[u].probe.port = thread[u].probe.port
                   /\ thread'[u].probe.current => thread[u].probe.current /\ thread[u].probe.port # q
         /\ port'[q].count > 0 /\ (\E v \in Threads : thread'[v].state = "blocked" /\ <<q, "receive">> \in thread'[v].waits) =>
              \E u \in Threads : /\ thread[u].state = "blocked" /\ <<q, "receive">> \in thread[u].waits
                                 /\ thread'[u].state = "running" /\ thread'[u].told = q
<1> DEFINE th == Answered(t)
           r == RoomTold(th, q)
           W == Waiting(th, q, "send")
           R == Waiting(r, q, "receive")
<1>1. /\ th \in [Threads -> ThreadRecords]
      /\ \A u \in Threads :
           /\ th[u].state = thread[u].state /\ th[u].waits = thread[u].waits
           /\ u # t => th[u] = thread[u]
      /\ th[t].probe = NoProbe
  BY AnsweredIs
<1> HIDE DEF th
<1>2. /\ r \in [Threads -> ThreadRecords]
      /\ \A u \in Threads :
           /\ u \in W => r[u].state = "running" /\ r[u].waits = {}
           /\ u \notin W =>
                /\ r[u].state = th[u].state /\ r[u].waits = th[u].waits /\ r[u].told = th[u].told
                /\ th[u].probe = NoProbe => r[u] = th[u]
           /\ r[u].probe.slot = th[u].probe.slot /\ r[u].probe.generation = th[u].probe.generation
           /\ r[u].probe.port = th[u].probe.port
           /\ r[u].probe.current => th[u].probe.current /\ th[u].probe.port # q
           /\ th[u].probe = NoProbe => r[u].probe = NoProbe
  BY <1>1, RoomToldIs
<1>3. \A u \in Threads : u \in W <=> thread[u].state = "blocked" /\ <<q, "send">> \in thread[u].waits
  BY <1>1 DEF Waiting
<1> HIDE DEF r
<1>4. /\ thread' \in [Threads -> ThreadRecords]
      /\ \A u \in Threads :
           \/ thread'[u] = r[u]
           \/ /\ u \in R /\ thread'[u].state = "running" /\ thread'[u].waits = {}
              /\ thread'[u].probe = r[u].probe
      /\ port'[q].count > 0 /\ R # {} =>
           \E u \in R : thread'[u].state = "running" /\ thread'[u].told = q
  <2>1. thread' \in ToldAfterReceive(r, q)
    BY DEF r, th
  <2>2. PICK x \in ToldAfterReceive(r, q) : thread' = x
    BY <2>1
  <2> QED BY <1>2, <2>2, ToldAfterIs
<1>5. \A u \in Threads : u \in R <=> r[u].state = "blocked" /\ <<q, "receive">> \in r[u].waits
  BY DEF Waiting
<1>6. R \subseteq Threads
  BY DEF Waiting
<1> HIDE DEF W, R
<1>7. ASSUME NEW u \in R
      PROVE  u \in Threads /\ thread[u].state = "blocked" /\ <<q, "receive">> \in thread[u].waits
  BY <1>1, <1>2, <1>5, <1>6
<1>8. NoProbe.current = FALSE /\ Gone.probe = NoProbe /\ Gone.state = "gone"
  BY DEF NoProbe, Gone, Running
<1>9. ASSUME NEW u \in Threads
      PROVE  /\ thread'[u].state # "gone" => thread[u].state # "gone"
             /\ thread'[u].state = "gone" => thread'[u] = Gone
             /\ thread'[u].state = "blocked" <=> thread'[u].waits # {}
             /\ thread'[u].state = "blocked" =>
                  /\ thread[u].state = "blocked" /\ thread'[u].waits = thread[u].waits
                  /\ <<q, "send">> \notin thread[u].waits
             /\ thread[u].state = "running" /\ u # t =>
                  thread'[u].state = "running" /\ thread'[u].told = thread[u].told
  <2>0. /\ thread[u].state = "gone" => thread[u] = Gone
        /\ thread[u].state = "blocked" <=> thread[u].waits # {}
    BY DEF ProcessInv
  <2>1. CASE u \in R
    <3>1. thread[u].state = "blocked"
      BY <2>1, <1>7
    <3>2. r[u].state = "blocked" /\ u \notin W
      BY <2>1, <1>2, <1>5
    <3>3. r[u].waits = thread[u].waits
      BY <3>2, <1>1, <1>2
    <3> QED BY <3>1, <3>2, <3>3, <2>0, <1>3, <1>4
  <2>2. CASE u \notin R
    <3>1. thread'[u] = r[u]
      BY <2>2, <1>4
    <3>2. CASE u \in W
      <4>1. thread'[u].state = "running" /\ thread'[u].waits = {}
        BY <3>1, <3>2, <1>2
      <4>2. thread[u].state = "blocked"
        BY <3>2, <1>3
      <4> QED BY <4>1, <4>2
    <3>3. CASE u \notin W
      <4>1. /\ thread'[u].state = thread[u].state /\ thread'[u].waits = thread[u].waits
            /\ u # t => thread'[u].told = thread[u].told
        BY <3>1, <3>3, <1>1, <1>2
      <4>2. thread[u].state = "gone" => thread'[u] = Gone
        <5>1. SUFFICES ASSUME thread[u].state = "gone" PROVE thread'[u] = Gone
          OBVIOUS
        <5>2. u # t /\ thread[u] = Gone
          BY <5>1, <2>0
        <5> QED BY <5>2, <3>1, <3>3, <1>1, <1>2, <1>8
      <4> QED BY <4>1, <4>2, <2>0, <3>3, <1>3
    <3> QED BY <3>2, <3>3
  <2> QED BY <2>1, <2>2
<1>10. ASSUME NEW u \in Threads, thread'[u].probe # NoProbe
       PROVE  /\ thread[u].probe # NoProbe
              /\ thread'[u].probe.slot = thread[u].probe.slot
              /\ thread'[u].probe.generation = thread[u].probe.generation
              /\ thread'[u].probe.port = thread[u].probe.port
              /\ thread'[u].probe.current => thread[u].probe.current /\ thread[u].probe.port # q
  <2>1. thread'[u].probe = r[u].probe
    BY <1>4
  <2>2. th[u].probe # NoProbe
    BY <2>1, <1>2, <1>10
  <2>3. th[u].probe = thread[u].probe
    BY <2>2, <1>1
  <2> QED BY <2>1, <2>2, <2>3, <1>2
<1>11. ASSUME port'[q].count > 0, NEW v \in Threads, thread'[v].state = "blocked", <<q, "receive">> \in thread'[v].waits
       PROVE  \E u \in Threads : /\ thread[u].state = "blocked" /\ <<q, "receive">> \in thread[u].waits
                                 /\ thread'[u].state = "running" /\ thread'[u].told = q
  <2>1. thread'[v] = r[v]
    BY <1>4, <1>11
  <2>2. v \in R
    BY <2>1, <1>5, <1>11
  <2>3. PICK u \in R : thread'[u].state = "running" /\ thread'[u].told = q
    BY <2>2, <1>4, <1>11
  <2> QED BY <2>3, <1>7
<1> QED BY <1>4, <1>9, <1>10, <1>11

(* A message is received. *)
LEMMA ReceiveStep ==
  ASSUME Inv, NEW t \in Threads, NEW s \in HandleSlots, Receive(t, s)
  PROVE  Inv' /\ NamesStep
<1> DEFINE p == ProcessOf[t]
           q == Handle(p, s).port
           m == port[q].head
           place == message[m].handles
           L == [i \in DOMAIN message[m].handles |-> detached[message[m].handles[i]]]
           n == Len(place)
           tb == Installed(table[p], L)
<1>1. /\ Typed /\ ProcessInv /\ NameInv /\ PortInv /\ QueueInv /\ TransitInv
      /\ CountInv /\ ProbeInv /\ WaitInv
  BY DEF Inv
<1>2. /\ Receiver(t, s, q) /\ Cardinality(FreeSlots(p)) >= Len(L)
      /\ TableSet(p, tb)
      /\ port' = Shortened(q, m)
      /\ message' = [message EXCEPT ![m] = FreeMessage]
      /\ detached' = [d \in DetachedSlots |-> IF d \in Attached(m) THEN None ELSE detached[d]]
      /\ thread' \in ToldAfterReceive(RoomTold(Answered(t), q), q)
      /\ UNCHANGED process
  BY DEF Receive, Answered
<1>3. p \in Processes
  BY PortsAssumption
<1>4. /\ thread[t].state = "running" /\ thread[t].told \in {0, q} /\ Handle(p, s).kind = "receive"
      /\ Active(q) /\ port[q].count > 0
  BY <1>2 DEF Receiver
<1>5. q \in PortSlots /\ q # 0
  BY <1>1, <1>3, <1>4, HandleIs, Pools
<1>6. m \in MessageSlots /\ message[m].port = q
  BY <1>1, <1>4, <1>5, HeadIs
<1>7. n \in Nat /\ Len(L) = n /\ Taken(n, place, L)
  <2>1. message[m].port # 0
    BY <1>5, <1>6
  <2> HIDE DEF m, q, p
  <2> QED BY <1>1, <1>2, <1>6, <2>1, TakenIs
<1>8. m = port[q].head
  OBVIOUS
<1> HIDE DEF n, tb, L, place, m, q, p
<1>9. /\ port' \in [PortSlots -> PortRecords] /\ PortInv'
      /\ \A x \in PortSlots : x # q => port'[x] = port[x]
      /\ \A x \in PortSlots :
           /\ port'[x].state = port[x].state /\ port'[x].owner = port[x].owner
           /\ port'[x].send = port[x].send /\ port'[x].receive = port[x].receive
      /\ port'[q].head = message[m].next /\ port'[q].tail = TailAfter(q, m)
      /\ port'[q].count = port[q].count - 1 /\ port'[q].bytes = port[q].bytes - message[m].size
  BY <1>1, <1>2, <1>4, <1>5, <1>8, ShortenedIs, ShortenedSound
<1>10. Dequeued(q, m)
  BY <1>2, <1>4, <1>8, <1>9 DEF Dequeued
<1>11. QueueInv'
  BY <1>1, <1>5, <1>10, DequeuedQueues
<1>12. TransitInv'
  <2>1. \A x \in PortSlots : Active(x) => port'[x].state \in Live
    BY <1>9 DEF Active, Live
  <2> QED BY <1>1, <1>2, <1>5, <1>10, <2>1, DequeuedTransit
<1>13. n <= Cardinality(FreeSlots(p))
  <2>1. Cardinality(FreeSlots(p)) \in Nat
    BY Pools, FS_Subset, FS_CardinalityType DEF FreeSlots
  <2> QED BY <2>1, <1>2, <1>7
<1>14. Becomes(p, Installed(table[p], L))
  BY <1>2 DEF Becomes, TableSet, tb
<1>15. \A x : /\ Sends(AllHandles', x) + Sends(detached', x) = Sends(AllHandles, x) + Sends(detached, x)
              /\ Receives(AllHandles', x) = Receives(AllHandles, x)
  BY <1>1, <1>3, <1>7, <1>13, <1>14, ReceivedCounts
<1>16. L \in [1 .. n -> Ends] /\ \A i \in 1 .. n : L[i].kind = "send"
  BY <1>7, EndKinds DEF Taken, Ends
<1>17. /\ table[p] \in [HandleSlots -> Entries]
       /\ n <= Cardinality({x \in HandleSlots : table[p][x].handle = None})
  <2>1. FreeSlots(p) = {x \in HandleSlots : table[p][x].handle = None}
    BY DEF FreeSlots, Handle
  <2> QED BY <2>1, <1>1, <1>3, <1>13 DEF Typed
<1>18. tb \in [HandleSlots -> Entries] /\ Renews(table[p], tb)
  <2> DEFINE old == table[p]
  <2>1. old \in [HandleSlots -> Entries] /\ n <= Cardinality({x \in HandleSlots : old[x].handle = None})
    BY <1>17
  <2>2. tb = Installed(old, L)
    BY DEF tb
  <2> HIDE DEF old
  <2>3. tb \in [HandleSlots -> Entries] /\ Renews(old, tb)
    BY <1>7, <1>16, <2>1, <2>2, InstalledIs, InstalledRenews
  <2> QED BY <2>3 DEF old
<1>19. ASSUME NEW x \in HandleSlots
       PROVE  tb[x] = table[p][x] \/ tb[x].handle.kind = "send"
  <2> DEFINE old == table[p]
  <2>1. old \in [HandleSlots -> Entries] /\ n <= Cardinality({y \in HandleSlots : old[y].handle = None})
    BY <1>17
  <2>2. tb = Installed(old, L)
    BY DEF tb
  <2> HIDE DEF old
  <2>3. tb[x] = old[x] \/ \E i \in 1 .. n : tb[x].handle = L[i]
    BY <1>7, <1>16, <2>1, <2>2, InstalledEntry
  <2> QED BY <2>3, <1>16 DEF old
<1>20. /\ table' \in [Processes -> [HandleSlots -> Entries]]
       /\ issued' \in [Processes -> SUBSET (HandleSlots \X Nat)]
       /\ NameInv' /\ NamesStep /\ table'[p] = tb
       /\ \A r \in Processes : /\ Ages(r)
                               /\ r # p => table'[r] = table[r] /\ issued'[r] = issued[r]
  BY <1>1, <1>2, <1>3, <1>18, TableKept
<1>21. /\ thread' \in [Threads -> ThreadRecords]
       /\ \A u \in Threads :
            /\ thread'[u].state # "gone" => thread[u].state # "gone"
            /\ thread'[u].state = "gone" => thread'[u] = Gone
            /\ thread'[u].state = "blocked" <=> thread'[u].waits # {}
            /\ thread'[u].state = "blocked" =>
                 /\ thread[u].state = "blocked" /\ thread'[u].waits = thread[u].waits
                 /\ <<q, "send">> \notin thread[u].waits
            /\ thread[u].state = "running" /\ u # t =>
                 thread'[u].state = "running" /\ thread'[u].told = thread[u].told
            /\ thread'[u].probe # NoProbe =>
                 /\ thread[u].probe # NoProbe
                 /\ thread'[u].probe.slot = thread[u].probe.slot
                 /\ thread'[u].probe.generation = thread[u].probe.generation
                 /\ thread'[u].probe.port = thread[u].probe.port
                 /\ thread'[u].probe.current => thread[u].probe.current /\ thread[u].probe.port # q
       /\ port'[q].count > 0 /\ (\E v \in Threads : thread'[v].state = "blocked" /\ <<q, "receive">> \in thread'[v].waits) =>
            \E u \in Threads : /\ thread[u].state = "blocked" /\ <<q, "receive">> \in thread[u].waits
                               /\ thread'[u].state = "running" /\ thread'[u].told = q
  BY <1>1, <1>2, <1>4, <1>5, ReceiveThreads
<1>22. detached' \in [DetachedSlots -> PortHandles \cup {None}]
  BY <1>7 DEF Taken
<1>23. message' \in [MessageSlots -> MessageRecords]
  BY <1>1, <1>5, <1>10, DequeuedMessages
<1>24. Typed'
  BY <1>1, <1>2, <1>9, <1>20, <1>21, <1>22, <1>23 DEF Typed
<1>25. ProcessInv'
  <2>1. process[p] = "live"
    BY <1>1, <1>4 DEF ProcessInv, p
  <2>2. \A r \in Processes : process[r] \in {"unused", "dead"} =>
          table'[r] = table[r] /\ issued'[r] = issued[r]
    BY <1>20, <2>1
  <2>3. \A u \in Threads :
          /\ thread'[u].state # "gone" => thread[u].state # "gone"
          /\ thread'[u].state = "gone" => thread'[u] = Gone
          /\ thread'[u].state = "blocked" <=> thread'[u].waits # {}
    BY <1>21
  <2> QED BY <1>1, <1>2, <2>2, <2>3, ProcessesKept
<1>26. CountInv'
  <2>1. ASSUME NEW x \in PortSlots
        PROVE  port'[x].send = Sends(AllHandles', x) + Sends(detached', x) /\ port'[x].receive = Receives(AllHandles', x)
    BY <1>1, <1>9, <1>15 DEF CountInv
  <2>2. ASSUME NEW r \in Processes, NEW x \in HandleSlots, table'[r][x].handle.kind = "receive"
        PROVE  r = port'[table'[r][x].handle.port].owner
    <3>1. table'[r][x].handle = Handle(r, x)
      <4>1. CASE r # p
        BY <4>1, <1>20 DEF Handle
      <4>2. CASE r = p
        BY <4>2, <2>2, <1>19, <1>20 DEF Handle
      <4> QED BY <4>1, <4>2
    <3>2. Handle(r, x).port \in PortSlots /\ r = port[Handle(r, x).port].owner
      BY <2>2, <3>1, <1>1, HandleIs DEF CountInv
    <3> QED BY <3>1, <3>2, <1>9
  <2>3. \A x \in PortSlots : /\ Sends(AllHandles, x)' = Sends(AllHandles', x)
                             /\ Receives(AllHandles, x)' = Receives(AllHandles', x)
                             /\ Sends(detached, x)' = Sends(detached', x)
    OBVIOUS
  <2> QED BY <2>1, <2>2, <2>3 DEF CountInv, Handle
<1>27. \A x \in PortSlots : port[x].count \in Nat /\ port'[x].count \in Nat
  BY <1>1, <1>9 DEF Typed, PortRecords
<1>28. ProbeInv'
  <2>1. ASSUME NEW u \in Threads, thread'[u].probe # NoProbe
        PROVE  /\ thread[u].probe # NoProbe
               /\ thread'[u].probe.slot = thread[u].probe.slot
               /\ thread'[u].probe.generation = thread[u].probe.generation
               /\ thread'[u].probe.port = thread[u].probe.port
               /\ thread'[u].probe.current =>
                    thread[u].probe.current /\ port'[thread[u].probe.port].count >= port[thread[u].probe.port].count
               /\ Ages(ProcessOf[u])
    <3>1. thread[u].probe # NoProbe /\ ProcessOf[u] \in Processes
      BY <2>1, <1>21, PortsAssumption
    <3>2. thread[u].probe.port \in PortSlots
      BY <3>1, <1>1 DEF ProbeInv
    <3>3. thread[u].probe.port # q => port'[thread[u].probe.port].count >= port[thread[u].probe.port].count
      BY <3>2, <1>9, <1>27
    <3> QED BY <2>1, <3>1, <3>3, <1>20, <1>21
  <2> QED BY <1>1, <1>24, <2>1, ProbesKept
<1>29. WaitInv'
  <2>1. ASSUME NEW u \in Threads, thread'[u].state = "blocked"
        PROVE  /\ thread[u].state = "blocked" /\ thread'[u].waits = thread[u].waits
               /\ \A w \in thread[u].waits :
                     /\ port'[w[1]].state = "open" /\ port'[w[1]].owner = port[w[1]].owner
                     /\ w[2] = "send" => port'[w[1]].count > 0
    <3>1. thread[u].state = "blocked" /\ thread'[u].waits = thread[u].waits /\ <<q, "send">> \notin thread[u].waits
      BY <2>1, <1>21
    <3>2. thread[u].waits \in SUBSET (PortSlots \X {"send", "receive"})
      BY <1>1 DEF Typed, ThreadRecords
    <3>3. ASSUME NEW w \in thread[u].waits
          PROVE  /\ port'[w[1]].state = "open" /\ port'[w[1]].owner = port[w[1]].owner
                 /\ w[2] = "send" => port'[w[1]].count > 0
      <4>1. w[1] \in PortSlots /\ port[w[1]].state = "open" /\ (w[2] = "send" => port[w[1]].count > 0)
        BY <3>1, <3>2, <3>3, <1>1 DEF WaitInv, NoStrandedWaiter
      <4>2. w[2] = "send" => w[1] # q
        <5>1. w = <<w[1], w[2]>>
          BY <3>2, <3>3
        <5> QED BY <5>1, <3>1, <3>3
      <4> QED BY <4>1, <4>2, <1>9
    <3> QED BY <3>1, <3>3
  <2>2. ASSUME NEW x \in PortSlots, port'[x].count > 0, Waiting(thread', x, "receive") # {}
        PROVE  \/ /\ port[x].count > 0
                  /\ \A u \in Threads :
                       thread[u].state = "running" /\ thread[u].told = x /\ ProcessOf[u] = port[x].owner =>
                         thread'[u].state = "running" /\ thread'[u].told = x
               \/ \E u \in Threads : /\ thread'[u].state = "running" /\ thread'[u].told = x
                                     /\ ProcessOf[u] = port'[x].owner
    <3>1. CASE x # q
      <4>1. \A u \in Threads : thread[u].told = x => u # t
        BY <3>1, <1>4, Pools
      <4> QED BY <2>2, <3>1, <4>1, <1>9, <1>21
    <3>2. CASE x = q
      <4>1. PICK v \in Threads : thread'[v].state = "blocked" /\ <<q, "receive">> \in thread'[v].waits
        BY <2>2, <3>2 DEF Waiting
      <4>2. PICK u \in Threads : /\ thread[u].state = "blocked" /\ <<q, "receive">> \in thread[u].waits
                                 /\ thread'[u].state = "running" /\ thread'[u].told = q
        BY <2>2, <3>2, <4>1, <1>21
      <4>3. <<q, "receive">>[1] = q /\ <<q, "receive">>[2] = "receive"
        OBVIOUS
      <4>4. ProcessOf[u] = port[q].owner
        BY <4>2, <4>3, <1>1 DEF WaitInv, NoStrandedWaiter
      <4> QED BY <3>2, <4>2, <4>4, <1>5, <1>9
    <3> QED BY <3>1, <3>2
  <2> QED BY <1>1, <2>1, <2>2, WaitKept
<1> QED BY <1>9, <1>11, <1>12, <1>20, <1>24, <1>25, <1>26, <1>28, <1>29 DEF Inv

----------------------------------------------------------------------------
(* Letting go, and the steps that do.                                      *)

(* The threads a step is left with may drop a probe, sleep as before or end, and those *)
(* told of a port that is not closed stay told.                                        *)
Leaves(th, closed) ==
  \A u \in Threads :
    /\ th[u].probe \in {thread[u].probe, NoProbe}
    /\ th[u].probe # NoProbe => Ages(ProcessOf[u])
    /\ th[u].state = "blocked" => thread[u].state = "blocked" /\ th[u].waits = thread[u].waits
    /\ th[u].state = "blocked" <=> th[u].waits # {}
    /\ th[u].state = "gone" => th[u] = Gone
    /\ th[u].state # "gone" => process'[ProcessOf[u]] = "live"
    /\ \A x \in PortSlots \ closed :
         thread[u].state = "running" /\ thread[u].told = x /\ ProcessOf[u] = port[x].owner /\ Active(x) =>
           th[u].state = "running" /\ th[u].told = x

(* Probes are still right after handles were let go. *)
LEMMA LetGoProbes ==
  ASSUME Typed, Typed', PortInv, CountInv, ProbeInv, NEW H, NEW P,
         NEW th \in [Threads -> ThreadRecords], LetGo(H, P, th), MayLetGo(H, P), Leaves(th, Shut(H, P))
  PROVE  ProbeInv'
<1>1. ASSUME NEW u \in Threads, thread'[u].probe # NoProbe
      PROVE  /\ thread[u].probe # NoProbe
             /\ thread'[u].probe.slot = thread[u].probe.slot
             /\ thread'[u].probe.generation = thread[u].probe.generation
             /\ thread'[u].probe.port = thread[u].probe.port
             /\ thread'[u].probe.current =>
                  thread[u].probe.current /\ port'[thread[u].probe.port].count >= port[thread[u].probe.port].count
             /\ Ages(ProcessOf[u])
  <2>1. /\ thread'[u].probe.slot = th[u].probe.slot
        /\ thread'[u].probe.generation = th[u].probe.generation
        /\ thread'[u].probe.port = th[u].probe.port
        /\ th[u].probe.port \notin Shut(H, P) \cup Hung(H, P) => thread'[u].probe = th[u].probe
        /\ thread'[u].probe.current => th[u].probe.current /\ th[u].probe.port \notin Shut(H, P) \cup Hung(H, P)
    BY LetGoThreads
  <2>2. NoProbe.port \notin Shut(H, P) \cup Hung(H, P)
    BY Pools DEF NoProbe, Shut, Hung
  <2>3. th[u].probe # NoProbe
    BY <1>1, <2>1, <2>2
  <2>4. th[u].probe = thread[u].probe /\ Ages(ProcessOf[u])
    BY <2>3 DEF Leaves
  <2>5. thread[u].probe.port \in PortSlots
    BY <2>3, <2>4 DEF ProbeInv
  <2> DEFINE x == thread[u].probe.port
  <2>6. x \notin Shut(H, P) => port'[x].count = port[x].count /\ port[x].count \in Nat
    <3>1. port[x].count \in Nat
      BY <2>5 DEF Typed, PortRecords
    <3> HIDE DEF x
    <3>2. x \in PortSlots
      BY <2>5 DEF x
    <3>3. x \notin Shut(H, P) => port'[x].count = port[x].count
      BY <3>2, LetGoPorts
    <3> QED BY <3>1, <3>3
  <2> QED BY <2>1, <2>3, <2>4, <2>6
<1> QED BY <1>1, ProbesKept

(* Who still sleeps, sleeps at a port that is not closed, with as many messages as before. *)
LEMMA LetGoWaits ==
  ASSUME Typed, PortInv, CountInv, WaitInv, NEW H, NEW P,
         NEW th \in [Threads -> ThreadRecords], LetGo(H, P, th), MayLetGo(H, P), Leaves(th, Shut(H, P))
  PROVE  WaitInv'
<1> DEFINE over == Shut(H, P) \cup Hung(H, P)
<1>1. \A q \in PortSlots :
        /\ q \notin Shut(H, P) => /\ port'[q].count = port[q].count
                                  /\ Active(q) => /\ port'[q].owner = port[q].owner
                                                  /\ port'[q].state \in {port[q].state, "peer_closed"}
        /\ q \in Hung(H, P) <=> port[q].state = "open" /\ port'[q].state = "peer_closed"
  BY LetGoPorts
<1>2. \A u \in Threads :
        /\ Ended(H, P, th, u) => thread'[u].state = "running" /\ thread'[u].waits = {}
        /\ ~Ended(H, P, th, u) => /\ thread'[u].state = th[u].state
                                  /\ thread'[u].waits = th[u].waits
                                  /\ thread'[u].told = th[u].told
  BY LetGoThreads
<1>3. ASSUME NEW u \in Threads, thread'[u].state = "blocked"
      PROVE  /\ thread[u].state = "blocked" /\ thread'[u].waits = thread[u].waits
             /\ \A w \in thread[u].waits : w[1] \notin over
  <2>1. ~Ended(H, P, th, u)
    BY <1>2, <1>3
  <2>2. thread[u].state = "blocked" /\ th[u].state = "blocked" /\ th[u].waits = thread[u].waits /\ thread'[u].waits = th[u].waits
    BY <2>1, <1>2, <1>3 DEF Leaves
  <2> QED BY <2>1, <2>2 DEF Ended
<1> HIDE DEF over
<1>4. \A u \in Threads : thread[u].waits \in SUBSET (PortSlots \X {"send", "receive"})
  BY DEF Typed, ThreadRecords
<1>5. ASSUME NEW u \in Threads, thread'[u].state = "blocked", NEW w \in thread[u].waits
      PROVE  /\ w[1] \in PortSlots /\ w[1] \notin over /\ port[w[1]].state = "open"
             /\ port'[w[1]].state = "open" /\ port'[w[1]].owner = port[w[1]].owner
             /\ w[2] = "send" => port'[w[1]].count > 0
  <2> DEFINE x == w[1]
  <2>1. x \in PortSlots /\ port[x].state = "open" /\ (w[2] = "send" => port[x].count > 0) /\ x \notin over
    BY <1>3, <1>4, <1>5 DEF WaitInv, NoStrandedWaiter
  <2> HIDE DEF x
  <2>2. Active(x) /\ x \notin Shut(H, P) /\ x \notin Hung(H, P)
    BY <2>1 DEF Active, over
  <2>3. port'[x].state = "open" /\ port'[x].owner = port[x].owner /\ port'[x].count = port[x].count
    BY <2>1, <2>2, <1>1
  <2> QED BY <2>1, <2>3 DEF x
<1>6. ASSUME NEW x \in PortSlots, port'[x].count > 0, Waiting(thread', x, "receive") # {}
      PROVE  /\ port[x].count > 0
             /\ \A u \in Threads :
                  thread[u].state = "running" /\ thread[u].told = x /\ ProcessOf[u] = port[x].owner =>
                    thread'[u].state = "running" /\ thread'[u].told = x
  <2>1. PICK v \in Threads : thread'[v].state = "blocked" /\ <<x, "receive">> \in thread'[v].waits
    BY <1>6 DEF Waiting
  <2>2. <<x, "receive">> \in thread[v].waits /\ <<x, "receive">>[1] = x
    BY <2>1, <1>3
  <2>3. x \notin over /\ port[x].state = "open"
    BY <2>1, <2>2, <1>5
  <2>4. x \notin Shut(H, P) /\ Active(x)
    BY <2>3 DEF over, Active
  <2>5. port[x].count > 0
    BY <2>4, <1>1, <1>6
  <2>6. ASSUME NEW u \in Threads, thread[u].state = "running", thread[u].told = x, ProcessOf[u] = port[x].owner
        PROVE  thread'[u].state = "running" /\ thread'[u].told = x
    <3>1. th[u].state = "running" /\ th[u].told = x
      BY <2>4, <2>6 DEF Leaves
    <3>2. ~Ended(H, P, th, u)
      BY <3>1 DEF Ended
    <3> QED BY <3>1, <3>2, <1>2
  <2> QED BY <2>5, <2>6
<1> QED BY <1>3, <1>5, <1>6, WaitKept

(* Threads run in live processes only. *)
LEMMA LetGoProcesses ==
  ASSUME Typed, NEW H, NEW P,
         NEW th \in [Threads -> ThreadRecords], LetGo(H, P, th), Leaves(th, Shut(H, P)),
         \A r \in Processes : process'[r] \in {"unused", "dead"} => table'[r] = NewTable /\ issued'[r] = {}
  PROVE  ProcessInv'
<1>1. ASSUME NEW u \in Threads
      PROVE  /\ thread'[u].state # "gone" => process'[ProcessOf[u]] = "live"
             /\ thread'[u].state = "gone" => thread'[u] = Gone
             /\ thread'[u].state = "blocked" <=> thread'[u].waits # {}
  <2>1. /\ Ended(H, P, th, u) => thread'[u].state = "running" /\ thread'[u].waits = {}
        /\ ~Ended(H, P, th, u) => /\ thread'[u].state = th[u].state
                                  /\ thread'[u].waits = th[u].waits
        /\ ~Ended(H, P, th, u) /\ th[u].probe = NoProbe => thread'[u] = th[u]
    BY LetGoThreads
  <2>2. /\ th[u].state = "blocked" <=> th[u].waits # {}
        /\ th[u].state = "gone" => th[u] = Gone
        /\ th[u].state # "gone" => process'[ProcessOf[u]] = "live"
    BY DEF Leaves
  <2>3. CASE Ended(H, P, th, u)
    <3>1. th[u].state = "blocked"
      BY <2>3 DEF Ended
    <3> QED BY <3>1, <2>1, <2>2, <2>3
  <2>4. CASE ~Ended(H, P, th, u)
    <3>1. Gone.probe = NoProbe
      BY DEF Gone, Running
    <3> QED BY <3>1, <2>1, <2>2, <2>4
  <2> QED BY <2>3, <2>4
<1> QED BY <1>1 DEF ProcessInv

(* A step that lets go of the handles that leave the tables keeps the invariant. *)
LEMMA LetGoStep ==
  ASSUME Inv, NEW H, NEW P, NEW th \in [Threads -> ThreadRecords],
         LetGo(H, P, th), MayLetGo(H, P), Leaves(th, Shut(H, P)),
         table' \in [Processes -> [HandleSlots -> Entries]],
         issued' \in [Processes -> SUBSET (HandleSlots \X Nat)],
         process' \in [Processes -> {"unused", "live", "exiting", "dead"}],
         NameInv', NamesStep,
         \A q \in PortSlots : /\ Sends(AllHandles', q) = Sends(AllHandles, q) - Sends(H, q)
                              /\ Receives(AllHandles', q) = Receives(AllHandles, q) - Receives(H, q),
         \A r \in Processes, x \in HandleSlots :
            table'[r][x].handle.kind = "receive" => table'[r][x].handle = Handle(r, x),
         \A r \in Processes : process'[r] \in {"unused", "dead"} => table'[r] = NewTable /\ issued'[r] = {}
  PROVE  Inv' /\ NamesStep
<1>1. /\ Typed /\ ProcessInv /\ NameInv /\ PortInv /\ QueueInv /\ TransitInv
      /\ CountInv /\ ProbeInv /\ WaitInv
  BY DEF Inv
<1>2. port' \in [PortSlots -> PortRecords] /\ PortInv'
  BY <1>1, LetGoPorts
<1>3. message' \in [MessageSlots -> MessageRecords]
  BY <1>1, LetGoMessages
<1>4. QueueInv' /\ TransitInv'
  BY <1>1, LetGoQueues, LetGoTransit
<1>5. detached' \in [DetachedSlots -> PortHandles \cup {None}]
  <2>1. detached' = [d \in DetachedSlots |-> IF d \in Discarded(Shut(H, P)) THEN None ELSE detached[d]]
    BY LetGoIs
  <2>2. detached \in [DetachedSlots -> PortHandles \cup {None}]
    BY <1>1 DEF Typed
  <2> QED BY <2>1, <2>2
<1>6. thread' \in [Threads -> ThreadRecords]
  BY LetGoThreads
<1>7. Typed'
  BY <1>2, <1>3, <1>5, <1>6 DEF Typed
<1>8. CountInv'
  <2>1. \A q \in PortSlots : /\ Sends(AllHandles, q)' = Sends(AllHandles, q) - Sends(H, q)
                             /\ Receives(AllHandles, q)' = Receives(AllHandles, q) - Receives(H, q)
    <3>1. \A q \in PortSlots : /\ Sends(AllHandles, q)' = Sends(AllHandles', q)
                               /\ Receives(AllHandles, q)' = Receives(AllHandles', q)
      OBVIOUS
    <3> QED BY <3>1
  <2>2. \A r \in Processes, x \in HandleSlots :
          Handle(r, x)'.kind = "receive" => Handle(r, x)' = Handle(r, x)
    <3>1. \A r \in Processes, x \in HandleSlots : Handle(r, x)' = table'[r][x].handle
      BY DEF Handle
    <3> QED BY <3>1
  <2> QED BY <1>1, <1>7, <2>1, <2>2, LetGoCounts
<1>9. ProbeInv'
  BY <1>1, <1>7, LetGoProbes
<1>10. WaitInv'
  BY <1>1, LetGoWaits
<1>11. ProcessInv'
  BY <1>1, LetGoProcesses
<1> QED BY <1>2, <1>4, <1>7, <1>8, <1>9, <1>10, <1>11 DEF Inv

(* A handle is closed. *)
LEMMA CloseStep ==
  ASSUME Inv, NEW t \in Threads, NEW s \in HandleSlots, Close(t, s)
  PROVE  Inv' /\ NamesStep
<1> DEFINE p == ProcessOf[t]
           H == Restricted(HandlesOf(table[p]), {s})
           tb == Retired(table[p], {s})
           th == Entered(t)
<1>1. /\ Typed /\ ProcessInv /\ NameInv /\ PortInv /\ CountInv /\ ProbeInv
  BY DEF Inv
<1>2. /\ thread[t].state = "running" /\ Fresh(p, {s}) /\ TableSet(p, tb)
      /\ LetGo(H, {}, th) /\ UNCHANGED process
  <2>1. [x \in HandleSlots |-> Handle(p, x)] = HandlesOf(table[p])
    BY DEF Handle, HandlesOf
  <2>2. /\ thread[t].state = "running" /\ Fresh(p, {s}) /\ TableSet(p, tb)
        /\ LetGo(Restricted([x \in HandleSlots |-> Handle(p, x)], {s}), {}, th) /\ UNCHANGED process
    BY DEF Close
  <2> QED BY <2>1, <2>2
<1>3. p \in Processes
  BY PortsAssumption
<1>4. table[p] \in [HandleSlots -> Entries] /\ {s} \in SUBSET HandleSlots
      /\ \A x \in {s} : table[p][x].generation <= MaxGeneration
  BY <1>1, <1>2, <1>3 DEF Typed, Fresh
<1>5. process[p] = "live"
  BY <1>1, <1>2 DEF ProcessInv
<1>6. tb \in [HandleSlots -> Entries] /\ Renews(table[p], tb)
      /\ tb[s].handle = None /\ \A x \in HandleSlots \ {s} : tb[x] = table[p][x]
  BY <1>4, RetiredIs, RetiredRenews
<1>7. ASSUME NEW kind \in {"send", "receive"}, NEW q
      PROVE  /\ Count(AllHandles', kind, q) = Count(AllHandles, kind, q) - Count(H, kind, q)
             /\ Count(H, kind, q) <= Count(AllHandles, kind, q)
  <2> DEFINE old == HandlesOf(table[p])
             new == HandlesOf(tb)
  <2>1. /\ Count(new, kind, q) = Count(old, kind, q) - Count(H, kind, q)
        /\ Count(H, kind, q) <= Count(old, kind, q)
    BY <1>4, RetiredCount
  <2>2. Becomes(p, tb)
    BY <1>2 DEF Becomes, TableSet
  <2>3. /\ Count(AllHandles', kind, q) = Count(AllHandles, kind, q) - Count(old, kind, q) + Count(new, kind, q)
        /\ Count(old, kind, q) <= Count(AllHandles, kind, q)
        /\ Count(old, kind, q) \in Nat /\ Count(new, kind, q) \in Nat
        /\ Count(AllHandles, kind, q) \in Nat
    BY <1>1, <1>3, <1>6, <2>2, TableBecomes
  <2>4. Count(H, kind, q) \in Nat
    <3>1. DOMAIN H = {s}
      BY DEF Restricted
    <3>2. IsFiniteSet(DOMAIN H)
      BY <3>1, FS_Singleton
    <3> HIDE DEF H
    <3> QED BY <3>2, CountType
  <2> HIDE DEF old, new, H
  <2> QED BY <2>1, <2>3, <2>4
<1>8. IsFiniteSet(DOMAIN H)
  <2>1. DOMAIN H = {s}
    BY DEF Restricted
  <2> QED BY <2>1, FS_Singleton
<1> HIDE DEF tb, H, p, th
<1>9. MayLetGo(H, {})
  <2>1. \A q \in PortSlots : Sends(H, q) <= Sends(AllHandles, q) /\ Receives(H, q) <= Receives(AllHandles, q)
    BY <1>7, Counts
  <2> QED BY <1>8, <2>1 DEF MayLetGo
<1>10. /\ table' \in [Processes -> [HandleSlots -> Entries]]
       /\ issued' \in [Processes -> SUBSET (HandleSlots \X Nat)]
       /\ NameInv' /\ NamesStep /\ table'[p] = tb
       /\ \A r \in Processes : /\ Ages(r)
                               /\ r # p => table'[r] = table[r] /\ issued'[r] = issued[r]
  BY <1>1, <1>2, <1>3, <1>6, TableKept
<1>11. /\ th \in [Threads -> ThreadRecords]
       /\ \A u \in Threads :
            /\ th[u].state = thread[u].state /\ th[u].waits = thread[u].waits
            /\ th[u].told = thread[u].told
            /\ u # t => th[u] = thread[u]
       /\ th[t].probe = NoProbe
  BY <1>1, EnteredIs DEF th
<1>12. Leaves(th, Shut(H, {}))
  <2>1. ASSUME NEW u \in Threads
        PROVE  /\ th[u].probe \in {thread[u].probe, NoProbe}
               /\ th[u].state = "blocked" <=> th[u].waits # {}
               /\ th[u].state = "gone" => th[u] = Gone
               /\ th[u].state # "gone" => process'[ProcessOf[u]] = "live"
    BY <1>1, <1>2, <1>11 DEF ProcessInv
  <2>2. \A u \in Threads : Ages(ProcessOf[u])
    BY <1>10, PortsAssumption
  <2> QED BY <2>1, <2>2, <1>11 DEF Leaves
<1>13. process' \in [Processes -> {"unused", "live", "exiting", "dead"}]
  BY <1>1, <1>2 DEF Typed
<1>14. \A q \in PortSlots : /\ Sends(AllHandles', q) = Sends(AllHandles, q) - Sends(H, q)
                            /\ Receives(AllHandles', q) = Receives(AllHandles, q) - Receives(H, q)
  BY <1>7, Counts
<1>15. ASSUME NEW r \in Processes, NEW x \in HandleSlots, table'[r][x].handle.kind = "receive"
       PROVE  table'[r][x].handle = Handle(r, x)
  <2>1. CASE r # p
    BY <2>1, <1>10 DEF Handle
  <2>2. CASE r = p
    <3>1. x # s
      BY <2>2, <1>6, <1>10, <1>15, EndKinds
    <3> QED BY <2>2, <3>1, <1>6, <1>10 DEF Handle
  <2> QED BY <2>1, <2>2
<1>16. \A r \in Processes : process'[r] \in {"unused", "dead"} => table'[r] = NewTable /\ issued'[r] = {}
  <2>1. \A r \in Processes : process'[r] \in {"unused", "dead"} => r # p
    BY <1>2, <1>5
  <2> QED BY <2>1, <1>1, <1>2, <1>10 DEF ProcessInv
<1> QED BY <1>2, <1>9, <1>10, <1>11, <1>12, <1>13, <1>14, <1>15, <1>16, LetGoStep

(* A process ends: its threads and the ports it created. *)
LEMMA ExitStep ==
  ASSUME Inv, NEW p \in Processes, Exit(p)
  PROVE  Inv' /\ NamesStep
<1> DEFINE P == {q \in PortSlots : Active(q) /\ port[q].owner = p}
           th == [t \in Threads |-> IF t \in ThreadsOf(p) THEN Gone ELSE thread[t]]
           H == <<>>
<1>1. /\ Typed /\ ProcessInv /\ NameInv /\ PortInv /\ CountInv /\ ProbeInv
  BY DEF Inv
<1>2. /\ process[p] = "live" /\ process' = [process EXCEPT ![p] = "exiting"]
      /\ LetGo(H, P, th) /\ UNCHANGED <<table, issued>>
  BY DEF Exit
<1>3. DOMAIN H = {}
  OBVIOUS
<1> HIDE DEF H
<1>4. ASSUME NEW q
      PROVE  Sends(H, q) = 0 /\ Receives(H, q) = 0
  BY <1>3, FS_EmptySet DEF Sends, Receives
<1>5. ASSUME NEW q \in PortSlots
      PROVE  Sends(AllHandles, q) \in Nat /\ Receives(AllHandles, q) \in Nat
  BY <1>1, AllCounts
<1>6. MayLetGo(H, P)
  BY <1>3, <1>4, <1>5, FS_EmptySet DEF MayLetGo
<1>7. NameInv' /\ NamesStep /\ \A r \in Processes : Ages(r)
  BY <1>1, <1>2, TablesSame
<1>8. thread \in [Threads -> ThreadRecords] /\ process \in [Processes -> {"unused", "live", "exiting", "dead"}]
      /\ table \in [Processes -> [HandleSlots -> Entries]] /\ issued \in [Processes -> SUBSET (HandleSlots \X Nat)]
  BY <1>1 DEF Typed
<1>9. th \in [Threads -> ThreadRecords]
  BY <1>8, Shapes
<1>10. P \subseteq Shut(H, P)
  BY DEF Shut
<1>11. Leaves(th, Shut(H, P))
  <2>0. Gone.state = "gone" /\ Gone.waits = {} /\ Gone.probe = NoProbe
    BY DEF Gone, Running
  <2>1. ASSUME NEW u \in Threads
        PROVE  /\ th[u].probe \in {thread[u].probe, NoProbe}
               /\ th[u].probe # NoProbe => Ages(ProcessOf[u])
               /\ th[u].state = "blocked" => thread[u].state = "blocked" /\ th[u].waits = thread[u].waits
               /\ th[u].state = "blocked" <=> th[u].waits # {}
               /\ th[u].state = "gone" => th[u] = Gone
               /\ th[u].state # "gone" => process'[ProcessOf[u]] = "live"
    <3>1. CASE u \in ThreadsOf(p)
      <4>1. th[u] = Gone
        BY <3>1
      <4> HIDE DEF th
      <4> QED BY <4>1, <2>0
    <3>2. CASE u \notin ThreadsOf(p)
      <4>1. th[u] = thread[u]
        BY <3>2
      <4>2. ProcessOf[u] # p /\ ProcessOf[u] \in Processes
        BY <3>2, PortsAssumption DEF ThreadsOf
      <4>3. process'[ProcessOf[u]] = process[ProcessOf[u]]
        BY <4>2, <1>2, <1>8
      <4> HIDE DEF th
      <4> QED BY <4>1, <4>2, <4>3, <1>1, <1>7 DEF ProcessInv
    <3> QED BY <3>1, <3>2
  <2>2. ASSUME NEW u \in Threads, NEW x \in PortSlots \ Shut(H, P), thread[u].state = "running", thread[u].told = x,
               ProcessOf[u] = port[x].owner, Active(x)
        PROVE  th[u].state = "running" /\ th[u].told = x
    <3>1. port[x].owner # p
      BY <2>2, <1>10
    <3>2. th[u] = thread[u]
      BY <2>2, <3>1 DEF ThreadsOf
    <3> QED BY <2>2, <3>2
  <2> HIDE DEF th
  <2> QED BY <2>1, <2>2 DEF Leaves
<1> HIDE DEF th, P
<1>12. process' \in [Processes -> {"unused", "live", "exiting", "dead"}]
  BY <1>2, <1>8
<1>13. \A q \in PortSlots : /\ Sends(AllHandles', q) = Sends(AllHandles, q) - Sends(H, q)
                            /\ Receives(AllHandles', q) = Receives(AllHandles, q) - Receives(H, q)
  <2>1. AllHandles' = AllHandles
    BY <1>2 DEF AllHandles, Handle
  <2> QED BY <2>1, <1>4, <1>5
<1>14. \A r \in Processes, x \in HandleSlots : table'[r][x].handle = Handle(r, x)
  BY <1>2 DEF Handle
<1>15. \A r \in Processes : process'[r] \in {"unused", "dead"} => table'[r] = NewTable /\ issued'[r] = {}
  <2>1. \A r \in Processes : process'[r] \in {"unused", "dead"} => process[r] \in {"unused", "dead"}
    BY <1>2, <1>8
  <2> QED BY <2>1, <1>1, <1>2 DEF ProcessInv
<1>16. table' \in [Processes -> [HandleSlots -> Entries]] /\ issued' \in [Processes -> SUBSET (HandleSlots \X Nat)]
  BY <1>2, <1>8
<1> QED BY <1>2, <1>6, <1>7, <1>9, <1>11, <1>12, <1>13, <1>14, <1>15, <1>16, LetGoStep

(* The worker closes the handles of a process that has ended. *)
LEMMA ReapStep ==
  ASSUME Inv, NEW p \in Processes, Reap(p)
  PROVE  Inv' /\ NamesStep
<1> DEFINE H == HandlesOf(table[p])
<1>1. /\ Typed /\ ProcessInv /\ NameInv /\ PortInv /\ CountInv /\ ProbeInv
  BY DEF Inv
<1>2. /\ process[p] = "exiting" /\ process' = [process EXCEPT ![p] = "dead"]
      /\ table' = [table EXCEPT ![p] = NewTable] /\ issued' = [issued EXCEPT ![p] = {}]
      /\ LetGo(H, {}, thread)
  <2>1. Handles(p) = H
    BY DEF Handle, Handles, HandlesOf
  <2> HIDE DEF H
  <2> QED BY <2>1 DEF Reap
<1>3. thread \in [Threads -> ThreadRecords] /\ process \in [Processes -> {"unused", "live", "exiting", "dead"}]
      /\ table \in [Processes -> [HandleSlots -> Entries]] /\ issued \in [Processes -> SUBSET (HandleSlots \X Nat)]
  BY <1>1 DEF Typed
<1>4. NewTable \in [HandleSlots -> Entries] /\ \A s \in HandleSlots : NewTable[s].handle = None
  BY NewTableIs
<1>5. ASSUME NEW kind \in {"send", "receive"}, NEW q
      PROVE  /\ Count(AllHandles', kind, q) = Count(AllHandles, kind, q) - Count(H, kind, q)
             /\ Count(H, kind, q) <= Count(AllHandles, kind, q)
  <2> DEFINE new == NewTable
  <2>1. Becomes(p, new) /\ new \in [HandleSlots -> Entries]
    BY <1>2, <1>4 DEF Becomes
  <2>2. Count(HandlesOf(new), kind, q) = 0
    BY NewTableIs
  <2> HIDE DEF new
  <2>3. /\ Count(AllHandles', kind, q) = Count(AllHandles, kind, q) - Count(H, kind, q) + Count(HandlesOf(new), kind, q)
        /\ Count(H, kind, q) <= Count(AllHandles, kind, q)
        /\ Count(H, kind, q) \in Nat /\ Count(AllHandles, kind, q) \in Nat
    BY <1>1, <2>1, TableBecomes
  <2> HIDE DEF H
  <2> QED BY <2>2, <2>3
<1>6. IsFiniteSet(DOMAIN H)
  <2>1. DOMAIN H = HandleSlots
    BY DEF HandlesOf
  <2> QED BY <2>1, Pools
<1> HIDE DEF H
<1>7. MayLetGo(H, {})
  <2>1. \A q \in PortSlots : Sends(H, q) <= Sends(AllHandles, q) /\ Receives(H, q) <= Receives(AllHandles, q)
    BY <1>5, Counts
  <2> QED BY <1>6, <2>1 DEF MayLetGo
<1>8. /\ table' \in [Processes -> [HandleSlots -> Entries]]
      /\ issued' \in [Processes -> SUBSET (HandleSlots \X Nat)]
      /\ process' \in [Processes -> {"unused", "live", "exiting", "dead"}]
  BY <1>2, <1>3, <1>4
<1>9. /\ table'[p] = NewTable /\ issued'[p] = {} /\ process'[p] = "dead"
      /\ \A r \in Processes : r # p => table'[r] = table[r] /\ issued'[r] = issued[r] /\ process'[r] = process[r]
  BY <1>2, <1>3
<1>10. NameInv'
  <2>1. ASSUME NEW r \in Processes, NEW n \in HandleSlots \X Nat, n \in issued'[r]
        PROVE  /\ n[2] <= table'[r][n[1]].generation
               /\ table'[r][n[1]].handle = None => n[2] < table'[r][n[1]].generation
    <3>1. r # p
      BY <2>1, <1>9
    <3> QED BY <2>1, <3>1, <1>1, <1>9 DEF NameInv, Handle
  <2> QED BY <2>1 DEF NameInv, Handle
<1>11. NamesStep
  <2>1. ASSUME NEW r \in Processes, NEW x \in HandleSlots, table'[r][x].handle # None
        PROVE  table'[r][x].handle = table[r][x].handle
    <3>1. r # p
      BY <2>1, <1>4, <1>9
    <3> QED BY <3>1, <1>9
  <2> QED BY <2>1 DEF NamesStep, Handle
<1>12. Leaves(thread, Shut(H, {}))
  <2>1. ASSUME NEW u \in Threads
        PROVE  /\ thread[u].probe # NoProbe => Ages(ProcessOf[u])
               /\ thread[u].state # "gone" => process'[ProcessOf[u]] = "live"
    <3>1. CASE ProcessOf[u] = p
      <4>1. thread[u].state = "gone"
        BY <3>1, <1>1, <1>2 DEF ProcessInv
      <4>2. thread[u] = Gone
        BY <4>1, <1>1 DEF ProcessInv
      <4> QED BY <4>1, <4>2 DEF Gone, Running
    <3>2. CASE ProcessOf[u] # p
      <4>1. ProcessOf[u] \in Processes
        BY PortsAssumption
      <4> DEFINE r == ProcessOf[u]
      <4>2. r \in Processes /\ table'[r] = table[r] /\ process'[r] = process[r]
        BY <3>2, <4>1, <1>9
      <4> HIDE DEF r
      <4>3. Ages(r)
        <5>1. \A x \in HandleSlots : table[r][x].generation \in Int
          BY <4>2, <1>3 DEF Entries
        <5> QED BY <4>2, <5>1 DEF Ages, Handle
      <4> QED BY <4>2, <4>3, <1>1 DEF ProcessInv, r
    <3> QED BY <3>1, <3>2
  <2> QED BY <2>1, <1>1 DEF Leaves, ProcessInv
<1>13. \A q \in PortSlots : /\ Sends(AllHandles', q) = Sends(AllHandles, q) - Sends(H, q)
                            /\ Receives(AllHandles', q) = Receives(AllHandles, q) - Receives(H, q)
  BY <1>5, Counts
<1>14. ASSUME NEW r \in Processes, NEW x \in HandleSlots, table'[r][x].handle.kind = "receive"
       PROVE  table'[r][x].handle = Handle(r, x)
  <2>1. r # p
    BY <1>4, <1>9, <1>14, EndKinds
  <2> QED BY <2>1, <1>9 DEF Handle
<1>15. \A r \in Processes : process'[r] \in {"unused", "dead"} => table'[r] = NewTable /\ issued'[r] = {}
  BY <1>1, <1>9 DEF ProcessInv
<1> QED BY <1>2, <1>3, <1>7, <1>8, <1>10, <1>11, <1>12, <1>13, <1>14, <1>15, LetGoStep

----------------------------------------------------------------------------
(* The invariant.                                                          *)

(* It holds at the start. *)
LEMMA InvInit == Init => Inv
<1> SUFFICES ASSUME Init PROVE Inv
  OBVIOUS
<1>1. PICK S \in SUBSET {t \in Threads : ProcessOf[t] = First} :
        thread = [t \in Threads |-> IF t \in S THEN Running ELSE Gone]
  BY DEF Init
<1>2. /\ port = [p \in PortSlots |-> FreePort]
      /\ message = [m \in MessageSlots |-> FreeMessage]
      /\ detached = [d \in DetachedSlots |-> None]
      /\ table = [p \in Processes |-> NewTable]
      /\ issued = [p \in Processes |-> {}]
      /\ process = [p \in Processes |-> IF p = First THEN "live" ELSE "unused"]
  BY DEF Init
<1>3. \A q \in PortSlots : port[q] = FreePort
  BY <1>2
<1>4. \A m \in MessageSlots : message[m] = FreeMessage
  BY <1>2
<1>5. \A d \in DetachedSlots : detached[d] = None
  BY <1>2
<1>6. \A p \in Processes : table[p] = NewTable /\ issued[p] = {}
  BY <1>2
<1>7. /\ FreePort.state = "free" /\ FreePort.send = 0 /\ FreePort.receive = 0 /\ FreePort.references = 0
      /\ FreePort.head = 0 /\ FreePort.tail = 0 /\ FreePort.count = 0 /\ FreePort.bytes = 0
      /\ FreeMessage.port = 0 /\ FreeMessage.handles = <<>>
  BY DEF FreePort, FreeMessage
<1>8. /\ Running.state = "running" /\ Running.waits = {} /\ Running.told = 0 /\ Running.probe = NoProbe
      /\ Gone.state = "gone" /\ Gone.waits = {} /\ Gone.told = 0 /\ Gone.probe = NoProbe
      /\ NoProbe.current = FALSE
  BY DEF Running, Gone, NoProbe
<1>9. \A t \in Threads : thread[t] = Running \/ thread[t] = Gone
  BY <1>1
<1>10. Typed
  <2>1. port \in [PortSlots -> PortRecords] /\ message \in [MessageSlots -> MessageRecords]
        /\ detached \in [DetachedSlots -> PortHandles \cup {None}]
    BY <1>2, Shapes
  <2>2. table \in [Processes -> [HandleSlots -> Entries]] /\ issued \in [Processes -> SUBSET (HandleSlots \X Nat)]
    BY <1>2, NewTableIs
  <2>3. process \in [Processes -> {"unused", "live", "exiting", "dead"}]
    BY <1>2
  <2>4. thread \in [Threads -> ThreadRecords]
    BY <1>1, Shapes
  <2> QED BY <2>1, <2>2, <2>3, <2>4 DEF Typed
<1>11. ProcessInv
  <2>1. ASSUME NEW t \in Threads, thread[t].state # "gone"
        PROVE  process[ProcessOf[t]] = "live"
    <3>1. ProcessOf[t] = First
      BY <2>1, <1>1, <1>8
    <3> QED BY <3>1, <1>2, PortsAssumption
  <2> QED BY <2>1, <1>6, <1>8, <1>9 DEF ProcessInv
<1>12. NameInv
  BY <1>6 DEF NameInv
<1>13. PortInv
  <2>1. Sound(FreePort)
    BY <1>7, PortsAssumption DEF Sound
  <2> QED BY <2>1, <1>3 DEF PortInv
<1>14. QueueInv
  <2>1. ASSUME NEW q \in PortSlots
        PROVE  \E w \in [1 .. port[q].count -> MessageSlots], rest \in [1 .. port[q].count + 1 -> Nat] :
                 Links(q, w) /\ Bytes(q, w, rest)
    <3>1. PICK w : w = [i \in 1 .. 0 |-> 0]
      OBVIOUS
    <3>2. PICK rest : rest = [i \in 1 .. 1 |-> 0]
      OBVIOUS
    <3>3. port[q].count = 0 /\ port[q].head = 0 /\ port[q].tail = 0 /\ port[q].bytes = 0 /\ q # 0
      BY <1>3, <1>7, Pools
    <3>4. w \in [1 .. 0 -> MessageSlots] /\ rest \in [1 .. 0 + 1 -> Nat] /\ rest[1] = 0
      BY <3>1, <3>2
    <3>5. QueuedAt({q}) = {}
      BY <3>3, <1>4, <1>7 DEF QueuedAt
    <3>6. Links(q, w)
      BY <3>3, <3>5 DEF Links
    <3>7. Bytes(q, w, rest)
      BY <3>3, <3>4 DEF Bytes
    <3> QED BY <3>3, <3>4, <3>6, <3>7
  <2> QED BY <2>1 DEF QueueInv
<1>15. TransitInv
  <2>1. \A m \in MessageSlots : Attached(m) = {}
    BY <1>4, <1>7 DEF Attached
  <2> QED BY <2>1, <1>4, <1>5, <1>7 DEF TransitInv
<1>16. CountInv
  <2>0. \A p \in Processes, s \in HandleSlots : Handle(p, s) = None
    BY <1>6, NewTableIs DEF Handle
  <2>1. ASSUME NEW q \in PortSlots
        PROVE  Sends(AllHandles, q) = 0 /\ Sends(detached, q) = 0 /\ Receives(AllHandles, q) = 0
    <3>1. \A x \in DOMAIN AllHandles : AllHandles[x].kind = "none"
      BY <2>0, EndKinds DEF AllHandles
    <3>2. \A d \in DOMAIN detached : detached[d].kind = "none"
      BY <1>2, EndKinds
    <3>3. /\ {x \in DOMAIN AllHandles : AllHandles[x].kind = "send" /\ AllHandles[x].port = q} = {}
          /\ {x \in DOMAIN AllHandles : AllHandles[x].kind = "receive" /\ AllHandles[x].port = q} = {}
          /\ {x \in DOMAIN detached : detached[x].kind = "send" /\ detached[x].port = q} = {}
      BY <3>1, <3>2
    <3> QED BY <3>3, FS_EmptySet DEF Sends, Receives
  <2> QED BY <2>0, <2>1, <1>3, <1>7, EndKinds DEF CountInv
<1>17. ProbeInv
  BY <1>8, <1>9 DEF ProbeInv
<1>18. WaitInv
  BY <1>3, <1>7, <1>8, <1>9 DEF WaitInv, NoStrandedWaiter
<1> QED BY <1>10, <1>11, <1>12, <1>13, <1>14, <1>15, <1>16, <1>17, <1>18 DEF Inv

(* Every step keeps it, and the names. *)
LEMMA InvStep == Inv /\ [Next]_vars => Inv' /\ [NamesStep]_vars
<1> SUFFICES ASSUME Inv, [Next]_vars PROVE Inv' /\ [NamesStep]_vars
  OBVIOUS
<1>1. CASE UNCHANGED vars
  <2>1. UNCHANGED <<port, message, detached, table, issued, process, thread>>
    BY <1>1 DEF vars
  <2>2. Typed' /\ ProcessInv' /\ NameInv' /\ PortInv'
    BY <2>1 DEF Inv, Typed, ProcessInv, NameInv, PortInv, Handle
  <2>3. QueueInv'
    <3>1. message' = message /\ port' = port
      BY <2>1
    <3> QED BY <3>1, QueuesKept DEF Inv
  <2>4. TransitInv'
    BY <2>1, TransitKept DEF Inv, Active
  <2>5. CountInv'
    <3>1. AllHandles' = AllHandles /\ detached' = detached /\ port' = port
      BY <2>1 DEF AllHandles, Handle
    <3>2. \A q \in PortSlots : /\ Sends(AllHandles, q)' = Sends(AllHandles, q)
                               /\ Receives(AllHandles, q)' = Receives(AllHandles, q)
                               /\ Sends(detached, q)' = Sends(detached, q)
      BY <3>1 DEF Sends, Receives
    <3>3. \A p \in Processes, s \in HandleSlots : Handle(p, s)' = Handle(p, s)
      BY <2>1 DEF Handle
    <3> QED BY <3>1, <3>2, <3>3 DEF Inv, CountInv
  <2>6. ProbeInv'
    BY <2>1 DEF Inv, ProbeInv, Handle
  <2>7. WaitInv'
    BY <2>1, WaitSame DEF Inv
  <2> QED BY <1>1, <2>2, <2>3, <2>4, <2>5, <2>6, <2>7 DEF Inv
<1>2. CASE Next
  <2>1. CASE \E p \in Processes : Exit(p) \/ Reap(p)
    BY <2>1, ExitStep, ReapStep
  <2>2. ASSUME NEW t \in Threads,
               \/ Create(t) \/ OtherCall(t) \/ ReceiveNothing(t) \/ WaitEnds(t) \/ ForkFails(t)
               \/ \E S \in SUBSET HandleSlots : Wait(t, S)
        PROVE  Inv' /\ NamesStep
    BY <2>2, CreateStep, OtherCallStep, ReceiveNothingStep, WaitEndsStep, ForkFailsStep, WaitStep
  <2>3. ASSUME NEW t \in Threads, NEW s \in HandleSlots,
               \/ Receive(t, s) \/ ReceiveFaults(t, s) \/ Close(t, s)
               \/ \E rights \in CopyRights : Duplicate(t, s, rights)
               \/ \E size \in Sizes : SendRefused(t, s, size)
        PROVE  Inv' /\ NamesStep
    BY <2>3, ReceiveStep, ReceiveFaultsStep, CloseStep, DuplicateStep, SendRefusedStep
  <2>4. ASSUME NEW t \in Threads, NEW s \in HandleSlots, NEW size \in Sizes,
               NEW L \in Lists(Transferable(ProcessOf[t])), Send(t, s, size, L)
        PROVE  Inv' /\ NamesStep
    BY <2>4, SendStep
  <2>5. ASSUME NEW t \in Threads, NEW c \in Processes, Fork(t, c)
        PROVE  Inv' /\ NamesStep
    BY <2>5, ForkStep
  <2>6. ASSUME NEW t \in Threads, NEW c \in Processes, NEW n \in 0 .. MaxAttached,
               NEW G \in [1 .. n -> HandleSlots \X CopyRights], Launch(t, c, G)
        PROVE  Inv' /\ NamesStep
    <3>1. n \in Nat
      BY PortsAssumption
    <3> QED BY <2>6, <3>1, LaunchStep
  <2> QED BY <1>2, <2>1, <2>2, <2>3, <2>4, <2>5, <2>6 DEF Next
<1> QED BY <1>1, <1>2

(* The invariant holds in every state, whatever is sent, received, copied, *)
(* closed or undone, and whoever ends: kernel_port_send, receive_begin and *)
(* receive_commit, prepare_wait and the handle tables keep their records   *)
(* in step.                                                                *)
THEOREM Ports_Invariant == Spec => []Inv
<1>1. Inv /\ [Next]_vars => Inv'
  BY InvStep
<1> QED BY <1>1, InvInit, PTL DEF Spec

(* Nobody sleeps past a message, past room or past the end of a port: when *)
(* threads wait for the messages of a port that has one, a thread of its   *)
(* owner has been told and not yet asked (wake_one in kernel_port_send,    *)
(* receive_commit and receive_cancel), and who waits for room waits at an  *)
(* open port with messages in it (kernel_port_prepare_wait_after).         *)
THEOREM Ports_WaitersTold == Spec => []WaitersTold
<1>1. Inv => WaitersTold
  BY DEF Inv, WaitInv, WaitersTold, NoLostWakeup
<1> QED BY <1>1, Ports_Invariant, PTL

(* A handle name that becomes valid was never valid in the process before, *)
(* nor in the one its memory is a copy of (retire_entry,                   *)
(* kernel_handle_clone_table).                                             *)
THEOREM Ports_NamesOnce == Spec => NamesOnce
<1>1. Inv /\ [Next]_vars =>
        [\A p \in Processes, s \in HandleSlots :
           Handle(p, s)' # None /\ Name(p, s)' \in issued[p] => Handle(p, s)' = Handle(p, s)]_vars
  BY InvStep DEF NamesStep
<1> QED BY <1>1, Ports_Invariant, PTL DEF Spec, NamesOnce

(* A port counts its handles exactly, in tables and in transit, so that it *)
(* is freed with the last; and when all processes are gone nothing is left *)
(* (kernel_port_handle_retain and _release, discard_messages,              *)
(* kernel_handle_close_all).                                               *)
THEOREM Ports_HandlesExact == Spec => []HandlesExact
<1>1. Inv => ReferencesExact
  <2> SUFFICES ASSUME Inv PROVE ReferencesExact
    OBVIOUS
  <2>1. \A q \in PortSlots : Sound(port[q]) /\ port[q] \in PortRecords
    BY DEF Inv, PortInv, Typed
  <2>2. \A q \in PortSlots :
          /\ port[q].references = port[q].send + port[q].receive
          /\ port[q].state = "free" => port[q].references = 0
          /\ port[q].state = "open" => port[q].send > 0
          /\ port[q].state = "closing" => port[q].references > 0
          /\ port[q].receive <= 1
    BY <2>1 DEF Sound, FreePort
  <2>3. \A q \in PortSlots :
          /\ port[q].send = Sends(AllHandles, q) + Sends(detached, q)
          /\ port[q].receive = Receives(AllHandles, q)
    BY DEF Inv, CountInv
  <2>4. \A q \in PortSlots, p \in Processes, s \in HandleSlots :
          Handle(p, s).kind = "receive" /\ Handle(p, s).port = q => p = port[q].owner
    BY DEF Inv, CountInv
  <2> QED BY <2>2, <2>3, <2>4 DEF ReferencesExact
<1>2. Inv => NothingLeaks
  <2> SUFFICES ASSUME Inv, \A p \in Processes : process[p] \in {"unused", "dead"}
               PROVE  /\ \A q \in PortSlots : port[q] = FreePort
                      /\ \A m \in MessageSlots : message[m] = FreeMessage
                      /\ \A d \in DetachedSlots : detached[d] = None
    BY DEF NothingLeaks
  <2>1. \A p \in Processes, s \in HandleSlots : Handle(p, s) = None
    BY NewTableIs DEF Inv, ProcessInv, Handle
  <2>2. ASSUME NEW q \in PortSlots
        PROVE  port[q].receive = 0
    <3>1. \A x \in DOMAIN AllHandles : AllHandles[x].kind # "receive"
      BY <2>1, EndKinds DEF AllHandles
    <3>2. {x \in DOMAIN AllHandles : AllHandles[x].kind = "receive" /\ AllHandles[x].port = q} = {}
      BY <3>1
    <3>3. Receives(AllHandles, q) = 0
      BY <3>2, FS_EmptySet DEF Receives
    <3> QED BY <3>3 DEF Inv, CountInv
  <2>3. \A q \in PortSlots : ~Active(q)
    BY <2>2 DEF Inv, PortInv, Sound, Active
  <2>4. ASSUME NEW m \in MessageSlots
        PROVE  message[m].port = 0 /\ message[m] = FreeMessage
    <3>1. message[m].port \in PortSlots \cup {0}
      BY DEF Inv, Typed, MessageRecords
    <3>2. message[m].port # 0 => Active(message[m].port)
      BY DEF Inv, TransitInv
    <3>3. message[m].port = 0
      <4> DEFINE x == message[m].port
      <4>1. x \in PortSlots \cup {0} /\ (x # 0 => Active(x))
        BY <3>1, <3>2
      <4> HIDE DEF x
      <4>2. x = 0
        BY <4>1, <2>3
      <4> QED BY <4>2 DEF x
    <3> QED BY <3>3 DEF Inv, TransitInv
  <2>5. \A d \in DetachedSlots : detached[d] = None
    BY <2>4 DEF Inv, TransitInv
  <2>6. ASSUME NEW q \in PortSlots
        PROVE  port[q] = FreePort
    <3>1. \A x \in DOMAIN AllHandles : AllHandles[x].kind # "send"
      BY <2>1, EndKinds DEF AllHandles
    <3>2. DOMAIN detached = DetachedSlots
      BY DEF Inv, Typed
    <3>3. /\ {x \in DOMAIN AllHandles : AllHandles[x].kind = "send" /\ AllHandles[x].port = q} = {}
          /\ {x \in DOMAIN detached : detached[x].kind = "send" /\ detached[x].port = q} = {}
      BY <2>5, <3>1, <3>2, EndKinds
    <3>4. Sends(AllHandles, q) = 0 /\ Sends(detached, q) = 0
      BY <3>3, FS_EmptySet DEF Sends
    <3>5. port[q].send = 0
      BY <3>4 DEF Inv, CountInv
    <3>6. port[q].references = 0 /\ Sound(port[q]) /\ port[q] \in PortRecords
      BY <3>5, <2>2 DEF Inv, PortInv, Sound, Typed
    <3>7. port[q].state = "free"
      BY <3>6, <2>3 DEF Sound, Active, PortRecords
    <3> QED BY <3>6, <3>7 DEF Sound
  <2> QED BY <2>4, <2>5, <2>6
<1>3. Inv => HandlesExact
  BY <1>1, <1>2 DEF HandlesExact
<1> QED BY <1>3, Ports_Invariant, PTL

----------------------------------------------------------------------------
(* The queue as its links give it.                                         *)

(* From the head, the links lead through the messages of the queue. *)
LEMMA WalkIs ==
  ASSUME Typed, NEW q \in PortSlots, NEW w \in [1 .. port[q].count -> MessageSlots], Links(q, w)
  PROVE  Walk(q) = w
<1> DEFINE n == port[q].count
           head == port[q].head
           step(a, i) == IF i = 1 THEN head ELSE IF a[i - 1] = 0 THEN 0 ELSE message[a[i - 1]].next
           f(a) == [i \in 1 .. n |-> step(a, i)]
           at == Walk(q)
<1>1. at = CHOOSE a : a = f(a)
  BY DEF Walk
<1>2. n \in Nat
  BY DEF Typed, PortRecords
<1>3. /\ n > 0 => head = w[1]
      /\ \A i \in 1 .. n : message[w[i]].next = IF i = n THEN 0 ELSE w[i + 1]
  BY DEF Links
<1>4. \A i \in 1 .. n : w[i] \in MessageSlots /\ w[i] # 0
  BY Pools
<1> HIDE DEF at, n, head
<1>5. ASSUME NEW i \in 1 .. n, i # 1
      PROVE  i - 1 \in 1 .. n /\ w[i - 1] # 0 /\ message[w[i - 1]].next = w[i]
  <2>1. i - 1 \in 1 .. n /\ i - 1 # n /\ (i - 1) + 1 = i
    BY <1>2, <1>5
  <2> QED BY <2>1, <1>3, <1>4
<1>6. \A i \in 1 .. n : step(w, i) = w[i]
  BY <1>2, <1>3, <1>5
<1>7. w = f(w)
  <2>1. w = [i \in 1 .. n |-> w[i]]
    BY DEF n
  <2> HIDE DEF step
  <2> QED BY <2>1, <1>6
<1>8. at = f(at)
  <2> HIDE DEF f
  <2> QED BY <1>1, <1>7
<1>9. \A i \in 1 .. n : at[i] = w[i]
  <2> DEFINE S == {i \in 1 .. n : at[i] # w[i]}
  <2> SUFFICES ASSUME S # {} PROVE FALSE
    OBVIOUS
  <2>1. S \in SUBSET Nat /\ IsFiniteSet(S) /\ S \subseteq 1 .. n
    <3>1. S \subseteq 1 .. n
      OBVIOUS
    <3>2. 1 .. n \subseteq Nat
      BY <1>2
    <3>3. IsFiniteSet(1 .. n)
      BY <1>2, FS_Interval
    <3> HIDE DEF S
    <3> QED BY <3>1, <3>2, <3>3, FS_Subset
  <2>2. Cardinality(S) \in Nat /\ Cardinality(S) # 0
    <3> HIDE DEF S
    <3> QED BY <2>1, FS_CardinalityType, FS_EmptySet
  <2> DEFINE i == Nth(S, 1)
  <2>3. i \in S /\ Cardinality({y \in S : y < i}) = 0
    <3>1. 1 \in 1 .. Cardinality(S) /\ 1 - 1 = 0
      BY <2>2
    <3> HIDE DEF S
    <3>2. Nth(S, 1) \in S /\ Cardinality({y \in S : y < Nth(S, 1)}) = 1 - 1
      BY <2>1, <3>1, NthIn
    <3> QED BY <3>1, <3>2
  <2> HIDE DEF i
  <2>4. \A y \in S : ~(y < i)
    <3> HIDE DEF S
    <3>1. IsFiniteSet({y \in S : y < i})
      BY <2>1, FS_Subset
    <3>2. {y \in S : y < i} = {}
      BY <2>3, <3>1, FS_EmptySet
    <3> QED BY <3>2
  <2>5. i \in 1 .. n /\ at[i] # w[i] /\ at[i] = step(at, i)
    BY <2>3, <1>8
  <2>6. CASE i = 1
    BY <2>5, <2>6, <1>2, <1>3
  <2>7. CASE i # 1
    <3>1. i - 1 \in 1 .. n /\ w[i - 1] # 0 /\ message[w[i - 1]].next = w[i]
      BY <2>5, <2>7, <1>5
    <3>2. at[i - 1] = w[i - 1]
      <4>1. i - 1 < i
        BY <2>5
      <4> QED BY <3>1, <4>1, <2>4
    <3> QED BY <2>5, <2>7, <3>1, <3>2
  <2> QED BY <2>6, <2>7
<1>10. at = [i \in 1 .. n |-> at[i]]
  BY <1>8
<1>11. w = [i \in 1 .. n |-> w[i]]
  BY DEF n
<1>12. at = w
  BY <1>9, <1>10, <1>11
<1> QED BY <1>12 DEF at

(* A queue has as many messages as its port counts, from the head to the tail. *)
LEMMA WalkWellFormed ==
  ASSUME Inv, NEW q \in PortSlots
  PROVE  /\ {Walk(q)[i] : i \in 1 .. port[q].count} = QueuedAt({q})
         /\ Cardinality(QueuedAt({q})) = port[q].count
         /\ port[q].head = 0 <=> port[q].count = 0
         /\ port[q].tail = IF port[q].count = 0 THEN 0 ELSE Walk(q)[port[q].count]
<1> DEFINE n == port[q].count
<1>1. PICK w \in [1 .. n -> MessageSlots], rest \in [1 .. n + 1 -> Nat] : Links(q, w) /\ Bytes(q, w, rest)
  BY DEF Inv, QueueInv
<1>2. Walk(q) = w
  BY <1>1, WalkIs DEF Inv
<1>3. n \in Nat
  BY DEF Inv, Typed, PortRecords
<1>4. /\ \A i, j \in 1 .. n : w[i] = w[j] => i = j
      /\ QueuedAt({q}) = {w[i] : i \in 1 .. n}
      /\ n = 0 => port[q].head = 0 /\ port[q].tail = 0
      /\ n > 0 => port[q].head = w[1] /\ port[q].tail = w[n]
  BY <1>1 DEF Links
<1> HIDE DEF n
<1>5. Cardinality(QueuedAt({q})) = n
  <2> DEFINE U == 1 .. n
             T == {w[i] : i \in U}
  <2>1. IsFiniteSet(U) /\ Cardinality(U) = n
    BY <1>3, FS_Interval
  <2>2. w \in [U -> T]
    BY <1>1
  <2>3. \A z \in T : \E i \in U : w[i] = z
    OBVIOUS
  <2>4. T = QueuedAt({q})
    BY <1>4
  <2>5. \A i, j \in U : w[i] = w[j] => i = j
    BY <1>4
  <2> HIDE DEF T, U
  <2>6. Cardinality(T) = Cardinality(U)
    BY <2>1, <2>2, <2>3, <2>5, SameCount
  <2> QED BY <2>1, <2>4, <2>6
<1>6. n # 0 => w[1] # 0
  <2>1. n # 0 => 1 \in 1 .. n
    BY <1>3
  <2> QED BY <2>1, <1>1, Pools
<1>7. {Walk(q)[i] : i \in 1 .. n} = QueuedAt({q})
  <2>1. \A i \in 1 .. n : Walk(q)[i] = w[i]
    BY <1>2
  <2>2. {Walk(q)[i] : i \in 1 .. n} = {w[i] : i \in 1 .. n}
    BY <2>1
  <2> QED BY <2>2, <1>4
<1>8. port[q].head = 0 <=> n = 0
  BY <1>3, <1>4, <1>6
<1>9. port[q].tail = IF n = 0 THEN 0 ELSE Walk(q)[n]
  BY <1>2, <1>3, <1>4
<1> QED BY <1>5, <1>7, <1>8, <1>9 DEF n

(* The invariant has the types. *)
LEMMA InvTypeOK == Inv => TypeOK
<1> SUFFICES ASSUME Inv PROVE TypeOK
  OBVIOUS
<1>1. ASSUME NEW q \in PortSlots
      PROVE  /\ port[q].state \in {"free", "open", "peer_closed", "closing"}
             /\ port[q].owner \in Processes \cup {Nobody}
             /\ port[q].count \in 0 .. MaxMessages /\ port[q].bytes \in 0 .. MaxBytes
             /\ port[q].send \in 0 .. MaxReferences /\ port[q].receive \in 0 .. 1
  <2>1. port[q] \in PortRecords /\ Sound(port[q])
    BY DEF Inv, Typed, PortInv
  <2> DEFINE n == port[q].count
  <2>2. PICK w \in [1 .. n -> MessageSlots], rest \in [1 .. n + 1 -> Nat] : Links(q, w) /\ Bytes(q, w, rest)
    BY DEF Inv, QueueInv
  <2>3. port[q].bytes = rest[1]
    BY <2>2 DEF Bytes
  <2>4. n \in Nat /\ 1 \in 1 .. n + 1
    BY <2>1 DEF PortRecords
  <2>5. port[q].bytes \in Nat
    BY <2>2, <2>3, <2>4
  <2> QED BY <2>1, <2>4, <2>5, PortsAssumption DEF PortRecords, Sound
<1>2. ASSUME NEW p \in Processes, NEW s \in HandleSlots
      PROVE  table[p][s].generation \in 1 .. MaxGeneration + 1 /\ Handle(p, s).rights \subseteq Rights
  <2>1. table[p][s].generation \in 1 .. MaxGeneration + 1 /\ Handle(p, s) \in Ends
    BY HandleIs DEF Inv
  <2> QED BY <2>1, EndKinds
<1>3. \A t \in Threads : /\ thread[t].state \in {"running", "blocked", "gone"}
                         /\ thread[t].state = "blocked" <=> thread[t].waits # {}
  BY DEF Inv, Typed, ThreadRecords, ProcessInv
<1>4. process \in [Processes -> {"unused", "live", "exiting", "dead"}]
  BY DEF Inv, Typed
<1> QED BY <1>1, <1>2, <1>3, <1>4 DEF TypeOK

(* From head to tail the links of a port lead through its messages, each   *)
(* once, as many as it counts; and a handle in transit is in one message   *)
(* (kernel_port_send, kernel_port_receive_commit).                         *)
THEOREM Ports_QueueWellFormed == Spec => []QueueWellFormed
<1>1. Inv => QueueWellFormed
  <2> SUFFICES ASSUME Inv PROVE QueueWellFormed
    OBVIOUS
  <2>1. TypeOK
    BY InvTypeOK
  <2>2. /\ \A d \in DetachedSlots :
             detached[d] # None <=> \E m \in MessageSlots : message[m].port # 0 /\ d \in Attached(m)
        /\ \A m, l \in MessageSlots : m # l => Attached(m) \cap Attached(l) = {}
    BY DEF Inv, TransitInv
  <2> QED BY <2>1, <2>2, WalkWellFormed DEF QueueWellFormed
<1> QED BY <1>1, Ports_Invariant, PTL
----------------------------------------------------------------------------
(* Rights.                                                                 *)

(* Somebody has the handle h, in a table or in a message. *)
Had(h) ==
  \/ \E p \in Processes, s \in HandleSlots : Handle(p, s) = h
  \/ \E d \in DetachedSlots : detached[d] = h

(* The handle h is one that somebody has, or a narrowed copy of one that   *)
(* may travel, or one of a port that does not exist yet, or none.          *)
Derived(h) ==
  \/ h.kind = "none" \/ Had(h) \/ port[h.port].state = "free"
  \/ \E o \in PortHandles : Had(o) /\ Narrows(h, o)

(* What NoAmplification says of one step. *)
RightsStep ==
  \A q \in PortSlots : port[q].state # "free" /\ port'[q].state # "free" =>
    /\ \A r \in Held(q, "send")' \ Held(q, "send") :
         \E o \in Held(q, "send") : r \subseteq o /\ "transfer" \in o
    /\ Held(q, "receive")' \subseteq Held(q, "receive")

(* The rights of a handle that somebody has are held. *)
LEMMA HadIs ==
  ASSUME NEW h, Had(h)
  PROVE  h.rights \in Held(h.port, h.kind)
<1>1. CASE \E p \in Processes, s \in HandleSlots : Handle(p, s) = h
  <2>1. PICK p \in Processes, s \in HandleSlots : Handle(p, s) = h
    BY <1>1
  <2>2. PICK x : x = <<p, s>>
    OBVIOUS
  <2>3. x \in {y \in Processes \X HandleSlots :
                 Handle(y[1], y[2]).kind = h.kind /\ Handle(y[1], y[2]).port = h.port}
    BY <2>1, <2>2
  <2>4. Handle(x[1], x[2]).rights = h.rights
    BY <2>1, <2>2
  <2> QED BY <2>3, <2>4 DEF Held
<1>2. CASE \E d \in DetachedSlots : detached[d] = h
  BY <1>2 DEF Held
<1> QED BY <1>1, <1>2 DEF Had

(* If every handle is derived from those before, nobody has gained a right. *)
LEMMA RightsKept ==
  ASSUME \A p \in Processes, s \in HandleSlots : Derived(table'[p][s].handle),
         \A d \in DetachedSlots : Derived(detached'[d])
  PROVE  RightsStep
<1>1. ASSUME NEW q \in PortSlots, port[q].state # "free", NEW kind \in {"send", "receive"},
             NEW r \in Held(q, kind)'
      PROVE  \/ r \in Held(q, kind)
             \/ kind = "send" /\ \E o \in Held(q, "send") : r \subseteq o /\ "transfer" \in o
  <2>1. PICK h : Derived(h) /\ h.kind = kind /\ h.port = q /\ h.rights = r
    <3>1. CASE \E x \in Processes \X HandleSlots :
                 LET h == table'[x[1]][x[2]].handle IN h.kind = kind /\ h.port = q /\ h.rights = r
      <4>1. PICK x \in Processes \X HandleSlots :
              LET h == table'[x[1]][x[2]].handle IN h.kind = kind /\ h.port = q /\ h.rights = r
        BY <3>1
      <4>2. x[1] \in Processes /\ x[2] \in HandleSlots
        OBVIOUS
      <4> QED BY <4>1, <4>2
    <3>2. CASE \E d \in DetachedSlots :
                 detached'[d].kind = kind /\ detached'[d].port = q /\ detached'[d].rights = r
      BY <3>2
    <3> QED BY <1>1, <3>1, <3>2 DEF Held, Handle
  <2>2. CASE Had(h)
    BY <2>1, <2>2, HadIs
  <2>3. CASE \E o \in PortHandles : Had(o) /\ Narrows(h, o)
    <3>1. PICK o \in PortHandles : Had(o) /\ Narrows(h, o)
      BY <2>3
    <3>2. o.kind = "send"
      BY EndKinds
    <3>3. o.rights \in Held(q, "send")
      BY <3>1, <3>2, <2>1, HadIs DEF Narrows
    <3> QED BY <3>1, <3>3, <2>1 DEF Narrows
  <2> QED BY <1>1, <2>1, <2>2, <2>3 DEF Derived
<1>2. ASSUME NEW q \in PortSlots, port[q].state # "free"
      PROVE  /\ \A r \in Held(q, "send")' \ Held(q, "send") :
                  \E o \in Held(q, "send") : r \subseteq o /\ "transfer" \in o
             /\ Held(q, "receive")' \subseteq Held(q, "receive")
  BY <1>1, <1>2
<1> QED BY <1>2 DEF RightsStep

(* What was there is derived, and so is nothing. *)
LEMMA OldDerived ==
  /\ \A p \in Processes, s \in HandleSlots : Derived(Handle(p, s)) /\ Derived(table[p][s].handle)
  /\ \A d \in DetachedSlots : Derived(detached[d])
  /\ Derived(None)
<1>1. Derived(None)
  BY EndKinds DEF Derived
<1> QED BY <1>1 DEF Derived, Had, Handle

(* Handles go, if anything. *)
LEMMA RightsDropped ==
  ASSUME \A p \in Processes, s \in HandleSlots : table'[p][s].handle \in {table[p][s].handle, None},
         \A d \in DetachedSlots : detached'[d] \in {detached[d], None}
  PROVE  RightsStep
<1>1. \A p \in Processes, s \in HandleSlots : Derived(table'[p][s].handle)
  BY OldDerived
<1>2. \A d \in DetachedSlots : Derived(detached'[d])
  BY OldDerived
<1> QED BY <1>1, <1>2, RightsKept

(* One table changes, to handles that are derived from others. *)
LEMMA TableDerived ==
  ASSUME Typed, NEW p \in Processes, NEW tb, table' = [table EXCEPT ![p] = tb],
         \A s \in HandleSlots : Derived(tb[s].handle),
         \A d \in DetachedSlots : Derived(detached'[d])
  PROVE  RightsStep
<1>1. /\ table'[p] = tb
      /\ \A r \in Processes : r # p => table'[r] = table[r]
  BY DEF Typed
<1>2. ASSUME NEW r \in Processes, NEW s \in HandleSlots
      PROVE  Derived(table'[r][s].handle)
  <2>1. CASE r = p
    BY <2>1, <1>1
  <2>2. CASE r # p
    <3>1. table'[r][s].handle = table[r][s].handle
      BY <2>2, <1>1
    <3> QED BY <3>1, OldDerived
  <2> QED BY <2>1, <2>2
<1> QED BY <1>2, RightsKept

(* Handles that are derived from others are installed in the table tb. *)
LEMMA InstalledDerived ==
  ASSUME NEW tb \in [HandleSlots -> Entries], NEW n \in Nat, NEW L \in [1 .. n -> Ends],
         n <= Cardinality({s \in HandleSlots : tb[s].handle = None}),
         \A s \in HandleSlots : Derived(tb[s].handle),
         \A i \in 1 .. n : Derived(L[i])
  PROVE  \A s \in HandleSlots : Derived(Installed(tb, L)[s].handle)
<1>1. ASSUME NEW s \in HandleSlots
      PROVE  Derived(Installed(tb, L)[s].handle)
  <2>1. \/ Installed(tb, L)[s] = tb[s]
        \/ tb[s].handle = None /\ \E i \in 1 .. n : Installed(tb, L)[s].handle = L[i]
    BY InstalledEntry
  <2> QED BY <2>1
<1> QED BY <1>1

(* The room there is in a table. *)
LEMMA RoomIs ==
  ASSUME Typed, NEW p \in Processes
  PROVE  /\ table[p] \in [HandleSlots -> Entries]
         /\ Cardinality(FreeSlots(p)) \in Nat
         /\ FreeSlots(p) = {s \in HandleSlots : table[p][s].handle = None}
         /\ FreeSlots(p) # {} => 1 <= Cardinality(FreeSlots(p))
<1>1. FreeSlots(p) = {s \in HandleSlots : table[p][s].handle = None}
  BY DEF FreeSlots, Handle
<1>2. IsFiniteSet(FreeSlots(p))
  BY Pools, FS_Subset DEF FreeSlots
<1>3. Cardinality(FreeSlots(p)) \in Nat /\ (Cardinality(FreeSlots(p)) = 0 <=> FreeSlots(p) = {})
  BY <1>2, FS_CardinalityType, FS_EmptySet
<1> QED BY <1>1, <1>3 DEF Typed

(* A port is created: its handles are of a port that did not exist. *)
LEMMA CreateDerives ==
  ASSUME Inv, NEW t \in Threads, Create(t)
  PROVE  RightsStep
<1> DEFINE p == ProcessOf[t]
           q == Lowest(FreePorts)
           L == <<End("receive", q, ReceiveRights), End("send", q, SendRights)>>
           old == table[p]
<1>1. Typed
  BY DEF Inv
<1>2. /\ FreePorts # {} /\ Cardinality(FreeSlots(p)) >= 2
      /\ table' = [table EXCEPT ![p] = Installed(old, L)] /\ detached' = detached
  BY DEF Create, TableSet
<1>3. p \in Processes
  BY PortsAssumption
<1>4. q \in PortSlots /\ port[q].state = "free"
  <2>1. FreePorts \in SUBSET Nat /\ IsFiniteSet(FreePorts)
    BY Pools, FS_Subset DEF FreePorts
  <2>2. q \in FreePorts
    BY <1>2, <2>1, LowestIn
  <2> QED BY <2>2 DEF FreePorts
<1> HIDE DEF q, p
<1>5. L \in [1 .. 2 -> Ends] /\ L[1].port = q /\ L[2].port = q
  <2>1. /\ End("receive", q, ReceiveRights) \in Ends /\ End("send", q, SendRights) \in Ends
    BY <1>4, Shapes DEF Ends
  <2>2. End("receive", q, ReceiveRights).port = q /\ End("send", q, SendRights).port = q
    BY DEF End
  <2> QED BY <2>1, <2>2
<1> DEFINE n == 2
<1>6. n \in Nat /\ L \in [1 .. n -> Ends] /\ \A i \in 1 .. n : L[i].port = q
  BY <1>5
<1>7. n <= Cardinality(FreeSlots(p)) /\ old \in [HandleSlots -> Entries]
      /\ FreeSlots(p) = {s \in HandleSlots : old[s].handle = None}
  BY <1>1, <1>2, <1>3, RoomIs
<1> HIDE DEF n, L
<1>8. \A i \in 1 .. n : Derived(L[i])
  BY <1>4, <1>6 DEF Derived
<1>9. \A s \in HandleSlots : Derived(old[s].handle)
  BY <1>3, OldDerived
<1> HIDE DEF old
<1> DEFINE tb == Installed(old, L)
<1>10. \A s \in HandleSlots : Derived(tb[s].handle)
  BY <1>6, <1>7, <1>8, <1>9, InstalledDerived
<1>11. table' = [table EXCEPT ![p] = tb]
  BY <1>2
<1> HIDE DEF tb
<1> QED BY <1>1, <1>2, <1>3, <1>10, <1>11, OldDerived, TableDerived

(* A copy has no more rights than the handle it is of, which may travel. *)
LEMMA CopyDerived ==
  ASSUME Typed, NEW p \in Processes, NEW s \in HandleSlots, NEW rights, MayCopy(Handle(p, s), rights)
  PROVE  /\ [Handle(p, s) EXCEPT !.rights = rights] \in PortHandles
         /\ Derived([Handle(p, s) EXCEPT !.rights = rights])
<1> DEFINE h == Handle(p, s)
           c == [h EXCEPT !.rights = rights]
<1>1. c \in PortHandles /\ c.kind = "send" /\ c.port = h.port /\ h.kind = "send"
  BY CopyIs
<1>2. h \in Ends /\ "transfer" \in h.rights /\ rights \subseteq h.rights
  BY HandleIs DEF MayCopy
<1>3. h \in PortHandles /\ Had(h)
  BY <1>1, <1>2, EndKinds DEF Had
<1> HIDE DEF h
<1>4. c.rights = rights
  BY <1>3 DEF PortHandles
<1> HIDE DEF c
<1>5. Narrows(c, h)
  BY <1>1, <1>2, <1>3, <1>4 DEF Narrows
<1>6. Derived(c)
  BY <1>3, <1>5 DEF Derived
<1> QED BY <1>1, <1>6 DEF c, h

(* A handle is duplicated. *)
LEMMA DuplicateDerives ==
  ASSUME Inv, NEW t \in Threads, NEW s \in HandleSlots, NEW rights, Duplicate(t, s, rights)
  PROVE  RightsStep
<1> DEFINE p == ProcessOf[t]
           c == [Handle(p, s) EXCEPT !.rights = rights]
           L == <<c>>
           old == table[p]
<1>1. Typed
  BY DEF Inv
<1>2. /\ MayCopy(Handle(p, s), rights) /\ FreeSlots(p) # {}
      /\ table' = [table EXCEPT ![p] = Installed(old, L)] /\ detached' = detached
  BY DEF Duplicate, TableSet
<1>3. p \in Processes
  BY PortsAssumption
<1> HIDE DEF p
<1>4. c \in PortHandles /\ Derived(c)
  BY <1>1, <1>2, <1>3, CopyDerived
<1> HIDE DEF c
<1> DEFINE n == 1
<1>5. n \in Nat /\ L \in [1 .. n -> Ends] /\ \A i \in 1 .. n : Derived(L[i])
  <2>1. c \in Ends
    BY <1>4 DEF Ends
  <2> QED BY <2>1, <1>4
<1>6. n <= Cardinality(FreeSlots(p)) /\ old \in [HandleSlots -> Entries]
      /\ FreeSlots(p) = {x \in HandleSlots : old[x].handle = None}
  BY <1>1, <1>2, <1>3, RoomIs
<1>7. \A x \in HandleSlots : Derived(old[x].handle)
  BY <1>3, OldDerived
<1> HIDE DEF n, L, old
<1> DEFINE tb == Installed(old, L)
<1>8. \A x \in HandleSlots : Derived(tb[x].handle)
  BY <1>5, <1>6, <1>7, InstalledDerived
<1>9. table' = [table EXCEPT ![p] = tb]
  BY <1>2
<1> HIDE DEF tb
<1> QED BY <1>1, <1>2, <1>3, <1>8, <1>9, OldDerived, TableDerived

(* The handles of a message are installed where it is received. *)
LEMMA ReceiveDerives ==
  ASSUME Inv, NEW t \in Threads, NEW s \in HandleSlots, Receive(t, s)
  PROVE  RightsStep
<1> DEFINE p == ProcessOf[t]
           q == Handle(p, s).port
           m == port[q].head
           L == [i \in DOMAIN message[m].handles |-> detached[message[m].handles[i]]]
           old == table[p]
<1>1. Typed /\ QueueInv
  BY DEF Inv
<1>2. /\ Receiver(t, s, q) /\ Cardinality(FreeSlots(p)) >= Len(L)
      /\ table' = [table EXCEPT ![p] = Installed(old, L)]
      /\ detached' = [d \in DetachedSlots |-> IF d \in Attached(m) THEN None ELSE detached[d]]
  BY DEF Receive, TableSet
<1>3. p \in Processes
  BY PortsAssumption
<1>4. Handle(p, s).kind = "receive" /\ port[q].count > 0
  BY <1>2 DEF Receiver
<1>5. q \in PortSlots
  BY <1>1, <1>3, <1>4, HandleIs
<1>6. m \in MessageSlots
  BY <1>1, <1>4, <1>5, HeadIs
<1> HIDE DEF m, q, p
<1> DEFINE n == Len(message[m].handles)
<1>7. /\ n \in Nat /\ DOMAIN message[m].handles = 1 .. n
      /\ \A i \in 1 .. n : message[m].handles[i] \in DetachedSlots
  BY <1>1, <1>6, AttachedType
<1> HIDE DEF n
<1>8. ASSUME NEW i \in 1 .. n
      PROVE  Derived(detached[message[m].handles[i]]) /\ detached[message[m].handles[i]] \in Ends
  BY <1>1, <1>7, OldDerived DEF Typed, Ends
<1>9. L \in [1 .. n -> Ends] /\ \A i \in 1 .. n : Derived(L[i])
  BY <1>7, <1>8
<1>10. Len(L) = n
  BY <1>7, <1>9
<1>11. /\ n <= Cardinality(FreeSlots(p)) /\ old \in [HandleSlots -> Entries]
       /\ FreeSlots(p) = {x \in HandleSlots : old[x].handle = None}
  BY <1>1, <1>2, <1>3, <1>7, <1>10, RoomIs
<1>12. \A x \in HandleSlots : Derived(old[x].handle)
  BY <1>3, OldDerived
<1> HIDE DEF L, old
<1> DEFINE tb == Installed(old, L)
<1>13. \A x \in HandleSlots : Derived(tb[x].handle)
  BY <1>7, <1>9, <1>11, <1>12, InstalledDerived
<1>14. table' = [table EXCEPT ![p] = tb]
  BY <1>2
<1> HIDE DEF tb
<1>15. \A d \in DetachedSlots : Derived(detached'[d])
  <2>1. \A d \in DetachedSlots : detached'[d] \in {detached[d], None}
    BY <1>2
  <2> QED BY <2>1, OldDerived
<1> QED BY <1>1, <1>3, <1>13, <1>14, <1>15, TableDerived
(* What a message takes with it is narrowed, and may travel. *)
LEMMA SendDerives ==
  ASSUME Inv, NEW t \in Threads, NEW s \in HandleSlots, NEW size \in Sizes,
         NEW L \in Lists(Transferable(ProcessOf[t])), Send(t, s, size, L)
  PROVE  RightsStep
<1> DEFINE p == ProcessOf[t]
           S == {L[i] : i \in DOMAIN L}
           old == table[p]
           tb == Retired(old, S)
<1>1. Typed
  BY DEF Inv
<1>2. Fresh(p, S) /\ table' = [table EXCEPT ![p] = tb]
  BY DEF Send, TableSet
<1>3. p \in Processes
  BY PortsAssumption
<1>4. PICK n \in Nat : \E place \in [1 .. n -> DetachedSlots] :
           /\ Moved(p, n, L, place)
           /\ \A i \in 1 .. n : /\ detached'[place[i]] \in PortHandles
                                /\ Narrows(detached'[place[i]], Handle(p, L[i]))
           /\ DOMAIN L = 1 .. n
           /\ place = [i \in DOMAIN L |-> Nth(FreeDetached, i)]
  BY SendMoves
<1>5. PICK place \in [1 .. n -> DetachedSlots] :
           /\ Moved(p, n, L, place)
           /\ \A i \in 1 .. n : Narrows(detached'[place[i]], Handle(p, L[i]))
           /\ DOMAIN L = 1 .. n
  BY <1>4
<1> HIDE DEF p
<1>6. old \in [HandleSlots -> Entries]
  BY <1>1, <1>3 DEF Typed
<1>7. S \in SUBSET HandleSlots /\ \A x \in S : old[x].generation <= MaxGeneration
  BY <1>2, <1>5 DEF Moved, Fresh
<1> HIDE DEF S
<1>8. ASSUME NEW x \in HandleSlots
      PROVE  Derived(tb[x].handle)
  <2>1. \A y \in HandleSlots : Derived(old[y].handle)
    BY <1>3, OldDerived
  <2> HIDE DEF old
  <2>2. tb[x].handle = None \/ tb[x].handle = old[x].handle
    BY <1>6, <1>7, RetiredIs
  <2> QED BY <2>1, <2>2, OldDerived
<1> HIDE DEF tb, old
<1>9. ASSUME NEW d \in DetachedSlots
      PROVE  Derived(detached'[d])
  <2>1. CASE \E i \in 1 .. n : place[i] = d
    <3>1. PICK i \in 1 .. n : place[i] = d
      BY <2>1
    <3>2. L[i] \in HandleSlots
      BY <1>5 DEF Moved
    <3> DEFINE o == Handle(p, L[i])
    <3>3. Narrows(detached'[d], o) /\ Had(o)
      BY <3>1, <3>2, <1>3, <1>5 DEF Had
    <3> HIDE DEF o
    <3> QED BY <3>3 DEF Derived, Narrows
  <2>2. CASE \A i \in 1 .. n : place[i] # d
    <3>1. detached'[d] = detached[d]
      BY <2>2, <1>5 DEF Moved
    <3> QED BY <3>1, OldDerived
  <2> QED BY <2>1, <2>2
<1> QED BY <1>1, <1>2, <1>3, <1>8, <1>9, TableDerived

(* The child of a fork has handles of its parent, and no other. *)
LEMMA ForkDerives ==
  ASSUME Inv, NEW t \in Threads, NEW c \in Processes, Fork(t, c)
  PROVE  RightsStep
<1> DEFINE p == ProcessOf[t]
           old == table[p]
           tb == Cloned(old)
<1>1. Typed
  BY DEF Inv
<1>2. /\ Fresh(p, {s \in HandleSlots : Handle(p, s).kind = "receive"})
      /\ table' = [table EXCEPT ![c] = tb] /\ detached' = detached
  BY DEF Fork, Started
<1>3. p \in Processes
  BY PortsAssumption
<1> HIDE DEF p
<1>4. old \in [HandleSlots -> Entries]
      /\ \A s \in HandleSlots : old[s].handle.kind = "receive" => old[s].generation <= MaxGeneration
  BY <1>1, <1>2, <1>3 DEF Typed, Fresh, Handle
<1>5. \A s \in HandleSlots : Derived(old[s].handle)
  BY <1>3, OldDerived
<1> HIDE DEF old
<1>6. \A s \in HandleSlots : Derived(tb[s].handle)
  BY <1>4, <1>5, ClonedIs, OldDerived
<1> HIDE DEF tb
<1> QED BY <1>1, <1>2, <1>6, OldDerived, TableDerived

(* A process that is launched has copies of handles of its launcher. *)
LEMMA LaunchDerives ==
  ASSUME Inv, NEW t \in Threads, NEW c \in Processes, NEW n \in Nat,
         NEW G \in [1 .. n -> HandleSlots \X CopyRights], Launch(t, c, G)
  PROVE  RightsStep
<1> DEFINE p == ProcessOf[t]
           L == [i \in DOMAIN G |-> [Handle(p, G[i][1]) EXCEPT !.rights = G[i][2]]]
           new == NewTable
           tb == Installed(new, L)
<1>1. Typed
  BY DEF Inv
<1>2. /\ Cardinality(DOMAIN G) <= Cardinality(HandleSlots)
      /\ \A i \in DOMAIN G : MayCopy(Handle(p, G[i][1]), G[i][2])
      /\ table' = [table EXCEPT ![c] = tb] /\ detached' = detached
  BY DEF Launch, Started
<1>3. p \in Processes
  BY PortsAssumption
<1> HIDE DEF p
<1>4. DOMAIN G = 1 .. n /\ n <= Cardinality(HandleSlots)
  <2>1. DOMAIN G = 1 .. n
    OBVIOUS
  <2>2. Cardinality(1 .. n) = n
    BY FS_Interval
  <2> QED BY <2>1, <2>2, <1>2
<1>5. ASSUME NEW i \in 1 .. n
      PROVE  /\ [Handle(p, G[i][1]) EXCEPT !.rights = G[i][2]] \in PortHandles
             /\ Derived([Handle(p, G[i][1]) EXCEPT !.rights = G[i][2]])
  <2>1. G[i] \in HandleSlots \X CopyRights
    OBVIOUS
  <2>2. G[i][1] \in HandleSlots
    BY <2>1
  <2> QED BY <1>1, <1>2, <1>3, <1>4, <2>2, CopyDerived
<1>6. L \in [1 .. n -> PortHandles] /\ \A i \in 1 .. n : Derived(L[i])
  BY <1>4, <1>5
<1> HIDE DEF L
<1>7. L \in [1 .. n -> Ends]
  BY <1>6 DEF Ends
<1>8. /\ new \in [HandleSlots -> Entries] /\ \A s \in HandleSlots : new[s].handle = None
      /\ {s \in HandleSlots : new[s].handle = None} = HandleSlots
  BY NewTableIs
<1> HIDE DEF new
<1>9. n <= Cardinality({s \in HandleSlots : new[s].handle = None})
      /\ \A s \in HandleSlots : Derived(new[s].handle)
  BY <1>4, <1>8, OldDerived
<1>10. \A s \in HandleSlots : Derived(tb[s].handle)
  BY <1>6, <1>7, <1>8, <1>9, InstalledDerived
<1> HIDE DEF tb
<1> QED BY <1>1, <1>2, <1>10, OldDerived, TableDerived

(* The messages that are discarded lose their handles. *)
LEMMA LetGoDerives ==
  ASSUME NEW H, NEW P, NEW th, LetGo(H, P, th)
  PROVE  \A d \in DetachedSlots : Derived(detached'[d])
<1>1. \A d \in DetachedSlots : detached'[d] \in {detached[d], None}
  BY LetGoIs
<1> QED BY <1>1, OldDerived

(* A handle is closed. *)
LEMMA CloseDerives ==
  ASSUME Inv, NEW t \in Threads, NEW s \in HandleSlots, Close(t, s)
  PROVE  RightsStep
<1> DEFINE p == ProcessOf[t]
           old == table[p]
           tb == Retired(old, {s})
<1>1. Typed /\ p \in Processes
  BY PortsAssumption DEF Inv
<1>2. /\ Fresh(p, {s}) /\ table' = [table EXCEPT ![p] = tb]
      /\ LetGo(Restricted([x \in HandleSlots |-> Handle(p, x)], {s}), {}, Entered(t))
  BY DEF Close, TableSet
<1> HIDE DEF p
<1>3. old \in [HandleSlots -> Entries] /\ {s} \in SUBSET HandleSlots
      /\ \A x \in {s} : old[x].generation <= MaxGeneration
  BY <1>1, <1>2 DEF Typed, Fresh
<1>4. \A x \in HandleSlots : Derived(old[x].handle)
  BY <1>1, OldDerived
<1> HIDE DEF old
<1>5. \A x \in HandleSlots : tb[x].handle = None \/ tb[x].handle = old[x].handle
  BY <1>3, RetiredIs
<1>6. \A x \in HandleSlots : Derived(tb[x].handle)
  BY <1>4, <1>5, OldDerived
<1> HIDE DEF tb
<1> QED BY <1>1, <1>2, <1>6, LetGoDerives, TableDerived

(* The handles of a process are closed. *)
LEMMA ReapDerives ==
  ASSUME Inv, NEW p \in Processes, Reap(p)
  PROVE  RightsStep
<1> DEFINE new == NewTable
<1>1. Typed
  BY DEF Inv
<1>2. table' = [table EXCEPT ![p] = new] /\ LetGo(Handles(p), {}, thread)
  BY DEF Reap
<1>3. \A s \in HandleSlots : Derived(new[s].handle)
  BY NewTableIs, OldDerived
<1> HIDE DEF new
<1> QED BY <1>1, <1>2, <1>3, LetGoDerives, TableDerived

(* No step gives anybody a right that it may not get. *)
LEMMA NextDerives == Inv /\ [Next]_vars => [RightsStep]_vars
<1> SUFFICES ASSUME Inv, Next PROVE RightsStep
  OBVIOUS
<1>1. ASSUME UNCHANGED <<table, detached>>
      PROVE  RightsStep
  BY <1>1, RightsDropped
<1>2. CASE \E p \in Processes : Reap(p)
  BY <1>2, ReapDerives
<1>3. CASE \E p \in Processes : Exit(p)
  <2>1. PICK p \in Processes : Exit(p)
    BY <1>3
  <2>2. table' = table /\ \A d \in DetachedSlots : Derived(detached'[d])
    BY <2>1, LetGoDerives DEF Exit
  <2>3. \A r \in Processes, s \in HandleSlots : Derived(table'[r][s].handle)
    BY <2>2, OldDerived
  <2> QED BY <2>2, <2>3, RightsKept
<1>4. ASSUME NEW t \in Threads,
             \/ Create(t) \/ OtherCall(t) \/ ReceiveNothing(t) \/ WaitEnds(t) \/ ForkFails(t)
             \/ \E S \in SUBSET HandleSlots : Wait(t, S)
      PROVE  RightsStep
  BY <1>1, <1>4, CreateDerives DEF OtherCall, ReceiveNothing, WaitEnds, ForkFails, Wait
<1>5. ASSUME NEW t \in Threads, NEW s \in HandleSlots,
             \/ Receive(t, s) \/ ReceiveFaults(t, s) \/ Close(t, s)
             \/ \E rights \in CopyRights : Duplicate(t, s, rights)
             \/ \E size \in Sizes : SendRefused(t, s, size)
      PROVE  RightsStep
  BY <1>1, <1>5, ReceiveDerives, CloseDerives, DuplicateDerives DEF ReceiveFaults, SendRefused
<1>6. ASSUME NEW t \in Threads, NEW s \in HandleSlots, NEW size \in Sizes,
             NEW L \in Lists(Transferable(ProcessOf[t])), Send(t, s, size, L)
      PROVE  RightsStep
  BY <1>6, SendDerives
<1>7. ASSUME NEW t \in Threads, NEW c \in Processes, Fork(t, c)
      PROVE  RightsStep
  BY <1>7, ForkDerives
<1>8. ASSUME NEW t \in Threads, NEW c \in Processes, NEW n \in 0 .. MaxAttached,
             NEW G \in [1 .. n -> HandleSlots \X CopyRights], Launch(t, c, G)
      PROVE  RightsStep
  <2>1. n \in Nat
    BY PortsAssumption
  <2> QED BY <1>8, <2>1, LaunchDerives
<1> QED BY <1>2, <1>3, <1>4, <1>5, <1>6, <1>7, <1>8 DEF Next

(* Every right to an existing port comes from a handle that had it and     *)
(* that was allowed to travel or to be copied, through sends that narrow,  *)
(* receives, copies, forks and launches (narrow_detached,                  *)
(* kernel_handle_duplicate_into).                                          *)
THEOREM Ports_NoAmplification == Spec => NoAmplification
<1>1. [RightsStep]_vars => [\A q \in PortSlots : port[q].state # "free" /\ port'[q].state # "free" =>
         /\ \A r \in Held(q, "send")' \ Held(q, "send") :
              \E o \in Held(q, "send") : r \subseteq o /\ "transfer" \in o
         /\ Held(q, "receive")' \subseteq Held(q, "receive")]_vars
  BY DEF RightsStep
<1> QED BY <1>1, NextDerives, Ports_Invariant, PTL DEF Spec, NoAmplification

=============================================================================
