------------------------- MODULE Ports_refinement -------------------------
(***************************************************************************)
(* Ports implements Channels, for any number of ports, messages, handles,  *)
(* processes and threads.                                                  *)
(*                                                                         *)
(* A port's channel is the sequence of messages that its links lead to.    *)
(* That there is one, and that no two ports share a message, is QueueInv;  *)
(* that the handles in a message are nobody else's is TransitInv.  Both    *)
(* come from Inv of Ports_proofs.  A step that touches no message of a     *)
(* queue keeps the channel (ContentsKept); a send makes the sequence one   *)
(* longer (SendPuts), a receive one shorter (ReceiveMoves), and letting go *)
(* of handles only hangs channels up, shuts or frees them (LetGoMoves).    *)
(***************************************************************************)
EXTENDS Ports_proofs, SequenceTheorems

(* What is seen of a message with the record r and the handles hs. *)
Seen(r, hs) ==
  [port |-> r.port, next |-> 0, size |-> r.size, sender |-> r.sender, handles |-> hs]

(* The handles in message m. *)
HandlesIn(m) == [i \in DOMAIN message[m].handles |-> detached[message[m].handles[i]]]

(* The messages of a port, as the walk w gives them. *)
Shown ==
  /\ \A m \in MessageSlots : Content(m) = Seen(message[m], HandlesIn(m))
  /\ \A q \in PortSlots :
       /\ \A w \in [1 .. port[q].count -> MessageSlots] :
            Links(q, w) => Contents(q) = [i \in 1 .. port[q].count |-> Content(w[i])]
       /\ port[q].count = 0 => Contents(q) = <<>>

(* What a message is to those who send and receive it. *)
LEMMA ContentIs ==
  ASSUME Typed, NEW m \in MessageSlots
  PROVE  Content(m) = Seen(message[m], HandlesIn(m))
<1> DEFINE hs == HandlesIn(m)
           r == message[m]
<1>1. m # 0
  BY Pools
<1>2. r \in MessageRecords
  BY DEF Typed
<1>3. Content(m) = [r EXCEPT !.next = 0, !.handles = hs]
  BY <1>1 DEF Content, HandlesIn
<1> HIDE DEF hs, r
<1> DEFINE c == [r EXCEPT !.next = 0]
<1>4. /\ c = [port |-> r.port, next |-> 0, size |-> r.size, sender |-> r.sender, handles |-> r.handles]
  BY <1>2 DEF MessageRecords
<1>5. [r EXCEPT !.next = 0, !.handles = hs] = [c EXCEPT !.handles = hs]
  OBVIOUS
<1> HIDE DEF c
<1>6. [c EXCEPT !.handles = hs] =
        [port |-> r.port, next |-> 0, size |-> r.size, sender |-> r.sender, handles |-> hs]
  BY <1>4
<1> QED BY <1>3, <1>5, <1>6 DEF r, hs, Seen

(* A port's contents are the messages that its links lead to. *)
LEMMA InvShown == Inv => Shown
<1>0. Inv => \A m \in MessageSlots : Content(m) = Seen(message[m], HandlesIn(m))
  BY ContentIs DEF Inv
<1> SUFFICES ASSUME Inv, NEW q \in PortSlots
             PROVE  /\ \A w \in [1 .. port[q].count -> MessageSlots] :
                         Links(q, w) => Contents(q) = [i \in 1 .. port[q].count |-> Content(w[i])]
                    /\ port[q].count = 0 => Contents(q) = <<>>
  BY <1>0 DEF Shown
<1>1. Typed /\ QueueInv
  BY DEF Inv
<1>2. PICK n : n = port[q].count
  OBVIOUS
<1>3. ASSUME NEW w \in [1 .. n -> MessageSlots], Links(q, w)
      PROVE  Contents(q) = [i \in 1 .. n |-> Content(w[i])]
  <2>1. Walk(q) = w
    BY <1>1, <1>2, <1>3, WalkIs
  <2>2. DOMAIN w = 1 .. n
    OBVIOUS
  <2> HIDE DEF Walk, Content
  <2> QED BY <2>1, <2>2 DEF Contents
<1>4. ASSUME n = 0 PROVE Contents(q) = <<>>
  <2>1. PICK w \in [1 .. n -> MessageSlots] : Links(q, w)
    BY <1>1, <1>2 DEF QueueInv
  <2>2. Contents(q) = [i \in 1 .. n |-> Content(w[i])]
    BY <2>1, <1>3
  <2>3. 1 .. n = {}
    BY <1>4
  <2> QED BY <2>2, <2>3
<1> QED BY <1>2, <1>3, <1>4

(* A message whose record and handles stay is seen as before. *)
LEMMA SameContent ==
  ASSUME Shown, Shown', NEW m \in MessageSlots,
         message'[m].port = message[m].port, message'[m].size = message[m].size,
         message'[m].sender = message[m].sender, message'[m].handles = message[m].handles,
         \A d \in Attached(m) : detached'[d] = detached[d]
  PROVE  Content(m)' = Content(m)
<1>1. HandlesIn(m)' = HandlesIn(m)
  BY DEF HandlesIn, Attached
<1>2. Content(m) = Seen(message[m], HandlesIn(m)) /\ Content(m)' = Seen(message'[m], HandlesIn(m)')
  BY DEF Shown
<1> QED BY <1>1, <1>2 DEF Seen

(* A queue that a step leaves alone. *)
Kept(q) ==
  /\ port'[q].head = port[q].head /\ port'[q].tail = port[q].tail /\ port'[q].count = port[q].count
  /\ \A l \in MessageSlots :
       message[l].port = q \/ message'[l].port = q =>
         /\ message'[l] = message[l]
         /\ \A d \in Attached(l) : detached'[d] = detached[d]

(* Its contents are the same. *)
LEMMA ContentsKept ==
  ASSUME Inv, Shown, Shown', NEW q \in PortSlots, Kept(q)
  PROVE  Contents(q)' = Contents(q)
<1>0. PICK n : n = port[q].count
  OBVIOUS
<1>1. PICK w \in [1 .. n -> MessageSlots] : Links(q, w)
  BY <1>0 DEF Inv, QueueInv
<1>2. /\ \A i, j \in 1 .. n : w[i] = w[j] => i = j
      /\ QueuedAt({q}) = {w[i] : i \in 1 .. n}
      /\ n = 0 => port[q].head = 0 /\ port[q].tail = 0
      /\ n > 0 => port[q].head = w[1] /\ port[q].tail = w[n]
      /\ \A i \in 1 .. n : message[w[i]].next = IF i = n THEN 0 ELSE w[i + 1]
  BY <1>0, <1>1 DEF Links
<1>3. ASSUME NEW i \in 1 .. n
      PROVE  message'[w[i]] = message[w[i]] /\ Content(w[i])' = Content(w[i])
  <2>1. w[i] \in QueuedAt({q})
    BY <1>2
  <2>2. w[i] \in MessageSlots /\ message[w[i]].port = q
    BY <2>1 DEF QueuedAt
  <2> DEFINE m == w[i]
  <2>3. m \in MessageSlots /\ message'[m] = message[m] /\ \A d \in Attached(m) : detached'[d] = detached[d]
    BY <2>2 DEF Kept
  <2> HIDE DEF m
  <2>4. Content(m)' = Content(m)
    BY <2>3, SameContent
  <2> QED BY <2>3, <2>4 DEF m
<1>4. QueuedAt({q})' = QueuedAt({q})
  BY DEF QueuedAt, Kept
<1>5. Links(q, w)'
  <2>1. /\ \A i, j \in 1 .. n : w[i] = w[j] => i = j
        /\ QueuedAt({q})' = {w[i] : i \in 1 .. n}
        /\ n = 0 => port'[q].head = 0 /\ port'[q].tail = 0
        /\ n > 0 => port'[q].head = w[1] /\ port'[q].tail = w[n]
        /\ \A i \in 1 .. n : message'[w[i]].next = IF i = n THEN 0 ELSE w[i + 1]
    BY <1>2, <1>3, <1>4 DEF Kept
  <2>2. port'[q].count = n
    BY <1>0 DEF Kept
  <2> QED BY <2>1, <2>2 DEF Links
<1>6. Contents(q) = [i \in 1 .. n |-> Content(w[i])]
  BY <1>0, <1>1 DEF Shown
<1>7. Contents(q)' = [i \in 1 .. n |-> Content(w[i])']
  <2>1. port'[q].count = n
    BY <1>0 DEF Kept
  <2> QED BY <1>1, <1>5, <2>1 DEF Shown
<1> QED BY <1>3, <1>6, <1>7

----------------------------------------------------------------------------
(* The queues as sequences.                                                *)

(* A function on 1 .. n is a sequence of length n. *)
LEMMA IndexedIs ==
  ASSUME NEW S, NEW n \in Nat, NEW c \in [1 .. n -> S]
  PROVE  c \in Seq(S) /\ Len(c) = n
<1>1. c \in Seq(S)
  BY SeqDef
<1>2. Len(c) \in Nat /\ 1 .. Len(c) = 1 .. n
  BY <1>1, LenProperties
<1>3. ~(Len(c) < n)
  <2> SUFFICES ASSUME Len(c) < n PROVE FALSE
    OBVIOUS
  <2>1. n \in 1 .. n /\ n \notin 1 .. Len(c)
    BY <1>2
  <2> QED BY <2>1, <1>2
<1>4. ~(n < Len(c))
  <2> SUFFICES ASSUME n < Len(c) PROVE FALSE
    OBVIOUS
  <2> DEFINE k == Len(c)
  <2>1. k \in Nat /\ n < k
    BY <1>2
  <2>2. k \in 1 .. k /\ k \notin 1 .. n
    BY <2>1
  <2> QED BY <2>2, <1>2
<1> QED BY <1>1, <1>2, <1>3, <1>4

(* A sequence that has one more element at its end. *)
LEMMA GrownIs ==
  ASSUME NEW S, NEW n \in Nat, NEW c \in [1 .. n -> S], NEW d \in [1 .. n + 1 -> S],
         \A i \in 1 .. n : d[i] = c[i]
  PROVE  Len(d) = Len(c) + 1 /\ SubSeq(d, 1, Len(c)) = c /\ d[Len(d)] = d[n + 1]
<1>1. c \in Seq(S) /\ Len(c) = n
  BY IndexedIs
<1>2. n + 1 \in Nat
  OBVIOUS
<1>3. d \in Seq(S) /\ Len(d) = n + 1
  BY <1>2, IndexedIs
<1>4. \A i \in 1 .. n : d[i] \in S
  OBVIOUS
<1>5. /\ SubSeq(d, 1, n) \in Seq(S)
      /\ Len(SubSeq(d, 1, n)) = IF 1 <= n THEN n - 1 + 1 ELSE 0
      /\ \A i \in 1 .. n - 1 + 1 : SubSeq(d, 1, n)[i] = d[1 + i - 1]
  BY <1>4, SubSeqProperties
<1> DEFINE e == SubSeq(d, 1, n)
<1>6. e \in Seq(S) /\ Len(e) = n /\ \A i \in 1 .. n : e[i] = d[i]
  BY <1>5
<1> HIDE DEF e
<1>7. Len(e) = Len(c) /\ \A i \in 1 .. Len(e) : e[i] = c[i]
  BY <1>1, <1>6
<1>8. e = c
  BY <1>1, <1>6, <1>7, SeqEqual
<1> QED BY <1>1, <1>3, <1>8 DEF e

(* A sequence without its first element. *)
LEMMA ShrunkIs ==
  ASSUME NEW S, NEW n \in Nat, n > 0, NEW c \in [1 .. n -> S], NEW d \in [1 .. n - 1 -> S],
         \A i \in 1 .. n - 1 : d[i] = c[i + 1]
  PROVE  c # <<>> /\ d = Tail(c)
<1>1. c \in Seq(S) /\ Len(c) = n
  BY IndexedIs
<1>2. n - 1 \in Nat
  OBVIOUS
<1>3. d \in Seq(S) /\ Len(d) = n - 1
  BY <1>2, IndexedIs
<1>4. c # <<>>
  BY <1>1
<1> DEFINE e == Tail(c)
<1>5. e \in Seq(S) /\ Len(e) = n - 1 /\ \A i \in 1 .. Len(e) : e[i] = c[i + 1]
  BY <1>1, <1>4, HeadTailProperties
<1> HIDE DEF e
<1>6. Len(d) = Len(e) /\ \A i \in 1 .. Len(d) : d[i] = e[i]
  BY <1>3, <1>5
<1>7. d = e
  BY <1>3, <1>5, <1>6, SeqEqual
<1> QED BY <1>4, <1>7 DEF e

----------------------------------------------------------------------------
(* The channels.                                                           *)

(* The channel that port q is. *)
Channel(q) == [state |-> port[q].state, queue |-> Contents(q)]

(* What a step of the promise may do to one channel. *)
Moves(c, d) ==
  c = d \/ Promise!Open(c, d) \/ Promise!Put(c, d) \/ Promise!Take(c, d)
        \/ Promise!HangUp(c, d) \/ Promise!Shut(c, d) \/ Promise!Free(c, d)

(* One step of all channels. *)
ChannelsMove == \A q \in PortSlots : Moves(Channel(q), Channel(q)')

(* A port whose queue and state stay is the same channel. *)
LEMMA ChannelKept ==
  ASSUME Inv, Shown, Shown', NEW q \in PortSlots, Kept(q), port'[q].state = port[q].state
  PROVE  Moves(Channel(q), Channel(q)')
<1>1. Contents(q)' = Contents(q)
  BY ContentsKept
<1>2. Channel(q)' = Channel(q)
  BY <1>1 DEF Channel
<1> QED BY <1>2 DEF Moves

(* Steps that keep the queues and the states keep the channels. *)
LEMMA ChannelsKept ==
  ASSUME Inv, Shown, Shown', UNCHANGED <<message, detached>>,
         \A q \in PortSlots : /\ port'[q].state = port[q].state /\ port'[q].count = port[q].count
                              /\ port'[q].head = port[q].head /\ port'[q].tail = port[q].tail
  PROVE  ChannelsMove
<1>1. ASSUME NEW q \in PortSlots PROVE Kept(q)
  BY DEF Kept
<1> QED BY <1>1, ChannelKept DEF ChannelsMove

(* A port that gets more handles has the queue it had. *)
LEMMA RetainedQueue ==
  ASSUME NEW po \in PortRecords, NEW n
  PROVE  /\ Retained(po, n).state = po.state /\ Retained(po, n).count = po.count
         /\ Retained(po, n).head = po.head /\ Retained(po, n).tail = po.tail
BY DEF Retained, PortRecords

(* A fork, a launch and a copy only add handles. *)
LEMMA RetainingMoves ==
  ASSUME Inv, Shown, Shown', UNCHANGED <<message, detached>>,
         \A q \in PortSlots : port'[q] = port[q] \/ \E n : port'[q] = Retained(port[q], n)
  PROVE  ChannelsMove
<1>1. \A q \in PortSlots : port[q] \in PortRecords
  BY DEF Inv, Typed
<1>2. \A q \in PortSlots : /\ port'[q].state = port[q].state /\ port'[q].count = port[q].count
                           /\ port'[q].head = port[q].head /\ port'[q].tail = port[q].tail
  BY <1>1, RetainedQueue
<1> QED BY <1>2, ChannelsKept

(* A handle is duplicated. *)
LEMMA DuplicateMoves ==
  ASSUME Inv, Shown, Shown', NEW t \in Threads, NEW s \in HandleSlots, NEW rights,
         Duplicate(t, s, rights)
  PROVE  ChannelsMove
<1> DEFINE x == Handle(ProcessOf[t], s).port
<1>1. port' = [port EXCEPT ![x] = Retained(port[x], 1)] /\ UNCHANGED <<message, detached>>
  BY DEF Duplicate
<1> HIDE DEF x
<1>2. port \in [PortSlots -> PortRecords]
  BY DEF Inv, Typed
<1>3. \A q \in PortSlots : port'[q] = port[q] \/ \E n : port'[q] = Retained(port[q], n)
  BY <1>1, <1>2
<1> QED BY <1>1, <1>3, RetainingMoves

(* A process forks. *)
LEMMA ForkMoves ==
  ASSUME Inv, Shown, Shown', NEW t \in Threads, NEW c \in Processes, Fork(t, c)
  PROVE  ChannelsMove
<1>1. /\ port' = [q \in PortSlots |-> Retained(port[q], Sends(Handles(ProcessOf[t]), q))]
      /\ UNCHANGED <<message, detached>>
  BY DEF Fork
<1>2. \A q \in PortSlots : \E n : port'[q] = Retained(port[q], n)
  BY <1>1
<1> QED BY <1>1, <1>2, RetainingMoves

(* A process is launched. *)
LEMMA LaunchMoves ==
  ASSUME Inv, Shown, Shown', NEW t \in Threads, NEW c \in Processes, NEW G, Launch(t, c, G)
  PROVE  ChannelsMove
<1> DEFINE L == [i \in DOMAIN G |-> [Handle(ProcessOf[t], G[i][1]) EXCEPT !.rights = G[i][2]]]
<1>1. /\ port' = [q \in PortSlots |-> Retained(port[q], Sends(L, q))]
      /\ UNCHANGED <<message, detached>>
  BY DEF Launch
<1> HIDE DEF L
<1>2. \A q \in PortSlots : \E n : port'[q] = Retained(port[q], n)
  BY <1>1
<1> QED BY <1>1, <1>2, RetainingMoves

(* A new port is an open channel without messages. *)
LEMMA CreateMoves ==
  ASSUME Inv, Shown, Shown', NEW t \in Threads, Create(t)
  PROVE  ChannelsMove
<1>0. PICK p, q : p = ProcessOf[t] /\ q = Lowest(FreePorts)
  OBVIOUS
<1>9. PICK o : o = Opened(p)
  OBVIOUS
<1>1. /\ FreePorts # {} /\ port' = [port EXCEPT ![q] = o] /\ UNCHANGED <<message, detached>>
  BY <1>0, <1>9 DEF Create, Opened
<1>2. p \in Processes
  BY <1>0, PortsAssumption
<1>3. q \in PortSlots /\ port[q].state = "free"
  <2>1. FreePorts \in SUBSET Nat /\ IsFiniteSet(FreePorts)
    BY Pools, FS_Subset DEF FreePorts
  <2>2. q \in FreePorts
    BY <1>0, <1>1, <2>1, LowestIn
  <2> QED BY <2>2 DEF FreePorts
<1>4. o.state = "open" /\ o.count = 0
  BY <1>2, <1>9, OpenedIs
<1>5. port \in [PortSlots -> PortRecords] /\ port[q] = FreePort
  BY <1>3 DEF Inv, Typed, PortInv, Sound
<1>6. port'[q] = o /\ \A x \in PortSlots : x # q => port'[x] = port[x]
  BY <1>1, <1>3, <1>5
<1>7. ASSUME NEW x \in PortSlots, x # q PROVE Moves(Channel(x), Channel(x)')
  <2>1. Kept(x)
    BY <1>1, <1>6, <1>7 DEF Kept
  <2> QED BY <1>6, <1>7, <2>1, ChannelKept
<1>8. Moves(Channel(q), Channel(q)')
  <2>1. port[q].state = "free" /\ port[q].count = 0 /\ port'[q].state = "open" /\ port'[q].count = 0
    BY <1>4, <1>5, <1>6 DEF FreePort
  <2>2. Contents(q) = <<>> /\ Contents(q)' = <<>>
    BY <1>3, <2>1 DEF Shown
  <2>3. Promise!Open(Channel(q), Channel(q)')
    BY <2>1, <2>2 DEF Promise!Open, Promise!Unused, Channel
  <2> QED BY <2>3 DEF Moves
<1> QED BY <1>7, <1>8 DEF ChannelsMove

----------------------------------------------------------------------------
(* Sending and receiving.                                                  *)

(* What a send does to the queue and to the handles in transit. *)
LEMMA SendEnqueues ==
  ASSUME Inv, NEW t \in Threads, NEW s \in HandleSlots, NEW size \in Sizes,
         NEW L \in Lists(Transferable(ProcessOf[t])), Send(t, s, size, L)
  PROVE  \E q \in PortSlots, m \in MessageSlots, n \in 0 .. MaxAttached :
         \E place \in [1 .. n -> DetachedSlots] :
           /\ Enqueued(q, m, size, place) /\ port[q].state = "open"
           /\ \A x \in PortSlots : port'[x].state = port[x].state
           /\ \A i \in 1 .. n : detached'[place[i]] \in PortHandles /\ detached[place[i]] = None
           /\ \A d \in DetachedSlots : (\A i \in 1 .. n : place[i] # d) => detached'[d] = detached[d]
<1>0. PICK p, q, m : p = ProcessOf[t] /\ q = Handle(p, s).port /\ m = Lowest(FreeMessages)
  OBVIOUS
<1>1. Typed /\ PortInv /\ QueueInv
  BY DEF Inv
<1>2. /\ Handle(p, s).kind = "send" /\ port[q].state = "open" /\ HasRoom(q, size) /\ FreeMessages # {}
      /\ message' = Linked(q, m, size, p, [i \in DOMAIN L |-> Nth(FreeDetached, i)])
      /\ port' = Lengthened(q, m, size)
  BY <1>0 DEF Send
<1>3. PICK n \in Nat : \E place \in [1 .. n -> DetachedSlots] :
           /\ Moved(p, n, L, place)
           /\ \A i \in 1 .. n : /\ detached'[place[i]] \in PortHandles
                                /\ Narrows(detached'[place[i]], Handle(p, L[i]))
           /\ DOMAIN L = 1 .. n
           /\ place = [i \in DOMAIN L |-> Nth(FreeDetached, i)]
  BY <1>0, SendMoves
<1>4. PICK place \in [1 .. n -> DetachedSlots] :
           /\ Moved(p, n, L, place)
           /\ \A i \in 1 .. n : /\ detached'[place[i]] \in PortHandles
                                /\ Narrows(detached'[place[i]], Handle(p, L[i]))
           /\ DOMAIN L = 1 .. n
           /\ place = [i \in DOMAIN L |-> Nth(FreeDetached, i)]
  BY <1>3
<1>5. n \in 0 .. MaxAttached
  <2>1. PICK k \in 0 .. MaxAttached : L \in [1 .. k -> Transferable(ProcessOf[t])]
    BY DEF Lists
  <2>2. k \in Nat /\ 1 .. k = 1 .. n
    BY <2>1, <1>4, PortsAssumption
  <2>3. k = n
    <3>1. Len(L) = k
      BY <2>1, <2>2, IndexedIs
    <3>2. L \in [1 .. n -> Transferable(ProcessOf[t])]
      BY <2>1, <2>2
    <3>3. Len(L) = n
      BY <3>2, IndexedIs
    <3> QED BY <3>1, <3>3
  <2> QED BY <2>1, <2>3
<1>6. p \in Processes
  BY <1>0, PortsAssumption
<1>7. q \in PortSlots /\ q # 0
  BY <1>0, <1>1, <1>2, <1>6, HandleIs, Pools
<1>8. m \in MessageSlots /\ message[m].port = 0
  <2>1. FreeMessages \in SUBSET Nat /\ IsFiniteSet(FreeMessages)
    BY Pools, FS_Subset DEF FreeMessages
  <2>2. m \in FreeMessages
    BY <1>0, <1>2, <2>1, LowestIn
  <2> QED BY <2>2 DEF FreeMessages
<1>9. size \in Nat
  BY PortsAssumption
<1>10. message' = Linked(q, m, size, p, place) /\ place \in Seq(DetachedSlots)
  BY <1>2, <1>4
<1>11. Active(q)
  BY <1>2 DEF Active
<1>12. /\ port' \in [PortSlots -> PortRecords]
       /\ \A x \in PortSlots : x # q => port'[x] = port[x]
       /\ \A x \in PortSlots : port'[x].state = port[x].state
       /\ port'[q].head = (IF port[q].head = 0 THEN m ELSE port[q].head) /\ port'[q].tail = m
       /\ port'[q].count = port[q].count + 1 /\ port'[q].bytes = port[q].bytes + size
  BY <1>1, <1>2, <1>7, <1>8, <1>9, <1>11, LengthenedIs
<1>13. Enqueued(q, m, size, place)
  BY <1>1, <1>6, <1>7, <1>8, <1>9, <1>10, <1>12, LinkedIs DEF Enqueued
<1>14. /\ \A i \in 1 .. n : detached'[place[i]] \in PortHandles /\ detached[place[i]] = None
       /\ \A d \in DetachedSlots : (\A i \in 1 .. n : place[i] # d) => detached'[d] = detached[d]
  BY <1>4 DEF Moved
<1> QED BY <1>2, <1>5, <1>7, <1>8, <1>12, <1>13, <1>14

(* A message in a queue, and its handles, stay when another is put in. *)
LEMMA OthersStay ==
  ASSUME Inv, Shown, Shown', NEW q \in PortSlots, NEW m \in MessageSlots, NEW size, NEW place,
         Enqueued(q, m, size, place),
         \A d \in DetachedSlots : detached[d] # None => detached'[d] = detached[d],
         NEW l \in MessageSlots, message[l].port # 0
  PROVE  /\ Content(l)' = Content(l)
         /\ \A d \in Attached(l) : detached'[d] = detached[d]
<1>1. \A d \in Attached(l) : d \in DetachedSlots /\ detached[d] # None
  BY AttachedType DEF Inv, TransitInv
<1>2. l # m
  BY DEF Enqueued
<1>3. /\ message'[l].port = message[l].port /\ message'[l].size = message[l].size
      /\ message'[l].sender = message[l].sender /\ message'[l].handles = message[l].handles
  BY <1>2 DEF Enqueued
<1>4. \A d \in Attached(l) : detached'[d] = detached[d]
  BY <1>1
<1> QED BY <1>3, <1>4, SameContent

(* The queues of the other ports stay. *)
LEMMA OthersKept ==
  ASSUME Inv, Shown, Shown', NEW q \in PortSlots, NEW m \in MessageSlots, NEW size, NEW place,
         Enqueued(q, m, size, place),
         \A d \in DetachedSlots : detached[d] # None => detached'[d] = detached[d],
         NEW x \in PortSlots, x # q
  PROVE  Kept(x)
<1>1. ASSUME NEW l \in MessageSlots, message[l].port = x \/ message'[l].port = x
      PROVE  message'[l] = message[l] /\ \A d \in Attached(l) : detached'[d] = detached[d]
  <2>1. l # m /\ message[l].port = x /\ x # 0
    BY <1>1, Pools DEF Enqueued
  <2>2. port[q].tail # 0 => message[port[q].tail].port = q
    BY TailIs, Pools DEF Inv
  <2>3. l # port[q].tail
    BY <2>1, <2>2, Pools
  <2> QED BY <2>1, <2>3, OthersStay DEF Enqueued
<1>2. port'[x] = port[x]
  BY DEF Enqueued
<1> QED BY <1>1, <1>2 DEF Kept

(* A message that was sent is a message with handles of ports. *)
LEMMA SentIs ==
  ASSUME Shown', NEW q \in PortSlots, NEW m \in MessageSlots, NEW size \in Sizes,
         NEW n \in 0 .. MaxAttached, NEW place \in [1 .. n -> DetachedSlots],
         Enqueued(q, m, size, place), \A i \in 1 .. n : detached'[place[i]] \in PortHandles
  PROVE  Content(m)' \in Messages
<1>1. PICK hs : hs = HandlesIn(m)'
  OBVIOUS
<1>2. PICK r : r = message'[m]
  OBVIOUS
<1>3. r.port = q /\ r.size = size /\ r.sender \in Processes /\ r.handles = place
  BY <1>2 DEF Enqueued
<1>4. hs \in [1 .. n -> PortHandles]
  BY <1>1, <1>2, <1>3 DEF HandlesIn
<1>5. Content(m)' = Seen(r, hs)
  BY <1>1, <1>2 DEF Shown
<1>6. hs \in UNION {[1 .. k -> PortHandles] : k \in 0 .. MaxAttached}
  BY <1>4
<1>7. Seen(r, hs) \in Messages
  <2> DEFINE HS == UNION {[1 .. k -> PortHandles] : k \in 0 .. MaxAttached}
  <2>1. hs \in HS
    BY <1>6
  <2> HIDE DEF HS
  <2>2. Seen(r, hs) \in [port : PortSlots, next : {0}, size : Sizes, sender : Processes, handles : HS]
    BY <1>3, <2>1 DEF Seen
  <2> QED BY <2>2 DEF Messages, HS
<1> QED BY <1>5, <1>7

(* A send puts a message at the end of a channel. *)
LEMMA SendPuts ==
  ASSUME Inv, Shown, Shown', NEW t \in Threads, NEW s \in HandleSlots, NEW size \in Sizes,
         NEW L \in Lists(Transferable(ProcessOf[t])), Send(t, s, size, L)
  PROVE  ChannelsMove
<1>1. PICK q \in PortSlots, m \in MessageSlots, n \in 0 .. MaxAttached :
        \E place \in [1 .. n -> DetachedSlots] :
           /\ Enqueued(q, m, size, place) /\ port[q].state = "open"
           /\ \A x \in PortSlots : port'[x].state = port[x].state
           /\ \A i \in 1 .. n : detached'[place[i]] \in PortHandles /\ detached[place[i]] = None
           /\ \A d \in DetachedSlots : (\A i \in 1 .. n : place[i] # d) => detached'[d] = detached[d]
  BY SendEnqueues
<1>2. PICK place \in [1 .. n -> DetachedSlots] :
           /\ Enqueued(q, m, size, place) /\ port[q].state = "open"
           /\ \A x \in PortSlots : port'[x].state = port[x].state
           /\ \A i \in 1 .. n : detached'[place[i]] \in PortHandles /\ detached[place[i]] = None
           /\ \A d \in DetachedSlots : (\A i \in 1 .. n : place[i] # d) => detached'[d] = detached[d]
  BY <1>1
<1>3. \A d \in DetachedSlots : detached[d] # None => detached'[d] = detached[d]
  BY <1>2
<1>4. ASSUME NEW x \in PortSlots, x # q PROVE Moves(Channel(x), Channel(x)')
  <2>1. Kept(x)
    BY <1>2, <1>3, <1>4, OthersKept
  <2> QED BY <1>2, <2>1, ChannelKept
<1>5. PICK k : k = port[q].count
  OBVIOUS
<1>6. Typed /\ QueueInv
  BY DEF Inv
<1>7. PICK w \in [1 .. k -> MessageSlots] : Links(q, w)
  BY <1>5, <1>6 DEF QueueInv
<1>8. k \in Nat /\ port'[q].count = k + 1
  BY <1>2, <1>5, <1>6 DEF Typed, PortRecords, Enqueued
<1>9. PICK v : v = Longer(w, k, m)
  OBVIOUS
<1>10. v \in [1 .. k + 1 -> MessageSlots] /\ v[k + 1] = m /\ Links(q, v)'
  BY <1>2, <1>5, <1>6, <1>7, <1>8, <1>9, EnqueuedLinks
<1>11. \A i \in 1 .. k : v[i] = w[i]
  BY <1>8, <1>9 DEF Longer
<1>12. PICK c, d : c = Contents(q) /\ d = Contents(q)'
  OBVIOUS
<1>13. c = [i \in 1 .. k |-> Content(w[i])]
  BY <1>5, <1>7, <1>12 DEF Shown
<1>14. d = [i \in 1 .. k + 1 |-> Content(v[i])']
  BY <1>8, <1>10, <1>12 DEF Shown
<1>15. \A i \in 1 .. k : d[i] = c[i]
  <2>1. ASSUME NEW i \in 1 .. k PROVE Content(w[i])' = Content(w[i])
    <3>1. QueuedAt({q}) = {w[j] : j \in 1 .. k}
      BY <1>5, <1>7 DEF Links
    <3>2. w[i] \in QueuedAt({q})
      BY <3>1
    <3>3. PICK l : l = w[i]
      OBVIOUS
    <3>4. l \in MessageSlots /\ message[l].port # 0
      BY <3>2, <3>3, Pools DEF QueuedAt
    <3>5. Content(l)' = Content(l)
      BY <1>2, <1>3, <3>4, OthersStay
    <3> QED BY <3>3, <3>5
  <2>2. \A i \in 1 .. k : i \in 1 .. k + 1
    BY <1>8
  <2> QED BY <2>1, <2>2, <1>11, <1>13, <1>14
<1>16. d[k + 1] = Content(m)'
  <2>1. k + 1 \in 1 .. k + 1
    BY <1>8
  <2> QED BY <2>1, <1>10, <1>14
<1>17. d[k + 1] \in Messages
  BY <1>2, <1>16, SentIs
<1>18. Len(d) = Len(c) + 1 /\ SubSeq(d, 1, Len(c)) = c /\ d[Len(d)] = d[k + 1]
  <2>1. PICK S : S = {c[i] : i \in 1 .. k} \cup {d[i] : i \in 1 .. k + 1}
    OBVIOUS
  <2>2. c \in [1 .. k -> S] /\ d \in [1 .. k + 1 -> S]
    BY <1>13, <1>14, <2>1
  <2> QED BY <2>2, <1>8, <1>15, GrownIs
<1>19. Promise!Put(Channel(q), Channel(q)')
  <2>1. Channel(q) = [state |-> "open", queue |-> c] /\ Channel(q)' = [state |-> "open", queue |-> d]
    BY <1>2, <1>12 DEF Channel
  <2> QED BY <2>1, <1>17, <1>18 DEF Promise!Put
<1>20. Moves(Channel(q), Channel(q)')
  BY <1>19 DEF Moves
<1> QED BY <1>4, <1>20 DEF ChannelsMove

(* A receive takes the message at the head and the handles in it. *)
LEMMA ReceiveDequeues ==
  ASSUME Inv, NEW t \in Threads, NEW s \in HandleSlots, Receive(t, s)
  PROVE  \E q \in PortSlots, m \in MessageSlots :
           /\ Dequeued(q, m) /\ Active(q)
           /\ \A x \in PortSlots : port'[x].state = port[x].state
           /\ \A d \in DetachedSlots : d \notin Attached(m) => detached'[d] = detached[d]
<1>0. PICK p, q, m : p = ProcessOf[t] /\ q = Handle(p, s).port /\ m = port[q].head
  OBVIOUS
<1>1. Typed /\ PortInv /\ QueueInv
  BY DEF Inv
<1>2. /\ Receiver(t, s, q) /\ port' = Shortened(q, m)
      /\ message' = [message EXCEPT ![m] = FreeMessage]
      /\ detached' = [d \in DetachedSlots |-> IF d \in Attached(m) THEN None ELSE detached[d]]
  BY <1>0 DEF Receive
<1>3. p \in Processes
  BY <1>0, PortsAssumption
<1>4. Handle(p, s).kind = "receive" /\ Active(q) /\ port[q].count > 0
  BY <1>0, <1>2 DEF Receiver
<1>5. q \in PortSlots
  BY <1>0, <1>1, <1>3, <1>4, HandleIs
<1>6. m \in MessageSlots
  BY <1>0, <1>1, <1>4, <1>5, HeadIs
<1>7. /\ port' \in [PortSlots -> PortRecords]
      /\ \A x \in PortSlots : x # q => port'[x] = port[x]
      /\ \A x \in PortSlots : port'[x].state = port[x].state
      /\ port'[q].head = message[m].next /\ port'[q].tail = TailAfter(q, m)
      /\ port'[q].count = port[q].count - 1 /\ port'[q].bytes = port[q].bytes - message[m].size
  BY <1>0, <1>1, <1>2, <1>4, <1>5, ShortenedIs, ShortenedSound
<1>8. Dequeued(q, m)
  BY <1>0, <1>2, <1>4, <1>7 DEF Dequeued
<1> QED BY <1>2, <1>4, <1>5, <1>6, <1>7, <1>8

(* The other messages stay, with their handles. *)
LEMMA LeftAlone ==
  ASSUME Inv, Shown, Shown', NEW q \in PortSlots, NEW m \in MessageSlots, Dequeued(q, m),
         \A d \in DetachedSlots : d \notin Attached(m) => detached'[d] = detached[d],
         NEW l \in MessageSlots, l # m
  PROVE  /\ message'[l] = message[l] /\ Content(l)' = Content(l)
         /\ \A d \in Attached(l) : detached'[d] = detached[d]
<1>1. message'[l] = message[l]
  BY DequeuedMessages DEF Inv
<1>2. \A d \in Attached(l) : d \in DetachedSlots /\ d \notin Attached(m)
  BY AttachedType DEF Inv, TransitInv
<1>3. \A d \in Attached(l) : detached'[d] = detached[d]
  BY <1>2
<1> QED BY <1>1, <1>3, SameContent

(* A receive takes the first message from a channel. *)
LEMMA ReceiveMoves ==
  ASSUME Inv, Shown, Shown', NEW t \in Threads, NEW s \in HandleSlots, Receive(t, s)
  PROVE  ChannelsMove
<1>1. PICK q \in PortSlots, m \in MessageSlots :
        /\ Dequeued(q, m) /\ Active(q)
        /\ \A x \in PortSlots : port'[x].state = port[x].state
        /\ \A d \in DetachedSlots : d \notin Attached(m) => detached'[d] = detached[d]
  BY ReceiveDequeues
<1>2. Typed /\ QueueInv
  BY DEF Inv
<1>3. message[m].port = q /\ message'[m].port = 0
  BY <1>1, <1>2, DequeuedMessages DEF FreeMessage
<1>4. ASSUME NEW x \in PortSlots, x # q PROVE Moves(Channel(x), Channel(x)')
  <2>1. port'[x] = port[x]
    BY <1>1, <1>4 DEF Dequeued
  <2>2. ASSUME NEW l \in MessageSlots, message[l].port = x \/ message'[l].port = x
        PROVE  message'[l] = message[l] /\ \A d \in Attached(l) : detached'[d] = detached[d]
    <3>1. l # m
      BY <2>2, <1>3, <1>4, Pools
    <3> QED BY <3>1, <1>1, LeftAlone
  <2>3. Kept(x)
    BY <2>1, <2>2 DEF Kept
  <2> QED BY <1>1, <2>3, ChannelKept
<1>5. PICK k : k = port[q].count
  OBVIOUS
<1>6. PICK w \in [1 .. k -> MessageSlots] : Links(q, w)
  BY <1>2, <1>5 DEF QueueInv
<1>7. k \in Nat /\ k > 0 /\ port'[q].count = k - 1
  BY <1>1, <1>2, <1>5 DEF Typed, PortRecords, Dequeued
<1>8. PICK v : v = Shorter(w, k)
  OBVIOUS
<1>9. v \in [1 .. k - 1 -> MessageSlots] /\ Links(q, v)'
  BY <1>1, <1>2, <1>5, <1>6, <1>7, <1>8, DequeuedLinks
<1>10. \A i \in 1 .. k - 1 : v[i] # m
  BY <1>1, <1>2, <1>5, <1>6, <1>8, DequeuedLinks
<1>11. \A i \in 1 .. k - 1 : v[i] = w[i + 1] /\ i + 1 \in 1 .. k
  BY <1>7, <1>8 DEF Shorter
<1>12. PICK c, d : c = Contents(q) /\ d = Contents(q)'
  OBVIOUS
<1>13. c = [i \in 1 .. k |-> Content(w[i])]
  BY <1>5, <1>6, <1>12 DEF Shown
<1>14. d = [i \in 1 .. k - 1 |-> Content(v[i])']
  BY <1>7, <1>9, <1>12 DEF Shown
<1>15. ASSUME NEW i \in 1 .. k - 1 PROVE d[i] = c[i + 1]
  <2>1. PICK l : l = v[i]
    OBVIOUS
  <2>2. l \in MessageSlots /\ l # m
    BY <2>1, <1>9, <1>10
  <2>3. Content(l)' = Content(l)
    BY <1>1, <2>2, LeftAlone
  <2>4. d[i] = Content(l)'
    BY <1>14, <2>1
  <2>5. c[i + 1] = Content(l)
    BY <1>11, <1>13, <2>1
  <2> QED BY <2>3, <2>4, <2>5
<1>16. c # <<>> /\ d = Tail(c)
  <2>1. PICK S : S = {c[i] : i \in 1 .. k} \cup {d[i] : i \in 1 .. k - 1}
    OBVIOUS
  <2>2. c \in [1 .. k -> S] /\ d \in [1 .. k - 1 -> S]
    BY <1>13, <1>14, <2>1
  <2> QED BY <2>2, <1>7, <1>15, ShrunkIs
<1>17. Promise!Take(Channel(q), Channel(q)')
  <2>1. PICK e : e = port[q].state
    OBVIOUS
  <2>2. Channel(q) = [state |-> e, queue |-> c] /\ Channel(q)' = [state |-> e, queue |-> d]
    BY <1>1, <1>12, <2>1 DEF Channel
  <2>3. e \in {"open", "peer_closed"}
    BY <1>1, <2>1 DEF Active
  <2> QED BY <2>2, <2>3, <1>16 DEF Promise!Take
<1>18. Moves(Channel(q), Channel(q)')
  BY <1>17 DEF Moves
<1> QED BY <1>4, <1>18 DEF ChannelsMove

----------------------------------------------------------------------------
(* Letting go of handles.                                                  *)

(* A closed port loses its messages, and the others keep theirs. *)
LEMMA LetGoMoves ==
  ASSUME Inv, Shown, Shown', NEW H, NEW P, NEW th, LetGo(H, P, th), MayLetGo(H, P)
  PROVE  ChannelsMove
<1>0. PICK S : S = Shut(H, P)
  OBVIOUS
<1>1. /\ Typed /\ PortInv /\ CountInv /\ TransitInv
  BY DEF Inv
<1>2. /\ S \subseteq {q \in PortSlots : Active(q)}
      /\ \A q \in PortSlots :
           /\ q \in S => port'[q].state \in {"closing", "free"} /\ port'[q].count = 0
           /\ q \notin S =>
                 /\ port'[q].head = port[q].head /\ port'[q].tail = port[q].tail
                 /\ port'[q].count = port[q].count
                 /\ Active(q) => port'[q].state \in {port[q].state, "peer_closed"}
                 /\ ~Active(q) => port'[q].state \in {port[q].state, "free"}
  BY <1>0, <1>1, LetGoPorts
<1>3. \A m \in MessageSlots : /\ message[m].port \in S => message'[m] = FreeMessage
                              /\ message[m].port \notin S => message'[m] = message[m]
  BY <1>0, <1>1, LetGoMessages
<1>4. detached' = [d \in DetachedSlots |-> IF d \in Discarded(S) THEN None ELSE detached[d]]
  BY <1>0, LetGoIs
<1>5. ASSUME NEW q \in S PROVE Moves(Channel(q), Channel(q)')
  <2>1. q \in PortSlots /\ Active(q) /\ port'[q].state \in {"closing", "free"} /\ port'[q].count = 0
    BY <1>2
  <2>2. Contents(q)' = <<>>
    BY <2>1 DEF Shown
  <2>3. PICK c, d : c = port[q].state /\ d = port'[q].state
    OBVIOUS
  <2>4. Channel(q) = [state |-> c, queue |-> Contents(q)] /\ Channel(q)' = [state |-> d, queue |-> <<>>]
    BY <2>2, <2>3 DEF Channel
  <2>5. c \in {"open", "peer_closed"} /\ d \in {"closing", "free"}
    BY <2>1, <2>3 DEF Active
  <2>6. Promise!Shut(Channel(q), Channel(q)')
    BY <2>4, <2>5 DEF Promise!Shut, Promise!Unused
  <2> QED BY <2>6 DEF Moves
<1>6. ASSUME NEW q \in PortSlots, q \notin S PROVE Moves(Channel(q), Channel(q)')
  <2>1. ASSUME NEW l \in MessageSlots, message[l].port = q \/ message'[l].port = q
        PROVE  message'[l] = message[l] /\ \A d \in Attached(l) : detached'[d] = detached[d]
    <3>1. message[l].port \notin S
      BY <2>1, <1>3, <1>6, Pools DEF FreeMessage
    <3>2. ASSUME NEW d \in Attached(l) PROVE d \in DetachedSlots /\ d \notin Discarded(S)
      <4>1. d \in DetachedSlots
        BY <1>1, AttachedType
      <4>2. ASSUME NEW m \in MessageSlots, message[m].port \in S PROVE d \notin Attached(m)
        BY <3>1, <4>2, <1>1 DEF TransitInv
      <4> QED BY <4>1, <4>2 DEF Discarded, QueuedAt
    <3> QED BY <3>1, <3>2, <1>3, <1>4
  <2>2. Kept(q)
    BY <2>1, <1>2, <1>6 DEF Kept
  <2>3. Contents(q)' = Contents(q)
    BY <2>2, ContentsKept
  <2>4. CASE port'[q].state = port[q].state
    BY <2>2, <2>4, ChannelKept
  <2>5. CASE port[q].state = "open" /\ port'[q].state = "peer_closed"
    <3>1. /\ Channel(q) = [state |-> "open", queue |-> Contents(q)]
          /\ Channel(q)' = [state |-> "peer_closed", queue |-> Contents(q)]
      BY <2>3, <2>5 DEF Channel
    <3>2. Promise!HangUp(Channel(q), Channel(q)')
      BY <3>1 DEF Promise!HangUp
    <3> QED BY <3>2 DEF Moves
  <2>6. CASE port[q].state = "closing" /\ port'[q].state = "free"
    <3>1. port'[q].count = 0
      BY <2>6, <1>1, <1>2, <1>6 DEF PortInv, Sound
    <3>2. Contents(q)' = <<>>
      BY <3>1 DEF Shown
    <3>3. /\ Channel(q) = [state |-> "closing", queue |-> Contents(q)]
          /\ Channel(q)' = [state |-> "free", queue |-> <<>>]
      BY <3>2, <2>6 DEF Channel
    <3>4. Promise!Free(Channel(q), Channel(q)')
      BY <3>3 DEF Promise!Free, Promise!Unused
    <3> QED BY <3>4 DEF Moves
  <2>7. port[q].state \in {"free", "open", "peer_closed", "closing"}
    BY <1>1 DEF Typed, PortRecords
  <2> QED BY <2>4, <2>5, <2>6, <2>7, <1>2, <1>6 DEF Active
<1> QED BY <1>5, <1>6 DEF ChannelsMove

(* Handles of a process may be let go. *)
LEMMA OwnMayGo ==
  ASSUME NEW p \in Processes, NEW S \in SUBSET HandleSlots,
         NEW H, H = Restricted([x \in HandleSlots |-> Handle(p, x)], S)
  PROVE  MayLetGo(H, {})
<1>0. PICK old : old = HandlesOf(table[p])
  OBVIOUS
<1>1. DOMAIN H = S /\ \A x \in S : H[x] = old[x]
  BY <1>0 DEF Restricted, Handle, HandlesOf
<1>2. DOMAIN old = HandleSlots /\ IsFiniteSet(HandleSlots)
  BY <1>0, Pools DEF HandlesOf
<1>3. IsFiniteSet(DOMAIN H)
  BY <1>1, <1>2, FS_Subset
<1>4. ASSUME NEW kind, NEW q PROVE Count(H, kind, q) <= Count(AllHandles, kind, q)
  <2>1. At(H, kind, q) \subseteq At(old, kind, q)
    BY <1>1, <1>2 DEF At
  <2>2. IsFiniteSet(At(old, kind, q)) /\ Count(old, kind, q) \in Nat
    BY <1>2, CountType
  <2>3. Count(H, kind, q) <= Count(old, kind, q) /\ Count(H, kind, q) \in Nat
    <3>1. Count(H, kind, q) \in Nat
      BY <1>3, CountType
    <3>2. Cardinality(At(H, kind, q)) <= Cardinality(At(old, kind, q))
      BY <2>1, <2>2, FS_Subset
    <3> QED BY <3>1, <3>2 DEF Count
  <2>4. AllHandles = Flat(table)
    BY DEF AllHandles, Flat, Handle
  <2>5. Count(old, kind, q) <= Count(Flat(table), kind, q)
    <3>1. \A r \in Processes : r # p => table[r] = table[r]
      OBVIOUS
    <3>2. Count(HandlesOf(table[p]), kind, q) <= Count(Flat(table), kind, q)
      BY <3>1, CountFlat
    <3> QED BY <3>2, <1>0
  <2>6. Count(Flat(table), kind, q) \in Nat
    <3>1. DOMAIN Flat(table) = Processes \X HandleSlots
      BY DEF Flat
    <3>2. IsFiniteSet(Processes \X HandleSlots)
      BY Pools, PortsAssumption, FS_Product
    <3> QED BY <3>1, <3>2, CountType
  <2> QED BY <2>2, <2>3, <2>4, <2>5, <2>6
<1>5. \A q \in PortSlots : Sends(H, q) <= Sends(AllHandles, q) /\ Receives(H, q) <= Receives(AllHandles, q)
  BY <1>4, Counts
<1> QED BY <1>3, <1>5 DEF MayLetGo

(* A handle is closed. *)
LEMMA CloseMoves ==
  ASSUME Inv, Shown, Shown', NEW t \in Threads, NEW s \in HandleSlots, Close(t, s)
  PROVE  ChannelsMove
<1>0. PICK p, H, S, none, th : /\ p = ProcessOf[t] /\ H = Restricted([x \in HandleSlots |-> Handle(p, x)], S)
                               /\ S = {s} /\ none = {} /\ th = Entered(t)
  OBVIOUS
<1>1. LetGo(H, none, th)
  BY <1>0 DEF Close
<1>2. p \in Processes /\ S \in SUBSET HandleSlots
  BY <1>0, PortsAssumption
<1>3. MayLetGo(H, none)
  BY <1>0, <1>2, OwnMayGo
<1> QED BY <1>1, <1>3, LetGoMoves

(* What an ended process had is let go. *)
LEMMA ReapMoves ==
  ASSUME Inv, Shown, Shown', NEW p \in Processes, Reap(p)
  PROVE  ChannelsMove
<1>0. PICK H, none, th : H = Handles(p) /\ none = {} /\ th = thread
  OBVIOUS
<1>1. LetGo(H, none, th)
  BY <1>0 DEF Reap
<1>2. H = Restricted([x \in HandleSlots |-> Handle(p, x)], HandleSlots)
  BY <1>0 DEF Handles, Restricted
<1>3. MayLetGo(H, none)
  BY <1>0, <1>2, OwnMayGo
<1> QED BY <1>1, <1>3, LetGoMoves

(* A process ends, and its ports close. *)
LEMMA ExitMoves ==
  ASSUME Inv, Shown, Shown', NEW p \in Processes, Exit(p)
  PROVE  ChannelsMove
<1>0. PICK H, P, th : /\ H = <<>> /\ P = {q \in PortSlots : Active(q) /\ port[q].owner = p}
                      /\ th = [t \in Threads |-> IF t \in ThreadsOf(p) THEN Gone ELSE thread[t]]
  OBVIOUS
<1>1. LetGo(H, P, th)
  BY <1>0 DEF Exit
<1>2. DOMAIN H = {}
  BY <1>0
<1>3. \A q : Sends(H, q) = 0 /\ Receives(H, q) = 0
  BY <1>2, FS_EmptySet DEF Sends, Receives
<1>4. \A q \in PortSlots : Sends(AllHandles, q) \in Nat /\ Receives(AllHandles, q) \in Nat
  BY AllCounts DEF Inv
<1>5. MayLetGo(H, P)
  BY <1>0, <1>2, <1>3, <1>4, FS_EmptySet DEF MayLetGo
<1> QED BY <1>1, <1>5, LetGoMoves

(* Every step does to each channel what the promise allows. *)
LEMMA StepMoves == Inv /\ Shown /\ Shown' /\ [Next]_vars => ChannelsMove
<1> SUFFICES ASSUME Inv, Shown, Shown', [Next]_vars PROVE ChannelsMove
  OBVIOUS
<1>1. ASSUME UNCHANGED <<port, message, detached>>
      PROVE  ChannelsMove
  BY <1>1, ChannelsKept
<1>2. CASE UNCHANGED vars
  BY <1>1, <1>2 DEF vars
<1>3. CASE Next
  <2>1. CASE \E p \in Processes : Exit(p) \/ Reap(p)
    BY <2>1, ExitMoves, ReapMoves
  <2>2. ASSUME NEW t \in Threads, ForkFails(t)
        PROVE  ChannelsMove
    BY <1>1, <2>2, ForkFailsPorts DEF ForkFails
  <2>3. ASSUME NEW t \in Threads,
               \/ Create(t) \/ OtherCall(t) \/ ReceiveNothing(t) \/ WaitEnds(t)
               \/ \E S \in SUBSET HandleSlots : Wait(t, S)
        PROVE  ChannelsMove
    BY <1>1, <2>3, CreateMoves DEF OtherCall, ReceiveNothing, WaitEnds, Wait
  <2>4. ASSUME NEW t \in Threads, NEW s \in HandleSlots,
               \/ Receive(t, s) \/ ReceiveFaults(t, s) \/ Close(t, s)
               \/ \E rights \in CopyRights : Duplicate(t, s, rights)
               \/ \E size \in Sizes : SendRefused(t, s, size)
        PROVE  ChannelsMove
    BY <1>1, <2>4, ReceiveMoves, CloseMoves, DuplicateMoves DEF ReceiveFaults, SendRefused
  <2>5. ASSUME NEW t \in Threads, NEW s \in HandleSlots, NEW size \in Sizes,
               NEW L \in Lists(Transferable(ProcessOf[t])), Send(t, s, size, L)
        PROVE  ChannelsMove
    BY <2>5, SendPuts
  <2>6. ASSUME NEW t \in Threads, NEW c \in Processes, Fork(t, c)
        PROVE  ChannelsMove
    BY <2>6, ForkMoves
  <2>7. ASSUME NEW t \in Threads, NEW c \in Processes, NEW n \in 0 .. MaxAttached,
               NEW G \in [1 .. n -> HandleSlots \X CopyRights], Launch(t, c, G)
        PROVE  ChannelsMove
    BY <2>7, LaunchMoves
  <2> QED BY <1>3, <2>1, <2>2, <2>3, <2>4, <2>5, <2>6, <2>7 DEF Next
<1> QED BY <1>2, <1>3

(* At the start all channels are unused. *)
LEMMA InitChannels == Inv /\ Shown /\ Init => Promise!Init
<1> SUFFICES ASSUME Shown, Init PROVE Promise!Init
  OBVIOUS
<1>1. ASSUME NEW q \in PortSlots
      PROVE  Channel(q) = Promise!Unused
  <2>1. port[q] = FreePort
    BY DEF Init
  <2>2. port[q].state = "free" /\ port[q].count = 0
    BY <2>1 DEF FreePort
  <2>3. Contents(q) = <<>>
    BY <2>2 DEF Shown
  <2> QED BY <2>2, <2>3 DEF Channel, Promise!Unused
<1>2. [q \in PortSlots |-> Channel(q)] = [q \in PortSlots |-> Promise!Unused]
  BY <1>1
<1> QED BY <1>2 DEF Promise!Init, Channel

(* A port is a channel that keeps its messages in the order they were      *)
(* sent, gives each to one receiver, and loses none until its receiver     *)
(* closes it (kernel_port_send, receive_begin, receive_commit, close_port, *)
(* mark_sender_closed).                                                    *)
THEOREM Ports_KeepsPromise == Spec => KeepsPromise
<1>1. Init => Promise!Init
  BY InvInit, InvShown, InitChannels
<1>2. ChannelsMove => Promise!Next
  BY DEF ChannelsMove, Channel, Moves, Promise!Next
<1>3. Inv /\ Shown /\ Shown' /\ [Next]_vars => Promise!Next
  BY <1>2, StepMoves
<1> QED BY <1>1, <1>3, InvShown, Ports_Invariant, PTL DEF Spec, KeepsPromise, Promise!Spec

=============================================================================
