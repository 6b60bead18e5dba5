----------------------------- MODULE Rings_order -----------------------------
(***************************************************************************)
(* That a ring delivers each element once and in order, that what one      *)
(* process does to it stays within it, and that nobody is told too early   *)
(* that the other end is gone, for every capacity and every number of      *)
(* positions, whose wrap is part of the argument.                          *)
(*                                                                         *)
(* OrderInv has three parts.  Ordered holds while all keep to the library: *)
(* the positions that the ends and the kernel have follow one another      *)
(* round the ring from the consumer's that the kernel knows (Chain), what  *)
(* the producer believes of the consumer is further back (Behind), and the *)
(* elements not yet read are in their slots (Slots).  Whatever others do,  *)
(* an end believes no more than the ring can hold (Beliefs), and a pipe's  *)
(* header is where the kernel has it (KernelPositions).  The steps that    *)
(* move no position are quiet, one lemma for all of them (QuietOrder);     *)
(* each that moves one rests on a lemma about positions alone.             *)
(*                                                                         *)
(* EndInv says that a thread that was told of the end is still where it    *)
(* was told, with its handle, and that the end is still so.  Tells is what *)
(* an operation of the kernel may tell: to a thread that sleeps, and only  *)
(* of an end that is Over by then.                                         *)
(***************************************************************************)
EXTENDS Rings_proofs

----------------------------------------------------------------------------
(* Slots and the remainders of positions. *)

(* The remainder is the one that fits. *)
LEMMA ModUnique ==
  ASSUME NEW d \in Nat \ {0}, NEW q \in Int, NEW r \in 0 .. d - 1
  PROVE  (d * q + r) % d = r
  OBVIOUS

(* A quotient and its remainder, with the divisor a symbol. *)
LEMMA ModForm ==
  ASSUME NEW d \in Nat \ {0}, NEW a \in Int
  PROVE  \E q \in Int : a = d * q + (a % d) /\ a % d \in 0 .. d - 1
  <1>1. a = d * (a \div d) + (a % d) /\ a % d \in 0 .. d - 1 /\ a \div d \in Int
    OBVIOUS
  <1> QED BY <1>1

(* No multiple of d is between 0 and d. *)
LEMMA Multiple ==
  ASSUME NEW d \in Nat \ {0}, NEW k \in Int, 0 < d * k, d * k < d
  PROVE  FALSE
  OBVIOUS

(* A multiple of the divisor does not change the remainder. *)
LEMMA Cong ==
  ASSUME NEW d \in Nat \ {0}, NEW a \in Int, NEW k \in Int
  PROVE  (a + d * k) % d = a % d
  <1>1. PICK q \in Int : a = d * q + (a % d) /\ a % d \in 0 .. d - 1
    BY ModForm
  <1> DEFINE r == a % d
  <1>2. a + d * k = d * (q + k) + r
    BY <1>1
  <1>3. q + k \in Int /\ r \in 0 .. d - 1 /\ a = d * q + r
    BY <1>1
  <1> HIDE DEF r
  <1>4. (d * (q + k) + r) % d = r
    BY <1>3, ModUnique
  <1> QED BY <1>2, <1>4 DEF r

(* Positions less than a capacity apart have slots of their own.           *)
LEMMA SlotsDiffer ==
  ASSUME RingsAssumption, NEW a \in Positions, NEW b \in Positions,
         0 < Ahead(a, b), Ahead(a, b) < Capacity
  PROVE  Slot(a) # Slot(b)
  <1>1. /\ Capacity \in Nat \ {0} /\ Wrap \in Int /\ a \in Int /\ b \in Int
        /\ Wrap % Capacity = 0 /\ a >= 0 /\ b >= 0 /\ a < Wrap /\ b < Wrap
    BY DEF RingsAssumption, Positions
  <1>2. PICK w \in Int : Wrap = Capacity * w + (Wrap % Capacity)
    BY <1>1, ModForm
  <1>3. PICK x \in Int : a = Capacity * x + (a % Capacity)
    BY <1>1, ModForm
  <1>4. PICK y \in Int : b = Capacity * y + (b % Capacity)
    BY <1>1, ModForm
  <1>5. Ahead(a, b) = a - b \/ Ahead(a, b) = a - b + Wrap
    BY AheadFacts
  <1> SUFFICES ASSUME a % Capacity = b % Capacity
               PROVE  FALSE
    BY DEF Slot
  <1>6. a % Capacity \in Int
    BY <1>1
  <1>7. CASE Ahead(a, b) = a - b
    <2>1. Ahead(a, b) = Capacity * (x - y) /\ x - y \in Int
      BY <1>1, <1>3, <1>4, <1>6, <1>7
    <2> QED BY <1>1, <2>1, Multiple
  <1>8. CASE Ahead(a, b) = a - b + Wrap
    <2>1. Ahead(a, b) = Capacity * (x - y + w) /\ x - y + w \in Int
      BY <1>1, <1>2, <1>3, <1>4, <1>6, <1>8
    <2> QED BY <1>1, <2>1, Multiple
  <1> QED BY <1>5, <1>7, <1>8

(* A slot is within the ring. *)
LEMMA SlotTypes ==
  ASSUME RingsAssumption, NEW x \in Positions
  PROVE  Slot(x) \in 0 .. Capacity - 1 /\ Slot(x) \in Positions
  <1>1. Capacity \in Nat \ {0} /\ Wrap \in Nat /\ x \in Nat /\ Capacity < Wrap
    BY DEF RingsAssumption, Positions
  <1>2. x % Capacity \in 0 .. Capacity - 1
    BY <1>1
  <1> QED BY <1>1, <1>2 DEF Slot, Positions

(* A slot is as far ahead, in slots, as a position that is kept in it. *)
LEMMA SlotAhead ==
  ASSUME RingsAssumption, NEW x \in Positions, NEW at \in Positions
  PROVE  Ahead(Slot(x), at) % Capacity = Ahead(x, at) % Capacity
  <1>1. /\ Capacity \in Nat \ {0} /\ Wrap \in Int /\ x \in Int /\ at \in Int
        /\ Wrap % Capacity = 0
    BY DEF RingsAssumption, Positions
  <1>2. PICK w \in Int : Wrap = Capacity * w + (Wrap % Capacity)
    BY <1>1, ModForm
  <1>3. PICK q \in Int : x = Capacity * q + Slot(x)
    BY <1>1, ModForm DEF Slot
  <1>4. Slot(x) \in Positions /\ Slot(x) \in Int
    BY SlotTypes, <1>1
  <1>5. Ahead(Slot(x), at) = Slot(x) - at \/ Ahead(Slot(x), at) = Slot(x) - at + Wrap
    BY <1>4, AheadFacts
  <1>6. Ahead(x, at) = x - at \/ Ahead(x, at) = x - at + Wrap
    BY AheadFacts
  <1> DEFINE A == Ahead(Slot(x), at)
             B == Ahead(x, at)
  <1>7. A \in Int /\ B \in Int
    BY <1>1, <1>4, <1>5, <1>6
  <1>8. B = A + Capacity * q \/ B = A + Capacity * (q + w) \/ B = A + Capacity * (q - w)
    <2> HIDE DEF A, B
    <2>1. /\ A = Slot(x) - at \/ A = Slot(x) - at + Wrap
          /\ B = x - at \/ B = x - at + Wrap
      BY <1>5, <1>6 DEF A, B
    <2>2. /\ Capacity * (q + w) = Capacity * q + Capacity * w
          /\ Capacity * (q - w) = Capacity * q - Capacity * w
          /\ Capacity * q \in Int /\ Capacity * w \in Int
      BY <1>1
    <2>3. Wrap = Capacity * w
      BY <1>1, <1>2
    <2> DEFINE cq == Capacity * q
               s == Slot(x)
    <2>4. s \in Int /\ cq \in Int /\ x = cq + s /\ x \in Int /\ at \in Int /\ Wrap \in Int
      BY <1>1, <1>3, <1>4
    <2>5. A = s - at \/ A = s - at + Wrap
      BY <2>1
    <2>6. B = x - at \/ B = x - at + Wrap
      BY <2>1
    <2>7. Capacity * (q + w) = cq + Wrap /\ Capacity * (q - w) = cq - Wrap
      BY <2>2, <2>3
    <2> HIDE DEF cq, s
    <2>8. B = A + cq \/ B = A + (cq + Wrap) \/ B = A + (cq - Wrap)
      BY <2>4, <2>5, <2>6
    <2> QED BY <2>7, <2>8 DEF cq
  <1> HIDE DEF A, B
  <1>9. PICK k \in Int : B = A + Capacity * k
    <2>1. q \in Int /\ q + w \in Int /\ q - w \in Int
      OBVIOUS
    <2> QED BY <1>8, <2>1
  <1>10. (A + Capacity * k) % Capacity = A % Capacity
    BY <1>1, <1>7, Cong
  <1> QED BY <1>9, <1>10 DEF A, B

(* The slots from position at on: those of n new elements, and those of    *)
(* elements behind it.                                                     *)
LEMMA SlotsAt ==
  ASSUME RingsAssumption, NEW x \in Positions, NEW at \in Positions
  PROVE  /\ Ahead(x, at) < Capacity => Ahead(Slot(x), at) % Capacity = Ahead(x, at)
         /\ 0 < Ahead(at, x) /\ Ahead(at, x) <= Capacity =>
              Ahead(Slot(x), at) % Capacity = Capacity - Ahead(at, x)
  <1>1. Capacity \in Nat \ {0} /\ Wrap \in Int /\ Wrap % Capacity = 0
    BY DEF RingsAssumption
  <1>2. Ahead(x, at) \in Nat /\ Ahead(at, x) \in Nat
    BY AheadSum
  <1>3. ASSUME Ahead(x, at) < Capacity
        PROVE  Ahead(x, at) % Capacity = Ahead(x, at)
    <2> DEFINE r == Ahead(x, at)
    <2>1. r \in 0 .. Capacity - 1 /\ Capacity * 0 + r = r
      BY <1>1, <1>2, <1>3
    <2> HIDE DEF r
    <2>2. (Capacity * 0 + r) % Capacity = r
      BY <1>1, <2>1, ModUnique
    <2> QED BY <2>1, <2>2 DEF r
  <1>4. ASSUME 0 < Ahead(at, x), Ahead(at, x) <= Capacity
        PROVE  Ahead(x, at) % Capacity = Capacity - Ahead(at, x)
    <2>1. PICK w \in Int : Wrap = Capacity * w + (Wrap % Capacity)
      BY <1>1, ModForm
    <2>2. Ahead(x, at) = Wrap - Ahead(at, x)
      BY <1>4, AheadFacts DEF Positions, RingsAssumption
    <2> DEFINE r == Capacity - Ahead(at, x)
    <2>3. r \in 0 .. Capacity - 1 /\ w - 1 \in Int
      BY <1>1, <1>2, <1>4
    <2>4. Ahead(x, at) = Capacity * (w - 1) + r
      <3>1. Capacity * (w - 1) = Capacity * w - Capacity /\ Capacity * w \in Int
        BY <1>1
      <3> QED BY <1>1, <1>2, <2>1, <2>2, <3>1
    <2> HIDE DEF r
    <2>5. (Capacity * (w - 1) + r) % Capacity = r
      BY <1>1, <2>3, ModUnique
    <2> QED BY <2>4, <2>5 DEF r
  <1> QED BY <1>3, <1>4, SlotAhead

LEMMA PlusBack ==
  ASSUME RingsAssumption, NEW x \in Positions, NEW at \in Positions
  PROVE  Plus(at, Ahead(x, at)) = x
  <1>1. Ahead(x, at) = (IF x >= at THEN x - at ELSE x - at + Wrap) /\ Ahead(x, at) \in Nat
        /\ Ahead(x, at) < Wrap
    BY AheadFacts, AheadSum
  <1> DEFINE n == Ahead(x, at)
  <1>2. n \in 0 .. Wrap
    BY <1>1 DEF RingsAssumption
  <1> HIDE DEF n
  <1>3. Plus(at, n) = IF at + n < Wrap THEN at + n ELSE at + n - Wrap
    BY <1>2, PlusFacts
  <1> QED BY <1>1, <1>3 DEF n, Positions, RingsAssumption

----------------------------------------------------------------------------
(* The invariant of the positions. *)

(* From C on round the ring follow hc, known, P and hp, all within it. *)
Follow(C, hc, known, P, hp) ==
  /\ Ahead(hc, C) <= Ahead(known, C) /\ Ahead(known, C) <= Ahead(P, C)
  /\ Ahead(P, C) <= Ahead(hp, C) /\ Ahead(hp, C) <= Capacity

(* What the consumer believes of the producer. *)
Known == IF view["consumer"].at # Nobody THEN view["consumer"].peer ELSE header["consumer"]

Chain ==
  Follow(ring.position["consumer"], header["consumer"], Known,
         ring.position["producer"], header["producer"])

(* From peer on round the ring follow C and hp. *)
Behind(peer, C, hp) == Ahead(hp, peer) = Ahead(hp, C) + Ahead(C, peer)

(* The elements written and not yet read are in their slots. *)
Slots(hc, hp, d) ==
  \A x \in Positions : Ahead(x, hc) < Ahead(hp, hc) => d[Slot(x)] = x

(* An end that has attached and not asked yet. *)
Attaching(t) == t.pc = "ask" /\ t.call = "attach"

(* A producer that knows of a position of the consumer. *)
Believing ==
  view["producer"].at # Nobody /\ ~Attaching(thread[view["producer"].at]["producer"])

Fills(e, w) ==
  IF e = "producer" THEN Ahead(w.local, w.peer) ELSE Ahead(w.peer, w.local)

HasNext(e, w) ==
  IF e = "producer" THEN Ahead(w.local, w.peer) < Capacity ELSE w.peer # w.local

(* What end e believes, in view w and at t of a call. *)
Believes(e, w, t) ==
  /\ Fills(e, w) <= Capacity
  /\ w.reserved => HasNext(e, w) /\ t.pc = "idle"

Ordered ==
  /\ Chain /\ Slots(header["consumer"], header["producer"], data)
  /\ \A e \in Ends : view[e].at # Nobody => view[e].local = header[e]
  /\ Believing => Behind(view["producer"].peer, ring.position["consumer"], header["producer"])
  /\ view["producer"].reserved => data[Slot(header["producer"])] = header["producer"]
  /\ \A e \in Ends : ring.terminal[e] # "failed" /\ ~view[e].failed

(* What the ends believe, whatever others do. *)
Beliefs ==
  \A e \in Ends :
    /\ view[e].at = Nobody => view[e] = NoView
    /\ view[e].at # Nobody => Believes(e, view[e], thread[view[e].at][e])

(* The positions the kernel has of a free ring, and of a pipe. *)
KernelPositions ==
  /\ ring.state = "free" => \A e \in Ends : ring.position[e] = 0
  /\ ring.form = "copied" /\ ring.state # "free" => \A e \in Ends : header[e] = ring.position[e]

OrderInv ==
  /\ Beliefs /\ KernelPositions
  /\ ring.state # "free" /\ faulty = {} => Ordered

----------------------------------------------------------------------------
(* Positions that follow one another. *)

(* How far ahead a position is, is within the wrap. *)
LEMMA Distances ==
  ASSUME RingsAssumption, NEW a \in Positions, NEW b \in Positions
  PROVE  Ahead(a, b) \in Nat /\ Ahead(a, a) = 0
  BY AheadSum

(* What is between two of them may be taken to be the first. *)
LEMMA FollowFirst ==
  ASSUME RingsAssumption, NEW C \in Positions, NEW hc \in Positions, NEW known \in Positions,
         NEW P \in Positions, NEW hp \in Positions, Follow(C, hc, known, P, hp)
  PROVE  Follow(C, hc, hc, P, hp)
  BY Distances DEF Follow, RingsAssumption

(* The producer tells the kernel its position, and learns the consumer's. *)
LEMMA ProducerAsks ==
  ASSUME RingsAssumption, NEW C \in Positions, NEW hc \in Positions, NEW known \in Positions,
         NEW P \in Positions, NEW hp \in Positions, Follow(C, hc, known, P, hp)
  PROVE  /\ Follow(C, hc, known, hp, hp) /\ Behind(C, C, hp)
         /\ Ahead(hp, P) <= Capacity - Ahead(P, C)
  <1>1. /\ Ahead(hc, C) \in Nat /\ Ahead(known, C) \in Nat /\ Ahead(P, C) \in Nat
        /\ Ahead(hp, C) \in Nat /\ Ahead(C, C) = 0
    BY Distances
  <1>2. Ahead(hp, P) = Ahead(hp, C) - Ahead(P, C)
    BY AheadSum DEF Follow
  <1> QED BY <1>1, <1>2 DEF Follow, Behind, RingsAssumption

(* The consumer tells the kernel its position, and learns the producer's. *)
LEMMA ConsumerAsks ==
  ASSUME RingsAssumption, NEW C \in Positions, NEW hc \in Positions, NEW known \in Positions,
         NEW P \in Positions, NEW hp \in Positions, Follow(C, hc, known, P, hp)
  PROVE  /\ Follow(hc, hc, P, P, hp) /\ Ahead(hc, C) <= Ahead(P, C)
         /\ \A peer \in Positions : Behind(peer, C, hp) /\ Ahead(hp, peer) <= Capacity =>
              Behind(peer, hc, hp)
  <1>1. /\ Ahead(hc, C) \in Nat /\ Ahead(known, C) \in Nat /\ Ahead(P, C) \in Nat
        /\ Ahead(hp, C) \in Nat /\ Ahead(hc, hc) = 0 /\ Ahead(P, hc) \in Nat
        /\ Capacity \in Nat /\ Wrap \in Nat /\ Capacity < Wrap
    BY Distances DEF RingsAssumption
  <1>2. /\ Ahead(hc, C) <= Ahead(P, C) /\ Ahead(P, C) <= Ahead(hp, C) /\ Ahead(hp, C) <= Capacity
    BY <1>1 DEF Follow
  <1>3. Ahead(P, hc) = Ahead(P, C) - Ahead(hc, C) /\ Ahead(hp, hc) = Ahead(hp, C) - Ahead(hc, C)
    BY <1>1, <1>2, AheadSum
  <1>4. ASSUME NEW peer \in Positions, Behind(peer, C, hp), Ahead(hp, peer) <= Capacity
        PROVE  Behind(peer, hc, hp)
    <2>1. Ahead(hp, peer) = Ahead(hp, C) + Ahead(C, peer) /\ Ahead(C, peer) \in Nat
      BY <1>4, Distances DEF Behind
    <2>2. Ahead(hc, C) + Ahead(C, peer) < Wrap
      BY <1>1, <1>2, <1>4, <2>1
    <2>3. Ahead(hc, peer) = Ahead(hc, C) + Ahead(C, peer)
      BY <2>2, AheadSum
    <2> QED BY <1>1, <1>3, <2>1, <2>3 DEF Behind
  <1> QED BY <1>1, <1>2, <1>3, <1>4 DEF Follow

(* The next position. *)
LEMMA NextAhead ==
  ASSUME RingsAssumption, NEW a \in Positions, NEW b \in Positions, Ahead(a, b) <= Capacity
  PROVE  Plus(a, 1) \in Positions /\ Ahead(Plus(a, 1), b) = Ahead(a, b) + 1
  <1>1. 1 \in 0 .. Wrap /\ 1 \in 0 .. Wrap - 1 /\ Wrap \in Nat /\ Capacity \in Nat
        /\ Capacity + 1 < Wrap
    BY DEF RingsAssumption
  <1>2. Plus(a, 1) \in Positions /\ Ahead(Plus(a, 1), a) = 1
    BY <1>1, PlusFacts, PlusAhead
  <1>3. Ahead(a, b) \in Nat
    BY Distances
  <1>4. Ahead(Plus(a, 1), a) + Ahead(a, b) < Wrap
    BY <1>1, <1>2, <1>3
  <1>5. Ahead(Plus(a, 1), b) = Ahead(Plus(a, 1), a) + Ahead(a, b)
    BY <1>2, <1>4, AheadSum
  <1> QED BY <1>2, <1>3, <1>5

(* The producer goes on by one element, for which there was room. *)
LEMMA ProducerCommits ==
  ASSUME RingsAssumption, NEW C \in Positions, NEW hc \in Positions, NEW known \in Positions,
         NEW P \in Positions, NEW hp \in Positions, Follow(C, hc, known, P, hp),
         NEW peer \in Positions, Behind(peer, C, hp), Ahead(hp, peer) < Capacity
  PROVE  /\ Follow(C, hc, known, P, Plus(hp, 1)) /\ Behind(peer, C, Plus(hp, 1))
         /\ Ahead(Plus(hp, 1), peer) <= Capacity
         /\ Ahead(Plus(hp, 1), hc) = Ahead(hp, hc) + 1 /\ Ahead(hp, hc) < Capacity
  <1>1. /\ Ahead(hc, C) \in Nat /\ Ahead(known, C) \in Nat /\ Ahead(P, C) \in Nat
        /\ Ahead(hp, C) \in Nat /\ Ahead(C, peer) \in Nat /\ Ahead(hp, peer) \in Nat
        /\ Capacity \in Nat /\ Wrap \in Nat /\ Capacity < Wrap
    BY Distances DEF RingsAssumption
  <1>2. Ahead(hp, C) < Capacity
    BY <1>1 DEF Behind
  <1>3. Ahead(hp, hc) = Ahead(hp, C) - Ahead(hc, C)
    <2>1. Ahead(hc, C) <= Ahead(hp, C)
      BY <1>1 DEF Follow
    <2> QED BY <2>1, AheadSum
  <1>4. Ahead(hp, hc) < Capacity
    BY <1>1, <1>2, <1>3
  <1>5. /\ Ahead(Plus(hp, 1), C) = Ahead(hp, C) + 1 /\ Ahead(Plus(hp, 1), peer) = Ahead(hp, peer) + 1
        /\ Ahead(Plus(hp, 1), hc) = Ahead(hp, hc) + 1
    <2>1. Ahead(hp, C) <= Capacity /\ Ahead(hp, peer) <= Capacity /\ Ahead(hp, hc) <= Capacity
      BY <1>1, <1>2, <1>3
    <2> QED BY <2>1, NextAhead
  <1>6. Follow(C, hc, known, P, Plus(hp, 1))
    BY <1>1, <1>2, <1>5 DEF Follow
  <1>7. Behind(peer, C, Plus(hp, 1))
    BY <1>1, <1>5 DEF Behind
  <1> QED BY <1>1, <1>4, <1>5, <1>6, <1>7

(* The consumer goes on by one element, of those it knows of. *)
LEMMA ConsumerCommits ==
  ASSUME RingsAssumption, NEW C \in Positions, NEW hc \in Positions, NEW known \in Positions,
         NEW P \in Positions, NEW hp \in Positions, Follow(C, hc, known, P, hp), known # hc
  PROVE  /\ Follow(C, Plus(hc, 1), known, P, hp)
         /\ Ahead(hp, Plus(hc, 1)) = Ahead(hp, hc) - 1
         /\ \A x \in Positions :
              Ahead(x, Plus(hc, 1)) < Ahead(hp, Plus(hc, 1)) => Ahead(x, hc) < Ahead(hp, hc)
  <1> DEFINE n == Plus(hc, 1)
  <1>1. /\ Ahead(hc, C) \in Nat /\ Ahead(known, C) \in Nat /\ Ahead(P, C) \in Nat
        /\ Ahead(hp, C) \in Nat /\ Ahead(known, hc) \in Nat /\ Ahead(known, hc) # 0
        /\ Capacity \in Nat /\ Wrap \in Nat /\ Capacity < Wrap
    BY AheadSum DEF RingsAssumption
  <1>2. Ahead(known, hc) = Ahead(known, C) - Ahead(hc, C)
    BY AheadSum DEF Follow
  <1>3. Ahead(hc, C) < Ahead(known, C) /\ Ahead(hc, C) <= Capacity
    BY <1>1, <1>2 DEF Follow
  <1>4. n \in Positions /\ Ahead(n, C) = Ahead(hc, C) + 1 /\ Ahead(n, hc) = 1
    <2>1. Ahead(hc, hc) = 0 /\ Ahead(hc, hc) <= Capacity
      BY <1>1, Distances
    <2> QED BY <1>3, <2>1, NextAhead
  <1> HIDE DEF n
  <1>5. Follow(C, n, known, P, hp)
    BY <1>1, <1>3, <1>4 DEF Follow
  <1>6. Ahead(hp, hc) = Ahead(hp, C) - Ahead(hc, C) /\ Ahead(hp, n) = Ahead(hp, C) - Ahead(n, C)
    <2>1. Ahead(hc, C) <= Ahead(hp, C) /\ Ahead(n, C) <= Ahead(hp, C)
      BY <1>1, <1>3, <1>4 DEF Follow
    <2> QED BY <1>4, <2>1, AheadSum
  <1>7. ASSUME NEW x \in Positions, Ahead(x, n) < Ahead(hp, n)
        PROVE  Ahead(x, hc) < Ahead(hp, hc)
    <2>1. Ahead(x, n) \in Nat
      BY <1>4, Distances
    <2>2. Ahead(hp, C) <= Capacity
      BY DEF Follow
    <2>3. Ahead(x, n) + Ahead(n, hc) < Wrap
      BY <1>1, <1>4, <1>6, <1>7, <2>1, <2>2
    <2>4. Ahead(x, hc) = Ahead(x, n) + Ahead(n, hc)
      BY <1>4, <2>3, AheadSum
    <2> QED BY <1>1, <1>4, <1>6, <1>7, <2>1, <2>4
  <1> QED BY <1>1, <1>4, <1>5, <1>6, <1>7 DEF n

----------------------------------------------------------------------------
(* Steps that move no position. *)

QuietRing ==
  /\ ring'.form = ring.form
  /\ \/ ring'.state = "free" /\ \A e \in Ends : ring'.position[e] = 0
     \/ /\ ring'.state # "free" /\ ring.state # "free" /\ ring'.position = ring.position
        /\ faulty = {} => \A e \in Ends : ring'.terminal[e] = "failed" => ring.terminal[e] = "failed"

(* The view of an end whose thread goes from t to u. *)
QuietCall(e, t, u) ==
  \/ faulty # {} /\ u.pc = "idle"
  \/ u = t
  \/ ~Attaching(t) /\ (view[e].reserved => t.pc # "idle")

QuietView(e) ==
  \/ view'[e] = NoView
  \/ /\ view'[e].at = view[e].at /\ view'[e].local = view[e].local
     /\ view'[e].peer = view[e].peer /\ view'[e].reserved = view[e].reserved
     /\ view'[e] = view[e] \/ (faulty # {} /\ view[e].at # Nobody)
     /\ view[e].at # Nobody => QuietCall(e, thread[view[e].at][e], thread'[view[e].at][e])

(* What the invariant speaks of are positions. *)
LEMMA PositionTypes ==
  ASSUME RingsAssumption, RingInv
  PROVE  /\ "producer" \in Ends /\ "consumer" \in Ends
         /\ \A e \in Ends : /\ ring.position[e] \in Positions /\ header[e] \in Positions
                            /\ view[e] \in Views
                            /\ view[e].local \in Positions /\ view[e].peer \in Positions
                            /\ view[e].reserved \in BOOLEAN /\ view[e].failed \in BOOLEAN
         /\ Known \in Positions
         /\ Capacity \in Nat \ {0, 1} /\ Wrap \in Nat /\ Wrap >= 4 * Capacity /\ Capacity < Wrap
  <1>1. "producer" \in Ends /\ "consumer" \in Ends
    BY DEF Ends
  <1>2. \A e \in Ends : ring.position[e] \in Positions /\ header[e] \in Positions /\ view[e] \in Views
    BY StepTypes DEF RingRecords
  <1>3. \A e \in Ends : /\ view[e].local \in Positions /\ view[e].peer \in Positions
                        /\ view[e].reserved \in BOOLEAN /\ view[e].failed \in BOOLEAN
    BY <1>2 DEF Views
  <1>4. Capacity \in Nat \ {0, 1} /\ Wrap \in Nat /\ Wrap >= 4 * Capacity /\ Capacity < Wrap
    BY DEF RingsAssumption
  <1>5. Known \in Positions
    BY <1>1, <1>2, <1>3 DEF Known
  <1> QED BY <1>1, <1>2, <1>3, <1>4, <1>5

(* What a process that is not attached has of the ring. *)
LEMMA NoViewIs ==
  /\ NoView.at = Nobody /\ ~NoView.reserved /\ ~NoView.failed
  /\ NoView.local = 0 /\ NoView.peer = 0
  BY DEF NoView

(* What an end believes is still so after a step that is quiet for it. *)
Belief(e, v, thr) ==
  /\ v[e].at = Nobody => v[e] = NoView
  /\ v[e].at # Nobody => Believes(e, v[e], thr[v[e].at][e])

LEMMA BeliefQuiet ==
  ASSUME Beliefs, NEW e \in Ends, QuietView(e)
  PROVE  Belief(e, view', thread')
  <1>1. CASE view'[e] = NoView
    BY <1>1, NoViewIs DEF Belief
  <1>2. CASE view'[e] # NoView
    <2>1. /\ view'[e].at = view[e].at /\ view'[e].local = view[e].local
          /\ view'[e].peer = view[e].peer /\ view'[e].reserved = view[e].reserved
          /\ view'[e] = view[e] \/ view[e].at # Nobody
          /\ view[e].at # Nobody => QuietCall(e, thread[view[e].at][e], thread'[view[e].at][e])
      BY <1>2 DEF QuietView
    <2>2. /\ view[e].at = Nobody => view[e] = NoView
          /\ view[e].at # Nobody => Believes(e, view[e], thread[view[e].at][e])
      BY DEF Beliefs
    <2>3. view[e].at # Nobody
      BY <1>2, <2>1, <2>2
    <2> DEFINE t == thread[view[e].at][e]
               u == thread'[view[e].at][e]
    <2>4. /\ Fills(e, view[e]) <= Capacity
          /\ view[e].reserved => HasNext(e, view[e]) /\ t.pc = "idle"
      BY <2>2, <2>3 DEF Believes
    <2>5. QuietCall(e, t, u)
      BY <2>1, <2>3
    <2> HIDE DEF t, u
    <2>6. view[e].reserved => u.pc = "idle"
      BY <2>4, <2>5 DEF QuietCall
    <2>7. Fills(e, view'[e]) = Fills(e, view[e]) /\ (HasNext(e, view'[e]) <=> HasNext(e, view[e]))
      BY <2>1 DEF Fills, HasNext
    <2>8. Believes(e, view'[e], u)
      BY <2>1, <2>4, <2>6, <2>7 DEF Believes
    <2> QED BY <2>1, <2>3, <2>8 DEF u, Belief
  <1> QED BY <1>1, <1>2

LEMMA QuietOrder ==
  ASSUME RingsAssumption, RingInv, OrderInv, QuietRing, \A e \in Ends : QuietView(e),
         header' = header, data' = data, faulty' = faulty
  PROVE  OrderInv'
  <1>1. Beliefs'
    BY BeliefQuiet DEF OrderInv, Beliefs, Belief
  <1>2. KernelPositions'
    <2>1. CASE ring'.state = "free" /\ \A e \in Ends : ring'.position[e] = 0
      BY <2>1 DEF KernelPositions
    <2>2. CASE /\ ring'.state # "free" /\ ring.state # "free" /\ ring'.position = ring.position
               /\ ring'.form = ring.form
      BY <2>2 DEF OrderInv, KernelPositions
    <2> QED BY <2>1, <2>2 DEF QuietRing
  <1>3. ASSUME ring'.state # "free", faulty' = {}
        PROVE  Ordered'
    <2>1. /\ ring.state # "free" /\ faulty = {} /\ ring'.position = ring.position
          /\ \A e \in Ends : ring'.terminal[e] = "failed" => ring.terminal[e] = "failed"
      BY <1>3 DEF QuietRing
    <2>2. Ordered
      BY <2>1 DEF OrderInv
    <2>3. \A e \in Ends : \/ view'[e] = NoView
                          \/ /\ view'[e] = view[e]
                             /\ view[e].at # Nobody =>
                                  QuietCall(e, thread[view[e].at][e], thread'[view[e].at][e])
      BY <2>1 DEF QuietView
    <2>4. "producer" \in Ends /\ "consumer" \in Ends
      BY DEF Ends
    <2>5. Chain'
      <3>1. CASE view'["consumer"] = NoView
        <4>1. Follow(ring.position["consumer"], header["consumer"], Known,
                     ring.position["producer"], header["producer"])
          BY <2>2 DEF Ordered, Chain
        <4>2. /\ ring.position["consumer"] \in Positions /\ header["consumer"] \in Positions
              /\ ring.position["producer"] \in Positions /\ header["producer"] \in Positions
              /\ Known \in Positions
          BY PositionTypes
        <4>3. Follow(ring.position["consumer"], header["consumer"], header["consumer"],
                     ring.position["producer"], header["producer"])
          BY <4>1, <4>2, FollowFirst
        <4>4. Known' = header["consumer"]
          BY <3>1, NoViewIs DEF Known
        <4> QED BY <2>1, <4>3, <4>4 DEF Chain
      <3>2. CASE view'["consumer"] = view["consumer"]
        <4>1. Known' = Known
          BY <3>2 DEF Known
        <4>2. Chain
          BY <2>2 DEF Ordered
        <4> QED BY <2>1, <4>1, <4>2 DEF Chain
      <3> QED BY <2>3, <2>4, <3>1, <3>2
    <2>6. Slots(header["consumer"], header["producer"], data)'
      BY <2>2 DEF Ordered
    <2>7. \A e \in Ends : view'[e].at # Nobody => view'[e].local = header'[e]
      BY <2>2, <2>3, NoViewIs DEF Ordered
    <2>8. Believing' => Behind(view["producer"].peer, ring.position["consumer"], header["producer"])'
      <3> SUFFICES ASSUME Believing'
                   PROVE  Behind(view'["producer"].peer, ring'.position["consumer"], header'["producer"])
        OBVIOUS
      <3>1. view'["producer"] # NoView
        BY NoViewIs DEF Believing
      <3>2. view'["producer"] = view["producer"]
        BY <2>3, <2>4, <3>1
      <3> DEFINE t == thread[view["producer"].at]["producer"]
                 u == thread'[view["producer"].at]["producer"]
      <3>3. view["producer"].at # Nobody /\ ~Attaching(u)
        BY <3>2 DEF Believing
      <3>4. QuietCall("producer", t, u)
        BY <2>3, <2>4, <3>1, <3>3
      <3> HIDE DEF t, u
      <3>5. ~Attaching(t)
        BY <2>1, <3>3, <3>4 DEF QuietCall
      <3>6. Believing
        BY <3>3, <3>5 DEF Believing, t
      <3> QED BY <2>1, <2>2, <3>2, <3>6 DEF Ordered
    <2>9. view'["producer"].reserved => data'[Slot(header'["producer"])] = header'["producer"]
      BY <2>2, <2>3, <2>4, NoViewIs DEF Ordered
    <2>10. \A e \in Ends : ring'.terminal[e] # "failed" /\ ~view'[e].failed
      BY <2>1, <2>2, <2>3, NoViewIs DEF Ordered
    <2> QED BY <2>5, <2>6, <2>7, <2>8, <2>9, <2>10 DEF Ordered
  <1> QED BY <1>1, <1>2, <1>3 DEF OrderInv

----------------------------------------------------------------------------
(* The kernel's operations that leave the positions alone. *)

Ended(s, r) ==
  \/ r.ring.state = "free" /\ \A e \in Ends : r.ring.position[e] = 0
  \/ /\ r.ring.state # "free" /\ s.ring.state # "free" /\ r.ring.position = s.ring.position
     /\ \A e \in Ends : r.ring.terminal[e] = "failed" => s.ring.terminal[e] = "failed"

(* A ring that becomes free loses its positions. *)
LEMMA MaybeFreeEnded ==
  ASSUME NEW s \in Records, s.ring.state # "free"
  PROVE  Ended(s, MaybeFree(s))
  <1>1. CASE \E e \in Ends : s.ring.references[e] # 0
    BY <1>1 DEF MaybeFree, Ended
  <1>2. CASE /\ \A e \in Ends : s.ring.references[e] = 0
             /\ \E e \in Ends : Asleep(s, e) # {}
    <2> DEFINE g == [s.ring EXCEPT !.corrupt = TRUE]
    <2>1. g.state = s.ring.state /\ g.position = s.ring.position /\ g.terminal = s.ring.terminal
      BY DEF Records, RingRecords
    <2>2. MaybeFree(s) = [s EXCEPT !.ring = g]
      BY <1>2 DEF MaybeFree, Records
    <2> HIDE DEF g
    <2>3. MaybeFree(s).ring = g
      BY <2>2 DEF Records
    <2> QED BY <2>1, <2>3 DEF Ended
  <1>3. CASE /\ \A e \in Ends : s.ring.references[e] = 0
             /\ \A e \in Ends : Asleep(s, e) = {}
    <2> DEFINE f == [s EXCEPT !.ring = FreeRing(s.ring.form), !.area.children = @ - 1]
    <2>1. MaybeFree(s) = CloseUnused(f)
      BY <1>3 DEF MaybeFree
    <2>2. f.ring = FreeRing(s.ring.form)
      BY DEF Records
    <2>3. f \in [ring : {f.ring}, area : {f.area}, thread : {f.thread}]
      BY DEF Records
    <2> HIDE DEF f
    <2>4. CloseUnused(f).ring = f.ring
      BY <2>3 DEF CloseUnused
    <2>5. /\ FreeRing(s.ring.form).state = "free"
          /\ \A e \in Ends : FreeRing(s.ring.form).position[e] = 0
      BY DEF FreeRing
    <2> QED BY <2>1, <2>2, <2>4, <2>5 DEF Ended
  <1> QED BY <1>1, <1>2, <1>3

LEMMA ReleasedTerminal ==
  ASSUME NEW s \in Records, NEW e \in Ends
  PROVE  \A x \in Ends : Released(s, e).ring.terminal[x] = "failed" => s.ring.terminal[x] = "failed"
  <1> DEFINE told == IF Last(s, e) THEN [x \in Ends |-> IF x = e THEN "closed" ELSE "dead"]
                     ELSE s.ring.terminal
             ring1 == [s.ring EXCEPT !.references[e] = @ - 1, !.terminal = told]
  <1>1. Released(s, e) = [s EXCEPT !.ring = ring1]
    BY DEF Released, Records
  <1>2. \A x \in Ends : told[x] = "failed" => s.ring.terminal[x] = "failed"
    OBVIOUS
  <1> HIDE DEF told
  <1>3. ring1.terminal = told
    BY DEF Records, RingRecords
  <1> HIDE DEF ring1
  <1>4. Released(s, e).ring = ring1
    BY <1>1 DEF Records
  <1> QED BY <1>2, <1>3, <1>4

(* A released end leaves the positions alone, unless the ring becomes free. *)
LEMMA ReleaseEnded ==
  ASSUME RingsAssumption, NEW s \in Records, NEW e \in Ends, s.ring.state # "free",
         s.ring.references[e] # 0
  PROVE  Ended(s, ReleaseEnd(s, e))
  <1> DEFINE q == Released(s, e)
             w == Wake(Wake(q, e, "closed"), Other(e), "dead")
             m == IF Last(s, e) THEN w ELSE q
  <1>1. /\ q \in Records /\ q.ring.state = s.ring.state /\ q.ring.position = s.ring.position
    BY ReleasedFacts
  <1>2. \A x \in Ends : q.ring.terminal[x] = "failed" => s.ring.terminal[x] = "failed"
    BY ReleasedTerminal
  <1> HIDE DEF q
  <1>3. w \in Records /\ w.ring = q.ring
    BY <1>1, WakeBoth
  <1> HIDE DEF w
  <1>4. m \in Records /\ m.ring = q.ring
    BY <1>1, <1>3
  <1>5. ReleaseEnd(s, e) = MaybeFree(m)
    BY DEF ReleaseEnd, m, w, q
  <1> HIDE DEF m
  <1>6. Ended(m, MaybeFree(m))
    BY <1>1, <1>4, MaybeFreeEnded
  <1> QED BY <1>1, <1>2, <1>4, <1>5, <1>6 DEF Ended

(* So does a failure. *)
LEMMA FailEnded ==
  ASSUME RingsAssumption, NEW s \in Records, s.ring.state # "free", NEW result \in Results
  PROVE  /\ result # "failed" => Ended(s, Fail(s, result))
         /\ LET r == Fail(s, result)
            IN \/ r.ring.state = "free" /\ \A e \in Ends : r.ring.position[e] = 0
               \/ r.ring.state # "free" /\ r.ring.position = s.ring.position
  <1> DEFINE closing == [s.ring EXCEPT !.state = "closing", !.terminal = [e \in Ends |-> result]]
             q == [s EXCEPT !.ring = closing]
             w == Wake(Wake(q, "producer", result), "consumer", result)
  <1>2. /\ closing \in RingRecords /\ closing.state = "closing"
        /\ closing.position = s.ring.position /\ closing.terminal = [e \in Ends |-> result]
    BY DEF Records, RingRecords
  <1>3. q = [s EXCEPT !.ring.state = "closing", !.ring.terminal = [e \in Ends |-> result]]
    BY DEF Records
  <1> HIDE DEF closing
  <1>4. q \in Records /\ q.ring = closing
    BY <1>2 DEF Records
  <1> HIDE DEF q
  <1>5. Other("producer") = "consumer" /\ "producer" \in Ends
    BY DEF Other, Ends
  <1>6. w \in Records /\ w.ring = closing
    BY <1>4, <1>5, WakeBoth
  <1>7. Fail(s, result) = MaybeFree(w)
    BY <1>3 DEF Fail
  <1> HIDE DEF w
  <1>8. Ended(w, MaybeFree(w))
    BY <1>2, <1>6, MaybeFreeEnded
  <1> QED BY <1>2, <1>6, <1>7, <1>8 DEF Ended

LEMMA SameRing ==
  ASSUME OrderInv, ring'.state = ring.state, ring'.form = ring.form,
         ring'.position = ring.position, ring'.terminal = ring.terminal
  PROVE  QuietRing
  BY DEF OrderInv, KernelPositions, QuietRing

LEMMA EndedRing ==
  ASSUME NEW s, NEW r, s.ring = ring, Ended(s, r), ring' = r.ring, r.ring.form = ring.form
  PROVE  QuietRing
  BY DEF Ended, QuietRing

(* Only thread p of end e goes on, and its end has nothing reserved. *)
LEMMA ThreadOrder ==
  ASSUME RingsAssumption, RingInv, OrderInv, NEW p \in Processes, NEW e \in Ends, NEW u,
         thread' = [thread EXCEPT ![p][e] = u],
         UNCHANGED <<process, area, ring, holds, header, data, view, faulty>>,
         view[e].at = p =>
           ~Attaching(thread[p][e]) /\ (view[e].reserved => thread[p][e].pc # "idle")
  PROVE  OrderInv'
  <1>1. \A x \in Ends : QuietView(x)
    <2> SUFFICES ASSUME NEW x \in Ends, view[x].at # Nobody
                 PROVE  QuietCall(x, thread[view[x].at][x], thread'[view[x].at][x])
      BY DEF QuietView
    <2>1. view[x].at \in Processes
      BY PositionTypes DEF Views
    <2>2. CASE x = e /\ view[x].at = p
      BY <2>2 DEF QuietCall
    <2>3. CASE ~(x = e /\ view[x].at = p)
      <3>1. thread'[view[x].at][x] = thread[view[x].at][x]
        BY <2>1, <2>3, StepTypes
      <3> QED BY <3>1 DEF QuietCall
    <2> QED BY <2>2, <2>3
  <1>2. ring' = ring /\ header' = header /\ data' = data /\ faulty' = faulty
    OBVIOUS
  <1>3. QuietRing
    BY <1>2, SameRing
  <1> QED BY <1>1, <1>2, <1>3, QuietOrder

LEMMA BusyThread ==
  ASSUME NEW p, NEW e, thread[p][e].pc \notin {"idle", "ask"}
  PROVE  view[e].at = p =>
           ~Attaching(thread[p][e]) /\ (view[e].reserved => thread[p][e].pc # "idle")
  BY DEF Attaching

LEMMA GoesOnOrder ==
  ASSUME RingsAssumption, RingInv, OrderInv, NEW p \in Processes, NEW e \in Ends,
         thread[p][e].pc \notin {"idle", "ask"}, NEW pc, GoesOn(p, e, pc)
  PROVE  OrderInv'
  <1> DEFINE u == [thread[p][e] EXCEPT !.pc = pc]
  <1>1. thread' = [thread EXCEPT ![p][e] = u]
    BY StepTypes DEF GoesOn
  <1> HIDE DEF u
  <1> QED BY <1>1, BusyThread, ThreadOrder DEF GoesOn

LEMMA ReturnsOrder ==
  ASSUME RingsAssumption, RingInv, OrderInv, NEW p \in Processes, NEW e \in Ends,
         thread[p][e].pc \notin {"idle", "ask"}, NEW told, Returns(p, e, told)
  PROVE  OrderInv'
  BY BusyThread, ThreadOrder DEF Returns

LEMMA WouldBlockOrder ==
  ASSUME RingsAssumption, RingInv, OrderInv, NEW p \in Processes, NEW e \in Ends,
         thread[p][e].pc = "try", WouldBlock(p, e)
  PROVE  OrderInv'
  BY GoesOnOrder, ReturnsOrder DEF WouldBlock

LEMMA BeginOrder ==
  ASSUME RingsAssumption, RingInv, OrderInv, NEW p \in Processes, NEW e \in Ends,
         NEW call, Begin(p, e, call)
  PROVE  OrderInv'
  <1>1. ~view[e].reserved /\ ~Attaching(thread[p][e])
    BY DEF Begin, Uses, Attaching
  <1> QED BY <1>1, ThreadOrder DEF Begin

LEMMA StartOrder ==
  ASSUME RingsAssumption, RingInv, OrderInv, NEW p \in Processes, NEW e \in Ends,
         NEW length, Start(p, e, length)
  PROVE  OrderInv'
  <1>1. view[e].at # p
    <2>1. p # Nobody /\ ring.form # "shared"
      BY DEF Start, Shared, RingsAssumption
    <2> QED BY <2>1, StepTypes DEF RingInv, ViewsHeld
  <1> QED BY <1>1, ThreadOrder DEF Start

LEMMA BlockOrder ==
  ASSUME RingsAssumption, RingInv, OrderInv, NEW p \in Processes, NEW e \in Ends, Block(p, e)
  PROVE  OrderInv'
  <1> DEFINE result == Readiness(ring, e)
             u == IF result = "sleep" THEN [thread[p][e] EXCEPT !.pc = "asleep"]
                  ELSE After(Now, thread[p][e], e, result)
  <1>1. thread[p][e].pc = "block" /\ thread' = [thread EXCEPT ![p][e] = u]
        /\ UNCHANGED <<process, area, ring, holds, header, data, view, faulty>>
    BY StepTypes DEF Block
  <1> HIDE DEF u
  <1> QED BY <1>1, BusyThread, ThreadOrder

LEMMA EndWaitOrder ==
  ASSUME RingsAssumption, RingInv, OrderInv, NEW p \in Processes, NEW e \in Ends, EndWait(p, e)
  PROVE  OrderInv'
  BY ReturnsOrder DEF EndWait

LEMMA GiveOrder ==
  ASSUME RingsAssumption, RingInv, OrderInv, NEW p \in Processes, NEW q \in Processes,
         NEW e \in Ends, Give(p, q, e)
  PROVE  OrderInv'
  <1>1. /\ view[e].at = Nobody /\ thread' = [thread EXCEPT ![p][e] = Idle] /\ ring' = ring
        /\ header' = header /\ data' = data /\ view' = view /\ faulty' = faulty
    BY DEF Give
  <1>2. \A x \in Ends : QuietView(x)
    <2> SUFFICES ASSUME NEW x \in Ends, view[x].at # Nobody
                 PROVE  QuietCall(x, thread[view[x].at][x], thread'[view[x].at][x])
      BY <1>1 DEF QuietView
    <2>1. view[x].at \in Processes /\ x # e
      BY <1>1, PositionTypes DEF Views
    <2>2. thread'[view[x].at][x] = thread[view[x].at][x]
      BY <1>1, <2>1, StepTypes
    <2> QED BY <2>2 DEF QuietCall
  <1> QED BY <1>1, <1>2, SameRing, QuietOrder

(* The threads of s are woken, if they sleep. *)
LEMMA WokenCall ==
  ASSUME NEW e, NEW form, NEW t, NEW u, Woken(form, t, u)
  PROVE  QuietCall(e, t, u)
  BY DEF Woken, QuietCall, Attaching

LEMMA ForkOrder ==
  ASSUME RingsAssumption, RingInv, OrderInv, NEW p \in Processes, NEW q \in Processes, Fork(p, q)
  PROVE  OrderInv'
  <1> DEFINE copied == IF Shared THEN {} ELSE {e \in Ends : <<p, e>> \in holds}
             refs == [e \in Ends |-> IF e \in copied THEN ring.references[e] + 1
                                     ELSE ring.references[e]]
  <1>1. /\ ring' = [ring EXCEPT !.references = refs]
        /\ header' = header /\ data' = data /\ view' = view /\ thread' = thread
        /\ faulty' = faulty
    BY DEF Fork
  <1> HIDE DEF refs
  <1>2. /\ ring'.state = ring.state /\ ring'.form = ring.form
        /\ ring'.position = ring.position /\ ring'.terminal = ring.terminal
    BY <1>1, StepTypes DEF RingRecords
  <1>3. \A x \in Ends : QuietView(x)
    BY <1>1 DEF QuietView, QuietCall
  <1> QED BY <1>1, <1>2, <1>3, SameRing, QuietOrder

LEMMA ReleaseAreaOrder ==
  ASSUME RingsAssumption, RingInv, OrderInv, NEW p \in Processes, Becomes(ReleaseArea(Now, p)),
         UNCHANGED <<header, data, view, faulty>>
  PROVE  OrderInv'
  <1> DEFINE r == ReleaseArea(Now, p)
  <1>1. r.ring = ring /\ r.thread = thread /\ ring' = r.ring /\ thread' = r.thread
    <2>1. Sound(Now, holds) /\ Now.ring = ring /\ Now.thread = thread
      BY StepTypes
    <2>2. ring' = r.ring /\ thread' = r.thread /\ r = ReleaseArea(Now, p)
      BY DEF Becomes
    <2> HIDE DEF r
    <2> QED BY <2>1, <2>2, ReleaseAreaSound
  <1> HIDE DEF r
  <1>2. \A x \in Ends : QuietView(x)
    BY <1>1 DEF QuietView, QuietCall
  <1> QED BY <1>1, <1>2, SameRing, QuietOrder

(* An end is released: the view of its process goes with it. *)
LEMMA ReleaseEndOrder ==
  ASSUME RingsAssumption, RingInv, OrderInv, NEW p \in Processes, NEW e \in Ends,
         <<p, e>> \in holds, NEW s, Sound(s, holds), OthersStay(s, p, e),
         NEW r, r = ReleaseEnd(s, e), Becomes(r), ViewCloses(p, e),
         UNCHANGED <<header, data, faulty>>
  PROVE  OrderInv'
  <1>0. /\ s.ring = ring
        /\ \A x \in Processes, y \in Ends : ~(x = p /\ y = e) => s.thread[x][y] = thread[x][y]
        /\ \A y \in Ends : view'[y] = IF y = e /\ view[y].at = p THEN NoView ELSE view[y]
    BY DEF OthersStay, ViewCloses
  <1>1. Keeps(s, r)
    BY ReleaseEndSound
  <1>2. s \in Records /\ s.ring.state # "free" /\ s.ring.references[e] # 0
    <2>1. s.ring.references[e] = Cardinality(Holders(holds, e)) /\ p \in Holders(holds, e)
      BY DEF Sound, Backs, Holders
    <2>2. s.ring.references[e] # 0
      BY <2>1, HoldersFinite
    <2> QED BY <2>2 DEF Sound, Backs
  <1>3. Ended(s, r)
    BY <1>2, ReleaseEnded
  <1>4. /\ r.ring.form = ring.form /\ ring' = r.ring /\ thread' = r.thread
        /\ \A x \in Processes, y \in Ends : Woken(ring.form, s.thread[x][y], r.thread[x][y])
    BY <1>0, <1>1 DEF Keeps, Becomes
  <1>5. QuietRing
    BY <1>0, <1>3, <1>4, EndedRing
  <1>6. \A x \in Ends : QuietView(x)
    <2> TAKE x \in Ends
    <2>1. CASE x = e /\ view[x].at = p
      BY <1>0, <2>1 DEF QuietView
    <2>2. CASE ~(x = e /\ view[x].at = p)
      <3>1. view'[x] = view[x]
        BY <1>0, <2>2
      <3>2. ASSUME view[x].at # Nobody
            PROVE  QuietCall(x, thread[view[x].at][x], thread'[view[x].at][x])
        <4>1. view[x].at \in Processes
          BY <3>2, PositionTypes DEF Views
        <4>2. Woken(ring.form, thread[view[x].at][x], thread'[view[x].at][x])
          BY <1>0, <1>4, <2>2, <4>1
        <4> QED BY <4>2, WokenCall
      <3> QED BY <3>1, <3>2 DEF QuietView
    <2> QED BY <2>1, <2>2
  <1> QED BY <1>5, <1>6, QuietOrder

LEMMA CloseEndOrder ==
  ASSUME RingsAssumption, RingInv, OrderInv, NEW p \in Processes, NEW e \in Ends, CloseEnd(p, e)
  PROVE  OrderInv'
  <1> DEFINE t == thread[p][e]
             u == IF t.pc = "asleep" THEN [t EXCEPT !.want = 0] ELSE Idle
             s == Goes(Now, p, e, u)
             r == ReleaseEnd(s, e)
  <1>1. /\ <<p, e>> \in holds /\ Becomes(r)
        /\ view' = IF view[e].at = p THEN [view EXCEPT ![e] = NoView] ELSE view
        /\ UNCHANGED <<header, data, faulty>>
    BY DEF CloseEnd, Goes
  <1>2. t \in Calls
    BY StepTypes
  <1>3. u \in Calls /\ (u.pc # "asleep" \/ t.pc = "asleep")
    BY <1>2, IdleFacts DEF Calls
  <1>4. Now \in Records /\ Sound(Now, holds) /\ Now.ring = ring /\ Now.area = area
        /\ Now.thread = thread
    BY StepTypes
  <1> HIDE DEF u, t
  <1>5. Sound(s, holds)
    BY <1>3, <1>4, GoesSound DEF t
  <1>6. OthersStay(s, p, e)
    <2>1. /\ s.ring = Now.ring /\ s.area = Now.area
          /\ \A x \in Processes, y \in Ends :
               s.thread[x][y] = IF x = p /\ y = e THEN u ELSE Now.thread[x][y]
      BY <1>3, <1>4, GoesFacts
    <2> HIDE DEF s
    <2> QED BY <1>4, <2>1 DEF OthersStay
  <1>7. r = ReleaseEnd(s, e)
    OBVIOUS
  <1> HIDE DEF s, r
  <1>8. ViewCloses(p, e)
    BY <1>1, StepTypes, NoViewFacts DEF ViewCloses
  <1> QED BY <1>1, <1>5, <1>6, <1>7, <1>8, ReleaseEndOrder

LEMMA ReapOrder ==
  ASSUME RingsAssumption, RingInv, OrderInv, NEW p \in Processes, Reap(p)
  PROVE  OrderInv'
  <1>1. process[p] = "exited" /\ UNCHANGED <<header, data, view, faulty>>
    BY DEF Reap
  <1>2. ASSUME NEW e \in Ends, <<p, e>> \in holds, Becomes(ReleaseEnd(Now, e))
        PROVE  OrderInv'
    <2>1. Sound(Now, holds) /\ OthersStay(Now, p, e)
      BY StepTypes DEF OthersStay
    <2>2. view[e].at # p
      <3>1. p # Nobody
        BY DEF RingsAssumption
      <3> QED BY <1>1, <3>1 DEF RingInv, ViewsHeld
    <2>3. ViewCloses(p, e)
      BY <1>1, <2>2, StepTypes DEF ViewCloses
    <2> DEFINE r == ReleaseEnd(Now, e)
    <2>4. r = ReleaseEnd(Now, e) /\ Becomes(r)
      BY <1>2
    <2> HIDE DEF r
    <2> QED BY <1>1, <1>2, <2>1, <2>3, <2>4, ReleaseEndOrder
  <1>3. ASSUME Becomes(ReleaseArea(Now, p))
        PROVE  OrderInv'
    BY <1>1, <1>3, ReleaseAreaOrder
  <1> QED BY <1>2, <1>3 DEF Reap

LEMMA CloseAreaOrder ==
  ASSUME RingsAssumption, RingInv, OrderInv, NEW p \in Processes, CloseArea(p)
  PROVE  OrderInv'
  BY ReleaseAreaOrder DEF CloseArea

LEMMA ExitOrder ==
  ASSUME RingsAssumption, RingInv, OrderInv, NEW p \in Processes, Exit(p)
  PROVE  OrderInv'
  <1> DEFINE gone == [Now EXCEPT !.thread[p] = [e \in Ends |-> Idle]]
             s == IF Shared /\ ring.state = "open" /\ p \in {ring.owner, area.creator}
                    THEN Fail(gone, "dead") ELSE gone
             r == [s EXCEPT !.area.mapped = @ \ {p}]
  <1>1. /\ Becomes(r) /\ header' = header /\ data' = data /\ faulty' = faulty
        /\ view' = [e \in Ends |-> IF view[e].at = p THEN NoView ELSE view[e]]
    BY DEF Exit
  <1>2. /\ gone \in Records /\ gone.ring = ring /\ gone.area = area
        /\ \A x \in Processes, y \in Ends :
             gone.thread[x][y] = IF x = p THEN Idle ELSE thread[x][y]
    <2> DEFINE f == [thread EXCEPT ![p] = [e \in Ends |-> Idle]]
    <2>1. f \in [Processes -> [Ends -> Calls]]
      BY IdleFacts, StepTypes
    <2>2. \A x \in Processes, y \in Ends : f[x][y] = IF x = p THEN Idle ELSE thread[x][y]
      BY StepTypes
    <2>3. gone = [Now EXCEPT !.thread = f]
      BY StepTypes DEF Records
    <2> HIDE DEF f, gone
    <2>4. gone \in Records /\ gone.ring = ring /\ gone.area = area /\ gone.thread = f
      BY <2>1, <2>3, StepTypes DEF Records
    <2> QED BY <2>2, <2>4
  <1> HIDE DEF gone
  <1>3. Sound(gone, holds)
    <2>1. Heard(gone)
      <3> SUFFICES ASSUME NEW x \in Processes, NEW y \in Ends, gone.thread[x][y].pc = "asleep"
                   PROVE  /\ ring.state = "open" /\ Room(ring, y) = 0
                          /\ ring.references[y] # 0 /\ ring.references[Other(y)] # 0
        BY <1>2 DEF Heard
      <3>1. thread[x][y].pc = "asleep"
        BY <1>2, IdleFacts
      <3> QED BY <3>1, StepTypes DEF Sound, Heard
    <2> QED BY <1>2, <2>1, StepTypes DEF Sound, Backs
  <1>4. /\ s \in Records /\ s.ring.form = ring.form
        /\ \A x \in Processes, y \in Ends : Woken(ring.form, gone.thread[x][y], s.thread[x][y])
        /\ s.ring = ring \/ Ended(gone, s)
    <2>1. CASE Shared /\ ring.state = "open" /\ p \in {ring.owner, area.creator}
      <3>1. /\ Sound(Fail(gone, "dead"), holds) /\ Keeps(gone, Fail(gone, "dead"))
            /\ Ended(gone, Fail(gone, "dead"))
        BY <1>2, <1>3, <2>1, FailSound, FailEnded DEF Results
      <3>2. s = Fail(gone, "dead")
        BY <2>1
      <3> HIDE DEF s
      <3> QED BY <1>2, <3>1, <3>2 DEF Keeps, Sound
    <2>2. CASE ~(Shared /\ ring.state = "open" /\ p \in {ring.owner, area.creator})
      <3>1. s = gone
        BY <2>2
      <3> HIDE DEF s
      <3> QED BY <1>2, <3>1 DEF Woken
    <2> QED BY <2>1, <2>2
  <1> HIDE DEF s
  <1>5. ring' = s.ring /\ thread' = s.thread
    <2> DEFINE a == [s.area EXCEPT !.mapped = @ \ {p}]
    <2>1. r = [s EXCEPT !.area = a]
      BY <1>4 DEF Records
    <2> HIDE DEF a, r
    <2>2. r.ring = s.ring /\ r.thread = s.thread
      BY <1>4, <2>1 DEF Records
    <2> QED BY <1>1, <2>2 DEF Becomes
  <1>6. QuietRing
    BY <1>2, <1>4, <1>5, SameRing, EndedRing
  <1>7. \A x \in Ends : QuietView(x)
    <2> TAKE x \in Ends
    <2>1. CASE view[x].at = p
      BY <1>1, <2>1 DEF QuietView
    <2>2. CASE view[x].at # p
      <3>1. view'[x] = view[x]
        BY <1>1, <2>2
      <3>2. ASSUME view[x].at # Nobody
            PROVE  QuietCall(x, thread[view[x].at][x], thread'[view[x].at][x])
        <4>1. view[x].at \in Processes
          BY <3>2, PositionTypes DEF Views
        <4>2. Woken(ring.form, thread[view[x].at][x], thread'[view[x].at][x])
          BY <1>2, <1>4, <1>5, <2>2, <4>1
        <4> QED BY <4>2, WokenCall
      <3> QED BY <3>1, <3>2 DEF QuietView
    <2> QED BY <2>1, <2>2
  <1> QED BY <1>1, <1>6, <1>7, QuietOrder

----------------------------------------------------------------------------
(* What a library call finds. *)

(* While all keep to the library, the header is never found invalid. *)
LEMMA HeaderFine ==
  ASSUME RingsAssumption, RingInv, OrderInv, NEW e \in Ends, view[e].at # Nobody,
         ~HeaderValid(e)
  PROVE  faulty # {}
  <1> SUFFICES ASSUME faulty = {}
               PROVE  HeaderValid(e)
    OBVIOUS
  <1>1. ring.state # "free"
    <2>1. <<view[e].at, e>> \in holds /\ view[e].at \in Processes
      BY PositionTypes DEF RingInv, ViewsHeld, Views
    <2> QED BY <2>1, StepTypes
  <1>2. Chain /\ view[e].local = header[e]
    BY <1>1 DEF OrderInv, Ordered
  <1> DEFINE C == ring.position["consumer"]
             hc == header["consumer"]
             hp == header["producer"]
  <1>3. C \in Positions /\ hc \in Positions /\ hp \in Positions /\ Known \in Positions
        /\ ring.position["producer"] \in Positions
    BY PositionTypes
  <1>4. Follow(C, hc, Known, ring.position["producer"], hp)
    BY <1>2 DEF Chain
  <1> HIDE DEF C, hc, hp
  <1>5. Ahead(hp, hc) <= Capacity
    <2>1. /\ Ahead(hc, C) \in Nat /\ Ahead(Known, C) \in Nat /\ Ahead(hp, C) \in Nat
          /\ Ahead(ring.position["producer"], C) \in Nat /\ Capacity \in Nat
      BY <1>3, Distances DEF RingsAssumption
    <2>2. Ahead(hc, C) <= Ahead(hp, C) /\ Ahead(hp, C) <= Capacity
      BY <1>4, <2>1 DEF Follow
    <2>3. Ahead(hp, hc) = Ahead(hp, C) - Ahead(hc, C)
      BY <1>3, <2>2, AheadSum
    <2> QED BY <2>1, <2>2, <2>3
  <1> QED BY <1>2, <1>5 DEF HeaderValid, hp, hc

LEMMA ReportOrder ==
  ASSUME RingsAssumption, RingInv, OrderInv, NEW p \in Processes, NEW e \in Ends,
         view[e].at = p, faulty # {}, Report(p, e)
  PROVE  OrderInv'
  <1> DEFINE s == IF ring.state = "open" THEN Fail(Now, "failed") ELSE Now
             f == (view[e].at # Nobody /\ Attached(e))
             w == [ViewAfter(p, e) EXCEPT !.failed = f]
             u == Told("failed")
             r == Goes(s, p, e, u)
  <1>1. u \in Calls /\ u.pc = "idle"
    BY ToldFacts
  <1>2. Becomes(r) /\ view' = [view EXCEPT ![e] = w]
        /\ header' = header /\ data' = data /\ faulty' = faulty
    BY DEF Report, Goes
  <1>3. view[e] \in Views /\ f \in BOOLEAN /\ p # Nobody
    BY StepTypes DEF RingsAssumption
  <1>4. w = NoView \/ /\ w.at = view[e].at /\ w.local = view[e].local
                      /\ w.peer = view[e].peer /\ w.reserved = view[e].reserved
    <2>1. CASE thread[p][e].call = "attach"
      <3>1. ~f /\ ViewAfter(p, e) = NoView
        BY <1>3, <2>1 DEF Attached, ViewAfter
      <3> HIDE DEF f
      <3>2. f = FALSE
        BY <1>3, <3>1
      <3> DEFINE a == ViewAfter(p, e)
      <3>3. a \in Views /\ f = a.failed /\ a = NoView
        <4>1. NoView.failed = FALSE
          BY DEF NoView
        <4> QED BY <3>1, <3>2, <4>1, NoViewFacts
      <3> HIDE DEF a
      <3>4. [a EXCEPT !.failed = f] = a
        BY <3>3 DEF Views
      <3> QED BY <3>3, <3>4 DEF a
    <2>2. CASE thread[p][e].call # "attach"
      <3>1. ViewAfter(p, e) = view[e]
        BY <2>2 DEF ViewAfter
      <3> HIDE DEF f
      <3> QED BY <1>3, <3>1 DEF Views
    <2> QED BY <2>1, <2>2
  <1> HIDE DEF u, f, w
  <1>5. /\ s \in Records /\ s.ring.form = ring.form
        /\ \A x \in Processes, y \in Ends : Woken(ring.form, thread[x][y], s.thread[x][y])
        /\ \/ s.ring = ring
           \/ s.ring.state = "free" /\ \A x \in Ends : s.ring.position[x] = 0
           \/ s.ring.state # "free" /\ ring.state # "free" /\ s.ring.position = ring.position
    <2>1. CASE ring.state = "open"
      <3> DEFINE d == Fail(Now, "failed")
      <3>1. Now \in Records /\ Sound(Now, holds) /\ Now.ring = ring /\ Now.thread = thread
        BY StepTypes
      <3>2. /\ Sound(d, holds) /\ Keeps(Now, d)
            /\ \/ d.ring.state = "free" /\ \A x \in Ends : d.ring.position[x] = 0
               \/ d.ring.state # "free" /\ d.ring.position = Now.ring.position
        BY <2>1, <3>1, FailSound, FailEnded DEF Results
      <3>3. s = d
        BY <2>1
      <3> HIDE DEF s, d
      <3> QED BY <2>1, <3>1, <3>2, <3>3 DEF Keeps, Sound
    <2>2. CASE ring.state # "open"
      <3>1. s = Now
        BY <2>2
      <3> HIDE DEF s
      <3> QED BY <3>1, StepTypes DEF Woken
    <2> QED BY <2>1, <2>2
  <1> HIDE DEF s
  <1>6. /\ ring' = s.ring
        /\ \A x \in Processes, y \in Ends :
             thread'[x][y] = IF x = p /\ y = e THEN u ELSE s.thread[x][y]
    <2>1. /\ r.ring = s.ring
          /\ \A x \in Processes, y \in Ends :
               r.thread[x][y] = IF x = p /\ y = e THEN u ELSE s.thread[x][y]
      BY <1>1, <1>5, GoesFacts
    <2> HIDE DEF r
    <2> QED BY <1>2, <2>1 DEF Becomes
  <1> HIDE DEF r
  <1>7. QuietRing
    BY <1>5, <1>6, SameRing DEF QuietRing
  <1>8. \A x \in Ends : QuietView(x)
    <2> TAKE x \in Ends
    <2>1. CASE x = e
      <3>1. view'[x] = w /\ thread'[p][x] = u
        BY <1>2, <1>6, <2>1, StepTypes
      <3> QED BY <1>1, <1>3, <1>4, <2>1, <3>1 DEF QuietView, QuietCall
    <2>2. CASE x # e
      <3>1. view'[x] = view[x]
        BY <1>2, <2>2
      <3>2. ASSUME view[x].at # Nobody
            PROVE  QuietCall(x, thread[view[x].at][x], thread'[view[x].at][x])
        <4>1. view[x].at \in Processes
          BY <3>2, PositionTypes DEF Views
        <4>2. Woken(ring.form, thread[view[x].at][x], thread'[view[x].at][x])
          BY <1>5, <1>6, <2>2, <4>1
        <4> QED BY <4>2, WokenCall
      <3> QED BY <3>1, <3>2 DEF QuietView
    <2> QED BY <2>1, <2>2
  <1> QED BY <1>2, <1>7, <1>8, QuietOrder

(* An end tells the kernel its position and learns the other's. *)
LEMMA Learns ==
  ASSUME RingsAssumption, RingInv, OrderInv, NEW e \in Ends,
         view[e].at # Nobody, ring.state # "free", ring.form = "shared", ~view[e].reserved,
         ring' = [ring EXCEPT !.position[e] = view[e].local], Used(ring') <= Capacity,
         view' = [view EXCEPT ![e] = [@ EXCEPT !.peer = ring.position[Other(e)]]],
         \A x \in Ends : x # e /\ view[x].at # Nobody =>
           QuietCall(x, thread[view[x].at][x], thread'[view[x].at][x]),
         header' = header, data' = data, faulty' = faulty
  PROVE  OrderInv'
  <1> DEFINE w == [view[e] EXCEPT !.peer = ring.position[Other(e)]]
             C == ring.position["consumer"]
             P == ring.position["producer"]
             hc == header["consumer"]
             hp == header["producer"]
  <1>1. /\ ring'.state = ring.state /\ ring'.form = ring.form /\ ring'.terminal = ring.terminal
        /\ ring'.position = [ring.position EXCEPT ![e] = view[e].local]
    BY StepTypes DEF RingRecords
  <1>2. /\ w.at = view[e].at /\ w.local = view[e].local /\ w.peer = ring.position[Other(e)]
        /\ ~w.reserved /\ w.failed = view[e].failed
    BY StepTypes DEF Views
  <1>3. view'[e] = w /\ \A x \in Ends : x # e => view'[x] = view[x]
    BY StepTypes
  <1> HIDE DEF w
  <1>4. ring.position \in [Ends -> Positions] /\ "producer" \in Ends /\ "consumer" \in Ends
    BY StepTypes DEF RingRecords, Ends
  <1>5. /\ e = "producer" => /\ ring'.position["producer"] = view[e].local
                             /\ ring'.position["consumer"] = C /\ w.peer = C
        /\ e = "consumer" => /\ ring'.position["consumer"] = view[e].local
                             /\ ring'.position["producer"] = P /\ w.peer = P
    BY <1>1, <1>2, <1>4 DEF Other
  <1>6. e = "producer" \/ e = "consumer"
    BY DEF Ends
  <1>7. Beliefs'
    <2> SUFFICES ASSUME NEW x \in Ends
                 PROVE  Belief(x, view', thread')
      BY DEF Beliefs, Belief
    <2>1. CASE x = e
      <3>1. Fills(e, w) <= Capacity
        BY <1>2, <1>5, <1>6 DEF Fills, Used
      <3> QED BY <1>2, <1>3, <2>1, <3>1 DEF Belief, Believes
    <2>2. CASE x # e
      <3>1. QuietView(x)
        BY <1>3, <2>2 DEF QuietView
      <3> QED BY <3>1, BeliefQuiet DEF OrderInv
    <2> QED BY <2>1, <2>2
  <1>8. KernelPositions'
    BY <1>1 DEF KernelPositions
  <1>9. ASSUME faulty = {}
        PROVE  Ordered'
    <2>1. Ordered
      BY <1>9 DEF OrderInv
    <2>2. Follow(C, hc, Known, P, hp)
      BY <2>1 DEF Ordered, Chain
    <2>3. C \in Positions /\ P \in Positions /\ hc \in Positions /\ hp \in Positions
          /\ Known \in Positions /\ view["producer"].peer \in Positions
      BY PositionTypes
    <2>4. view[e].local = header[e]
      BY <2>1 DEF Ordered
    <2> HIDE DEF C, P, hc, hp
    <2>5. /\ Follow(C, hc, Known, hp, hp) /\ Behind(C, C, hp)
      BY <2>2, <2>3, ProducerAsks
    <2>6. /\ Follow(hc, hc, P, P, hp)
          /\ \A peer \in Positions : Behind(peer, C, hp) /\ Ahead(hp, peer) <= Capacity =>
               Behind(peer, hc, hp)
      BY <2>2, <2>3, ConsumerAsks
    <2>7. CASE e = "producer"
      <3>1. Known' = Known
        BY <1>3, <1>4, <2>7 DEF Known
      <3>2. Chain'
        BY <1>5, <2>4, <2>5, <2>7, <3>1 DEF Chain, C, hc, hp
      <3>3. Behind(view'["producer"].peer, ring'.position["consumer"], header'["producer"])
        BY <1>3, <1>5, <2>5, <2>7 DEF C, hp
      <3> QED BY <1>1, <1>2, <1>3, <2>1, <2>7, <3>2, <3>3 DEF Ordered
    <2>8. CASE e = "consumer"
      <3>1. Known' = P
        BY <1>2, <1>3, <1>5, <2>8 DEF Known, P
      <3>2. Chain'
        BY <1>5, <2>4, <2>6, <2>8, <3>1 DEF Chain, P, hc, hp
      <3>3. view'["producer"] = view["producer"]
        BY <1>3, <1>4, <2>8
      <3>4. Believing' => Behind(view'["producer"].peer, ring'.position["consumer"], header'["producer"])
        <4> SUFFICES ASSUME Believing'
                     PROVE  Behind(view["producer"].peer, hc, hp)
          BY <1>5, <2>4, <2>8, <3>3 DEF hc, hp
        <4> DEFINE t == thread[view["producer"].at]["producer"]
                   u == thread'[view["producer"].at]["producer"]
        <4>1. view["producer"].at # Nobody /\ ~Attaching(u)
          BY <3>3 DEF Believing
        <4>2. QuietCall("producer", t, u)
          BY <1>4, <2>8, <4>1
        <4> HIDE DEF t, u
        <4>3. ~Attaching(t)
          BY <1>9, <4>1, <4>2 DEF QuietCall
        <4>4. Believing
          BY <4>1, <4>3 DEF Believing, t
        <4>5. Behind(view["producer"].peer, C, hp)
          BY <2>1, <4>4 DEF Ordered, C, hp
        <4>6. Ahead(view["producer"].local, view["producer"].peer) <= Capacity
          BY <1>4, <4>1 DEF OrderInv, Beliefs, Believes, Fills
        <4>7. view["producer"].local = hp
          BY <1>4, <2>1, <4>1 DEF Ordered, hp
        <4> QED BY <2>3, <2>6, <4>5, <4>6, <4>7
      <3> QED BY <1>1, <1>2, <1>3, <2>1, <2>8, <3>2, <3>3, <3>4 DEF Ordered
    <2> QED BY <1>6, <2>7, <2>8
  <1> QED BY <1>7, <1>8, <1>9 DEF OrderInv

(* While all keep to the library, no position is refused. *)
LEMMA NotRefused ==
  ASSUME RingsAssumption, RingInv, OrderInv, NEW e \in Ends, view[e].at # Nobody,
         ring.state # "free", faulty = {}
  PROVE  Ahead(view[e].local, ring.position[e]) <= Room(ring, e)
  <1> DEFINE C == ring.position["consumer"]
             P == ring.position["producer"]
             hc == header["consumer"]
             hp == header["producer"]
  <1>1. Follow(C, hc, Known, P, hp) /\ view[e].local = header[e]
    BY DEF OrderInv, Ordered, Chain
  <1>2. C \in Positions /\ P \in Positions /\ hc \in Positions /\ hp \in Positions
        /\ Known \in Positions
    BY PositionTypes
  <1>3. e = "producer" \/ e = "consumer"
    BY DEF Ends
  <1> HIDE DEF C, P, hc, hp
  <1>4. Ahead(hp, P) <= Capacity - Ahead(P, C)
    BY <1>1, <1>2, ProducerAsks
  <1>5. Ahead(hc, C) <= Ahead(P, C)
    BY <1>1, <1>2, ConsumerAsks
  <1> QED BY <1>1, <1>3, <1>4, <1>5 DEF Room, Used, C, P, hc, hp

LEMMA AskOrder ==
  ASSUME RingsAssumption, RingInv, OrderInv, NEW p \in Processes, NEW e \in Ends, Ask(p, e)
  PROVE  OrderInv'
  <1> DEFINE t == thread[p][e]
             answer == Notify(Now, e, view[e].local)
             s == answer[1]
             ok == answer[2] = "ok"
             u == IF ok THEN [t EXCEPT !.pc = "recheck"] ELSE Told(answer[2])
             w == IF ok THEN [view[e] EXCEPT !.peer = s.ring.position[Other(e)]]
                  ELSE ViewAfter(p, e)
  <1>1. t.pc = "ask" /\ t \in Calls /\ Fits(ring.form, t, holds, view, process, p, e)
    BY StepTypes DEF Ask
  <1>2. /\ ring.form = "shared" /\ <<p, e>> \in holds /\ view[e].at = p /\ p # Nobody
        /\ ring.state # "free"
    BY <1>1, StepTypes DEF Fits, RingsAssumption
  <1>3. view[e] \in Views /\ view[e].local \in Positions
    BY PositionTypes
  <1>4. CASE ~HeaderValid(e) /\ Report(p, e)
    BY <1>2, <1>4, HeaderFine, ReportOrder
  <1>5. CASE ~(~HeaderValid(e) /\ Report(p, e))
    <2>1. Sound(Now, holds) /\ Now.ring = ring /\ Now.thread = thread
      BY StepTypes
    <2>2. Notified(Now, holds, e, view[e].local, answer, s)
      <3>1. answer = Notify(Now, e, view[e].local) /\ s = answer[1] /\ Now.ring.state # "free"
        BY <1>2, <2>1
      <3> HIDE DEF answer, s
      <3> QED BY <1>3, <2>1, <3>1, NotifySound
    <2>3. /\ Becomes([s EXCEPT !.thread[p][e] =
                 IF ok THEN [@ EXCEPT !.pc = "recheck"] ELSE Told(answer[2])])
          /\ view' = [view EXCEPT ![e] =
                 IF ok THEN [@ EXCEPT !.peer = s.ring.position[Other(e)]]
                 ELSE ViewAfter(p, e)]
          /\ header' = header /\ data' = data /\ faulty' = faulty
      BY <1>5 DEF Ask
    <2> HIDE DEF answer, s
    <2>4. /\ s \in Records /\ s.ring.form = ring.form /\ Used(s.ring) <= Capacity
          /\ \A x \in Processes, y \in Ends : Woken(ring.form, thread[x][y], s.thread[x][y])
      BY <2>1, <2>2 DEF Notified, Sound
    <2>5. s.thread[p][e] = t
      BY <1>1, <2>4 DEF Woken
    <2>6. Becomes(Goes(s, p, e, u))
      BY <2>3, <2>5 DEF Goes
    <2>7. view' = [view EXCEPT ![e] = w]
      BY <2>3
    <2>8. u \in Calls
      <3>1. [t EXCEPT !.pc = "recheck"] \in Calls
        BY <1>1 DEF Calls
      <3> HIDE DEF t, ok
      <3> QED BY <3>1, ToldFacts
    <2> HIDE DEF u, t
    <2>9. /\ ring' = s.ring
          /\ \A x \in Processes, y \in Ends :
               thread'[x][y] = IF x = p /\ y = e THEN u ELSE s.thread[x][y]
      <3> DEFINE r == Goes(s, p, e, u)
      <3>1. /\ r.ring = s.ring
            /\ \A x \in Processes, y \in Ends :
                 r.thread[x][y] = IF x = p /\ y = e THEN u ELSE s.thread[x][y]
        BY <2>4, <2>8, GoesFacts
      <3>2. ring' = r.ring /\ thread' = r.thread
        BY <2>6 DEF Becomes
      <3> HIDE DEF r
      <3> QED BY <3>1, <3>2
    <2>10. \A x \in Ends : x # e /\ view[x].at # Nobody =>
             QuietCall(x, thread[view[x].at][x], thread'[view[x].at][x])
      <3> SUFFICES ASSUME NEW x \in Ends, x # e, view[x].at # Nobody
                   PROVE  QuietCall(x, thread[view[x].at][x], thread'[view[x].at][x])
        OBVIOUS
      <3>1. view[x].at \in Processes
        BY PositionTypes DEF Views
      <3>2. Woken(ring.form, thread[view[x].at][x], thread'[view[x].at][x])
        BY <2>4, <2>9, <3>1
      <3> QED BY <3>2, WokenCall
    <2>11. ~view[e].reserved
      BY <1>1, <1>2 DEF OrderInv, Beliefs, Believes, t
    <2>12. CASE ok
      <3>1. s.ring = [ring EXCEPT !.position[e] = view[e].local]
        BY <2>1, <2>2, <2>12 DEF Notified
      <3>2. s.ring.position[Other(e)] = ring.position[Other(e)]
        <4>1. Other(e) # e /\ ring.position \in [Ends -> Positions]
          BY StepTypes DEF Other, Ends, RingRecords
        <4>2. s.ring.position = [ring.position EXCEPT ![e] = view[e].local]
          BY <3>1, StepTypes DEF RingRecords
        <4>3. Other(e) \in Ends
          BY DEF Other, Ends
        <4> QED BY <4>1, <4>2, <4>3
      <3>3. view' = [view EXCEPT ![e] = [@ EXCEPT !.peer = ring.position[Other(e)]]]
        BY <2>3, <2>12, <3>2
      <3> QED BY <1>2, <2>3, <2>4, <2>9, <2>10, <2>11, <3>1, <3>3, Learns
    <2>13. CASE ~ok
      <3>1. QuietRing
        <4>1. s = Now \/ /\ s = Fail(Now, "failed") /\ ring.state = "open"
                         /\ Ahead(view[e].local, ring.position[e]) > Room(ring, e)
          BY <2>1, <2>2, <2>13 DEF Notified
        <4>2. CASE s = Now
          BY <2>1, <2>9, <4>2, SameRing
        <4>3. CASE /\ s = Fail(Now, "failed") /\ ring.state = "open"
                   /\ Ahead(view[e].local, ring.position[e]) > Room(ring, e)
          <5>1. faulty # {}
            <6>1. Ahead(view[e].local, ring.position[e]) \in Nat /\ Room(ring, e) \in Nat
              BY PositionTypes, Distances, RoomNat
            <6> QED BY <1>2, <4>3, <6>1, NotRefused
          <5>2. \/ s.ring.state = "free" /\ \A x \in Ends : s.ring.position[x] = 0
                \/ s.ring.state # "free" /\ s.ring.position = ring.position
            BY <1>2, <2>1, <4>3, FailEnded DEF Results, Sound
          <5> QED BY <1>2, <2>4, <2>9, <5>1, <5>2 DEF QuietRing
        <4> QED BY <4>1, <4>2, <4>3
      <3>2. \A x \in Ends : QuietView(x)
        <4> TAKE x \in Ends
        <4>1. CASE x = e
          <5>1. view'[x] = IF t.call = "attach" THEN NoView ELSE view[x]
            BY <2>3, <2>13, <4>1, StepTypes DEF ViewAfter, t
          <5>2. t.call # "attach" => QuietCall(x, t, thread'[p][x])
            BY <1>1, <2>11, <4>1 DEF QuietCall, Attaching
          <5> QED BY <1>2, <4>1, <5>1, <5>2 DEF QuietView, t
        <4>2. CASE x # e
          <5>1. view'[x] = view[x]
            BY <2>3, <4>2
          <5> QED BY <2>10, <4>2, <5>1 DEF QuietView
        <4> QED BY <4>1, <4>2
      <3> QED BY <2>3, <3>1, <3>2, QuietOrder
    <2> QED BY <2>12, <2>13
  <1> QED BY <1>4, <1>5

LEMMA RecheckOrder ==
  ASSUME RingsAssumption, RingInv, OrderInv, NEW p \in Processes, NEW e \in Ends, Recheck(p, e)
  PROVE  OrderInv'
  <1>1. thread[p][e].pc = "recheck" /\ Fits(ring.form, thread[p][e], holds, view, process, p, e)
    BY StepTypes DEF Recheck
  <1>2. view[e].at = p /\ p # Nobody
    BY <1>1 DEF Fits, RingsAssumption
  <1>3. CASE ~HeaderValid(e) /\ Report(p, e)
    BY <1>2, <1>3, HeaderFine, ReportOrder
  <1>4. CASE GoesOn(p, e, "block")
    BY <1>1, <1>4, GoesOnOrder
  <1>5. CASE Returns(p, e, "none")
    BY <1>1, <1>5, ReturnsOrder
  <1> QED BY <1>3, <1>4, <1>5 DEF Recheck

(* The producer writes the next element, in a slot of its own. *)
Written(d, k, x) == [d EXCEPT ![k] = x]

LEMMA SlotsReserved ==
  ASSUME RingsAssumption, NEW hc \in Positions, NEW hp \in Positions,
         NEW d \in [0 .. Capacity - 1 -> Positions], Slots(hc, hp, d),
         Ahead(hp, hc) < Capacity, NEW k, k = Slot(hp), NEW f, f = Written(d, k, hp)
  PROVE  Slots(hc, hp, f) /\ f[k] = hp
  <1>1. k \in 0 .. Capacity - 1
    BY SlotTypes
  <1>2. ASSUME NEW x \in Positions, Ahead(x, hc) < Ahead(hp, hc)
        PROVE  Slot(x) # k /\ d[Slot(x)] = x
    <2>1. Ahead(x, hc) \in Nat /\ Ahead(hp, hc) \in Nat /\ Capacity \in Nat
      BY Distances DEF RingsAssumption
    <2>2. Ahead(hp, x) = Ahead(hp, hc) - Ahead(x, hc)
      BY <1>2, <2>1, AheadSum
    <2>3. 0 < Ahead(hp, x) /\ Ahead(hp, x) < Capacity
      BY <1>2, <2>1, <2>2
    <2> QED BY <1>2, <2>3, SlotsDiffer DEF Slots
  <1>3. \A x \in Positions : Slot(x) \in 0 .. Capacity - 1
    BY SlotTypes
  <1>4. ASSUME NEW x \in Positions, Ahead(x, hc) < Ahead(hp, hc)
        PROVE  f[Slot(x)] = x
    BY <1>2, <1>3, <1>4 DEF Written
  <1> QED BY <1>1, <1>4 DEF Slots, Written

LEMMA SlotsCommitted ==
  ASSUME RingsAssumption, NEW hc \in Positions, NEW hp \in Positions, NEW n \in Positions,
         NEW d, Slots(hc, hp, d), d[Slot(hp)] = hp, Ahead(n, hc) = Ahead(hp, hc) + 1
  PROVE  Slots(hc, n, d)
  <1> SUFFICES ASSUME NEW x \in Positions, Ahead(x, hc) < Ahead(n, hc)
               PROVE  d[Slot(x)] = x
    BY DEF Slots
  <1>1. Ahead(x, hc) \in Nat /\ Ahead(hp, hc) \in Nat
    BY Distances
  <1>2. CASE Ahead(x, hc) < Ahead(hp, hc)
    BY <1>2 DEF Slots
  <1>3. CASE Ahead(x, hc) = Ahead(hp, hc)
    <2>1. Ahead(x, hp) = 0
      BY <1>1, <1>3, AheadSum
    <2> QED BY <2>1, AheadSum
  <1> QED BY <1>1, <1>2, <1>3

LEMMA ReserveOrder ==
  ASSUME RingsAssumption, RingInv, OrderInv, NEW p \in Processes, NEW e \in Ends, Reserve(p, e)
  PROVE  OrderInv'
  <1> DEFINE w == [view[e] EXCEPT !.reserved = TRUE]
             hc == header["consumer"]
             hp == header["producer"]
  <1>1. /\ view[e].at = p /\ view[e] \in Views /\ p # Nobody /\ thread[p][e].pc = "idle"
        /\ "producer" \in Ends /\ "consumer" \in Ends
    BY StepTypes DEF Reserve, Uses, RingsAssumption, Ends
  <1>2. CASE ~HeaderValid(e) /\ Report(p, e)
    BY <1>1, <1>2, HeaderFine, ReportOrder
  <1>3. CASE ~(~HeaderValid(e) /\ Report(p, e))
    <2>1. /\ Ready(e) /\ view' = [view EXCEPT ![e] = w]
          /\ data' = IF e = "producer" THEN [data EXCEPT ![Slot(view[e].local)] = view[e].local]
                     ELSE data
          /\ ring' = ring /\ header' = header /\ thread' = thread /\ faulty' = faulty
      BY <1>3, StepTypes DEF Reserve
    <2>2. /\ w.at = view[e].at /\ w.local = view[e].local /\ w.peer = view[e].peer
          /\ w.failed = view[e].failed
      BY <1>1 DEF Views
    <2> HIDE DEF w
    <2>3. view'[e] = w /\ \A x \in Ends : x # e => view'[x] = view[x]
      BY <2>1, StepTypes
    <2>4. HasNext(e, view[e])
      BY <2>1 DEF Ready, HasNext
    <2>5. Beliefs'
      <3> SUFFICES ASSUME NEW x \in Ends
                   PROVE  Belief(x, view', thread)
        BY <2>1 DEF Beliefs, Belief
      <3>1. CASE x = e
        <4>1. Fills(e, w) = Fills(e, view[e]) /\ (HasNext(e, w) <=> HasNext(e, view[e]))
          BY <2>2 DEF Fills, HasNext
        <4>2. Fills(e, view[e]) <= Capacity
          BY <1>1 DEF OrderInv, Beliefs, Believes
        <4>3. Believes(e, w, thread[p][e])
          BY <1>1, <2>4, <4>1, <4>2 DEF Believes
        <4> QED BY <1>1, <2>2, <2>3, <3>1, <4>3 DEF Belief
      <3>2. CASE x # e
        BY <2>3, <3>2 DEF OrderInv, Beliefs, Belief
      <3> QED BY <3>1, <3>2
    <2>6. KernelPositions'
      BY <2>1 DEF OrderInv, KernelPositions
    <2>7. ASSUME ring.state # "free", faulty = {}
          PROVE  Ordered'
      <3>1. Ordered
        BY <2>7 DEF OrderInv
      <3>2. \A x \in Ends : /\ view'[x].at = view[x].at /\ view'[x].local = view[x].local
                            /\ view'[x].peer = view[x].peer /\ view'[x].failed = view[x].failed
        BY <2>2, <2>3
      <3>3. Known' = Known /\ (Believing' <=> Believing)
        BY <1>1, <2>1, <3>2 DEF Known, Believing
      <3>4. Chain'
        BY <2>1, <3>1, <3>3 DEF Ordered, Chain
      <3>5. Believing' => Behind(view'["producer"].peer, ring'.position["consumer"], header'["producer"])
        BY <1>1, <2>1, <3>1, <3>2, <3>3 DEF Ordered
      <3>6. /\ Slots(header'["consumer"], header'["producer"], data')
            /\ view'["producer"].reserved => data'[Slot(header'["producer"])] = header'["producer"]
        <4>1. CASE e = "producer"
          <5>1. view[e].local = hp /\ Slots(hc, hp, data)
            BY <1>1, <3>1, <4>1 DEF Ordered
          <5>2. Ahead(hp, view[e].peer) < Capacity
            BY <2>4, <4>1, <5>1 DEF HasNext
          <5>3. Believing
            BY <1>1, <4>1 DEF Believing, Attaching
          <5>4. Behind(view[e].peer, ring.position["consumer"], hp)
            BY <3>1, <4>1, <5>3 DEF Ordered
          <5>5. /\ Follow(ring.position["consumer"], hc, Known, ring.position["producer"], hp)
                /\ hc \in Positions /\ hp \in Positions /\ Known \in Positions
                /\ ring.position["consumer"] \in Positions /\ ring.position["producer"] \in Positions
                /\ view[e].peer \in Positions
            BY <3>1, PositionTypes DEF Ordered, Chain
          <5> HIDE DEF hc, hp
          <5>6. Ahead(hp, hc) < Capacity
            BY <5>2, <5>4, <5>5, ProducerCommits
          <5>7. data' = [data EXCEPT ![Slot(hp)] = hp]
            BY <2>1, <4>1, <5>1
          <5>8. Slots(hc, hp, data') /\ data'[Slot(hp)] = hp
            <6> DEFINE k == Slot(hp)
            <6>1. k = Slot(hp) /\ data' = Written(data, k, hp)
              BY <5>7 DEF Written
            <6> HIDE DEF k
            <6>2. data \in [0 .. Capacity - 1 -> Positions]
              BY StepTypes
            <6>3. Slots(hc, hp, data') /\ data'[k] = hp
              BY <5>1, <5>5, <5>6, <6>1, <6>2, SlotsReserved
            <6> QED BY <6>1, <6>3
          <5> QED BY <2>1, <5>8 DEF hc, hp
        <4>2. CASE e # "producer"
          BY <1>1, <2>1, <2>3, <3>1, <4>2 DEF Ordered
        <4> QED BY <4>1, <4>2
      <3>7. /\ \A x \in Ends : view'[x].at # Nobody => view'[x].local = header'[x]
            /\ \A x \in Ends : ring'.terminal[x] # "failed" /\ ~view'[x].failed
        BY <2>1, <3>1, <3>2 DEF Ordered
      <3> QED BY <3>4, <3>5, <3>6, <3>7 DEF Ordered
    <2> QED BY <2>1, <2>5, <2>6, <2>7 DEF OrderInv
  <1> QED BY <1>2, <1>3

LEMMA OneBack ==
  ASSUME RingsAssumption, NEW a \in Positions, NEW b \in Positions, a # b
  PROVE  Ahead(b, Plus(a, 1)) = Ahead(b, a) - 1
  <1> DEFINE n == Plus(a, 1)
  <1>1. n \in Positions /\ Ahead(n, a) = 1
    <2>1. Ahead(a, a) = 0 /\ 0 <= Capacity
      BY Distances DEF RingsAssumption
    <2> QED BY <2>1, NextAhead
  <1>2. Ahead(b, a) \in Nat /\ Ahead(b, a) # 0
    BY AheadSum
  <1> HIDE DEF n
  <1>3. Ahead(n, a) <= Ahead(b, a)
    BY <1>1, <1>2
  <1>4. Ahead(b, n) = Ahead(b, a) - Ahead(n, a)
    BY <1>1, <1>3, AheadSum
  <1> QED BY <1>1, <1>4 DEF n

LEMMA CommitOrder ==
  ASSUME RingsAssumption, RingInv, OrderInv, NEW p \in Processes, NEW e \in Ends, Commit(p, e)
  PROVE  OrderInv'
  <1> DEFINE n == Plus(view[e].local, 1)
             w == [view[e] EXCEPT !.local = n, !.reserved = FALSE]
             C == ring.position["consumer"]
             P == ring.position["producer"]
             hc == header["consumer"]
             hp == header["producer"]
  <1>1. /\ view[e].at = p /\ view[e] \in Views /\ p # Nobody /\ thread[p][e].pc = "idle"
        /\ "producer" \in Ends /\ "consumer" \in Ends /\ view[e].reserved
    BY StepTypes DEF Commit, Uses, RingsAssumption, Ends
  <1>2. CASE ~HeaderValid(e) /\ Report(p, e)
    BY <1>1, <1>2, HeaderFine, ReportOrder
  <1>3. CASE ~(~HeaderValid(e) /\ Report(p, e))
    <2>1. /\ header' = [header EXCEPT ![e] = n] /\ view' = [view EXCEPT ![e] = w]
          /\ ring' = ring /\ data' = data /\ thread' = thread /\ faulty' = faulty
      BY <1>3, StepTypes DEF Commit
    <2>2. view[e].local \in Positions /\ view[e].peer \in Positions
      BY PositionTypes
    <2>3. Fills(e, view[e]) <= Capacity /\ HasNext(e, view[e])
      BY <1>1 DEF OrderInv, Beliefs, Believes
    <2>4. n \in Positions
      BY <2>2, PlusFacts DEF RingsAssumption
    <2>5. /\ e = "producer" => Ahead(n, view[e].peer) <= Capacity
          /\ e = "consumer" => Ahead(view[e].peer, n) <= Capacity
      <3>1. /\ Ahead(view[e].local, view[e].peer) \in Nat
            /\ Ahead(view[e].peer, view[e].local) \in Nat /\ Capacity \in Nat
        BY <2>2, Distances DEF RingsAssumption
      <3>2. CASE e = "producer"
        <4>1. Ahead(view[e].local, view[e].peer) < Capacity
          BY <2>3, <3>2 DEF HasNext
        <4>2. Ahead(n, view[e].peer) = Ahead(view[e].local, view[e].peer) + 1
          BY <2>2, <3>1, <4>1, NextAhead
        <4> QED BY <3>1, <3>2, <4>1, <4>2
      <3>3. CASE e = "consumer"
        <4>1. view[e].peer # view[e].local /\ Ahead(view[e].peer, view[e].local) <= Capacity
          BY <2>3, <3>3 DEF HasNext, Fills
        <4>2. Ahead(view[e].peer, n) = Ahead(view[e].peer, view[e].local) - 1
          BY <2>2, <4>1, OneBack
        <4> QED BY <3>1, <3>3, <4>1, <4>2
      <3> QED BY <3>2, <3>3 DEF Ends
    <2> HIDE DEF n
    <2>6. /\ w.at = view[e].at /\ w.local = n /\ w.peer = view[e].peer
          /\ w.failed = view[e].failed /\ ~w.reserved
      BY <1>1, <2>4 DEF Views
    <2> HIDE DEF w
    <2>7. /\ view'[e] = w /\ \A x \in Ends : x # e => view'[x] = view[x]
          /\ header'[e] = n /\ \A x \in Ends : x # e => header'[x] = header[x]
      BY <2>1, StepTypes
    <2>8. Beliefs'
      <3> SUFFICES ASSUME NEW x \in Ends
                   PROVE  Belief(x, view', thread)
        BY <2>1 DEF Beliefs, Belief
      <3>1. CASE x = e
        <4>1. Fills(e, w) <= Capacity
          BY <2>5, <2>6 DEF Fills, Ends
        <4> QED BY <1>1, <2>6, <2>7, <3>1, <4>1 DEF Belief, Believes
      <3>2. CASE x # e
        BY <2>7, <3>2 DEF OrderInv, Beliefs, Belief
      <3> QED BY <3>1, <3>2
    <2>9. KernelPositions'
      <3>1. ring.form # "copied"
        BY <1>1, StepTypes DEF RingInv, ViewsHeld
      <3> QED BY <2>1, <3>1 DEF OrderInv, KernelPositions
    <2>10. ASSUME ring.state # "free", faulty = {}
           PROVE  Ordered'
      <3>1. Ordered
        BY <2>10 DEF OrderInv
      <3>2. \A x \in Ends : /\ view'[x].at = view[x].at
                            /\ view'[x].peer = view[x].peer /\ view'[x].failed = view[x].failed
        BY <2>6, <2>7
      <3>3. Believing' <=> Believing
        BY <1>1, <2>1, <3>2 DEF Believing
      <3>4. /\ Follow(C, hc, Known, P, hp)
            /\ hc \in Positions /\ hp \in Positions /\ Known \in Positions
            /\ C \in Positions /\ P \in Positions
        BY <3>1, PositionTypes DEF Ordered, Chain
      <3>5. view[e].local = header[e] /\ Slots(hc, hp, data)
        BY <1>1, <3>1 DEF Ordered
      <3>6. \A x \in Ends : /\ view'[x].at # Nobody => view'[x].local = header'[x]
                            /\ ring'.terminal[x] # "failed" /\ ~view'[x].failed
        <4> TAKE x \in Ends
        <4>1. CASE x = e
          BY <2>1, <2>6, <2>7, <3>1, <4>1 DEF Ordered
        <4>2. CASE x # e
          BY <2>1, <2>7, <3>1, <4>2 DEF Ordered
        <4> QED BY <4>1, <4>2
      <3>7. CASE e = "producer"
        <4>1. header'["producer"] = n /\ header'["consumer"] = hc /\ n = Plus(hp, 1)
          BY <1>1, <2>7, <3>5, <3>7 DEF n
        <4>2. Ahead(hp, view[e].peer) < Capacity
          BY <2>3, <3>5, <3>7 DEF HasNext
        <4>3. Behind(view[e].peer, C, hp)
          <5>1. Believing
            BY <1>1, <3>7 DEF Believing, Attaching
          <5> QED BY <3>1, <3>7, <5>1 DEF Ordered
        <4>4. data[Slot(hp)] = hp
          BY <1>1, <3>1, <3>7 DEF Ordered
        <4>5. Known' = Known
          BY <1>1, <2>7, <3>2, <3>7, <4>1 DEF Known
        <4> HIDE DEF C, P, hc, hp
        <4>6. /\ Follow(C, hc, Known, P, n) /\ Behind(view[e].peer, C, n)
              /\ Ahead(n, hc) = Ahead(hp, hc) + 1
          BY <2>2, <3>4, <4>1, <4>2, <4>3, ProducerCommits
        <4>7. Slots(hc, n, data)
          BY <2>4, <3>4, <3>5, <4>4, <4>6, SlotsCommitted
        <4>8. Chain'
          BY <2>1, <4>1, <4>5, <4>6 DEF Chain, C, P, hc
        <4>9. ~view'["producer"].reserved /\ view'["producer"].peer = view[e].peer
          BY <2>6, <2>7, <3>7
        <4>10. Slots(header'["consumer"], header'["producer"], data')
          BY <2>1, <4>1, <4>7
        <4>11. Behind(view'["producer"].peer, ring'.position["consumer"], header'["producer"])
          BY <2>1, <4>1, <4>6, <4>9 DEF C
        <4> QED BY <3>6, <4>8, <4>9, <4>10, <4>11 DEF Ordered
      <3>8. CASE e = "consumer"
        <4>1. header'["consumer"] = n /\ header'["producer"] = hp /\ n = Plus(hc, 1)
          BY <1>1, <2>7, <3>5, <3>8 DEF n
        <4>2. Known = view[e].peer /\ Known' = Known /\ Known # hc
          BY <1>1, <2>3, <3>2, <3>5, <3>8 DEF Known, HasNext
        <4>3. view'["producer"] = view["producer"]
          BY <1>1, <2>7, <3>8
        <4> HIDE DEF C, P, hc, hp
        <4>4. /\ Follow(C, n, Known, P, hp)
              /\ \A x \in Positions : Ahead(x, n) < Ahead(hp, n) => Ahead(x, hc) < Ahead(hp, hc)
          BY <3>4, <4>1, <4>2, ConsumerCommits
        <4>5. Slots(n, hp, data)
          BY <3>5, <4>4 DEF Slots
        <4>6. Chain'
          BY <2>1, <4>1, <4>2, <4>4 DEF Chain, C, P, hp
        <4>7. Slots(header'["consumer"], header'["producer"], data')
          BY <2>1, <4>1, <4>5
        <4>8. Believing' => Behind(view'["producer"].peer, ring'.position["consumer"], header'["producer"])
          BY <2>1, <3>1, <3>3, <4>1, <4>3 DEF Ordered, hp
        <4>9. view'["producer"].reserved => data'[Slot(header'["producer"])] = header'["producer"]
          BY <2>1, <3>1, <4>1, <4>3 DEF Ordered, hp
        <4> QED BY <3>6, <4>6, <4>7, <4>8, <4>9 DEF Ordered
      <3> QED BY <3>7, <3>8 DEF Ends
    <2> QED BY <2>1, <2>8, <2>9, <2>10 DEF OrderInv
  <1> QED BY <1>2, <1>3

LEMMA AttachOrder ==
  ASSUME RingsAssumption, RingInv, OrderInv, NEW p \in Processes, NEW e \in Ends, Attach(p, e)
  PROVE  OrderInv'
  <1> DEFINE u == [Idle EXCEPT !.pc = "ask", !.call = "attach"]
             w == [NoView EXCEPT !.at = p, !.local = header[e], !.peer = header[e]]
  <1>1. /\ view[e].at = Nobody /\ p # Nobody /\ ring.form = "shared"
        /\ ring' = ring /\ header' = header /\ data' = data /\ faulty' = faulty
        /\ "producer" \in Ends /\ "consumer" \in Ends
    BY DEF Attach, Shared, RingsAssumption, Ends
  <1>2. u.pc = "ask" /\ u.call = "attach"
    BY DEF Idle
  <1>3. header[e] \in Positions
    BY StepTypes
  <1>4. /\ w.at = p /\ w.local = header[e] /\ w.peer = header[e] /\ ~w.reserved /\ ~w.failed
    BY DEF NoView
  <1>5. thread' = [thread EXCEPT ![p][e] = u] /\ view' = [view EXCEPT ![e] = w]
    BY DEF Attach
  <1> HIDE DEF u, w
  <1>6. /\ view'[e] = w /\ \A x \in Ends : x # e => view'[x] = view[x]
        /\ thread'[p][e] = u
        /\ \A x \in Processes, y \in Ends : ~(x = p /\ y = e) => thread'[x][y] = thread[x][y]
    BY <1>5, StepTypes
  <1>7. \A x \in Ends : x # e /\ view[x].at # Nobody =>
          thread'[view[x].at][x] = thread[view[x].at][x]
    <2> SUFFICES ASSUME NEW x \in Ends, x # e, view[x].at # Nobody
                 PROVE  thread'[view[x].at][x] = thread[view[x].at][x]
      OBVIOUS
    <2>1. view[x].at \in Processes
      BY PositionTypes DEF Views
    <2> QED BY <1>6, <2>1
  <1>8. Beliefs'
    <2> SUFFICES ASSUME NEW x \in Ends
                 PROVE  Belief(x, view', thread')
      BY DEF Beliefs, Belief
    <2>1. CASE x = e
      <3>1. Fills(e, w) <= Capacity
        BY <1>3, <1>4, Distances DEF Fills, RingsAssumption
      <3> QED BY <1>1, <1>4, <1>6, <2>1, <3>1 DEF Belief, Believes
    <2>2. CASE x # e
      BY <1>6, <1>7, <2>2 DEF OrderInv, Beliefs, Belief
    <2> QED BY <2>1, <2>2
  <1>9. KernelPositions'
    BY <1>1 DEF OrderInv, KernelPositions
  <1>10. ASSUME ring.state # "free", faulty = {}
         PROVE  Ordered'
    <2>1. Ordered
      BY <1>10 DEF OrderInv
    <2>2. Chain'
      <3>1. CASE e = "consumer"
        <4>1. Known' = header["consumer"]
          BY <1>1, <1>4, <1>6, <3>1 DEF Known
        <4>2. Follow(ring.position["consumer"], header["consumer"], header["consumer"],
                     ring.position["producer"], header["producer"])
          BY <2>1, PositionTypes, FollowFirst DEF Ordered, Chain
        <4> QED BY <1>1, <4>1, <4>2 DEF Chain
      <3>2. CASE e # "consumer"
        <4>1. Known' = Known
          BY <1>1, <1>6, <3>2 DEF Known
        <4> QED BY <1>1, <2>1, <4>1 DEF Ordered, Chain
      <3> QED BY <3>1, <3>2
    <2>3. Believing' => Behind(view'["producer"].peer, ring'.position["consumer"], header'["producer"])
      <3>1. CASE e = "producer"
        <4>1. ~Believing'
          BY <1>2, <1>4, <1>6, <3>1 DEF Believing, Attaching
        <4> QED BY <4>1
      <3>2. CASE e # "producer"
        <4>1. view'["producer"] = view["producer"] /\ (Believing' <=> Believing)
          BY <1>1, <1>6, <1>7, <3>2 DEF Believing
        <4> QED BY <1>1, <2>1, <4>1 DEF Ordered
      <3> QED BY <3>1, <3>2
    <2>4. \A x \in Ends : /\ view'[x].at # Nobody => view'[x].local = header'[x]
                          /\ ring'.terminal[x] # "failed" /\ ~view'[x].failed
      BY <1>1, <1>4, <1>6, <2>1 DEF Ordered
    <2>5. view'["producer"].reserved => data'[Slot(header'["producer"])] = header'["producer"]
      BY <1>1, <1>4, <1>6, <2>1 DEF Ordered
    <2>6. Slots(header'["consumer"], header'["producer"], data')
      BY <1>1, <2>1 DEF Ordered
    <2> QED BY <2>2, <2>3, <2>4, <2>5, <2>6 DEF Ordered
  <1> QED BY <1>1, <1>8, <1>9, <1>10 DEF OrderInv

LEMMA NoViews ==
  ASSUME RingsAssumption, RingInv, OrderInv, ring.state = "free" \/ ring.form = "copied"
  PROVE  \A e \in Ends : view[e].at = Nobody /\ view[e] = NoView
  <1> SUFFICES ASSUME NEW e \in Ends, view[e].at # Nobody
               PROVE  FALSE
    BY DEF OrderInv, Beliefs
  <1>1. <<view[e].at, e>> \in holds /\ view[e].at \in Processes /\ ring.form = "shared"
    BY PositionTypes, StepTypes DEF RingInv, ViewsHeld, Views
  <1> QED BY <1>1, StepTypes

LEMMA CreateOrder ==
  ASSUME RingsAssumption, RingInv, OrderInv, NEW p \in Processes, Create(p)
  PROVE  OrderInv'
  <1>1. /\ ring.state = "free" /\ header' = [e \in Ends |-> 0]
        /\ ring' = [ring EXCEPT !.state = "open", !.owner = p, !.references = [e \in Ends |-> 1]]
        /\ view' = view /\ thread' = thread
    BY DEF Create
  <1>2. /\ ring'.state = "open" /\ ring'.form = ring.form /\ ring'.position = ring.position
        /\ ring'.terminal = ring.terminal
    BY <1>1, StepTypes DEF RingRecords
  <1>3. \A e \in Ends : view[e].at = Nobody /\ view[e] = NoView
    BY <1>1, NoViews
  <1>4. \A e \in Ends : ring.position[e] = 0 /\ ring.terminal[e] = "ok" /\ header'[e] = 0
    BY <1>1, StepTypes DEF OrderInv, KernelPositions, Sound
  <1>5. Beliefs'
    BY <1>1, <1>3 DEF Beliefs
  <1>6. KernelPositions'
    BY <1>2, <1>4 DEF KernelPositions
  <1>7. Ordered'
    <2>1. "producer" \in Ends /\ "consumer" \in Ends /\ 0 \in Positions /\ Capacity \in Nat
      BY DEF Ends, Positions, RingsAssumption
    <2>2. Ahead(0, 0) = 0
      BY <2>1, Distances
    <2>3. Known' = 0
      BY <1>1, <1>3, <1>4, <2>1 DEF Known
    <2>4. Chain'
      BY <1>2, <1>4, <2>1, <2>2, <2>3 DEF Chain, Follow
    <2>5. Slots(header'["consumer"], header'["producer"], data')
      <3>1. \A x \in Positions : Ahead(x, 0) \in Nat
        BY <2>1, Distances
      <3> QED BY <1>4, <2>1, <2>2, <3>1 DEF Slots
    <2>6. ~Believing' /\ ~view'["producer"].reserved
      BY <1>1, <1>3, <2>1, NoViewIs DEF Believing
    <2>7. \A e \in Ends : /\ view'[e].at = Nobody
                          /\ ring'.terminal[e] # "failed" /\ ~view'[e].failed
      BY <1>1, <1>2, <1>3, <1>4, NoViewIs
    <2> QED BY <2>4, <2>5, <2>6, <2>7 DEF Ordered
  <1> QED BY <1>5, <1>6, <1>7 DEF OrderInv

LEMMA DamageOrder ==
  ASSUME RingsAssumption, RingInv, OrderInv, NEW p \in Processes, Damage(p)
  PROVE  OrderInv'
  <1>1. /\ ring.form = "shared" /\ faulty' # {} /\ ring' = ring /\ view' = view
        /\ thread' = thread
    BY DEF Damage, Shared
  <1> QED BY <1>1 DEF OrderInv, Beliefs, KernelPositions

LEMMA MisreportOrder ==
  ASSUME RingsAssumption, RingInv, OrderInv, NEW p \in Processes, NEW e \in Ends, Misreport(p, e)
  PROVE  OrderInv'
  <1>1. /\ ring.form = "shared" /\ <<p, e>> \in holds /\ faulty' # {}
        /\ view' = view /\ ring.state # "free"
    BY StepTypes DEF Misreport, Shared
  <1>2. PICK position \in NearBy(ring.position[e]) : Becomes(Notify(Now, e, position)[1])
    BY DEF Misreport
  <1>3. position \in Positions
    BY PositionTypes, NearByFacts
  <1> DEFINE answer == Notify(Now, e, position)
             r == answer[1]
  <1>4. /\ Sound(Now, holds) /\ Now.ring = ring /\ Now.thread = thread
        /\ answer = Notify(Now, e, position) /\ r = answer[1] /\ Becomes(r)
    BY <1>2, StepTypes
  <1> HIDE DEF answer, r
  <1>5. Notified(Now, holds, e, position, answer, r)
    BY <1>1, <1>3, <1>4, NotifySound
  <1>6. /\ ring' = r.ring /\ thread' = r.thread /\ r.ring.form = ring.form
        /\ \A x \in Processes, y \in Ends : Woken(ring.form, thread[x][y], thread'[x][y])
    BY <1>4, <1>5 DEF Notified, Becomes
  <1>7. Beliefs'
    <2> SUFFICES ASSUME NEW x \in Ends
                 PROVE  Belief(x, view', thread')
      BY DEF Beliefs, Belief
    <2>1. ASSUME view[x].at # Nobody
          PROVE  QuietCall(x, thread[view[x].at][x], thread'[view[x].at][x])
      <3>1. view[x].at \in Processes
        BY <2>1, PositionTypes DEF Views
      <3> QED BY <1>6, <3>1, WokenCall
    <2>2. QuietView(x)
      BY <1>1, <2>1 DEF QuietView
    <2> QED BY <2>2, BeliefQuiet DEF OrderInv
  <1>8. KernelPositions'
    <2> SUFFICES ASSUME r.ring.state = "free"
                 PROVE  \A x \in Ends : r.ring.position[x] = 0
      BY <1>1, <1>6 DEF KernelPositions
    <2>1. CASE answer[2] = "ok"
      <3>1. r.ring = [ring EXCEPT !.position[e] = position]
        BY <1>4, <1>5, <2>1 DEF Notified
      <3>2. r.ring.state = ring.state
        BY <3>1, StepTypes DEF RingRecords
      <3> QED BY <1>1, <3>2
    <2>2. CASE answer[2] # "ok"
      <3>1. r = Now \/ (r = Fail(Now, "failed") /\ ring.state = "open")
        BY <1>4, <1>5, <2>2 DEF Notified
      <3>2. CASE r = Now
        BY <1>1, <1>4, <3>2
      <3>3. CASE r = Fail(Now, "failed") /\ ring.state = "open"
        <4>1. \/ r.ring.state = "free" /\ \A x \in Ends : r.ring.position[x] = 0
              \/ r.ring.state # "free" /\ r.ring.position = ring.position
          BY <1>1, <1>4, <3>3, FailEnded DEF Results, Sound
        <4> QED BY <4>1
      <3> QED BY <3>1, <3>2, <3>3
    <2> QED BY <2>1, <2>2
  <1> QED BY <1>1, <1>7, <1>8 DEF OrderInv

----------------------------------------------------------------------------
(* Reads and writes of a pipe. *)

(* n elements are read. *)
LEMMA SlotsRead ==
  ASSUME RingsAssumption, NEW hc \in Positions, NEW hp \in Positions, NEW d, Slots(hc, hp, d),
         NEW n \in Nat, n <= Ahead(hp, hc)
  PROVE  Slots(Plus(hc, n), hp, d)
  <1> DEFINE m == Plus(hc, n)
  <1>1. Ahead(hp, hc) \in Nat /\ Ahead(hp, hc) < Wrap /\ Wrap \in Nat
    BY AheadSum DEF RingsAssumption
  <1>2. m \in Positions /\ Ahead(m, hc) = n
    <2>1. n \in 0 .. Wrap /\ n \in 0 .. Wrap - 1
      BY <1>1
    <2> QED BY <2>1, PlusFacts, PlusAhead
  <1> HIDE DEF m
  <1>3. Ahead(hp, m) = Ahead(hp, hc) - n
    BY <1>1, <1>2, AheadSum
  <1>4. ASSUME NEW x \in Positions, Ahead(x, m) < Ahead(hp, m)
        PROVE  d[Slot(x)] = x
    <2>1. Ahead(x, m) \in Nat
      BY <1>2, Distances
    <2>2. Ahead(x, m) + Ahead(m, hc) < Wrap
      BY <1>1, <1>2, <1>3, <1>4, <2>1
    <2>3. Ahead(x, hc) = Ahead(x, m) + Ahead(m, hc)
      BY <1>2, <2>2, AheadSum
    <2>4. Ahead(x, hc) < Ahead(hp, hc)
      BY <1>1, <1>2, <1>3, <1>4, <2>1, <2>3
    <2> QED BY <2>4 DEF Slots
  <1> QED BY <1>4 DEF Slots, m

(* n elements are written from position at on, each to its slot. *)
Copied(d, at, n) ==
  [k \in DOMAIN d |-> LET i == Ahead(k, at) % Capacity IN IF i < n THEN Plus(at, i) ELSE d[k]]

LEMMA SlotsWritten ==
  ASSUME RingsAssumption, NEW hc \in Positions, NEW hp \in Positions,
         NEW d \in [0 .. Capacity - 1 -> Positions], Slots(hc, hp, d),
         NEW n \in Nat, Ahead(hp, hc) <= Capacity, n <= Capacity - Ahead(hp, hc)
  PROVE  Slots(hc, Plus(hp, n), Copied(d, hp, n))
  <1> DEFINE m == Plus(hp, n)
             f == Copied(d, hp, n)
  <1>1. /\ Ahead(hp, hc) \in Nat /\ Capacity \in Nat /\ Wrap \in Nat /\ Capacity < Wrap
        /\ Wrap >= 4 * Capacity
    BY AheadSum DEF RingsAssumption
  <1>2. m \in Positions /\ Ahead(m, hp) = n
    <2>1. n \in 0 .. Wrap /\ n \in 0 .. Wrap - 1
      BY <1>1
    <2> QED BY <2>1, PlusFacts, PlusAhead
  <1> HIDE DEF m
  <1>3. Ahead(m, hc) = Ahead(hp, hc) + n
    <2>1. Ahead(m, hp) + Ahead(hp, hc) < Wrap
      BY <1>1, <1>2
    <2> QED BY <1>1, <1>2, <2>1, AheadSum
  <1>4. ASSUME NEW x \in Positions
        PROVE  LET i == Ahead(Slot(x), hp) % Capacity
               IN f[Slot(x)] = IF i < n THEN Plus(hp, i) ELSE d[Slot(x)]
    BY SlotTypes DEF Copied
  <1> HIDE DEF f
  <1>5. ASSUME NEW x \in Positions, Ahead(x, hc) < Ahead(m, hc)
        PROVE  f[Slot(x)] = x
    <2> DEFINE i == Ahead(Slot(x), hp) % Capacity
    <2>0. Ahead(x, hc) \in Nat /\ Ahead(x, hp) \in Nat /\ Ahead(hp, x) \in Nat
      BY Distances
    <2>1. CASE Ahead(hp, hc) <= Ahead(x, hc)
      <3>1. Ahead(x, hp) = Ahead(x, hc) - Ahead(hp, hc)
        BY <2>1, AheadSum
      <3>2. Ahead(x, hp) < n /\ Ahead(x, hp) < Capacity
        BY <1>1, <1>3, <1>5, <2>0, <3>1
      <3>3. i = Ahead(x, hp)
        BY <3>2, SlotsAt
      <3>4. f[Slot(x)] = Plus(hp, Ahead(x, hp))
        BY <1>4, <3>2, <3>3
      <3> QED BY <3>4, PlusBack
    <2>2. CASE Ahead(x, hc) < Ahead(hp, hc)
      <3>1. Ahead(hp, x) = Ahead(hp, hc) - Ahead(x, hc)
        BY <1>1, <2>0, <2>2, AheadSum
      <3>2. 0 < Ahead(hp, x) /\ Ahead(hp, x) <= Capacity
        BY <1>1, <2>0, <2>2, <3>1
      <3>3. i = Capacity - Ahead(hp, x)
        BY <3>2, SlotsAt
      <3>4. ~(i < n)
        BY <1>1, <2>0, <3>1, <3>3
      <3>5. f[Slot(x)] = d[Slot(x)]
        BY <1>4, <3>4
      <3> QED BY <2>2, <3>5 DEF Slots
    <2> QED BY <1>1, <2>0, <2>1, <2>2
  <1> QED BY <1>5 DEF Slots, m, f

LEMMA MovesOrder ==
  ASSUME RingsAssumption, RingInv, OrderInv, NEW p \in Processes, NEW e \in Ends,
         thread[p][e].pc = "try", NEW n \in Nat, n <= Room(ring, e), Moves(p, e, n),
         Slots(header["consumer"], header["producer"], data) =>
           Slots(header'["consumer"], header'["producer"], data')
  PROVE  OrderInv'
  <1> DEFINE position == Plus(ring.position[e], n)
             q == [ring EXCEPT !.position[e] = position]
             s == [Now EXCEPT !.thread[p][e] = Idle, !.ring.position[e] = position]
             r == IF ring.references[Other(e)] = 0 THEN s ELSE Wake(s, Other(e), "ok")
  <1>1. ring.form = "copied" /\ <<p, e>> \in holds /\ ring.state # "free"
    <2>1. Fits(ring.form, thread[p][e], holds, view, process, p, e)
      BY StepTypes
    <2> QED BY <2>1, StepTypes DEF Fits
  <1>2. \A x \in Ends : view[x].at = Nobody /\ view[x] = NoView
    BY <1>1, NoViews
  <1>3. position \in Positions /\ Ahead(position, ring.position[e]) = n
    <2>1. /\ Room(ring, e) <= Capacity /\ Room(ring, e) \in Nat
      BY RoomNat, StepTypes DEF Room, RingsAssumption, Sound
    <2>2. n \in 0 .. Wrap /\ n \in 0 .. Wrap - 1 /\ ring.position[e] \in Positions
      BY <2>1, PositionTypes
    <2> QED BY <2>2, PlusFacts, PlusAhead
  <1>4. /\ ring' = r.ring /\ header' = [header EXCEPT ![e] = position]
        /\ view' = view /\ faulty' = faulty
    BY DEF Moves, Becomes
  <1> HIDE DEF position
  <1>5. s.ring = q /\ s \in [ring : {s.ring}, area : {s.area}, thread : {s.thread}]
    BY StepTypes DEF Records
  <1> HIDE DEF s
  <1>6. ring' = q
    BY <1>4, <1>5 DEF Wake
  <1>7. /\ ring'.state = ring.state /\ ring'.form = ring.form /\ ring'.terminal = ring.terminal
        /\ ring'.position = [ring.position EXCEPT ![e] = position]
    BY <1>6, StepTypes DEF RingRecords
  <1>8. Used(ring') <= Capacity
    <2>1. Used(ring) <= Capacity
      BY StepTypes DEF Sound
    <2> QED BY <1>3, <1>6, <2>1, StepTypes, RoomAfter
  <1> HIDE DEF q, r
  <1>9. \A x \in Ends : header[x] = ring.position[x]
    BY <1>1 DEF OrderInv, KernelPositions
  <1>10. \A x \in Ends : header'[x] = ring'.position[x] /\ header'[x] \in Positions
    <2>1. header \in [Ends -> Positions] /\ ring.position \in [Ends -> Positions]
      BY StepTypes DEF RingRecords
    <2> QED BY <1>3, <1>4, <1>7, <1>9, <2>1
  <1>11. Beliefs'
    BY <1>2, <1>4 DEF Beliefs
  <1>12. KernelPositions'
    BY <1>1, <1>7, <1>10 DEF KernelPositions
  <1>13. ASSUME ring'.state # "free", faulty' = {}
         PROVE  Ordered'
    <2>1. Ordered
      BY <1>1, <1>4, <1>13 DEF OrderInv
    <2>2. "producer" \in Ends /\ "consumer" \in Ends
      BY DEF Ends
    <2>3. Known' = header'["consumer"]
      BY <1>2, <1>4, <2>2 DEF Known
    <2>4. Chain'
      <3>1. /\ header'["consumer"] = ring'.position["consumer"]
            /\ header'["producer"] = ring'.position["producer"]
            /\ Ahead(ring'.position["producer"], ring'.position["consumer"]) <= Capacity
        BY <1>8, <1>10, <2>2 DEF Used
      <3>2. /\ Ahead(ring'.position["consumer"], ring'.position["consumer"]) = 0
            /\ Ahead(ring'.position["producer"], ring'.position["consumer"]) \in Nat
        BY <1>10, <2>2, <3>1, Distances
      <3> QED BY <2>3, <3>1, <3>2 DEF Chain, Follow
    <2>5. Slots(header'["consumer"], header'["producer"], data')
      BY <2>1 DEF Ordered
    <2>6. ~Believing' /\ ~view'["producer"].reserved
      BY <1>2, <1>4, <2>2, NoViewIs DEF Believing
    <2>7. \A x \in Ends : /\ view'[x].at = Nobody
                          /\ ring'.terminal[x] # "failed" /\ ~view'[x].failed
      BY <1>2, <1>4, <1>7, <2>1, NoViewIs DEF Ordered
    <2> QED BY <2>4, <2>5, <2>6, <2>7 DEF Ordered
  <1> QED BY <1>11, <1>12, <1>13 DEF OrderInv

(* A thread that tries has a pipe, whose positions the header has. *)
LEMMA PipePositions ==
  ASSUME RingsAssumption, RingInv, OrderInv, NEW p \in Processes, NEW e \in Ends,
         thread[p][e].pc = "try"
  PROVE  /\ \A x \in Ends : header[x] = ring.position[x]
         /\ Used(ring) = Ahead(header["producer"], header["consumer"]) /\ Used(ring) <= Capacity
  <1>1. ring.form = "copied" /\ <<p, e>> \in holds
    <2>1. Fits(ring.form, thread[p][e], holds, view, process, p, e)
      BY StepTypes
    <2> QED BY <2>1 DEF Fits
  <1>2. \A x \in Ends : header[x] = ring.position[x]
    BY <1>1, StepTypes DEF OrderInv, KernelPositions
  <1> QED BY <1>2, StepTypes DEF Used, Ends, Sound

LEMMA ReadOrder ==
  ASSUME RingsAssumption, RingInv, OrderInv, NEW p \in Processes, Read(p)
  PROVE  OrderInv'
  <1> DEFINE e == "consumer"
             n == AtMost(thread[p][e].want, Used(ring))
  <1>1. e \in Ends /\ thread[p][e].pc = "try" /\ thread[p][e] \in Calls
    BY StepTypes DEF Read, Ends
  <1>2. CASE Moves(p, e, n) /\ UNCHANGED data
    <2>1. thread[p][e].want \in Nat /\ Used(ring) \in Nat
      BY <1>1, RoomNat DEF Calls
    <2>2. n \in Nat /\ n <= Room(ring, e) /\ n <= Used(ring)
      BY <2>1 DEF AtMost, Room
    <2>3. /\ header[e] = ring.position[e]
          /\ Used(ring) = Ahead(header["producer"], header["consumer"])
      BY <1>1, PipePositions
    <2>4. header' = [header EXCEPT ![e] = Plus(ring.position[e], n)] /\ data' = data
      BY <1>2 DEF Moves
    <2> HIDE DEF n
    <2>5. /\ header'["consumer"] = Plus(header["consumer"], n)
          /\ header'["producer"] = header["producer"]
          /\ header["consumer"] \in Positions /\ header["producer"] \in Positions
      BY <2>3, <2>4, StepTypes DEF Ends
    <2>6. Slots(header["consumer"], header["producer"], data) =>
            Slots(header'["consumer"], header'["producer"], data')
      BY <2>2, <2>3, <2>4, <2>5, SlotsRead
    <2> QED BY <1>1, <1>2, <2>2, <2>6, MovesOrder
  <1>3. CASE Returns(p, e, "dead")
    BY <1>1, <1>3, ReturnsOrder
  <1>4. CASE WouldBlock(p, e)
    BY <1>1, <1>4, WouldBlockOrder
  <1> QED BY <1>2, <1>3, <1>4 DEF Read

LEMMA WriteOrder ==
  ASSUME RingsAssumption, RingInv, OrderInv, NEW p \in Processes, Write(p)
  PROVE  OrderInv'
  <1> DEFINE e == "producer"
             room == Room(ring, e)
             n == AtMost(thread[p][e].want, room)
             at == ring.position[e]
  <1>1. e \in Ends /\ thread[p][e].pc = "try" /\ thread[p][e] \in Calls
    BY StepTypes DEF Write, Ends
  <1>2. CASE /\ Moves(p, e, n)
             /\ data' = [k \in DOMAIN data |->
                  LET i == Ahead(k, at) % Capacity IN IF i < n THEN Plus(at, i) ELSE data[k]]
    <2>1. thread[p][e].want \in Nat /\ room \in Nat
      BY <1>1, RoomNat DEF Calls
    <2>2. n \in Nat /\ n <= room
      BY <2>1 DEF AtMost
    <2>3. /\ header[e] = ring.position[e]
          /\ Used(ring) = Ahead(header["producer"], header["consumer"]) /\ Used(ring) <= Capacity
      BY <1>1, PipePositions
    <2>4. header' = [header EXCEPT ![e] = Plus(at, n)] /\ data' = Copied(data, at, n)
      BY <1>2 DEF Moves, Copied
    <2> HIDE DEF n
    <2>5. /\ header'["producer"] = Plus(header["producer"], n)
          /\ header'["consumer"] = header["consumer"] /\ at = header["producer"]
          /\ header["consumer"] \in Positions /\ header["producer"] \in Positions
      BY <2>3, <2>4, StepTypes DEF Ends
    <2>6. n <= Capacity - Ahead(header["producer"], header["consumer"])
      BY <2>2, <2>3 DEF Room
    <2>7. Slots(header["consumer"], header["producer"], data) =>
            Slots(header'["consumer"], header'["producer"], data')
      BY <2>2, <2>3, <2>4, <2>5, <2>6, StepTypes, SlotsWritten
    <2> QED BY <1>1, <1>2, <2>2, <2>7, MovesOrder
  <1>3. CASE Returns(p, e, "dead")
    BY <1>1, <1>3, ReturnsOrder
  <1>4. CASE WouldBlock(p, e)
    BY <1>1, <1>4, WouldBlockOrder
  <1> QED BY <1>2, <1>3, <1>4 DEF Write

----------------------------------------------------------------------------

LEMMA InitOrder ==
  ASSUME RingsAssumption, Init
  PROVE  OrderInv
  <1>1. PICK form \in Forms : ring = FreeRing(form)
    BY DEF Init
  <1>2. ring.state = "free" /\ \A e \in Ends : ring.position[e] = 0
    BY <1>1 DEF FreeRing
  <1>3. \A e \in Ends : view[e].at = Nobody /\ view[e] = NoView
    BY NoViewIs DEF Init
  <1> QED BY <1>2, <1>3 DEF OrderInv, Beliefs, KernelPositions

LEMMA NextOrder ==
  ASSUME RingsAssumption, RingInv, OrderInv, [Next]_vars
  PROVE  OrderInv'
  <1>1. CASE UNCHANGED vars
    <2>1. ring' = ring /\ thread' = thread /\ header' = header /\ data' = data /\ view' = view
          /\ faulty' = faulty
      BY <1>1 DEF vars
    <2>2. \A e \in Ends : QuietView(e)
      BY <2>1 DEF QuietView, QuietCall
    <2>3. QuietRing
      BY <2>1, SameRing
    <2> QED BY <2>1, <2>2, <2>3, QuietOrder
  <1>2. CASE Next
    <2>1. ReadLengths \cup WriteLengths \subseteq Nat \ {0} /\ "producer" \in Ends /\ "consumer" \in Ends
      BY DEF RingsAssumption, Ends
    <2>2. PICK p \in Processes :
            \/ \E e \in Ends :
                 \/ CloseEnd(p, e)
                 \/ Library(p, e)
                 \/ Block(p, e) \/ EndWait(p, e)
                 \/ Misreport(p, e)
            \/ \E q \in Processes : Fork(p, q) \/ \E e \in Ends : Give(p, q, e)
            \/ Create(p) \/ CloseArea(p) \/ Exit(p) \/ Reap(p)
            \/ \E length \in ReadLengths : Start(p, "consumer", length)
            \/ \E length \in WriteLengths : Start(p, "producer", length)
            \/ Read(p) \/ Write(p) \/ Damage(p)
      BY <1>2 DEF Next
    <2>3. ASSUME NEW e \in Ends, Library(p, e)
          PROVE  OrderInv'
      BY <2>3, AttachOrder, BeginOrder, AskOrder, RecheckOrder, ReserveOrder, CommitOrder
         DEF Library
    <2>4. ASSUME NEW e \in Ends,
                 CloseEnd(p, e) \/ Block(p, e) \/ EndWait(p, e) \/ Misreport(p, e)
          PROVE  OrderInv'
      BY <2>4, CloseEndOrder, BlockOrder, EndWaitOrder, MisreportOrder
    <2>5. ASSUME NEW q \in Processes, Fork(p, q) \/ \E e \in Ends : Give(p, q, e)
          PROVE  OrderInv'
      BY <2>5, ForkOrder, GiveOrder
    <2>6. CASE Create(p) \/ CloseArea(p) \/ Exit(p) \/ Reap(p)
      BY <2>6, CreateOrder, CloseAreaOrder, ExitOrder, ReapOrder
    <2>7. ASSUME NEW e \in Ends, NEW length \in ReadLengths \cup WriteLengths, Start(p, e, length)
          PROVE  OrderInv'
      BY <2>7, StartOrder
    <2>8. CASE Read(p) \/ Write(p) \/ Damage(p)
      BY <2>8, ReadOrder, WriteOrder, DamageOrder
    <2> QED BY <2>1, <2>2, <2>3, <2>4, <2>5, <2>6, <2>7, <2>8
  <1> QED BY <1>1, <1>2

(* The invariant holds of every behaviour. *)
THEOREM Order_Invariant == Spec => [](RingInv /\ OrderInv)
  <1>1. Init => RingInv /\ OrderInv
    BY RingsAssumption, InitInv, InitOrder
  <1>2. (RingInv /\ OrderInv) /\ [Next]_vars => (RingInv /\ OrderInv)'
    BY RingsAssumption, NextInv, NextOrder
  <1> QED BY <1>1, <1>2, PTL DEF Spec

(* The positions follow one another round the ring, and every element that *)
(* is written and not yet read is in its slot, so that the consumer reads  *)
(* each once and in order (bulk_ring.c, reserve and commit against         *)
(* refresh; ring.c, copy_range).                                           *)
THEOREM Order_InOrder == Spec => []InOrder
  <1>1. ASSUME RingInv, OrderInv
        PROVE  InOrder
    <2> DEFINE C == ring.position["consumer"]
               P == ring.position["producer"]
               hc == header["consumer"]
               hp == header["producer"]
               known == IF Attached("consumer") THEN view["consumer"].peer ELSE hc
    <2> SUFFICES ASSUME ring.state # "free", faulty = {}
                 PROVE  /\ Follow(C, hc, known, P, hp)
                        /\ \A n \in 0 .. Ahead(hp, hc) - 1 :
                             data[Slot(Plus(hc, n))] = Plus(hc, n)
      BY DEF InOrder, Live, Follow
    <2>1. /\ Follow(C, hc, Known, P, hp) /\ Slots(hc, hp, data)
      BY <1>1 DEF OrderInv, Ordered, Chain
    <2>2. /\ C \in Positions /\ P \in Positions /\ hc \in Positions /\ hp \in Positions
          /\ Known \in Positions
      BY <1>1, RingsAssumption, PositionTypes
    <2>3. known = Known \/ known = hc
      BY DEF Known, Attached
    <2> HIDE DEF C, P, hc, hp, known
    <2>4. Follow(C, hc, known, P, hp)
      BY <2>1, <2>2, <2>3, RingsAssumption, FollowFirst
    <2>5. ASSUME NEW n \in 0 .. Ahead(hp, hc) - 1
          PROVE  data[Slot(Plus(hc, n))] = Plus(hc, n)
      <3>1. Ahead(hp, hc) \in Nat /\ Ahead(hp, hc) < Wrap /\ Wrap \in Nat
        BY <2>2, RingsAssumption, AheadSum DEF RingsAssumption
      <3>2. n \in 0 .. Wrap /\ n \in 0 .. Wrap - 1 /\ n < Ahead(hp, hc)
        BY <3>1
      <3>3. Plus(hc, n) \in Positions /\ Ahead(Plus(hc, n), hc) = n
        BY <2>2, <3>2, RingsAssumption, PlusFacts, PlusAhead
      <3> QED BY <2>1, <3>2, <3>3 DEF Slots
    <2> QED BY <2>4, <2>5
  <1> QED BY <1>1, Order_Invariant, PTL

(* Whatever one process writes into the header or tells the kernel, the    *)
(* kernel and the other end believe positions that fit into the ring; and  *)
(* while all keep to the library nothing fails (ring.c:617, bulk_ring.c    *)
(* header_valid).                                                          *)
THEOREM Order_FaultsContained == Spec => []FaultsContained
  <1>1. ASSUME RingInv, OrderInv
        PROVE  FaultsContained
    <2>1. TypeOK /\ Used(ring) <= Capacity
      BY <1>1, RingsAssumption, StepTypes DEF RingInv, Sound
    <2>2. \A e \in Ends : Attached(e) => Fills(e, view[e]) <= Capacity
      BY <1>1 DEF OrderInv, Beliefs, Believes, Attached
    <2>3. ASSUME faulty = {}, NEW e \in Ends
          PROVE  ring.terminal[e] # "failed" /\ ~view[e].failed
      <3>1. CASE ring.state = "free"
        <4>1. ring.terminal = [x \in Ends |-> "ok"]
          BY <1>1, <3>1, RingsAssumption, StepTypes DEF Sound
        <4>2. view[e] = NoView
          BY <1>1, <3>1, RingsAssumption, NoViews
        <4> QED BY <4>1, <4>2, NoViewIs
      <3>2. CASE ring.state # "free"
        BY <1>1, <2>3, <3>2 DEF OrderInv, Ordered
      <3> QED BY <3>1, <3>2
    <2> QED BY <2>1, <2>2, <2>3 DEF FaultsContained, Fills
  <1> QED BY <1>1, Order_Invariant, PTL

----------------------------------------------------------------------------
(* The end of the stream. *)

(* Nothing more comes to end e, or can be given there. *)
Over(r, e) ==
  r.state = "open" => r.references[Other(e)] = 0 /\ (e = "consumer" => Room(r, e) = 0)

(* A thread that was told so is where it was told, with its handle. *)
Finished(p, e) ==
  thread[p][e].pc = "idle" /\ process[p] = "alive" /\ <<p, e>> \in holds /\ Over(ring, e)

EndInv == \A p \in Processes, e \in Ends : thread[p][e].dead => Finished(p, e)

(* A sleeping thread is told. *)
Quits(form, t, u) ==
  t.pc = "asleep" /\ u.pc = "idle" /\ (form = "shared" \/ t.want # 0)

Unaware(s) == \A p \in Processes, e \in Ends : s.thread[p][e].pc = "asleep" => ~s.thread[p][e].dead

(* What an operation of the kernel tells the threads is so. *)
Tells(s, r) ==
  \A p \in Processes, e \in Ends : r.thread[p][e].dead =>
    \/ r.thread[p][e] = s.thread[p][e] /\ (Over(s.ring, e) => Over(r.ring, e))
    \/ Quits(s.ring.form, s.thread[p][e], r.thread[p][e]) /\ Over(r.ring, e)

LEMMA AfterTells ==
  ASSUME NEW s, NEW t \in Calls, NEW e, NEW result, t.pc = "asleep", ~t.dead,
         After(s, t, e, result).dead
  PROVE  result = "dead" /\ Quits(s.ring.form, t, After(s, t, e, result))
  <1>1. ~Idle.dead
    BY DEF Idle
  <1>2. \A pc \in {"ask", "try"} : ~[t EXCEPT !.pc = pc].dead
    BY DEF Calls
  <1>3. Told(result).dead => result = "dead"
    BY DEF Told, Idle
  <1> QED BY <1>1, <1>2, <1>3, ToldFacts DEF After, Quits

LEMMA WakeTells ==
  ASSUME NEW s \in Records, NEW e \in Ends, NEW result, Unaware(s),
         NEW r, r = Wake(s, e, result), NEW p \in Processes, NEW x \in Ends, r.thread[p][x].dead
  PROVE  \/ r.thread[p][x] = s.thread[p][x]
         \/ x = e /\ result = "dead" /\ Quits(s.ring.form, s.thread[p][x], r.thread[p][x])
  <1>1. s.thread[p] \in [Ends -> Calls] /\ s.thread[p][x] \in Calls
    BY DEF Records
  <1>2. CASE p \in Asleep(s, e)
    <2> DEFINE u == After(s, s.thread[p][e], e, result)
    <2>1. r.thread[p] = [s.thread[p] EXCEPT ![e] = u]
      BY <1>2 DEF Wake, Records
    <2>2. s.thread[p][e].pc = "asleep" /\ ~s.thread[p][e].dead /\ s.thread[p][e] \in Calls
      BY <1>1, <1>2 DEF Asleep, Unaware
    <2>3. u.dead => result = "dead" /\ Quits(s.ring.form, s.thread[p][e], u)
      BY <2>2, AfterTells
    <2> HIDE DEF u
    <2> QED BY <1>1, <2>1, <2>3
  <1>3. CASE p \notin Asleep(s, e)
    <2>1. r.thread[p] = s.thread[p]
      BY <1>3 DEF Wake, Records
    <2> QED BY <2>1
  <1> QED BY <1>2, <1>3

(* Both ends are woken, one at most of them to be told. *)
LEMMA WakeBothTells ==
  ASSUME RingsAssumption, NEW s \in Records, NEW e \in Ends, NEW mine, NEW others, Unaware(s),
         NEW r, r = Wake(Wake(s, e, mine), Other(e), others),
         NEW p \in Processes, NEW x \in Ends, r.thread[p][x].dead
  PROVE  \/ r.thread[p][x] = s.thread[p][x]
         \/ /\ (x = e /\ mine = "dead") \/ (x = Other(e) /\ others = "dead")
            /\ Quits(s.ring.form, s.thread[p][x], r.thread[p][x])
  <1> DEFINE one == Wake(s, e, mine)
  <1>0. Other(e) \in Ends /\ Other(e) # e
    BY DEF Ends, Other
  <1>1. /\ one \in Records /\ one.ring = s.ring
        /\ \A y \in Processes, z \in Ends :
             /\ Woken(s.ring.form, s.thread[y][z], one.thread[y][z])
             /\ z = e => one.thread[y][z].pc # "asleep"
             /\ z # e => one.thread[y][z] = s.thread[y][z]
    BY WakeFacts
  <1>2. \A y \in Processes, z \in Ends : one.thread[y][z].dead =>
          \/ one.thread[y][z] = s.thread[y][z]
          \/ z = e /\ mine = "dead" /\ Quits(s.ring.form, s.thread[y][z], one.thread[y][z])
    BY WakeTells
  <1> HIDE DEF one
  <1>3. Unaware(one)
    BY <1>1 DEF Unaware
  <1>4. r = Wake(one, Other(e), others)
    BY DEF one
  <1>5. /\ r.thread[p][x].dead =>
          \/ r.thread[p][x] = one.thread[p][x]
          \/ /\ x = Other(e) /\ others = "dead"
             /\ Quits(s.ring.form, one.thread[p][x], r.thread[p][x])
    BY <1>0, <1>1, <1>3, <1>4, WakeTells
  <1>6. CASE r.thread[p][x] = one.thread[p][x]
    BY <1>2, <1>6
  <1>7. CASE /\ x = Other(e) /\ others = "dead"
             /\ Quits(s.ring.form, one.thread[p][x], r.thread[p][x])
    BY <1>0, <1>1, <1>7
  <1> QED BY <1>5, <1>6, <1>7

LEMMA MaybeFreeCounts ==
  ASSUME NEW s \in Records
  PROVE  LET r == MaybeFree(s)
         IN /\ r.thread = s.thread
            /\ \/ r.ring.state = "free"
               \/ /\ r.ring.state = s.ring.state /\ r.ring.references = s.ring.references
                  /\ r.ring.position = s.ring.position
  <1>1. CASE \E e \in Ends : s.ring.references[e] # 0
    BY <1>1 DEF MaybeFree
  <1>2. CASE /\ \A e \in Ends : s.ring.references[e] = 0
             /\ \E e \in Ends : Asleep(s, e) # {}
    <2> DEFINE g == [s.ring EXCEPT !.corrupt = TRUE]
    <2>1. g.state = s.ring.state /\ g.position = s.ring.position /\ g.references = s.ring.references
      BY DEF Records, RingRecords
    <2>2. MaybeFree(s) = [s EXCEPT !.ring = g]
      BY <1>2 DEF MaybeFree, Records
    <2> HIDE DEF g
    <2>3. MaybeFree(s).ring = g /\ MaybeFree(s).thread = s.thread
      BY <2>2 DEF Records
    <2> QED BY <2>1, <2>3
  <1>3. CASE /\ \A e \in Ends : s.ring.references[e] = 0
             /\ \A e \in Ends : Asleep(s, e) = {}
    <2> DEFINE f == [s EXCEPT !.ring = FreeRing(s.ring.form), !.area.children = @ - 1]
    <2>1. MaybeFree(s) = CloseUnused(f)
      BY <1>3 DEF MaybeFree
    <2>2. f.ring = FreeRing(s.ring.form) /\ f.thread = s.thread
      BY DEF Records
    <2>3. f \in [ring : {f.ring}, area : {f.area}, thread : {f.thread}]
      BY DEF Records
    <2> HIDE DEF f
    <2>4. CloseUnused(f).ring = f.ring /\ CloseUnused(f).thread = f.thread
      BY <2>3 DEF CloseUnused
    <2>5. FreeRing(s.ring.form).state = "free"
      BY DEF FreeRing
    <2> QED BY <2>1, <2>2, <2>4, <2>5
  <1> QED BY <1>1, <1>2, <1>3

(* The last handle of an end tells the threads at the other one. *)
LEMMA ReleaseTells ==
  ASSUME RingsAssumption, NEW s, NEW h, Sound(s, h), Unaware(s), NEW e \in Ends,
         s.ring.references[e] # 0
  PROVE  Tells(s, ReleaseEnd(s, e))
  <1> DEFINE q == Released(s, e)
             w == Wake(Wake(q, e, "closed"), Other(e), "dead")
             m == IF Last(s, e) THEN w ELSE q
             r == MaybeFree(m)
  <1>0. s \in Records /\ Other(e) \in Ends /\ Other(e) # e /\ Other(Other(e)) = e
    BY DEF Sound, Ends, Other
  <1>1. /\ q \in Records /\ q.thread = s.thread /\ q.ring.form = s.ring.form
        /\ q.ring.state = s.ring.state /\ q.ring.position = s.ring.position
        /\ q.ring.references = [s.ring.references EXCEPT ![e] = @ - 1]
    BY <1>0, ReleasedFacts
  <1>2. s.ring.references \in [Ends -> Nat]
    BY <1>0 DEF Records, RingRecords
  <1>3. /\ q.ring.references[e] = s.ring.references[e] - 1
        /\ q.ring.references[Other(e)] = s.ring.references[Other(e)]
    BY <1>0, <1>1, <1>2
  <1> HIDE DEF q
  <1>4. Unaware(q)
    BY <1>1 DEF Unaware
  <1>5. /\ w \in Records /\ w.ring = q.ring
        /\ \A p \in Processes, x \in Ends : w.thread[p][x].dead =>
             \/ w.thread[p][x] = s.thread[p][x]
             \/ x = Other(e) /\ Quits(s.ring.form, s.thread[p][x], w.thread[p][x])
    <2>1. w \in Records /\ w.ring = q.ring
      BY <1>1, WakeBoth
    <2>2. w = Wake(Wake(q, e, "closed"), Other(e), "dead")
      OBVIOUS
    <2> HIDE DEF w
    <2> QED BY <1>1, <1>4, <2>1, <2>2, WakeBothTells
  <1> HIDE DEF w
  <1>6. /\ m \in Records /\ m.ring = q.ring
        /\ \A p \in Processes, x \in Ends : m.thread[p][x].dead =>
             \/ m.thread[p][x] = s.thread[p][x]
             \/ Last(s, e) /\ x = Other(e) /\ Quits(s.ring.form, s.thread[p][x], m.thread[p][x])
    BY <1>1, <1>5
  <1>7. ReleaseEnd(s, e) = r
    BY DEF ReleaseEnd, m, w, q
  <1> HIDE DEF m
  <1>8. /\ r.thread = m.thread
        /\ \/ r.ring.state = "free"
           \/ /\ r.ring.state = s.ring.state /\ r.ring.references = q.ring.references
              /\ r.ring.position = s.ring.position
    BY <1>1, <1>6, MaybeFreeCounts
  <1> HIDE DEF r
  <1>9. ASSUME NEW x \in Ends, Over(s.ring, x)
        PROVE  Over(r.ring, x)
    <2> SUFFICES ASSUME r.ring.state = "open"
                 PROVE  r.ring.references[Other(x)] = 0 /\ (x = "consumer" => Room(r.ring, x) = 0)
      BY DEF Over
    <2>1. /\ s.ring.state = "open" /\ r.ring.references = q.ring.references
          /\ r.ring.position = s.ring.position
      BY <1>8
    <2>2. s.ring.references[Other(x)] = 0 /\ (x = "consumer" => Room(s.ring, x) = 0)
      BY <1>9, <2>1 DEF Over
    <2>3. Other(x) = Other(e)
      BY <2>2 DEF Other, Ends
    <2> QED BY <1>3, <2>1, <2>2, <2>3 DEF Room, Used
  <1>10. ASSUME NEW p \in Processes, Last(s, e), s.thread[p][Other(e)].pc = "asleep"
         PROVE  Over(r.ring, Other(e))
    <2> SUFFICES ASSUME r.ring.state = "open"
                 PROVE  /\ r.ring.references[e] = 0 /\ Room(r.ring, Other(e)) = 0
      BY <1>0 DEF Over
    <2>1. r.ring.references = q.ring.references /\ r.ring.position = s.ring.position
      BY <1>8
    <2>2. Room(s.ring, Other(e)) = 0
      BY <1>0, <1>10 DEF Sound, Heard
    <2>3. q.ring.references[e] = 0
      BY <1>3, <1>10 DEF Last
    <2> QED BY <2>1, <2>2, <2>3 DEF Room, Used
  <1>11. Tells(s, r)
    BY <1>6, <1>8, <1>9, <1>10 DEF Tells, Quits
  <1> QED BY <1>7, <1>11

(* A ring that fails is not open. *)
LEMMA FailTells ==
  ASSUME RingsAssumption, NEW s \in Records, Unaware(s), NEW result \in Results
  PROVE  Tells(s, Fail(s, result))
  <1> DEFINE closing == [s.ring EXCEPT !.state = "closing", !.terminal = [e \in Ends |-> result]]
             q == [s EXCEPT !.ring = closing]
             w == Wake(Wake(q, "producer", result), "consumer", result)
             r == MaybeFree(w)
  <1>1. closing \in RingRecords /\ closing.state = "closing" /\ closing.form = s.ring.form
    BY DEF Records, RingRecords
  <1>2. q = [s EXCEPT !.ring.state = "closing", !.ring.terminal = [e \in Ends |-> result]]
    BY DEF Records
  <1> HIDE DEF closing
  <1>3. q \in Records /\ q.ring = closing /\ q.thread = s.thread
    BY <1>1 DEF Records
  <1> HIDE DEF q
  <1>4. Other("producer") = "consumer" /\ "producer" \in Ends /\ Unaware(q)
    BY <1>3 DEF Other, Ends, Unaware
  <1>5. /\ w \in Records /\ w.ring = closing
        /\ \A p \in Processes, x \in Ends : w.thread[p][x].dead =>
             w.thread[p][x] = s.thread[p][x] \/ Quits(s.ring.form, s.thread[p][x], w.thread[p][x])
    <2>1. w \in Records /\ w.ring = closing
      BY <1>3, <1>4, WakeBoth
    <2>2. w = Wake(Wake(q, "producer", result), Other("producer"), result)
      BY <1>4
    <2> HIDE DEF w
    <2> QED BY <1>1, <1>3, <1>4, <2>1, <2>2, WakeBothTells
  <1>6. Fail(s, result) = r
    BY <1>2 DEF Fail
  <1> HIDE DEF w
  <1>7. r.thread = w.thread /\ r.ring.state # "open"
    BY <1>1, <1>5, MaybeFreeCounts
  <1> HIDE DEF r
  <1> QED BY <1>5, <1>6, <1>7 DEF Tells, Over

(* The position of an end that has a handle advances. *)
LEMMA AdvanceTells ==
  ASSUME RingsAssumption, NEW s, NEW h, Sound(s, h), Unaware(s), NEW e \in Ends,
         s.ring.references[e] # 0, NEW position \in Positions,
         Ahead(position, s.ring.position[e]) <= Room(s.ring, e),
         NEW r, Advances(s, e, position, r)
  PROVE  Tells(s, r)
  <1> DEFINE ring1 == [s.ring EXCEPT !.position[e] = position]
             q == Advanced(s, e, position)
  <1>0. Other(e) \in Ends /\ Other(e) # e /\ Other(Other(e)) = e
    BY DEF Ends, Other
  <1>1. s \in Records /\ s.ring \in RingRecords /\ Used(s.ring) <= Capacity
    BY DEF Sound, Records
  <1>2. q = [s EXCEPT !.ring = ring1]
    BY <1>1 DEF Advanced, Records
  <1>3. /\ ring1 \in RingRecords /\ ring1.state = s.ring.state /\ ring1.form = s.ring.form
        /\ ring1.references = s.ring.references
    BY <1>1 DEF RingRecords
  <1>4. Room(s.ring, e) = 0 => ring1 = s.ring
    BY <1>1, RoomAfter
  <1> HIDE DEF ring1
  <1>5. q \in Records /\ q.ring = ring1 /\ q.thread = s.thread
    BY <1>1, <1>2, <1>3 DEF Records
  <1> HIDE DEF q
  <1>6. /\ r.ring = ring1
        /\ \A p \in Processes, x \in Ends : r.thread[p][x].dead => r.thread[p][x] = s.thread[p][x]
    <2>1. CASE r = Wake(q, Other(e), "ok")
      <3>1. Unaware(q)
        BY <1>5 DEF Unaware
      <3>2. \A p \in Processes, x \in Ends : r.thread[p][x].dead => r.thread[p][x] = q.thread[p][x]
        BY <1>0, <1>5, <2>1, <3>1, WakeTells
      <3>3. r.ring = q.ring
        BY <1>0, <1>5, <2>1, WakeFacts
      <3> QED BY <1>5, <3>2, <3>3
    <2>2. CASE r # Wake(q, Other(e), "ok")
      <3>1. r = q
        BY <2>2 DEF q, Advances
      <3> QED BY <1>5, <3>1
    <2> QED BY <2>1, <2>2
  <1>7. ASSUME NEW x \in Ends, Over(s.ring, x)
        PROVE  Over(ring1, x)
    <2>1. CASE x = e
      BY <1>3, <1>4, <1>7, <2>1 DEF Over
    <2>2. CASE x # e
      <3>1. s.ring.references[Other(x)] # 0
        BY <2>2 DEF Other, Ends
      <3> QED BY <1>3, <1>7, <3>1 DEF Over
    <2> QED BY <2>1, <2>2
  <1> QED BY <1>6, <1>7 DEF Tells

(* RING_NOTIFY by a process with a handle. *)
LEMMA NotifyTells ==
  ASSUME RingsAssumption, NEW s, NEW h, Sound(s, h), s.ring.state # "free", Unaware(s),
         NEW e \in Ends, s.ring.references[e] # 0, NEW position \in Positions,
         NEW answer, answer = Notify(s, e, position), NEW r, r = answer[1]
  PROVE  Tells(s, r) /\ (answer[2] = "dead" => r = s /\ Over(s.ring, e))
  <1>1. s.ring.state \in {"open", "closing"} /\ s \in Records
    BY DEF Sound, Records, RingRecords
  <1>2. Tells(s, s)
    BY DEF Tells
  <1>3. CASE s.ring.state = "closing" \/ (e = "producer" /\ s.ring.references["consumer"] = 0)
    <2>1. r = s
      BY <1>3 DEF Notify
    <2>2. Over(s.ring, e)
      BY <1>3 DEF Over, Other
    <2> QED BY <1>2, <2>1, <2>2
  <1>4. CASE /\ s.ring.state = "open" /\ ~(e = "producer" /\ s.ring.references["consumer"] = 0)
             /\ Ahead(position, s.ring.position[e]) > Room(s.ring, e)
    <2>1. answer = <<Fail(s, "failed"), "failed">>
      BY <1>4 DEF Notify
    <2>2. Tells(s, Fail(s, "failed"))
      BY <1>1, FailTells DEF Results
    <2>3. r = Fail(s, "failed") /\ answer[2] # "dead"
      BY <2>1
    <2> QED BY <2>2, <2>3
  <1>5. CASE /\ s.ring.state = "open" /\ ~(e = "producer" /\ s.ring.references["consumer"] = 0)
             /\ ~(Ahead(position, s.ring.position[e]) > Room(s.ring, e))
    <2>1. r = Accept(s, e, position) /\ answer[2] = "ok"
      BY <1>5 DEF Notify
    <2>2. Ahead(position, s.ring.position[e]) <= Room(s.ring, e)
      <3>1. Ahead(position, s.ring.position[e]) \in Int /\ Room(s.ring, e) \in Int
        BY AheadSum DEF Sound, Records, RingRecords, Ends, Room, Used, RingsAssumption
      <3> QED BY <1>5, <3>1
    <2>3. s.ring.references = Advanced(s, e, position).ring.references
      BY DEF Sound, Records, RingRecords, Advanced
    <2>4. Advances(s, e, position, r)
      BY <2>1, <2>3 DEF Accept, Advanced, Advances
    <2>5. Tells(s, r)
      BY <2>2, <2>4, AdvanceTells
    <2> QED BY <2>1, <2>5
  <1> QED BY <1>1, <1>3, <1>4, <1>5

(* An end with a handle is counted. *)
LEMMA HolderCounts ==
  ASSUME RingsAssumption, NEW s, NEW h, Sound(s, h), NEW p \in Processes, NEW e \in Ends,
         <<p, e>> \in h
  PROVE  s.ring.references[e] # 0 /\ s.ring.state # "free"
  <1>1. s.ring.references[e] = Cardinality(Holders(h, e)) /\ p \in Holders(h, e)
    BY DEF Sound, Backs, Holders
  <1>2. s.ring.references[e] # 0
    BY <1>1, HoldersFinite
  <1> QED BY <1>2 DEF Sound, Backs

(* The threads and handles of ends that a step leaves alone. *)
Stay(s, p, e) ==
  s.thread[p][e].dead \/ (s.thread[p][e].pc = "asleep"
                          /\ (ring.form = "shared" \/ s.thread[p][e].want # 0)) =>
    /\ s.thread[p][e] = thread[p][e]
    /\ <<p, e>> \in holds /\ process[p] = "alive" =>
         <<p, e>> \in holds' /\ process'[p] = "alive"

LEMMA TellsEnd ==
  ASSUME RingsAssumption, RingInv, EndInv, NEW s, NEW r, Tells(s, r), s.ring = ring,
         ring' = r.ring, thread' = r.thread,
         \A p \in Processes, e \in Ends : Stay(s, p, e)
  PROVE  EndInv'
  <1> SUFFICES ASSUME NEW p \in Processes, NEW e \in Ends, r.thread[p][e].dead
               PROVE  /\ r.thread[p][e].pc = "idle" /\ process'[p] = "alive"
                      /\ <<p, e>> \in holds' /\ Over(r.ring, e)
    BY DEF EndInv, Finished
  <1>1. CASE r.thread[p][e] = s.thread[p][e] /\ (Over(s.ring, e) => Over(r.ring, e))
    <2>1. s.thread[p][e] = thread[p][e] /\ thread[p][e].dead
      BY <1>1 DEF Stay
    <2>2. Finished(p, e)
      BY <2>1 DEF EndInv
    <2> QED BY <1>1, <2>1, <2>2 DEF Finished, Stay
  <1>2. CASE Quits(ring.form, s.thread[p][e], r.thread[p][e]) /\ Over(r.ring, e)
    <2>1. /\ s.thread[p][e] = thread[p][e] /\ r.thread[p][e].pc = "idle"
          /\ thread[p][e].pc = "asleep" /\ (ring.form = "shared" \/ thread[p][e].want # 0)
      BY <1>2 DEF Stay, Quits
    <2>2. Fits(ring.form, thread[p][e], holds, view, process, p, e)
      BY StepTypes
    <2>3. <<p, e>> \in holds /\ process[p] = "alive"
      BY <2>1, <2>2 DEF Fits
    <2> QED BY <1>2, <2>1, <2>3 DEF Stay
  <1> QED BY <1>1, <1>2 DEF Tells

(* The kernel's work for thread p of end e, which goes on to u. *)
LEMMA CallerEnd ==
  ASSUME RingsAssumption, RingInv, EndInv, NEW r, Tells(Now, r), ring' = r.ring,
         NEW p \in Processes, NEW e \in Ends, NEW u,
         \A x \in Processes, y \in Ends :
            thread'[x][y] = IF x = p /\ y = e THEN u ELSE r.thread[x][y],
         holds' = holds, process' = process,
         u.dead => /\ u.pc = "idle" /\ process[p] = "alive" /\ <<p, e>> \in holds
                   /\ Over(ring', e)
  PROVE  EndInv'
  <1> SUFFICES ASSUME NEW x \in Processes, NEW y \in Ends, thread'[x][y].dead
               PROVE  /\ thread'[x][y].pc = "idle" /\ process[x] = "alive"
                      /\ <<x, y>> \in holds /\ Over(ring', y)
    BY DEF EndInv, Finished
  <1>1. CASE x = p /\ y = e
    BY <1>1
  <1>2. CASE ~(x = p /\ y = e)
    <2>0. thread'[x][y] = r.thread[x][y] /\ Now.ring = ring /\ Now.thread = thread
      BY <1>2, StepTypes
    <2>1. CASE r.thread[x][y] = thread[x][y] /\ (Over(ring, y) => Over(r.ring, y))
      <3>1. Finished(x, y)
        BY <2>0, <2>1 DEF EndInv
      <3> QED BY <2>0, <2>1, <3>1 DEF Finished
    <2>2. CASE Quits(ring.form, thread[x][y], r.thread[x][y]) /\ Over(r.ring, y)
      <3>1. Fits(ring.form, thread[x][y], holds, view, process, x, y)
        BY StepTypes
      <3> QED BY <2>0, <2>2, <3>1 DEF Quits, Fits
    <2> QED BY <2>0, <2>1, <2>2 DEF Tells
  <1> QED BY <1>1, <1>2

(* Only thread p of end e goes on. *)
LEMMA ThreadEnd ==
  ASSUME RingsAssumption, RingInv, EndInv, NEW p \in Processes, NEW e \in Ends, NEW u,
         thread' = [thread EXCEPT ![p][e] = u], UNCHANGED <<process, ring, holds>>,
         u.dead => u.pc = "idle" /\ process[p] = "alive" /\ <<p, e>> \in holds /\ Over(ring, e)
  PROVE  EndInv'
  <1>1. Tells(Now, Now) /\ Now.ring = ring /\ Now.thread = thread
    BY StepTypes DEF Tells
  <1>2. \A x \in Processes, y \in Ends :
          thread'[x][y] = IF x = p /\ y = e THEN u ELSE thread[x][y]
    BY StepTypes
  <1> QED BY <1>1, <1>2, CallerEnd

LEMMA NotAware ==
  ASSUME RingsAssumption, RingInv, EndInv
  PROVE  Unaware(Now)
  BY StepTypes DEF Unaware, EndInv, Finished

LEMMA GoesOnEnd ==
  ASSUME RingsAssumption, RingInv, EndInv, NEW p \in Processes, NEW e \in Ends, NEW pc,
         thread[p][e].pc # "idle", GoesOn(p, e, pc)
  PROVE  EndInv'
  <1> DEFINE u == [thread[p][e] EXCEPT !.pc = pc]
  <1>1. thread[p][e] \in Calls /\ ~thread[p][e].dead
    <2>1. thread[p][e] \in Calls
      BY StepTypes
    <2>2. ~thread[p][e].dead
      BY DEF EndInv, Finished
    <2> QED BY <2>1, <2>2
  <1>2. ~u.dead
    <2> DEFINE t == thread[p][e]
    <2>1. t \in Calls /\ ~t.dead
      BY <1>1
    <2> HIDE DEF t
    <2>2. ~[t EXCEPT !.pc = pc].dead
      BY <2>1 DEF Calls
    <2> QED BY <2>2 DEF t
  <1>3. thread' = [thread EXCEPT ![p][e] = u]
    BY StepTypes DEF GoesOn
  <1> HIDE DEF u
  <1> QED BY <1>2, <1>3, ThreadEnd DEF GoesOn

LEMMA ToldEnd == \A told : Told(told).dead => told = "dead"
  BY DEF Told, Idle

LEMMA ReturnsEnd ==
  ASSUME RingsAssumption, RingInv, EndInv, NEW p \in Processes, NEW e \in Ends, NEW told,
         Returns(p, e, told),
         told = "dead" => process[p] = "alive" /\ <<p, e>> \in holds /\ Over(ring, e)
  PROVE  EndInv'
  <1>1. Told(told).pc = "idle" /\ (Told(told).dead => told = "dead")
    BY ToldFacts, ToldEnd
  <1> QED BY <1>1, ThreadEnd DEF Returns

LEMMA WouldBlockEnd ==
  ASSUME RingsAssumption, RingInv, EndInv, NEW p \in Processes, NEW e \in Ends,
         thread[p][e].pc # "idle", WouldBlock(p, e)
  PROVE  EndInv'
  BY GoesOnEnd, ReturnsEnd DEF WouldBlock

(* An end that is told in its own call is where it can be told. *)
LEMMA CallHolds ==
  ASSUME RingsAssumption, RingInv, NEW p \in Processes, NEW e \in Ends,
         thread[p][e].pc \notin {"idle", "asleep"}
  PROVE  <<p, e>> \in holds /\ process[p] = "alive"
  <1>1. Fits(ring.form, thread[p][e], holds, view, process, p, e)
    BY StepTypes
  <1> QED BY <1>1 DEF Fits

LEMMA BlockEnd ==
  ASSUME RingsAssumption, RingInv, EndInv, NEW p \in Processes, NEW e \in Ends, Block(p, e)
  PROVE  EndInv'
  <1> DEFINE t == thread[p][e]
             result == Readiness(ring, e)
             u == IF result = "sleep" THEN [t EXCEPT !.pc = "asleep"]
                  ELSE After(Now, t, e, result)
  <1>1. /\ t \in Calls /\ t.pc = "block" /\ thread' = [thread EXCEPT ![p][e] = u]
        /\ UNCHANGED <<process, ring, holds>>
    BY StepTypes DEF Block
  <1>2. <<p, e>> \in holds /\ process[p] = "alive"
    BY <1>1, CallHolds
  <1>3. ~t.dead
    BY <1>1 DEF EndInv, Finished
  <1>4. result = "dead" => Over(ring, e)
    BY DEF Readiness, Over, Other
  <1> HIDE DEF t, result
  <1>5. \A pc \in {"asleep", "ask", "try"} : ~[t EXCEPT !.pc = pc].dead
    BY <1>1, <1>3 DEF Calls
  <1>6. Told(result).pc = "idle" /\ (Told(result).dead => result = "dead") /\ ~Idle.dead
    BY ToldFacts, ToldEnd DEF Idle
  <1>7. u.dead => u.pc = "idle" /\ result = "dead"
    BY <1>5, <1>6 DEF After
  <1> HIDE DEF u
  <1> QED BY <1>1, <1>2, <1>4, <1>7, ThreadEnd

LEMMA BeginsEnd ==
  ASSUME RingsAssumption, RingInv, EndInv, NEW p \in Processes, NEW e \in Ends,
         (\E call : Attach(p, e) \/ Begin(p, e, call)) \/ \E length : Start(p, e, length)
  PROVE  EndInv'
  <1>1. PICK u : thread' = [thread EXCEPT ![p][e] = u] /\ ~u.dead
    <2>1. \A call : ~[Idle EXCEPT !.pc = "ask", !.call = call].dead
      BY DEF Idle
    <2>2. \A length : ~[Idle EXCEPT !.pc = "try", !.want = length].dead
      BY DEF Idle
    <2> QED BY <2>1, <2>2 DEF Attach, Begin, Start
  <1>2. UNCHANGED <<process, ring, holds>>
    BY DEF Attach, Begin, Start
  <1> QED BY <1>1, <1>2, ThreadEnd

LEMMA QuietEnd ==
  ASSUME RingsAssumption, EndInv, UNCHANGED <<process, ring, holds, thread>>
  PROVE  EndInv'
  BY DEF EndInv, Finished

LEMMA ReportEnd ==
  ASSUME RingsAssumption, RingInv, EndInv, NEW p \in Processes, NEW e \in Ends, Report(p, e)
  PROVE  EndInv'
  <1> DEFINE s == IF ring.state = "open" THEN Fail(Now, "failed") ELSE Now
             u == Told("failed")
             r == Goes(s, p, e, u)
  <1>1. u \in Calls /\ ~u.dead
    BY ToldFacts, ToldEnd
  <1>2. Becomes(r) /\ process' = process /\ holds' = holds
    BY DEF Report, Goes
  <1> HIDE DEF u
  <1>3. s \in Records /\ Tells(Now, s)
    <2>1. Now \in Records /\ Sound(Now, holds) /\ Now.ring = ring /\ Unaware(Now)
      BY StepTypes, NotAware
    <2>2. CASE ring.state = "open"
      <3>1. Sound(Fail(Now, "failed"), holds) /\ Tells(Now, Fail(Now, "failed"))
        BY <2>1, <2>2, FailSound, FailTells DEF Results
      <3> QED BY <2>2, <3>1 DEF Sound
    <2>3. CASE ring.state # "open"
      BY <2>1, <2>3 DEF Tells
    <2> QED BY <2>2, <2>3
  <1> HIDE DEF s
  <1>4. /\ ring' = s.ring
        /\ \A x \in Processes, y \in Ends :
             thread'[x][y] = IF x = p /\ y = e THEN u ELSE s.thread[x][y]
    <2>1. /\ r.ring = s.ring
          /\ \A x \in Processes, y \in Ends :
               r.thread[x][y] = IF x = p /\ y = e THEN u ELSE s.thread[x][y]
      BY <1>1, <1>3, GoesFacts
    <2> HIDE DEF r
    <2> QED BY <1>2, <2>1 DEF Becomes
  <1> HIDE DEF r
  <1>5. process' = process /\ holds' = holds
    BY <1>2
  <1>6. u.dead => /\ u.pc = "idle" /\ process[p] = "alive" /\ <<p, e>> \in holds
                  /\ Over(ring', e)
    BY <1>1
  <1>7. Tells(Now, s)
    BY <1>3
  <1> QED BY <1>4, <1>5, <1>6, <1>7, CallerEnd

LEMMA AskEnd ==
  ASSUME RingsAssumption, RingInv, EndInv, NEW p \in Processes, NEW e \in Ends, Ask(p, e)
  PROVE  EndInv'
  <1> DEFINE t == thread[p][e]
             answer == Notify(Now, e, view[e].local)
             s == answer[1]
             ok == answer[2] = "ok"
             u == IF ok THEN [t EXCEPT !.pc = "recheck"] ELSE Told(answer[2])
  <1>1. /\ t.pc = "ask" /\ t \in Calls /\ ~t.dead
        /\ <<p, e>> \in holds /\ process[p] = "alive"
    <2>1. t.pc = "ask" /\ t \in Calls
      BY StepTypes DEF Ask
    <2>2. ~t.dead
      BY <2>1 DEF EndInv, Finished
    <2> QED BY <2>1, <2>2, CallHolds
  <1>2. CASE ~HeaderValid(e) /\ Report(p, e)
    BY <1>2, ReportEnd
  <1>3. CASE ~(~HeaderValid(e) /\ Report(p, e))
    <2>1. Now \in Records /\ Sound(Now, holds) /\ Now.ring = ring /\ Now.thread = thread
          /\ Unaware(Now) /\ view[e].local \in Positions
      BY StepTypes, NotAware DEF Views
    <2>2. ring.references[e] # 0 /\ ring.state # "free"
      BY <1>1, <2>1, HolderCounts
    <2>3. /\ Notified(Now, holds, e, view[e].local, answer, s)
          /\ Tells(Now, s) /\ (answer[2] = "dead" => s = Now /\ Over(ring, e))
      <3>1. answer = Notify(Now, e, view[e].local) /\ s = answer[1]
        OBVIOUS
      <3> HIDE DEF answer, s
      <3> QED BY <2>1, <2>2, <3>1, NotifySound, NotifyTells
    <2>4. /\ Becomes([s EXCEPT !.thread[p][e] =
                 IF ok THEN [@ EXCEPT !.pc = "recheck"] ELSE Told(answer[2])])
          /\ process' = process /\ holds' = holds
      BY <1>3 DEF Ask
    <2> HIDE DEF answer, s
    <2>5. /\ s \in Records
          /\ \A x \in Processes, y \in Ends : Woken(ring.form, thread[x][y], s.thread[x][y])
      BY <2>1, <2>3 DEF Notified, Sound
    <2>6. s.thread[p][e] = t
      BY <1>1, <2>5 DEF Woken
    <2>7. Becomes(Goes(s, p, e, u))
      BY <2>4, <2>6 DEF Goes
    <2>8. u \in Calls /\ (u.dead => u.pc = "idle" /\ answer[2] = "dead")
      <3>1. [t EXCEPT !.pc = "recheck"] \in Calls /\ ~[t EXCEPT !.pc = "recheck"].dead
        BY <1>1 DEF Calls
      <3> HIDE DEF t
      <3>2. CASE ok
        BY <3>1, <3>2
      <3>3. CASE ~ok
        BY <3>3, ToldFacts, ToldEnd
      <3> QED BY <3>2, <3>3
    <2> HIDE DEF u, t, ok
    <2>9. /\ ring' = s.ring
          /\ \A x \in Processes, y \in Ends :
               thread'[x][y] = IF x = p /\ y = e THEN u ELSE s.thread[x][y]
      <3> DEFINE r == Goes(s, p, e, u)
      <3>1. /\ r.ring = s.ring
            /\ \A x \in Processes, y \in Ends :
                 r.thread[x][y] = IF x = p /\ y = e THEN u ELSE s.thread[x][y]
        BY <2>5, <2>8, GoesFacts
      <3>2. ring' = r.ring /\ thread' = r.thread
        BY <2>7 DEF Becomes
      <3> HIDE DEF r
      <3> QED BY <3>1, <3>2
    <2>10. u.dead => u.pc = "idle" /\ Over(ring', e)
      BY <2>1, <2>3, <2>8, <2>9
    <2> QED BY <1>1, <2>3, <2>4, <2>9, <2>10, CallerEnd
  <1> QED BY <1>2, <1>3

LEMMA RecheckEnd ==
  ASSUME RingsAssumption, RingInv, EndInv, NEW p \in Processes, NEW e \in Ends, Recheck(p, e)
  PROVE  EndInv'
  <1>1. thread[p][e].pc # "idle"
    BY DEF Recheck
  <1>2. Report(p, e) \/ GoesOn(p, e, "block") \/ Returns(p, e, "none")
    BY DEF Recheck
  <1> QED BY <1>1, <1>2, ReportEnd, GoesOnEnd, ReturnsEnd

LEMMA ElementEnd ==
  ASSUME RingsAssumption, RingInv, EndInv, NEW p \in Processes, NEW e \in Ends,
         Reserve(p, e) \/ Commit(p, e)
  PROVE  EndInv'
  <1>1. Report(p, e) \/ UNCHANGED <<process, ring, holds, thread>>
    BY DEF Reserve, Commit
  <1> QED BY <1>1, ReportEnd, QuietEnd

LEMMA CreateEnd ==
  ASSUME RingsAssumption, RingInv, EndInv, NEW p \in Processes, Create(p)
  PROVE  EndInv'
  <1>1. holds = {}
    BY StepTypes DEF Create, Sound, Backs
  <1>2. \A x \in Processes, y \in Ends : ~thread[x][y].dead
    BY <1>1 DEF EndInv, Finished
  <1>3. thread' = thread
    BY DEF Create
  <1> QED BY <1>2, <1>3 DEF EndInv

LEMMA GiveEnd ==
  ASSUME RingsAssumption, RingInv, EndInv, NEW p \in Processes, NEW q \in Processes,
         NEW e \in Ends, Give(p, q, e)
  PROVE  EndInv'
  <1>1. /\ thread' = [thread EXCEPT ![p][e] = Idle]
        /\ holds' = (holds \ {<<p, e>>}) \cup {<<q, e>>} /\ ring' = ring /\ process' = process
    BY DEF Give
  <1>2. ~Idle.dead
    BY DEF Idle
  <1> SUFFICES ASSUME NEW x \in Processes, NEW y \in Ends, thread'[x][y].dead
               PROVE  /\ thread'[x][y].pc = "idle" /\ process[x] = "alive"
                      /\ <<x, y>> \in holds' /\ Over(ring, y)
    BY <1>1 DEF EndInv, Finished
  <1>3. ~(x = p /\ y = e) /\ thread'[x][y] = thread[x][y]
    BY <1>1, <1>2, StepTypes
  <1>4. Finished(x, y)
    BY <1>3 DEF EndInv
  <1>5. <<x, y>> # <<p, e>>
    BY <1>3
  <1> QED BY <1>1, <1>3, <1>4, <1>5 DEF Finished

LEMMA ForkEnd ==
  ASSUME RingsAssumption, RingInv, EndInv, NEW p \in Processes, NEW q \in Processes, Fork(p, q)
  PROVE  EndInv'
  <1> DEFINE copied == IF Shared THEN {} ELSE {e \in Ends : <<p, e>> \in holds}
             refs == [e \in Ends |-> IF e \in copied THEN ring.references[e] + 1
                                     ELSE ring.references[e]]
  <1>1. /\ ring' = [ring EXCEPT !.references = refs] /\ thread' = thread
        /\ process' = [process EXCEPT ![q] = "alive"] /\ holds \subseteq holds'
    BY DEF Fork
  <1>2. \A e \in Ends : ring.references[e] = 0 => refs[e] = 0
    <2> SUFFICES ASSUME NEW e \in Ends, ring.references[e] = 0
                 PROVE  e \notin copied
      OBVIOUS
    <2>1. <<p, e>> \notin holds
      BY StepTypes, HolderCounts
    <2> QED BY <2>1
  <1> HIDE DEF refs
  <1>3. ring'.state = ring.state /\ ring'.position = ring.position /\ ring'.references = refs
    BY <1>1, StepTypes DEF RingRecords
  <1>4. \A e \in Ends : Over(ring, e) => Over(ring', e)
    BY <1>2, <1>3 DEF Over, Other, Ends, Room, Used
  <1>5. \A x \in Processes : process[x] = "alive" => process'[x] = "alive"
    BY <1>1, StepTypes
  <1> QED BY <1>1, <1>4, <1>5 DEF EndInv, Finished

LEMMA AreaEnd ==
  ASSUME RingsAssumption, RingInv, EndInv, NEW p \in Processes, Becomes(ReleaseArea(Now, p)),
         UNCHANGED <<process, holds>>
  PROVE  EndInv'
  <1> DEFINE r == ReleaseArea(Now, p)
  <1>1. Sound(Now, holds) /\ Now.ring = ring /\ Now.thread = thread
    BY StepTypes
  <1>2. ring' = r.ring /\ thread' = r.thread /\ r = ReleaseArea(Now, p)
    BY DEF Becomes
  <1> HIDE DEF r
  <1>3. ring' = ring /\ thread' = thread
    BY <1>1, <1>2, ReleaseAreaSound
  <1> QED BY <1>3, QuietEnd

LEMMA CloseEndEnd ==
  ASSUME RingsAssumption, RingInv, EndInv, NEW p \in Processes, NEW e \in Ends, CloseEnd(p, e)
  PROVE  EndInv'
  <1> DEFINE t == thread[p][e]
             u == IF t.pc = "asleep" THEN [t EXCEPT !.want = 0] ELSE Idle
             s == Goes(Now, p, e, u)
             r == ReleaseEnd(s, e)
  <1>1. /\ <<p, e>> \in holds /\ (ring.form = "shared" => t.pc = "idle")
        /\ Becomes(r) /\ holds' = holds \ {<<p, e>>} /\ process' = process
    BY DEF CloseEnd, Shared, Goes
  <1>2. t \in Calls /\ (t.pc = "asleep" => ~t.dead)
    <2>1. t \in Calls
      BY StepTypes
    <2>2. t.pc = "asleep" => ~t.dead
      BY DEF EndInv, Finished
    <2> QED BY <2>1, <2>2
  <1>3. /\ u \in Calls /\ (u.pc # "asleep" \/ t.pc = "asleep") /\ ~u.dead
        /\ u.pc = "asleep" => u.want = 0 /\ t.pc = "asleep"
    <2>1. ~Idle.dead
      BY DEF Idle
    <2> HIDE DEF t
    <2>2. CASE t.pc = "asleep"
      <3>1. LET w == [t EXCEPT !.want = 0] IN w \in Calls /\ ~w.dead /\ w.want = 0
        BY <1>2, <2>2 DEF Calls
      <3> QED BY <2>2, <3>1
    <2>3. CASE t.pc # "asleep"
      BY <2>1, <2>3, IdleFacts
    <2> QED BY <2>2, <2>3
  <1>4. Now \in Records /\ Sound(Now, holds) /\ Now.ring = ring /\ Now.thread = thread
    BY StepTypes
  <1> HIDE DEF u, t
  <1>5. Sound(s, holds)
    BY <1>3, <1>4, GoesSound DEF t
  <1>6. /\ s.ring = ring
        /\ \A x \in Processes, y \in Ends :
             s.thread[x][y] = IF x = p /\ y = e THEN u ELSE thread[x][y]
    <2>1. /\ s.ring = Now.ring
          /\ \A x \in Processes, y \in Ends :
               s.thread[x][y] = IF x = p /\ y = e THEN u ELSE Now.thread[x][y]
      BY <1>3, <1>4, GoesFacts
    <2> HIDE DEF s
    <2> QED BY <1>4, <2>1
  <1> HIDE DEF s
  <1>7. Unaware(s)
    BY <1>3, <1>4, <1>6, NotAware DEF Unaware
  <1>8. Tells(s, r)
    <2>1. s.ring.references[e] # 0
      BY <1>1, <1>5, HolderCounts
    <2> QED BY <1>5, <1>7, <2>1, ReleaseTells
  <1> HIDE DEF r
  <1>9. \A x \in Processes, y \in Ends : Stay(s, x, y)
    <2> TAKE x \in Processes, y \in Ends
    <2>1. CASE x = p /\ y = e
      <3>1. u.pc = "asleep" => ring.form # "shared"
        BY <1>1, <1>3
      <3> QED BY <1>3, <1>6, <2>1, <3>1 DEF Stay
    <2>2. CASE ~(x = p /\ y = e)
      <3>1. <<x, y>> # <<p, e>>
        BY <2>2
      <3> QED BY <1>1, <1>6, <2>2, <3>1 DEF Stay
    <2> QED BY <2>1, <2>2
  <1> QED BY <1>1, <1>6, <1>8, <1>9, TellsEnd DEF Becomes

LEMMA ReapEnd ==
  ASSUME RingsAssumption, RingInv, EndInv, NEW p \in Processes, Reap(p)
  PROVE  EndInv'
  <1>1. process[p] = "exited" /\ process' = process
    BY DEF Reap
  <1>2. ASSUME NEW e \in Ends, <<p, e>> \in holds, Becomes(ReleaseEnd(Now, e)),
               holds' = holds \ {<<p, e>>}
        PROVE  EndInv'
    <2> DEFINE r == ReleaseEnd(Now, e)
    <2>1. Sound(Now, holds) /\ Now.ring = ring /\ Now.thread = thread /\ Unaware(Now)
      BY StepTypes, NotAware
    <2>2. Tells(Now, r)
      BY <1>2, <2>1, HolderCounts, ReleaseTells
    <2>3. ring' = r.ring /\ thread' = r.thread
      BY <1>2 DEF Becomes
    <2> HIDE DEF r
    <2>4. \A x \in Processes, y \in Ends : Stay(Now, x, y)
      <3> TAKE x \in Processes, y \in Ends
      <3>1. process[x] = "alive" => <<x, y>> # <<p, e>>
        BY <1>1
      <3> QED BY <1>1, <1>2, <2>1, <3>1 DEF Stay
    <2> QED BY <2>1, <2>2, <2>3, <2>4, TellsEnd
  <1>3. ASSUME Becomes(ReleaseArea(Now, p)), UNCHANGED holds
        PROVE  EndInv'
    BY <1>1, <1>3, AreaEnd
  <1> QED BY <1>2, <1>3 DEF Reap

LEMMA ExitEnd ==
  ASSUME RingsAssumption, RingInv, EndInv, NEW p \in Processes, Exit(p)
  PROVE  EndInv'
  <1> DEFINE gone == [Now EXCEPT !.thread[p] = [e \in Ends |-> Idle]]
             s == IF Shared /\ ring.state = "open" /\ p \in {ring.owner, area.creator}
                    THEN Fail(gone, "dead") ELSE gone
             r == [s EXCEPT !.area.mapped = @ \ {p}]
  <1>1. Becomes(r) /\ process' = [process EXCEPT ![p] = "exited"] /\ holds' = holds
    BY DEF Exit
  <1>2. /\ gone \in Records /\ gone.ring = ring /\ gone.area = area
        /\ \A x \in Processes, y \in Ends :
             gone.thread[x][y] = IF x = p THEN Idle ELSE thread[x][y]
    <2> DEFINE f == [thread EXCEPT ![p] = [e \in Ends |-> Idle]]
    <2>1. f \in [Processes -> [Ends -> Calls]]
      BY IdleFacts, StepTypes
    <2>2. \A x \in Processes, y \in Ends : f[x][y] = IF x = p THEN Idle ELSE thread[x][y]
      BY StepTypes
    <2>3. gone = [Now EXCEPT !.thread = f]
      BY StepTypes DEF Records
    <2> HIDE DEF f, gone
    <2>4. gone \in Records /\ gone.ring = ring /\ gone.area = area /\ gone.thread = f
      BY <2>1, <2>3, StepTypes DEF Records
    <2> QED BY <2>2, <2>4
  <1> HIDE DEF gone
  <1>3. ~Idle.dead /\ Idle.pc = "idle"
    BY DEF Idle
  <1>4. Unaware(gone)
    <2> SUFFICES ASSUME NEW x \in Processes, NEW y \in Ends, gone.thread[x][y].pc = "asleep"
                 PROVE  ~gone.thread[x][y].dead
      BY DEF Unaware
    <2>1. Now.thread = thread
      BY StepTypes
    <2>2. CASE x = p
      <3>1. gone.thread[x][y] = Idle
        BY <1>2, <2>2
      <3> QED BY <1>3, <3>1
    <2>3. CASE x # p
      <3>1. gone.thread[x][y] = thread[x][y]
        BY <1>2, <2>3
      <3> QED BY <2>1, <3>1, NotAware DEF Unaware
    <2> QED BY <2>2, <2>3
  <1>5. Tells(gone, s) /\ s \in Records
    <2>1. CASE Shared /\ ring.state = "open" /\ p \in {ring.owner, area.creator}
      <3>1. Tells(gone, Fail(gone, "dead"))
        BY <1>2, <1>4, FailTells DEF Results
      <3>2. Fail(gone, "dead") \in Records
        <4>1. Sound(gone, holds)
          <5>1. Heard(gone)
            <6> SUFFICES ASSUME NEW x \in Processes, NEW y \in Ends,
                                gone.thread[x][y].pc = "asleep"
                         PROVE  /\ ring.state = "open" /\ Room(ring, y) = 0
                                /\ ring.references[y] # 0 /\ ring.references[Other(y)] # 0
              BY <1>2 DEF Heard
            <6>1. thread[x][y].pc = "asleep"
              BY <1>2, <1>3
            <6> QED BY <6>1, StepTypes DEF Sound, Heard
          <5> QED BY <1>2, <5>1, StepTypes DEF Sound, Backs
        <4> QED BY <1>2, <2>1, <4>1, FailSound DEF Results, Sound
      <3>3. s = Fail(gone, "dead")
        BY <2>1
      <3> HIDE DEF s
      <3> QED BY <3>1, <3>2, <3>3
    <2>2. CASE ~(Shared /\ ring.state = "open" /\ p \in {ring.owner, area.creator})
      <3>1. s = gone
        BY <2>2
      <3> HIDE DEF s
      <3> QED BY <1>2, <3>1 DEF Tells, Records
    <2> QED BY <2>1, <2>2
  <1> HIDE DEF s
  <1>6. ring' = s.ring /\ thread' = s.thread
    <2> DEFINE a == [s.area EXCEPT !.mapped = @ \ {p}]
    <2>1. r = [s EXCEPT !.area = a]
      BY <1>5
    <2> HIDE DEF a, r
    <2>2. r.ring = s.ring /\ r.thread = s.thread
      BY <1>5, <2>1
    <2> QED BY <1>1, <2>2 DEF Becomes
  <1>7. \A x \in Processes, y \in Ends : Stay(gone, x, y)
    BY <1>1, <1>2, <1>3, StepTypes DEF Stay
  <1> QED BY <1>2, <1>5, <1>6, <1>7, TellsEnd

LEMMA MisreportEnd ==
  ASSUME RingsAssumption, RingInv, EndInv, NEW p \in Processes, NEW e \in Ends, Misreport(p, e)
  PROVE  EndInv'
  <1>1. /\ <<p, e>> \in holds /\ process' = process /\ holds' = holds
    BY DEF Misreport
  <1>2. PICK position \in NearBy(ring.position[e]) : Becomes(Notify(Now, e, position)[1])
    BY DEF Misreport
  <1>3. position \in Positions
    BY PositionTypes, NearByFacts
  <1> DEFINE answer == Notify(Now, e, position)
             r == answer[1]
  <1>4. /\ Sound(Now, holds) /\ Now.ring = ring /\ Now.thread = thread /\ Unaware(Now)
        /\ answer = Notify(Now, e, position) /\ r = answer[1] /\ Becomes(r)
    BY <1>2, StepTypes, NotAware
  <1> HIDE DEF answer, r
  <1>5. ring.references[e] # 0 /\ ring.state # "free"
    BY <1>1, <1>4, HolderCounts
  <1>6. Tells(Now, r)
    BY <1>3, <1>4, <1>5, NotifyTells
  <1>7. \A x \in Processes, y \in Ends : Stay(Now, x, y)
    BY <1>1, <1>4 DEF Stay
  <1> QED BY <1>4, <1>6, <1>7, TellsEnd DEF Becomes

LEMMA MovesEnd ==
  ASSUME RingsAssumption, RingInv, EndInv, NEW p \in Processes, NEW e \in Ends,
         thread[p][e].pc = "try", NEW n \in Nat, n <= Room(ring, e), Moves(p, e, n)
  PROVE  EndInv'
  <1> DEFINE position == Plus(ring.position[e], n)
             t == Goes(Now, p, e, Idle)
             q == Advanced(t, e, position)
             r == IF ring.references[Other(e)] = 0 THEN q ELSE Wake(q, Other(e), "ok")
  <1>1. <<p, e>> \in holds
    BY CallHolds
  <1>2. position \in Positions /\ Ahead(position, ring.position[e]) = n
    <2>1. /\ Room(ring, e) <= Capacity /\ Room(ring, e) \in Nat
      BY RoomNat, StepTypes DEF Room, RingsAssumption, Sound
    <2>2. n \in 0 .. Wrap /\ n \in 0 .. Wrap - 1 /\ ring.position[e] \in Positions
      BY <2>1, PositionTypes
    <2> QED BY <2>2, PlusFacts, PlusAhead
  <1>3. Becomes(r) /\ process' = process /\ holds' = holds
    <2>1. q = [Now EXCEPT !.thread[p][e] = Idle, !.ring.position[e] = position]
      BY StepTypes DEF Goes, Advanced, Records
    <2> QED BY <2>1 DEF Moves
  <1>4. /\ Sound(t, holds) /\ t.ring = ring
        /\ \A x \in Processes, y \in Ends :
             t.thread[x][y] = IF x = p /\ y = e THEN Idle ELSE thread[x][y]
    <2>1. /\ Sound(Now, holds) /\ Now \in Records /\ Now.ring = ring /\ Now.thread = thread
      BY StepTypes
    <2>2. Sound(t, holds)
      BY <2>1, IdleFacts, GoesSound
    <2>3. /\ t.ring = Now.ring
          /\ \A x \in Processes, y \in Ends :
               t.thread[x][y] = IF x = p /\ y = e THEN Idle ELSE Now.thread[x][y]
      BY <2>1, IdleFacts, GoesFacts
    <2> HIDE DEF t
    <2> QED BY <2>1, <2>2, <2>3
  <1>5. Advances(t, e, position, r)
    <2>1. q = Advanced(t, e, position) /\ t.ring = ring
      BY <1>4
    <2> HIDE DEF q, t, position
    <2> QED BY <2>1 DEF Advances
  <1> HIDE DEF q, r, t, position
  <1>6. ~Idle.dead /\ Idle.pc = "idle"
    BY DEF Idle
  <1>7. Unaware(t)
    BY <1>4, <1>6, NotAware, StepTypes DEF Unaware
  <1>8. Tells(t, r)
    <2>1. t.ring.references[e] # 0
      BY <1>1, <1>4, HolderCounts
    <2> QED BY <1>2, <1>4, <1>5, <1>7, <2>1, AdvanceTells
  <1>9. \A x \in Processes, y \in Ends : Stay(t, x, y)
    BY <1>3, <1>4, <1>6 DEF Stay
  <1> QED BY <1>3, <1>4, <1>8, <1>9, TellsEnd DEF Becomes

LEMMA ReadEnd ==
  ASSUME RingsAssumption, RingInv, EndInv, NEW p \in Processes, Read(p)
  PROVE  EndInv'
  <1> DEFINE e == "consumer"
             n == AtMost(thread[p][e].want, Used(ring))
  <1>1. /\ e \in Ends /\ thread[p][e].pc = "try" /\ thread[p][e].want \in Nat \ {0}
        /\ Used(ring) \in Nat
    <2>1. e \in Ends
      BY DEF Ends
    <2>2. thread[p][e] \in Calls /\ Fits(ring.form, thread[p][e], holds, view, process, p, e)
      BY <2>1, StepTypes
    <2> QED BY <2>1, <2>2, RoomNat DEF Read, Calls, Fits
  <1>2. CASE Moves(p, e, n)
    <2>1. n \in Nat /\ n <= Room(ring, e)
      BY <1>1 DEF AtMost, Room
    <2> HIDE DEF n
    <2> QED BY <1>1, <1>2, <2>1, MovesEnd
  <1>3. CASE n = 0 /\ ring.references["producer"] = 0 /\ Returns(p, e, "dead")
    <2>1. Room(ring, e) = 0
      BY <1>1, <1>3 DEF AtMost, Room
    <2>2. Over(ring, e)
      BY <1>3, <2>1 DEF Over, Other
    <2> QED BY <1>1, <1>3, <2>2, CallHolds, ReturnsEnd
  <1>4. CASE WouldBlock(p, e)
    BY <1>1, <1>4, WouldBlockEnd
  <1> QED BY <1>2, <1>3, <1>4 DEF Read

LEMMA WriteEnd ==
  ASSUME RingsAssumption, RingInv, EndInv, NEW p \in Processes, Write(p)
  PROVE  EndInv'
  <1> DEFINE e == "producer"
             room == Room(ring, e)
             n == AtMost(thread[p][e].want, room)
  <1>1. e \in Ends /\ thread[p][e].pc = "try" /\ thread[p][e].want \in Nat /\ room \in Nat
    <2>1. e \in Ends
      BY DEF Ends
    <2>2. thread[p][e] \in Calls
      BY <2>1, StepTypes
    <2> QED BY <2>1, <2>2, RoomNat DEF Write, Calls
  <1>2. CASE Moves(p, e, n)
    <2>1. n \in Nat /\ n <= Room(ring, e)
      BY <1>1 DEF AtMost
    <2> HIDE DEF n
    <2> QED BY <1>1, <1>2, <2>1, MovesEnd
  <1>3. CASE ring.references["consumer"] = 0 /\ Returns(p, e, "dead")
    <2>1. Over(ring, e)
      BY <1>3 DEF Over, Other
    <2> QED BY <1>1, <1>3, <2>1, CallHolds, ReturnsEnd
  <1>4. CASE WouldBlock(p, e)
    BY <1>1, <1>4, WouldBlockEnd
  <1> QED BY <1>2, <1>3, <1>4 DEF Write

LEMMA NextEnd ==
  ASSUME RingsAssumption, RingInv, EndInv, [Next]_vars
  PROVE  EndInv'
  <1>1. CASE UNCHANGED vars
    BY <1>1, QuietEnd DEF vars
  <1>2. CASE Next
    <2>1. PICK p \in Processes :
            \/ \E e \in Ends :
                 \/ CloseEnd(p, e)
                 \/ Library(p, e)
                 \/ Block(p, e) \/ EndWait(p, e)
                 \/ Misreport(p, e)
            \/ \E q \in Processes : Fork(p, q) \/ \E e \in Ends : Give(p, q, e)
            \/ Create(p) \/ CloseArea(p) \/ Exit(p) \/ Reap(p)
            \/ \E length \in ReadLengths : Start(p, "consumer", length)
            \/ \E length \in WriteLengths : Start(p, "producer", length)
            \/ Read(p) \/ Write(p) \/ Damage(p)
      BY <1>2 DEF Next
    <2>2. "producer" \in Ends /\ "consumer" \in Ends
      BY DEF Ends
    <2>3. ASSUME NEW e \in Ends, Library(p, e)
          PROVE  EndInv'
      BY <2>3, BeginsEnd, AskEnd, RecheckEnd, ElementEnd DEF Library
    <2>4. ASSUME NEW e \in Ends, EndWait(p, e)
          PROVE  EndInv'
      BY <2>4, ReturnsEnd DEF EndWait
    <2>5. ASSUME NEW e \in Ends, CloseEnd(p, e) \/ Block(p, e) \/ Misreport(p, e)
          PROVE  EndInv'
      BY <2>5, CloseEndEnd, BlockEnd, MisreportEnd
    <2>6. ASSUME NEW q \in Processes, Fork(p, q) \/ \E e \in Ends : Give(p, q, e)
          PROVE  EndInv'
      BY <2>6, ForkEnd, GiveEnd
    <2>7. CASE CloseArea(p)
      <3>1. Becomes(ReleaseArea(Now, p)) /\ UNCHANGED <<process, holds>>
        BY <2>7 DEF CloseArea
      <3> QED BY <3>1, AreaEnd
    <2>8. CASE Create(p) \/ Exit(p) \/ Reap(p)
      BY <2>8, CreateEnd, ExitEnd, ReapEnd
    <2>9. ASSUME NEW e \in Ends, NEW length, Start(p, e, length)
          PROVE  EndInv'
      BY <2>9, BeginsEnd
    <2>10. CASE Read(p) \/ Write(p)
      BY <2>10, ReadEnd, WriteEnd
    <2>11. CASE Damage(p)
      BY <2>11, QuietEnd DEF Damage
    <2> QED BY <2>1, <2>2, <2>3, <2>4, <2>5, <2>6, <2>7, <2>8, <2>9, <2>10, <2>11
  <1> QED BY <1>1, <1>2

(* A reader is told of the end only when the producer is gone and all it   *)
(* published has been read, or the ring has failed; a writer, only when    *)
(* nobody is left to read; and what they were told stays so while they     *)
(* hold their end (ring.c, kernel_ring_prepare_wait, copy_peek).           *)
THEOREM Order_EndOfStream == Spec => []EndOfStream
  <1>1. Init => EndInv
    BY DEF Init, EndInv, Idle
  <1>2. RingInv /\ EndInv /\ [Next]_vars => EndInv'
    BY RingsAssumption, NextEnd
  <1>3. EndInv => EndOfStream
    BY DEF EndInv, Finished, Over, EndOfStream
  <1> QED BY <1>1, <1>2, <1>3, Rings_Invariant, PTL DEF Spec

=============================================================================
