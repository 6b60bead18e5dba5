---------------------------- MODULE Rings_proofs ----------------------------
(***************************************************************************)
(* What holds of rings and areas for every number of processes, every      *)
(* capacity and every number of positions.                                 *)
(*                                                                         *)
(* Sound says of a state of the kernel, and of the handles of the ring's   *)
(* ends, what the properties NoStrandedEnd and BackingHeld do.  Each       *)
(* operation of the kernel keeps it (the lemmas ...Sound), whoever calls   *)
(* it and with whatever position: the threads it wakes go on as Woken      *)
(* says, and Keeps is what it leaves alone.  RingInv adds what a thread in *)
(* the middle of a call relies on (Fits): the handle it began with is      *)
(* still there, and so is the area that its view is mapped from.           *)
(***************************************************************************)
EXTENDS Rings, FiniteSetTheorems, TLAPS

(* The processes with a handle of end e. *)
Holders(h, e) == {p \in Processes : <<p, e>> \in h}

(* A thread that was woken: it goes on as After says, or stays as it was.  *)
Woken(form, t, u) ==
  \/ u = t
  \/ /\ t.pc = "asleep"
     /\ \/ u.pc = "idle" /\ u.call = "none"
        \/ u.pc = "ask" /\ form = "shared" /\ u.call = t.call
        \/ u.pc = "try" /\ form = "copied" /\ t.want # 0 /\ u.want = t.want /\ u.call = t.call

LEMMA ToldFacts ==
  ASSUME NEW result
  PROVE  Told(result) \in Calls /\ Told(result).pc = "idle" /\ Told(result).call = "none"
  <1>1. (result = "dead") \in BOOLEAN
    OBVIOUS
  <1> QED BY <1>1 DEF Told, Idle, Calls

LEMMA AfterFacts ==
  ASSUME NEW s, NEW t \in Calls, NEW e, NEW result,
         s.ring.form \in {"shared", "copied"}, t.pc = "asleep"
  PROVE  /\ After(s, t, e, result) \in Calls
         /\ After(s, t, e, result).pc # "asleep"
         /\ Woken(s.ring.form, t, After(s, t, e, result))
  <1>1. Idle \in Calls /\ Idle.pc = "idle" /\ Idle.call = "none"
    BY DEF Idle, Calls
  <1>2. \A pc \in {"ask", "try"} :
          LET u == [t EXCEPT !.pc = pc]
          IN u \in Calls /\ u.pc = pc /\ u.call = t.call /\ u.want = t.want
    BY DEF Calls
  <1> QED BY <1>1, <1>2, ToldFacts DEF After, Woken

LEMMA WakeFacts ==
  ASSUME RingsAssumption, NEW s \in Records, NEW e \in Ends, NEW result
  PROVE  LET r == Wake(s, e, result)
         IN /\ r \in Records /\ r.ring = s.ring /\ r.area = s.area
            /\ \A p \in Processes, x \in Ends :
                 /\ Woken(s.ring.form, s.thread[p][x], r.thread[p][x])
                 /\ x = e => r.thread[p][x].pc # "asleep"
                 /\ x # e => r.thread[p][x] = s.thread[p][x]
  <1> DEFINE r == Wake(s, e, result)
  <1>0. s.ring.form \in {"shared", "copied"}
    BY DEF RingsAssumption, Records, RingRecords
  <1>1. \A p \in Processes : 
          /\ r.thread[p] \in [Ends -> Calls]
          /\ \A x \in Ends :
                 /\ Woken(s.ring.form, s.thread[p][x], r.thread[p][x])
                 /\ x = e => r.thread[p][x].pc # "asleep"
                 /\ x # e => r.thread[p][x] = s.thread[p][x]
    <2> TAKE p \in Processes
    <2>1. s.thread[p] \in [Ends -> Calls]
       BY DEF Records
    <2>2. CASE s.thread[p][e].pc = "asleep"
      <3> DEFINE u == After(s, s.thread[p][e], e, result)
      <3>1. r.thread[p] = [s.thread[p] EXCEPT ![e] = u]
         BY <2>2 DEF Wake, Asleep, Records
      <3> s.thread[p][e] \in Calls
         BY <2>1
      <3>2. u \in Calls /\ u.pc # "asleep" /\ Woken(s.ring.form, s.thread[p][e], u)
         BY <1>0, <2>2, AfterFacts
      <3>3. \A x \in Ends : Woken(s.ring.form, s.thread[p][x], s.thread[p][x])
         BY DEF Woken
      <3> HIDE DEF u, r
      <3> QED BY <3>1, <2>1, <3>2, <3>3
    <2>3. CASE s.thread[p][e].pc # "asleep"
      <3>1. r.thread[p] = s.thread[p]
         BY <2>3 DEF Wake, Asleep, Records
      <3> HIDE DEF r
      <3> QED BY <3>1, <2>1, <2>3 DEF Woken
    <2> QED BY <2>2, <2>3
  <1>2. r.ring = s.ring /\ r.area = s.area
    BY DEF Wake, Records
  <1>3. r \in Records
    <2>1. r.thread \in [Processes -> [Ends -> Calls]]
      BY <1>1 DEF Wake, Records
    <2> QED BY <2>1 DEF Wake, Records
  <1> QED BY <1>1, <1>2, <1>3

(* Positions. *)
LEMMA AheadFacts ==
  ASSUME RingsAssumption, NEW a \in Positions, NEW b \in Positions
  PROVE  Ahead(a, b) = IF a >= b THEN a - b ELSE a - b + Wrap
  BY DEF RingsAssumption, Ahead, Positions

(* Distances round the ring add up. *)
LEMMA AheadSum ==
  ASSUME RingsAssumption, NEW a \in Positions, NEW b \in Positions, NEW c \in Positions
  PROVE  /\ Ahead(a, b) \in Nat /\ Ahead(a, b) < Wrap
         /\ Ahead(a, b) = 0 <=> a = b
         /\ Ahead(a, b) + Ahead(b, c) < Wrap => Ahead(a, c) = Ahead(a, b) + Ahead(b, c)
         /\ Ahead(b, c) <= Ahead(a, c) => Ahead(a, b) = Ahead(a, c) - Ahead(b, c)
  <1>1. /\ Ahead(a, b) = IF a >= b THEN a - b ELSE a - b + Wrap
        /\ Ahead(b, c) = IF b >= c THEN b - c ELSE b - c + Wrap
        /\ Ahead(a, c) = IF a >= c THEN a - c ELSE a - c + Wrap
    BY AheadFacts
  <1>2. a \in 0 .. Wrap - 1 /\ b \in 0 .. Wrap - 1 /\ c \in 0 .. Wrap - 1 /\ Wrap \in Nat
    BY DEF RingsAssumption, Positions
  <1>3. Ahead(a, b) \in Nat /\ Ahead(a, b) < Wrap /\ (Ahead(a, b) = 0 <=> a = b)
    BY <1>1, <1>2
  <1>4. Ahead(a, b) + Ahead(b, c) < Wrap => Ahead(a, c) = Ahead(a, b) + Ahead(b, c)
    BY <1>1, <1>2
  <1>5. Ahead(b, c) <= Ahead(a, c) => Ahead(a, b) = Ahead(a, c) - Ahead(b, c)
    BY <1>1, <1>2
  <1> QED BY <1>3, <1>4, <1>5

LEMMA PlusFacts ==
  ASSUME RingsAssumption, NEW a \in Positions, NEW n \in 0 .. Wrap
  PROVE  /\ Plus(a, n) = IF a + n < Wrap THEN a + n ELSE a + n - Wrap
         /\ Plus(a, n) \in Positions
  BY DEF RingsAssumption, Plus, Positions

LEMMA PlusAhead ==
  ASSUME RingsAssumption, NEW a \in Positions, NEW n \in 0 .. Wrap - 1
  PROVE  Ahead(Plus(a, n), a) = n
  <1> DEFINE b == Plus(a, n)
  <1>1. n \in 0 .. Wrap /\ a \in 0 .. Wrap - 1 /\ Wrap \in Nat
    BY DEF RingsAssumption, Positions
  <1>2. b = (IF a + n < Wrap THEN a + n ELSE a + n - Wrap) /\ b \in Positions
    BY <1>1, PlusFacts
  <1> HIDE DEF b
  <1>3. Ahead(b, a) = IF b >= a THEN b - a ELSE b - a + Wrap
    BY <1>2, AheadFacts
  <1>4. Ahead(b, a) = n
    BY <1>1, <1>2, <1>3
  <1> QED BY <1>4 DEF b

LEMMA HoldersFinite ==
  ASSUME RingsAssumption, NEW h, NEW e
  PROVE  /\ IsFiniteSet(Holders(h, e)) /\ Cardinality(Holders(h, e)) \in Nat
         /\ Cardinality(Holders(h, e)) = 0 <=> Holders(h, e) = {}
  BY FS_Subset, FS_CardinalityType, FS_EmptySet DEF Holders, RingsAssumption

----------------------------------------------------------------------------
(* The kernel's operations, and what each leaves sound.                    *)

(* The area is there while a ring or a handle needs it, and the ring       *)
(* counts the handles h of its ends.                                       *)
Backs(s, h) ==
  /\ s.ring.state # "free" => s.area.state = "live" /\ s.area.children = 1
  /\ s.ring.state = "free" => s.area.children = 0 /\ h = {}
  /\ s.area.state = "live" <=> s.ring.state # "free" \/ s.area.handles # {}
  /\ \A e \in Ends : s.ring.references[e] = Cardinality(Holders(h, e))
  /\ ~s.ring.corrupt

(* A sleeping thread has nothing to do, and both ends are there. *)
Heard(s) ==
  \A p \in Processes, e \in Ends : s.thread[p][e].pc = "asleep" =>
    /\ s.ring.state = "open" /\ Room(s.ring, e) = 0
    /\ s.ring.references[e] # 0 /\ s.ring.references[Other(e)] # 0

Sound(s, h) ==
  /\ s \in Records /\ h \subseteq Processes \X Ends
  /\ Backs(s, h) /\ Heard(s)
  /\ Used(s.ring) <= Capacity
  /\ s.ring.state = "free" => s.ring.terminal = [e \in Ends |-> "ok"]

(* What the kernel's operations on a ring keep. *)
Keeps(s, r) ==
  /\ r.ring.form = s.ring.form
  /\ \A p \in Processes, e \in Ends : Woken(s.ring.form, s.thread[p][e], r.thread[p][e])
  /\ r.area.handles = s.area.handles
  /\ r.ring.state # "free" =>
       s.ring.state # "free" /\ r.area.mapped = s.area.mapped /\ r.ring.position = s.ring.position

LEMMA CloseUnusedFacts ==
  ASSUME NEW s \in Records
  PROVE  LET r == CloseUnused(s)
         IN /\ r \in Records /\ r.ring = s.ring /\ r.thread = s.thread
            /\ r.area.handles = s.area.handles /\ r.area.children = s.area.children
            /\ s.area.children # 0 => r.area = s.area
            /\ s.area.state = "live" =>
                 (r.area.state = "live" <=> s.area.children # 0 \/ s.area.handles # {})
  BY DEF CloseUnused, Records, AreaRecords

LEMMA MaybeFreeSound ==
  ASSUME RingsAssumption, NEW s, NEW h, Sound(s, h), s.ring.state # "free"
  PROVE  LET r == MaybeFree(s)
         IN /\ Sound(r, h) /\ Keeps(s, r) /\ r.thread = s.thread
            /\ r.ring.state \in {s.ring.state, "free"}
  <1> DEFINE f == [s EXCEPT !.ring = FreeRing(s.ring.form), !.area.children = @ - 1]
  <1>1. \A p \in Processes, e \in Ends : Woken(s.ring.form, s.thread[p][e], s.thread[p][e])
    BY DEF Woken
  <1>2. CASE \E e \in Ends : s.ring.references[e] # 0
    <2>1. MaybeFree(s) = s
      BY <1>2 DEF MaybeFree
    <2> QED BY <1>1, <2>1 DEF Keeps
  <1>3. CASE \A e \in Ends : s.ring.references[e] = 0
    <2>1. \A e \in Ends : Asleep(s, e) = {}
      BY <1>3 DEF Sound, Heard, Asleep
    <2>2. MaybeFree(s) = CloseUnused(f)
      BY <1>3, <2>1 DEF MaybeFree
    <2>3. h = {}
      <3>1. \A e \in Ends : Holders(h, e) = {}
        BY <1>3, HoldersFinite DEF Sound, Backs
      <3> QED BY <3>1 DEF Sound, Holders
    <2>4. FreeRing(s.ring.form) \in RingRecords
      BY DEF FreeRing, RingRecords, Positions, Results, RingsAssumption, Sound, Records
    <2>5. /\ f \in Records /\ f.ring = FreeRing(s.ring.form) /\ f.thread = s.thread
          /\ f.area.children = 0 /\ f.area.state = "live" /\ f.area.handles = s.area.handles
      <3>1. s \in Records /\ s.area.children = 1 /\ s.area.state = "live"
        BY DEF Sound, Backs
      <3> DEFINE a == [s.area EXCEPT !.children = @ - 1]
      <3>2. f = [s EXCEPT !.ring = FreeRing(s.ring.form), !.area = a]
        BY <3>1 DEF Records
      <3>3. /\ a \in AreaRecords /\ a.children = 0 /\ a.state = "live"
            /\ a.handles = s.area.handles
        BY <3>1 DEF Records, AreaRecords
      <3> HIDE DEF f, a
      <3>4. f.ring = FreeRing(s.ring.form) /\ f.area = a /\ f.thread = s.thread
        BY <3>1, <3>2 DEF Records
      <3>5. f \in Records
        BY <3>1, <3>2, <3>3, <2>4 DEF Records
      <3> QED BY <3>3, <3>4, <3>5
    <2> DEFINE r == CloseUnused(f)
    <2> HIDE DEF f
    <2>6. /\ r \in Records /\ r.ring = FreeRing(s.ring.form) /\ r.thread = s.thread
          /\ r.area.handles = s.area.handles /\ r.area.children = 0
          /\ r.area.state = "live" <=> s.area.handles # {}
      BY <2>5, CloseUnusedFacts
    <2> HIDE DEF r
    <2>7. /\ r.ring.state = "free" /\ r.ring.form = s.ring.form /\ ~r.ring.corrupt
          /\ r.ring.terminal = [e \in Ends |-> "ok"]
          /\ \A e \in Ends : r.ring.references[e] = 0 /\ r.ring.position[e] = 0
      BY <2>6 DEF FreeRing
    <2>8. \A e \in Ends : Cardinality(Holders(h, e)) = 0
      BY <1>3 DEF Sound, Backs
    <2>9. Used(r.ring) <= Capacity
      BY <2>7, AheadFacts DEF Used, Ends, Positions, RingsAssumption
    <2>10. Heard(r)
      BY <1>3, <2>6 DEF Heard, Sound
    <2>11. Backs(r, h)
      BY <2>3, <2>6, <2>7, <2>8 DEF Backs
    <2>12. Sound(r, h)
      BY <2>3, <2>6, <2>7, <2>9, <2>10, <2>11 DEF Sound
    <2>13. Keeps(s, r)
      BY <1>1, <2>6, <2>7 DEF Keeps
    <2> QED BY <2>2, <2>6, <2>7, <2>12, <2>13 DEF r
  <1> QED BY <1>2, <1>3

LEMMA OneLess ==
  ASSUME NEW f \in [Ends -> Nat], NEW e \in Ends, f[e] # 0
  PROVE  LET g == [f EXCEPT ![e] = @ - 1]
         IN g \in [Ends -> Nat] /\ g[e] = f[e] - 1 /\ \A x \in Ends : x # e => g[x] = f[x]
  <1>1. f[e] - 1 \in Nat
    OBVIOUS
  <1> QED BY <1>1

LEMMA ReleasedFacts ==
  ASSUME RingsAssumption, NEW s \in Records, NEW e \in Ends, s.ring.references[e] # 0
  PROVE  LET r == Released(s, e)
         IN /\ r \in Records /\ r.area = s.area /\ r.thread = s.thread
            /\ r.ring.state = s.ring.state /\ r.ring.form = s.ring.form
            /\ r.ring.position = s.ring.position /\ r.ring.corrupt = s.ring.corrupt
            /\ r.ring.references = [s.ring.references EXCEPT ![e] = @ - 1]
  <1> DEFINE told == IF Last(s, e) THEN [x \in Ends |-> IF x = e THEN "closed" ELSE "dead"]
                     ELSE s.ring.terminal
             ring1 == [s.ring EXCEPT !.references[e] = @ - 1, !.terminal = told]
             r == Released(s, e)
  <1>1. told \in [Ends -> Results]
    BY DEF Records, RingRecords, Results
  <1>2. r = [s EXCEPT !.ring = ring1]
    BY DEF Released, Records
  <1> HIDE DEF told
  <1>3. /\ ring1.state = s.ring.state /\ ring1.form = s.ring.form
        /\ ring1.position = s.ring.position /\ ring1.corrupt = s.ring.corrupt
        /\ ring1.references = [s.ring.references EXCEPT ![e] = @ - 1]
    BY DEF Records, RingRecords
  <1>4. ring1 \in RingRecords
    <2>1. s.ring.references \in [Ends -> Nat]
      BY DEF Records, RingRecords
    <2>2. [s.ring.references EXCEPT ![e] = @ - 1] \in [Ends -> Nat]
      BY <2>1, OneLess
    <2> QED BY <1>1, <2>2 DEF Records, RingRecords
  <1> HIDE DEF r, ring1
  <1>5. r \in Records /\ r.ring = ring1 /\ r.area = s.area /\ r.thread = s.thread
    BY <1>2, <1>4 DEF Records
  <1> QED BY <1>3, <1>5 DEF r

LEMMA RemoveHolder ==
  ASSUME RingsAssumption, NEW h \in SUBSET (Processes \X Ends), NEW p \in Processes,
         NEW e \in Ends, <<p, e>> \in h
  PROVE  LET g == h \ {<<p, e>>}
         IN /\ Cardinality(Holders(g, e)) = Cardinality(Holders(h, e)) - 1
            /\ Cardinality(Holders(h, e)) # 0
            /\ \A x \in Ends : x # e => Holders(g, x) = Holders(h, x)
  <1>1. Holders(h \ {<<p, e>>}, e) = Holders(h, e) \ {p}
    BY DEF Holders
  <1>2. p \in Holders(h, e)
    BY DEF Holders
  <1>3. \A x \in Ends : x # e => Holders(h \ {<<p, e>>}, x) = Holders(h, x)
    BY DEF Holders
  <1>4. IsFiniteSet(Holders(h, e)) /\ Cardinality(Holders(h, e)) # 0
    BY <1>2, HoldersFinite
  <1>5. Cardinality(Holders(h, e) \ {p}) = Cardinality(Holders(h, e)) - 1
    BY <1>2, <1>4, FS_RemoveElement
  <1> QED BY <1>1, <1>3, <1>4, <1>5

(* Two ends are woken, each by its own call. *)
LEMMA WakeBoth ==
  ASSUME RingsAssumption, NEW s \in Records, NEW e \in Ends, NEW mine, NEW others
  PROVE  LET r == Wake(Wake(s, e, mine), Other(e), others)
         IN /\ r \in Records /\ r.ring = s.ring /\ r.area = s.area
            /\ \A p \in Processes, x \in Ends :
                 /\ Woken(s.ring.form, s.thread[p][x], r.thread[p][x])
                 /\ r.thread[p][x].pc # "asleep"
  <1> DEFINE one == Wake(s, e, mine)
             two == Wake(one, Other(e), others)
  <1>0. Other(e) \in Ends /\ Other(e) # e /\ \A x \in Ends : x = e \/ x = Other(e)
    BY DEF Ends, Other
  <1>1. /\ one \in Records /\ one.ring = s.ring /\ one.area = s.area
        /\ \A p \in Processes, x \in Ends :
             /\ Woken(s.ring.form, s.thread[p][x], one.thread[p][x])
             /\ x = e => one.thread[p][x].pc # "asleep"
             /\ x # e => one.thread[p][x] = s.thread[p][x]
    BY WakeFacts
  <1> HIDE DEF one
  <1>2. /\ two \in Records /\ two.ring = one.ring /\ two.area = one.area
        /\ \A p \in Processes, x \in Ends :
             /\ Woken(one.ring.form, one.thread[p][x], two.thread[p][x])
             /\ x = Other(e) => two.thread[p][x].pc # "asleep"
             /\ x # Other(e) => two.thread[p][x] = one.thread[p][x]
    BY <1>0, <1>1, WakeFacts
  <1> HIDE DEF two
  <1>3. \A p \in Processes, x \in Ends :
          /\ Woken(s.ring.form, s.thread[p][x], two.thread[p][x])
          /\ two.thread[p][x].pc # "asleep"
    <2> TAKE p \in Processes, x \in Ends
    <2>1. CASE x = e
      BY <1>0, <1>1, <1>2, <2>1
    <2>2. CASE x = Other(e)
      BY <1>0, <1>1, <1>2, <2>2
    <2> QED BY <1>0, <2>1, <2>2
  <1> QED BY <1>1, <1>2, <1>3 DEF one, two

LEMMA ReleaseEndSound ==
  ASSUME RingsAssumption, NEW s, NEW h, Sound(s, h),
         NEW p \in Processes, NEW e \in Ends, <<p, e>> \in h
  PROVE  LET r == ReleaseEnd(s, e)
         IN /\ Sound(r, h \ {<<p, e>>}) /\ Keeps(s, r)
            /\ r.ring.state \in {s.ring.state, "free"}
  <1> DEFINE g == h \ {<<p, e>>}
             q == Released(s, e)
             w == Wake(Wake(q, e, "closed"), Other(e), "dead")
             m == IF Last(s, e) THEN w ELSE q
  <1>1. /\ s \in Records /\ h \in SUBSET (Processes \X Ends)
        /\ s.ring.state # "free" /\ s.ring.references \in [Ends -> Nat]
    BY DEF Sound, Backs, Records, RingRecords
  <1>2. \A x \in Ends : s.ring.references[x] = Cardinality(Holders(h, x))
    BY DEF Sound, Backs
  <1>3. /\ s.ring.references[e] # 0
        /\ Cardinality(Holders(g, e)) = s.ring.references[e] - 1
        /\ \A x \in Ends : x # e => Holders(g, x) = Holders(h, x)
    BY <1>1, <1>2, RemoveHolder
  <1> HIDE DEF g
  <1>4. /\ q \in Records /\ q.area = s.area /\ q.thread = s.thread
        /\ q.ring.state = s.ring.state /\ q.ring.form = s.ring.form
        /\ q.ring.position = s.ring.position /\ q.ring.corrupt = s.ring.corrupt
        /\ q.ring.references = [s.ring.references EXCEPT ![e] = @ - 1]
    BY <1>1, <1>3, ReleasedFacts
  <1> HIDE DEF q
  <1>5. \A x \in Ends : q.ring.references[x] = Cardinality(Holders(g, x))
    BY <1>1, <1>2, <1>3, <1>4
  <1>6. \A y \in Processes, x \in Ends : Woken(s.ring.form, s.thread[y][x], s.thread[y][x])
    BY DEF Woken
  <1>7. /\ w \in Records /\ w.ring = q.ring /\ w.area = q.area
        /\ \A y \in Processes, x \in Ends :
             /\ Woken(q.ring.form, q.thread[y][x], w.thread[y][x])
             /\ w.thread[y][x].pc # "asleep"
    BY <1>4, WakeBoth
  <1> HIDE DEF w
  <1>8. /\ m \in Records /\ m.ring = q.ring /\ m.area = s.area
        /\ \A y \in Processes, x \in Ends : Woken(s.ring.form, s.thread[y][x], m.thread[y][x])
    BY <1>4, <1>6, <1>7
  <1>9. Heard(m)
    <2>1. CASE Last(s, e)
      BY <1>7, <2>1 DEF Heard
    <2>2. CASE ~Last(s, e)
      <3> SUFFICES ASSUME NEW y \in Processes, NEW x \in Ends, s.thread[y][x].pc = "asleep"
                   PROVE  /\ q.ring.state = "open" /\ Room(q.ring, x) = 0
                          /\ q.ring.references[x] # 0 /\ q.ring.references[Other(x)] # 0
        <4>1. m = q
          BY <2>2
        <4> HIDE DEF m
        <4> QED BY <4>1, <1>4 DEF Heard
      <3>1. /\ s.ring.state = "open" /\ Room(s.ring, x) = 0
            /\ s.ring.references[x] # 0 /\ s.ring.references[Other(x)] # 0
        BY DEF Sound, Heard
      <3>2. s.ring.references[e] # 1
        BY <2>2, <3>1 DEF Last
      <3>3. Other(x) \in Ends
        BY DEF Other, Ends
      <3>4. Room(q.ring, x) = Room(s.ring, x)
        BY <1>4 DEF Room, Used
      <3>5. q.ring.references[x] # 0 /\ q.ring.references[Other(x)] # 0
        <4>1. /\ q.ring.references[e] = s.ring.references[e] - 1
              /\ \A z \in Ends : z # e => q.ring.references[z] = s.ring.references[z]
          BY <1>1, <1>3, <1>4, OneLess
        <4>2. s.ring.references[e] \in Nat \ {0, 1}
          BY <1>1, <1>3, <3>2
        <4> QED BY <4>1, <4>2, <3>1, <3>3
      <3> QED BY <1>4, <3>1, <3>4, <3>5
    <2> QED BY <2>1, <2>2
  <1> HIDE DEF m
  <1>10. Backs(m, g)
    BY <1>1, <1>4, <1>5, <1>8 DEF Sound, Backs
  <1>11. Sound(m, g) /\ m.ring.state # "free"
    BY <1>1, <1>4, <1>8, <1>9, <1>10 DEF Sound, Used, g
  <1>12. /\ Sound(MaybeFree(m), g) /\ Keeps(m, MaybeFree(m)) /\ MaybeFree(m).thread = m.thread
         /\ MaybeFree(m).ring.state \in {s.ring.state, "free"}
    BY <1>4, <1>8, <1>11, MaybeFreeSound
  <1>13. Keeps(s, MaybeFree(m))
    BY <1>1, <1>4, <1>8, <1>12 DEF Keeps
  <1> QED BY <1>12, <1>13 DEF ReleaseEnd, m, w, q, g

LEMMA FailSound ==
  ASSUME RingsAssumption, NEW s, NEW h, Sound(s, h), s.ring.state = "open",
         NEW result \in Results
  PROVE  Sound(Fail(s, result), h) /\ Keeps(s, Fail(s, result))
  <1> DEFINE closing == [s.ring EXCEPT !.state = "closing", !.terminal = [e \in Ends |-> result]]
             q == [s EXCEPT !.ring = closing]
             w == Wake(Wake(q, "producer", result), "consumer", result)
  <1>1. s \in Records
    BY DEF Sound
  <1>2. /\ closing \in RingRecords /\ closing.state = "closing" /\ closing.form = s.ring.form
        /\ closing.position = s.ring.position /\ closing.corrupt = s.ring.corrupt
        /\ closing.references = s.ring.references
    BY <1>1 DEF Records, RingRecords
  <1>3. q = [s EXCEPT !.ring.state = "closing", !.ring.terminal = [e \in Ends |-> result]]
    BY <1>1 DEF Records
  <1> HIDE DEF closing
  <1>4. q \in Records /\ q.ring = closing /\ q.area = s.area /\ q.thread = s.thread
    BY <1>1, <1>2 DEF Records
  <1> HIDE DEF q
  <1>5. Other("producer") = "consumer" /\ "producer" \in Ends
    BY DEF Other, Ends
  <1>6. /\ w \in Records /\ w.ring = closing /\ w.area = s.area
        /\ \A y \in Processes, x \in Ends :
             /\ Woken(s.ring.form, s.thread[y][x], w.thread[y][x])
             /\ w.thread[y][x].pc # "asleep"
    BY <1>2, <1>4, <1>5, WakeBoth
  <1>7. Fail(s, result) = MaybeFree(w)
    BY <1>3 DEF Fail
  <1> HIDE DEF w
  <1>8. Heard(w)
    BY <1>6 DEF Heard
  <1>9. Backs(w, h)
    BY <1>2, <1>6 DEF Sound, Backs
  <1>10. Sound(w, h) /\ w.ring.state # "free"
    BY <1>2, <1>6, <1>8, <1>9 DEF Sound, Used
  <1>11. Sound(MaybeFree(w), h) /\ Keeps(w, MaybeFree(w)) /\ MaybeFree(w).thread = w.thread
    BY <1>10, MaybeFreeSound
  <1>12. Keeps(s, MaybeFree(w))
    BY <1>2, <1>6, <1>11 DEF Keeps
  <1> QED BY <1>7, <1>11, <1>12

(* The position of an end advances within its room. *)
LEMMA RoomAfter ==
  ASSUME RingsAssumption, NEW r \in RingRecords, Used(r) <= Capacity,
         NEW e \in Ends, NEW position \in Positions, Ahead(position, r.position[e]) <= Room(r, e)
  PROVE  LET q == [r EXCEPT !.position[e] = position]
         IN /\ Used(q) <= Capacity
            /\ Room(r, e) = 0 => q = r
  <1> DEFINE q == [r EXCEPT !.position[e] = position]
  <1>1. r.position \in [Ends -> Positions] /\ "producer" \in Ends /\ "consumer" \in Ends
    BY DEF RingRecords, Ends
  <1>2. q.position = [r.position EXCEPT ![e] = position]
    BY DEF RingRecords
  <1> HIDE DEF q
  <1> DEFINE P == r.position["producer"]
             C == r.position["consumer"]
  <1>3. /\ P \in Positions /\ C \in Positions /\ r.position[e] \in Positions
        /\ Ahead(P, C) <= Capacity /\ Capacity < Wrap /\ Capacity \in Nat /\ Wrap \in Nat
    BY <1>1 DEF Used, RingsAssumption
  <1>4. ASSUME e = "producer"
        PROVE  Used(q) <= Capacity
    <2>1. q.position["producer"] = position /\ q.position["consumer"] = C
      BY <1>1, <1>2, <1>4
    <2>2. Ahead(position, P) <= Capacity - Ahead(P, C)
      BY <1>4 DEF Room, Used
    <2> HIDE DEF P, C
    <2>3. Ahead(position, C) <= Capacity
      BY <1>3, <2>2, AheadSum
    <2> QED BY <2>1, <2>3 DEF Used
  <1>5. ASSUME e = "consumer"
        PROVE  Used(q) <= Capacity
    <2>1. q.position["consumer"] = position /\ q.position["producer"] = P
      BY <1>1, <1>2, <1>5
    <2>2. Ahead(position, C) <= Ahead(P, C)
      BY <1>5 DEF Room, Used
    <2> HIDE DEF P, C
    <2>3. Ahead(P, position) <= Capacity
      BY <1>3, <2>2, AheadSum
    <2> QED BY <2>1, <2>3 DEF Used
  <1>6. ASSUME Room(r, e) = 0
        PROVE  q = r
    <2>1. Ahead(position, r.position[e]) <= 0
      BY <1>6
    <2>2. position = r.position[e]
      BY <1>3, <2>1, AheadSum
    <2>3. [r.position EXCEPT ![e] = position] = r.position
      BY <1>1, <2>2
    <2> QED BY <2>3 DEF RingRecords, q
  <1>7. Used(q) <= Capacity
    BY <1>4, <1>5 DEF Ends
  <1> QED BY <1>6, <1>7 DEF q

(* End e's position is position. *)
Advanced(s, e, position) == [s EXCEPT !.ring.position[e] = position]

(* ... and the other end is woken if there is now something for it. *)
Advances(s, e, position, r) ==
  \/ r = Wake(Advanced(s, e, position), Other(e), "ok")
  \/ /\ r = Advanced(s, e, position)
     /\ \/ position = s.ring.position[e]
        \/ s.ring.references[Other(e)] = 0
        \/ Room(r.ring, Other(e)) = 0

(* What an advance leaves. *)
Moved(s, h, e, position, r) ==
  /\ Sound(r, h)
  /\ r.ring = [s.ring EXCEPT !.position[e] = position] /\ r.area = s.area
  /\ \A p \in Processes, x \in Ends : Woken(s.ring.form, s.thread[p][x], r.thread[p][x])

LEMMA AdvanceSound ==
  ASSUME RingsAssumption, NEW s, NEW h, Sound(s, h), s.ring.state = "open",
         NEW e \in Ends, NEW position \in Positions,
         Ahead(position, s.ring.position[e]) <= Room(s.ring, e),
         NEW r, Advances(s, e, position, r)
  PROVE  Moved(s, h, e, position, r)
  <1> DEFINE ring1 == [s.ring EXCEPT !.position[e] = position]
             q == Advanced(s, e, position)
  <1>1. s \in Records /\ s.ring \in RingRecords
    BY DEF Sound, Records
  <1>2. q = [s EXCEPT !.ring = ring1]
    BY <1>1 DEF Advanced, Records
  <1>3. /\ ring1 \in RingRecords /\ ring1.state = "open" /\ ring1.form = s.ring.form
        /\ ring1.references = s.ring.references /\ ring1.corrupt = s.ring.corrupt
        /\ ring1.terminal = s.ring.terminal
        /\ ring1.position = [s.ring.position EXCEPT ![e] = position]
    BY <1>1 DEF RingRecords
  <1>4. /\ Used(ring1) <= Capacity
        /\ Room(s.ring, e) = 0 \/ position = s.ring.position[e] => ring1 = s.ring
    <2>1. Used(s.ring) <= Capacity
      BY DEF Sound
    <2>2. Used(ring1) <= Capacity /\ (Room(s.ring, e) = 0 => ring1 = s.ring)
      BY <1>1, <2>1, RoomAfter
    <2>3. position = s.ring.position[e] => ring1 = s.ring
      BY <1>1 DEF RingRecords
    <2> QED BY <2>2, <2>3
  <1> HIDE DEF ring1
  <1>5. q \in Records /\ q.ring = ring1 /\ q.area = s.area /\ q.thread = s.thread
    BY <1>1, <1>2, <1>3 DEF Records
  <1> HIDE DEF q
  <1>6. Other(e) \in Ends /\ \A x \in Ends : x = e \/ x = Other(e)
    BY DEF Ends, Other
  <1>7. /\ r \in Records /\ r.ring = ring1 /\ r.area = s.area
        /\ \A p \in Processes, x \in Ends : Woken(s.ring.form, s.thread[p][x], r.thread[p][x])
        /\ \/ \A p \in Processes : /\ r.thread[p][Other(e)].pc # "asleep"
                                   /\ r.thread[p][e] = s.thread[p][e]
           \/ /\ r = q
              /\ \/ position = s.ring.position[e]
                 \/ s.ring.references[Other(e)] = 0
                 \/ Room(r.ring, Other(e)) = 0
    <2>1. CASE r = Wake(q, Other(e), "ok")
      <3>1. /\ r \in Records /\ r.ring = q.ring /\ r.area = q.area
            /\ \A p \in Processes, x \in Ends :
                 /\ Woken(q.ring.form, q.thread[p][x], r.thread[p][x])
                 /\ x = Other(e) => r.thread[p][x].pc # "asleep"
                 /\ x # Other(e) => r.thread[p][x] = q.thread[p][x]
        BY <1>5, <1>6, <2>1, WakeFacts
      <3>2. e # Other(e)
        BY DEF Other, Ends
      <3> QED BY <1>3, <1>5, <1>6, <3>1, <3>2
    <2>2. CASE r # Wake(q, Other(e), "ok")
      <3>1. /\ r = q
            /\ \/ position = s.ring.position[e]
               \/ s.ring.references[Other(e)] = 0
               \/ Room(r.ring, Other(e)) = 0
        BY <2>2 DEF q, Advances
      <3> QED BY <1>5, <3>1 DEF Woken
    <2> QED BY <2>1, <2>2
  <1>8. Heard(r)
    <2> SUFFICES ASSUME NEW p \in Processes, NEW x \in Ends, r.thread[p][x].pc = "asleep"
                 PROVE  /\ r.ring.state = "open" /\ Room(r.ring, x) = 0
                        /\ r.ring.references[x] # 0 /\ r.ring.references[Other(x)] # 0
      BY DEF Heard
    <2>1. s.thread[p][x].pc = "asleep"
      BY <1>7 DEF Woken
    <2>2. /\ Room(s.ring, x) = 0 /\ s.ring.references[x] # 0
          /\ s.ring.references[Other(x)] # 0
      BY <2>1 DEF Sound, Heard
    <2>3. Room(ring1, x) = 0
      <3>1. CASE x = e
        BY <1>4, <2>2, <3>1
      <3>2. CASE x = Other(e)
        BY <1>4, <1>5, <1>7, <2>2, <3>2
      <3> QED BY <1>6, <3>1, <3>2
    <2> QED BY <1>3, <1>7, <2>2, <2>3
  <1>9. Backs(r, h)
    BY <1>3, <1>7 DEF Sound, Backs
  <1>10. Sound(r, h)
    BY <1>3, <1>4, <1>7, <1>8, <1>9 DEF Sound
  <1> QED BY <1>7, <1>10 DEF ring1, Moved

(* What RING_NOTIFY leaves and answers. *)
Notified(s, h, e, position, answer, r) ==
  /\ Sound(r, h) /\ r.ring.form = s.ring.form /\ r.area.handles = s.area.handles
  /\ \A p \in Processes, x \in Ends : Woken(s.ring.form, s.thread[p][x], r.thread[p][x])
  /\ r.ring.state # "free" => r.area.mapped = s.area.mapped
  /\ answer[2] = "ok" =>
       /\ r.ring = [s.ring EXCEPT !.position[e] = position] /\ r.area = s.area
  /\ answer[2] # "ok" =>
       r = s \/ /\ r = Fail(s, "failed") /\ s.ring.state = "open"
                /\ Ahead(position, s.ring.position[e]) > Room(s.ring, e)

LEMMA NotifySound ==
  ASSUME RingsAssumption, NEW s, NEW h, Sound(s, h), s.ring.state # "free",
         NEW e \in Ends, NEW position \in Positions,
         NEW answer, answer = Notify(s, e, position), NEW r, r = answer[1]
  PROVE  Notified(s, h, e, position, answer, r)
  <1>1. s.ring.state \in {"open", "closing"}
    BY DEF Sound, Records, RingRecords
  <1>2. \A p \in Processes, x \in Ends : Woken(s.ring.form, s.thread[p][x], s.thread[p][x])
    BY DEF Woken
  <1>3. Failure(s.ring) # "ok"
    BY DEF Failure
  <1>4. CASE s.ring.state = "closing" \/ (e = "producer" /\ s.ring.references["consumer"] = 0)
    <2>1. r = s /\ answer[2] # "ok"
      BY <1>3, <1>4 DEF Notify
    <2> QED BY <1>2, <2>1 DEF Notified
  <1>5. CASE /\ s.ring.state = "open" /\ ~(e = "producer" /\ s.ring.references["consumer"] = 0)
             /\ Ahead(position, s.ring.position[e]) > Room(s.ring, e)
    <2>1. answer = <<Fail(s, "failed"), "failed">>
      BY <1>5 DEF Notify
    <2>2. Sound(Fail(s, "failed"), h) /\ Keeps(s, Fail(s, "failed"))
      BY <1>5, FailSound DEF Results
    <2>3. r = Fail(s, "failed") /\ answer[2] # "ok"
      BY <2>1
    <2> QED BY <1>5, <2>2, <2>3 DEF Keeps, Notified
  <1>6. CASE /\ s.ring.state = "open" /\ ~(e = "producer" /\ s.ring.references["consumer"] = 0)
             /\ ~(Ahead(position, s.ring.position[e]) > Room(s.ring, e))
    <2>1. r = Accept(s, e, position) /\ answer[2] = "ok"
      BY <1>6 DEF Notify
    <2>2. Ahead(position, s.ring.position[e]) <= Room(s.ring, e)
      <3>1. Ahead(position, s.ring.position[e]) \in Int /\ Room(s.ring, e) \in Int
        BY AheadSum DEF Sound, Records, RingRecords, Ends, Room, Used, RingsAssumption
      <3> QED BY <1>6, <3>1
    <2>3. s.ring.references = Advanced(s, e, position).ring.references
      BY DEF Sound, Records, RingRecords, Advanced
    <2>4. Advances(s, e, position, r)
      BY <2>1, <2>3 DEF Accept, Advanced, Advances
    <2>5. /\ Sound(r, h)
          /\ r.ring = [s.ring EXCEPT !.position[e] = position] /\ r.area = s.area
          /\ \A p \in Processes, x \in Ends : Woken(s.ring.form, s.thread[p][x], r.thread[p][x])
      <3>1. s.ring.state = "open"
        BY <1>6
      <3>2. Moved(s, h, e, position, r)
        BY <3>1, <2>2, <2>4, AdvanceSound
      <3> QED BY <3>2 DEF Moved
    <2>6. r.ring.form = s.ring.form
      <3>1. s.ring \in RingRecords
        BY DEF Sound, Records
      <3> QED BY <2>5, <3>1 DEF RingRecords
    <2> QED BY <2>1, <2>5, <2>6 DEF Notified
  <1> QED BY <1>1, <1>4, <1>5, <1>6

----------------------------------------------------------------------------
(* The inductive invariant. *)

(* What a thread that is at t in a call of end e may rely on. *)
Fits(form, t, h, v, alive, p, e) ==
  /\ t.pc # "idle" => alive[p] = "alive"
  /\ t.pc # "idle" /\ (form = "shared" \/ t.pc # "asleep" \/ t.want # 0) => <<p, e>> \in h
  /\ t.pc # "idle" /\ form = "shared" => v[e].at = p
  /\ t.pc = "idle" \/ form = "copied" => t.call = "none"
  /\ t.pc \in {"ask", "recheck"} => form = "shared" /\ t.call # "none"
  /\ t.pc = "try" => form = "copied" /\ t.want # 0
  /\ t.pc \in {"block", "asleep"} /\ form = "shared" => t.call = "wait"

AllFit(s, h, v, alive) ==
  \A p \in Processes, e \in Ends : Fits(s.ring.form, s.thread[p][e], h, v, alive, p, e)

(* A view's process lives, holds the end and has the area mapped. *)
ViewsHeld(s, h, v, alive) ==
  \A e \in Ends : v[e].at # Nobody =>
    /\ <<v[e].at, e>> \in h /\ v[e].at \in s.area.mapped /\ alive[v[e].at] = "alive"
    /\ s.ring.form = "shared"

(* A process holds nothing before it is there; a pipe is never failed. *)
Born(h, alive) == \A p \in Processes, e \in Ends : <<p, e>> \in h => alive[p] # "unborn"

PipesOpen(s) == s.ring.form = "copied" => s.ring.state # "closing"

RingInv ==
  /\ TypeOK
  /\ Sound(Now, holds)
  /\ AllFit(Now, holds, view, process)
  /\ ViewsHeld(Now, holds, view, process)
  /\ Born(holds, process)
  /\ PipesOpen(Now)

LEMMA NowRecord ==
  ASSUME RingsAssumption, TypeOK
  PROVE  /\ Now \in Records /\ Now.ring = ring /\ Now.area = area /\ Now.thread = thread
         /\ ring \in RingRecords /\ area \in AreaRecords
         /\ thread \in [Processes -> [Ends -> Calls]]
         /\ ring.form \in {"shared", "copied"}
  <1>1. Now \in Records
    BY DEF TypeOK, Now
  <1>2. Now.ring = ring /\ Now.area = area /\ Now.thread = thread
    BY DEF Now
  <1>3. ring \in RingRecords /\ area \in AreaRecords /\ thread \in [Processes -> [Ends -> Calls]]
    BY <1>1, <1>2 DEF Records
  <1> QED BY <1>1, <1>2, <1>3 DEF RingRecords, RingsAssumption

(* A step of the kernel that leaves r. *)
LEMMA KernelStep ==
  ASSUME RingsAssumption, RingInv, NEW r, Becomes(r), Sound(r, holds'),
         AllFit(r, holds', view', process'), ViewsHeld(r, holds', view', process'),
         Born(holds', process'), PipesOpen(r),
         process' \in [Processes -> {"unborn", "alive", "exited"}],
         header' \in [Ends -> Positions], data' \in [0 .. Capacity - 1 -> Positions],
         view' \in [Ends -> Views], faulty' \subseteq Processes
  PROVE  RingInv'
  <1> DEFINE n == [ring |-> ring', area |-> area', thread |-> thread']
  <1>1. /\ n.ring = r.ring /\ n.area = r.area /\ n.thread = r.thread
        /\ r \in Records
    BY DEF Becomes, Sound
  <1>2. n \in Records
    BY <1>1 DEF Becomes, Records
  <1> HIDE DEF n
  <1>3. Sound(n, holds')
    BY <1>1, <1>2 DEF Sound, Backs, Heard
  <1>4. AllFit(n, holds', view', process') /\ ViewsHeld(n, holds', view', process')
    BY <1>1 DEF AllFit, ViewsHeld
  <1>5. PipesOpen(n)
    BY <1>1 DEF PipesOpen
  <1>6. TypeOK'
    BY <1>2, <1>3 DEF TypeOK, Sound, n
  <1> QED BY <1>3, <1>4, <1>5, <1>6 DEF RingInv, Now, n

LEMMA WokenFits ==
  ASSUME NEW form, NEW t \in Calls, NEW u, Woken(form, t, u),
         NEW h, NEW v, NEW alive, NEW p, NEW e, Fits(form, t, h, v, alive, p, e)
  PROVE  Fits(form, u, h, v, alive, p, e)
  BY DEF Woken, Fits

(* One thread of s goes on to u. *)
Goes(s, p, e, u) == [s EXCEPT !.thread[p][e] = u]

LEMMA GoesFacts ==
  ASSUME NEW s \in Records, NEW p \in Processes, NEW e \in Ends, NEW u \in Calls
  PROVE  LET r == Goes(s, p, e, u)
         IN /\ r \in Records /\ r.ring = s.ring /\ r.area = s.area
            /\ \A x \in Processes, y \in Ends :
                 r.thread[x][y] = IF x = p /\ y = e THEN u ELSE s.thread[x][y]
  <1> DEFINE f == [s.thread EXCEPT ![p][e] = u]
             r == Goes(s, p, e, u)
  <1>1. f \in [Processes -> [Ends -> Calls]]
    BY DEF Records
  <1>2. \A x \in Processes, y \in Ends : f[x][y] = IF x = p /\ y = e THEN u ELSE s.thread[x][y]
    BY DEF Records
  <1>3. r = [s EXCEPT !.thread = f]
    BY DEF Goes, Records
  <1> HIDE DEF f, r
  <1>4. r \in Records /\ r.ring = s.ring /\ r.area = s.area /\ r.thread = f
    BY <1>1, <1>3 DEF Records
  <1> QED BY <1>2, <1>4 DEF r

LEMMA GoesSound ==
  ASSUME RingsAssumption, NEW s, NEW h, Sound(s, h),
         NEW p \in Processes, NEW e \in Ends, NEW u \in Calls,
         u.pc # "asleep" \/ s.thread[p][e].pc = "asleep"
  PROVE  Sound(Goes(s, p, e, u), h)
  <1> DEFINE r == Goes(s, p, e, u)
  <1>1. /\ r \in Records /\ r.ring = s.ring /\ r.area = s.area
        /\ \A x \in Processes, y \in Ends :
             r.thread[x][y] = IF x = p /\ y = e THEN u ELSE s.thread[x][y]
    BY GoesFacts DEF Sound
  <1> HIDE DEF r
  <1>2. Heard(r)
    BY <1>1 DEF Sound, Heard
  <1> QED BY <1>1, <1>2 DEF Sound, Backs, r

----------------------------------------------------------------------------
(* One lemma for each action, after those that several share. *)

LEMMA StepTypes ==
  ASSUME RingsAssumption, RingInv
  PROVE  /\ Now \in Records /\ Now.ring = ring /\ Now.area = area /\ Now.thread = thread
         /\ ring \in RingRecords /\ area \in AreaRecords
         /\ thread \in [Processes -> [Ends -> Calls]]
         /\ ring.form \in {"shared", "copied"}
         /\ Sound(Now, holds) /\ holds \in SUBSET (Processes \X Ends)
         /\ process \in [Processes -> {"unborn", "alive", "exited"}]
         /\ header \in [Ends -> Positions] /\ data \in [0 .. Capacity - 1 -> Positions]
         /\ view \in [Ends -> Views] /\ faulty \subseteq Processes
         /\ \A p \in Processes, e \in Ends : Fits(ring.form, thread[p][e], holds, view, process, p, e)
         /\ \A p \in Processes, e \in Ends : <<p, e>> \in holds => ring.state # "free"
  <1>1. TypeOK /\ Sound(Now, holds)
    BY DEF RingInv
  <1>2. Now \in Records /\ Now.ring = ring /\ Now.area = area /\ Now.thread = thread
    BY <1>1, NowRecord
  <1>3. \A p \in Processes, e \in Ends : Fits(ring.form, thread[p][e], holds, view, process, p, e)
    BY <1>2 DEF RingInv, AllFit
  <1>4. \A p \in Processes, e \in Ends : <<p, e>> \in holds => ring.state # "free"
    BY <1>1, <1>2 DEF Sound, Backs
  <1> QED BY <1>1, <1>2, <1>3, <1>4, NowRecord DEF TypeOK

(* Only thread p of end e goes on, to u. *)
LEMMA ThreadStep ==
  ASSUME RingsAssumption, RingInv, NEW p \in Processes, NEW e \in Ends, NEW u \in Calls,
         thread' = [thread EXCEPT ![p][e] = u],
         UNCHANGED <<process, area, ring, holds, header, data, view, faulty>>,
         Fits(ring.form, u, holds, view, process, p, e),
         u.pc = "asleep" => /\ ring.state = "open" /\ Room(ring, e) = 0
                            /\ ring.references[e] # 0 /\ ring.references[Other(e)] # 0
  PROVE  RingInv'
  <1> DEFINE r == Goes(Now, p, e, u)
  <1>1. /\ r \in Records /\ r.ring = ring /\ r.area = area
        /\ \A x \in Processes, y \in Ends :
             r.thread[x][y] = IF x = p /\ y = e THEN u ELSE thread[x][y]
    <2>1. Now \in Records /\ Now.ring = ring /\ Now.area = area /\ Now.thread = thread
      BY StepTypes
    <2>2. /\ r \in Records /\ r.ring = Now.ring /\ r.area = Now.area
          /\ \A x \in Processes, y \in Ends :
               r.thread[x][y] = IF x = p /\ y = e THEN u ELSE Now.thread[x][y]
      BY <2>1, GoesFacts
    <2> HIDE DEF r
    <2> QED BY <2>1, <2>2
  <1>2. r.thread = [thread EXCEPT ![p][e] = u]
    BY StepTypes DEF Goes, Records
  <1> HIDE DEF r
  <1>3. Becomes(r)
    BY <1>1, <1>2 DEF Becomes
  <1>4. Heard(r)
    BY <1>1, StepTypes DEF Sound, Heard
  <1>5. Sound(r, holds)
    BY <1>1, <1>4, StepTypes DEF Sound, Backs
  <1>6. AllFit(r, holds, view, process)
    BY <1>1, StepTypes DEF AllFit
  <1>7. ViewsHeld(r, holds, view, process) /\ Born(holds, process) /\ PipesOpen(r)
    BY <1>1, StepTypes DEF RingInv, ViewsHeld, PipesOpen
  <1>8. /\ holds' = holds /\ view' = view /\ process' = process /\ header' = header
        /\ data' = data /\ faulty' = faulty
    OBVIOUS
  <1> QED BY <1>3, <1>5, <1>6, <1>7, <1>8, StepTypes, KernelStep

LEMMA GoesOnInv ==
  ASSUME RingsAssumption, RingInv, NEW p \in Processes, NEW e \in Ends,
         NEW pc \in {"ask", "recheck", "try", "block"}, GoesOn(p, e, pc),
         Fits(ring.form, [thread[p][e] EXCEPT !.pc = pc], holds, view, process, p, e)
  PROVE  RingInv'
  <1> DEFINE u == [thread[p][e] EXCEPT !.pc = pc]
  <1>1. thread[p][e] \in Calls
    BY StepTypes
  <1>2. u \in Calls /\ u.pc # "asleep"
    BY <1>1 DEF Calls
  <1>3. thread' = [thread EXCEPT ![p][e] = u]
    BY StepTypes DEF GoesOn
  <1> HIDE DEF u
  <1>4. Fits(ring.form, u, holds, view, process, p, e)
    BY DEF u
  <1> QED BY <1>2, <1>3, <1>4, ThreadStep DEF GoesOn

LEMMA IdleFits ==
  ASSUME NEW form, NEW t, t.pc = "idle", t.call = "none",
         NEW h, NEW v, NEW alive, NEW p, NEW e
  PROVE  Fits(form, t, h, v, alive, p, e)
  BY DEF Fits

LEMMA ReturnsInv ==
  ASSUME RingsAssumption, RingInv, NEW p \in Processes, NEW e \in Ends, NEW told,
         Returns(p, e, told)
  PROVE  RingInv'
  <1>1. Told(told) \in Calls /\ Told(told).pc = "idle" /\ Told(told).call = "none"
    BY ToldFacts
  <1>2. Fits(ring.form, Told(told), holds, view, process, p, e)
    BY <1>1, IdleFits
  <1> QED BY <1>1, <1>2, ThreadStep DEF Returns

LEMMA IdleFacts == Idle \in Calls /\ Idle.pc = "idle" /\ Idle.call = "none"
  BY DEF Idle, Calls

LEMMA BeginInv ==
  ASSUME RingsAssumption, RingInv, NEW p \in Processes, NEW e \in Ends,
         NEW call \in {"notify", "wait"}, Begin(p, e, call)
  PROVE  RingInv'
  <1> DEFINE u == [Idle EXCEPT !.pc = "ask", !.call = call]
  <1>1. u \in Calls /\ u.pc = "ask" /\ u.call = call
    BY DEF Idle, Calls
  <1>2. thread' = [thread EXCEPT ![p][e] = u]
    BY DEF Begin
  <1> HIDE DEF u
  <1>3. Alive(p) /\ view[e].at = p /\ p # Nobody
    BY DEF Begin, Uses, RingsAssumption
  <1>4. <<p, e>> \in holds /\ ring.form = "shared"
    BY <1>3, StepTypes DEF RingInv, ViewsHeld
  <1>5. Fits(ring.form, u, holds, view, process, p, e)
    BY <1>1, <1>3, <1>4 DEF Fits, Alive
  <1> QED BY <1>1, <1>2, <1>5, ThreadStep DEF Begin

LEMMA StartInv ==
  ASSUME RingsAssumption, RingInv, NEW p \in Processes, NEW e \in Ends,
         NEW length \in Nat \ {0}, Start(p, e, length)
  PROVE  RingInv'
  <1> DEFINE u == [Idle EXCEPT !.pc = "try", !.want = length]
  <1>1. u \in Calls /\ u.pc = "try" /\ u.want = length /\ u.call = "none"
    BY DEF Idle, Calls
  <1>2. thread' = [thread EXCEPT ![p][e] = u]
    BY DEF Start
  <1> HIDE DEF u
  <1>3. Alive(p) /\ <<p, e>> \in holds /\ ring.form = "copied"
    BY StepTypes DEF Start, Shared
  <1>4. Fits(ring.form, u, holds, view, process, p, e)
    BY <1>1, <1>3 DEF Fits, Alive
  <1> QED BY <1>1, <1>2, <1>4, ThreadStep DEF Start

LEMMA BlockInv ==
  ASSUME RingsAssumption, RingInv, NEW p \in Processes, NEW e \in Ends, Block(p, e)
  PROVE  RingInv'
  <1> DEFINE t == thread[p][e]
             result == Readiness(ring, e)
             a == [t EXCEPT !.pc = "asleep"]
             b == After(Now, t, e, result)
  <1>1. /\ t \in Calls /\ t.pc = "block" /\ Fits(ring.form, t, holds, view, process, p, e)
        /\ UNCHANGED <<process, area, ring, holds, header, data, view, faulty>>
    BY StepTypes DEF Block
  <1>2. <<p, e>> \in holds
    BY <1>1, StepTypes DEF Fits
  <1>3. CASE result = "sleep"
    <2>1. thread' = [thread EXCEPT ![p][e] = a]
      BY <1>3, StepTypes DEF Block
    <2>2. a \in Calls /\ a.pc = "asleep" /\ a.call = t.call
      BY <1>1 DEF Calls
    <2>3. Fits(ring.form, a, holds, view, process, p, e)
      BY <1>1, <2>2, StepTypes DEF Fits
    <2> HIDE DEF a, t
    <2>4. ring.references[e] # 0
      <3>1. ring.references[e] = Cardinality(Holders(holds, e))
        BY StepTypes DEF Sound, Backs
      <3>2. p \in Holders(holds, e)
        BY <1>2 DEF Holders
      <3> QED BY <3>1, <3>2, HoldersFinite
    <2>5. ring.state = "open" /\ Room(ring, e) = 0 /\ ring.references[Other(e)] # 0
      <3>1. ring.state \in {"open", "closing"}
        BY <1>2, StepTypes DEF RingRecords
      <3>2. Failure(ring) # "sleep"
        BY DEF Failure
      <3>3. e = "producer" => Other(e) = "consumer"
        BY DEF Other
      <3> QED BY <1>3, <3>1, <3>2, <3>3 DEF Readiness
    <2> QED BY <1>1, <2>1, <2>2, <2>3, <2>4, <2>5, ThreadStep
  <1>4. CASE result # "sleep"
    <2>1. thread' = [thread EXCEPT ![p][e] = b]
      BY <1>4, StepTypes DEF Block
    <2>2. /\ Idle \in Calls /\ Idle.pc = "idle" /\ Idle.call = "none"
          /\ Told(result) \in Calls /\ Told(result).pc = "idle" /\ Told(result).call = "none"
      BY IdleFacts, ToldFacts
    <2>3. \A pc \in {"ask", "try"} :
            LET u == [t EXCEPT !.pc = pc]
            IN u \in Calls /\ u.pc = pc /\ u.call = t.call /\ u.want = t.want
      BY <1>1 DEF Calls
    <2> HIDE DEF t, result
    <2>4. /\ b \in Calls /\ b.pc # "asleep"
          /\ Fits(ring.form, b, holds, view, process, p, e)
      <3>1. CASE ring.form = "shared"
        BY <1>1, <1>2, <2>2, <2>3, <3>1, StepTypes DEF After, Fits
      <3>2. CASE ring.form = "copied"
        BY <1>1, <1>2, <2>2, <2>3, <3>2, StepTypes DEF After, Fits
      <3> QED BY <3>1, <3>2, StepTypes
    <2> QED BY <1>1, <2>1, <2>4, ThreadStep
  <1> QED BY <1>3, <1>4

LEMMA EndWaitInv ==
  ASSUME RingsAssumption, RingInv, NEW p \in Processes, NEW e \in Ends, EndWait(p, e)
  PROVE  RingInv'
  BY ReturnsInv DEF EndWait

LEMMA WouldBlockInv ==
  ASSUME RingsAssumption, RingInv, NEW p \in Processes, NEW e \in Ends,
         thread[p][e].pc = "try", WouldBlock(p, e)
  PROVE  RingInv'
  <1> DEFINE u == [thread[p][e] EXCEPT !.pc = "block"]
  <1>1. Fits(ring.form, thread[p][e], holds, view, process, p, e) /\ thread[p][e] \in Calls
    BY StepTypes
  <1>2. u.pc = "block" /\ u.call = thread[p][e].call
    BY <1>1 DEF Calls
  <1>3. Fits(ring.form, u, holds, view, process, p, e)
    BY <1>1, <1>2 DEF Fits
  <1> QED BY <1>3, GoesOnInv, ReturnsInv DEF WouldBlock

LEMMA NoViewFacts ==
  ASSUME RingsAssumption
  PROVE  NoView \in Views /\ NoView.at = Nobody
  <1>1. 0 \in Positions
    BY DEF RingsAssumption, Positions
  <1> QED BY <1>1 DEF NoView, Views

(* Views and what they describe change, but none begins or ends. *)
LEMMA ViewStep ==
  ASSUME RingsAssumption, RingInv, UNCHANGED <<process, area, ring, holds, thread>>,
         header' \in [Ends -> Positions], data' \in [0 .. Capacity - 1 -> Positions],
         faulty' \subseteq Processes,
         view' \in [Ends -> Views], \A e \in Ends : view'[e].at = view[e].at
  PROVE  RingInv'
  <1>1. Becomes(Now)
    BY DEF Becomes, Now
  <1>2. holds' = holds /\ process' = process
    OBVIOUS
  <1>3. AllFit(Now, holds, view', process)
    <2> SUFFICES ASSUME NEW p \in Processes, NEW e \in Ends
                 PROVE  Fits(ring.form, thread[p][e], holds, view', process, p, e)
      BY StepTypes DEF AllFit
    <2>1. Fits(ring.form, thread[p][e], holds, view, process, p, e)
      BY StepTypes
    <2> QED BY <2>1 DEF Fits
  <1>4. ViewsHeld(Now, holds, view', process) /\ Born(holds, process) /\ PipesOpen(Now)
    BY DEF RingInv, ViewsHeld
  <1> QED BY <1>1, <1>2, <1>3, <1>4, StepTypes, KernelStep

(* Thread p of end e, whose view it is, goes on to u after a call of the   *)
(* kernel that leaves s, and its view becomes w.                           *)
LEMMA ViewThreadStep ==
  ASSUME RingsAssumption, RingInv, NEW p \in Processes, NEW e \in Ends, view[e].at = p,
         NEW s, Sound(s, holds), s.ring.form = ring.form,
         \A x \in Processes, y \in Ends : Woken(ring.form, thread[x][y], s.thread[x][y]),
         s.ring.state # "free" => s.area.mapped = area.mapped,
         NEW u \in Calls, u.pc # "asleep", Becomes(Goes(s, p, e, u)),
         NEW w \in Views, view' = [view EXCEPT ![e] = w],
         \/ w.at = p /\ Fits(ring.form, u, holds, view, process, p, e)
         \/ w.at = Nobody /\ u.pc = "idle" /\ u.call = "none",
         UNCHANGED <<process, holds, header, data, faulty>>
  PROVE  RingInv'
  <1> DEFINE r == Goes(s, p, e, u)
  <1>1. p # Nobody
    BY DEF RingsAssumption
  <1>2. /\ ring.form = "shared" /\ <<p, e>> \in holds
        /\ \A y \in Ends : view[y].at # Nobody =>
             /\ <<view[y].at, y>> \in holds /\ view[y].at \in area.mapped
             /\ process[view[y].at] = "alive"
    BY <1>1, StepTypes DEF RingInv, ViewsHeld
  <1>3. s \in Records /\ s.ring.state # "free"
    BY <1>2 DEF Sound, Backs
  <1>4. /\ r \in Records /\ r.ring = s.ring /\ r.area = s.area
        /\ \A x \in Processes, y \in Ends :
             r.thread[x][y] = IF x = p /\ y = e THEN u ELSE s.thread[x][y]
    BY <1>3, GoesFacts
  <1>5. Sound(r, holds)
    BY GoesSound
  <1> HIDE DEF r
  <1>6. view' \in [Ends -> Views] /\ \A y \in Ends : view'[y] = IF y = e THEN w ELSE view[y]
    BY StepTypes
  <1>7. AllFit(r, holds, view', process)
    <2> SUFFICES ASSUME NEW x \in Processes, NEW y \in Ends
                 PROVE  Fits(ring.form, r.thread[x][y], holds, view', process, x, y)
      BY <1>4 DEF AllFit
    <2>1. thread[x][y] \in Calls /\ Fits(ring.form, thread[x][y], holds, view, process, x, y)
      BY StepTypes
    <2>2. Woken(ring.form, thread[x][y], s.thread[x][y])
      OBVIOUS
    <2>3. CASE x = p /\ y = e
      <3>1. r.thread[x][y] = u
        BY <1>4, <2>3
      <3> QED BY <1>6, <2>3, <3>1 DEF Fits
    <2>4. CASE y # e
      <3>1. r.thread[x][y] = s.thread[x][y] /\ view'[y] = view[y]
        BY <1>4, <1>6, <2>4
      <3>2. Fits(ring.form, s.thread[x][y], holds, view, process, x, y)
        BY <2>1, <2>2, WokenFits
      <3> QED BY <3>1, <3>2 DEF Fits
    <2>5. CASE y = e /\ x # p
      <3>1. r.thread[x][y] = s.thread[x][y]
        BY <1>4, <2>5
      <3>2. thread[x][y].pc = "idle" /\ thread[x][y].call = "none"
        BY <1>2, <2>1, <2>5 DEF Fits
      <3>3. s.thread[x][y] = thread[x][y]
        BY <2>2, <3>2 DEF Woken
      <3> QED BY <3>1, <3>2, <3>3, IdleFits
    <2> QED BY <2>3, <2>4, <2>5
  <1>8. ViewsHeld(r, holds, view', process)
    <2> SUFFICES ASSUME NEW y \in Ends, view'[y].at # Nobody
                 PROVE  /\ <<view'[y].at, y>> \in holds /\ view'[y].at \in area.mapped
                        /\ process[view'[y].at] = "alive"
      BY <1>2, <1>3, <1>4 DEF ViewsHeld
    <2>1. view'[y].at = view[y].at
      BY <1>6
    <2> QED BY <1>2, <2>1
  <1>9. PipesOpen(r)
    BY <1>2, <1>4 DEF PipesOpen
  <1>10. Born(holds, process)
    BY DEF RingInv
  <1>11. /\ holds' = holds /\ process' = process /\ header' = header /\ data' = data
         /\ faulty' = faulty /\ Becomes(r)
    BY DEF r
  <1> QED BY <1>5, <1>6, <1>7, <1>8, <1>9, <1>10, <1>11, StepTypes, KernelStep

LEMMA ViewAfterFacts ==
  ASSUME RingsAssumption, RingInv, NEW p \in Processes, NEW e \in Ends, view[e].at = p
  PROVE  /\ ViewAfter(p, e) \in Views
         /\ ViewAfter(p, e) = IF thread[p][e].call = "attach" THEN NoView ELSE view[e]
         /\ ViewAfter(p, e).at \in {p, Nobody}
  BY StepTypes, NoViewFacts DEF ViewAfter

LEMMA ReportInv ==
  ASSUME RingsAssumption, RingInv, NEW p \in Processes, NEW e \in Ends, view[e].at = p,
         Report(p, e)
  PROVE  RingInv'
  <1> DEFINE s == IF ring.state = "open" THEN Fail(Now, "failed") ELSE Now
             v == ViewAfter(p, e)
             f == (view[e].at # Nobody /\ Attached(e))
             w == [v EXCEPT !.failed = f]
             u == Told("failed")
  <1>1. u \in Calls /\ u.pc = "idle" /\ u.call = "none"
    BY ToldFacts
  <1>2. v \in Views /\ v.at \in {p, Nobody}
    BY ViewAfterFacts
  <1>3. f \in BOOLEAN
    OBVIOUS
  <1>4. Becomes(Goes(s, p, e, u)) /\ view' = [view EXCEPT ![e] = w]
        /\ UNCHANGED <<process, holds, header, data, faulty>>
    BY DEF Report, Goes
  <1> HIDE DEF u, v, f
  <1>5. w \in Views /\ w.at \in {p, Nobody}
    BY <1>2, <1>3 DEF Views
  <1> HIDE DEF w
  <1>6. /\ Sound(s, holds) /\ s.ring.form = ring.form
        /\ \A x \in Processes, y \in Ends : Woken(ring.form, thread[x][y], s.thread[x][y])
        /\ s.ring.state # "free" => s.area.mapped = area.mapped
    <2>1. CASE ring.state = "open"
      <3>1. Sound(Fail(Now, "failed"), holds) /\ Keeps(Now, Fail(Now, "failed"))
        BY <2>1, StepTypes, FailSound DEF Results
      <3> QED BY <2>1, <3>1, StepTypes DEF Keeps
    <2>2. CASE ring.state # "open"
      BY <2>2, StepTypes DEF Woken
    <2> QED BY <2>1, <2>2
  <1> HIDE DEF s
  <1>7. Fits(ring.form, u, holds, view, process, p, e)
    BY <1>1, IdleFits
  <1> QED BY <1>1, <1>4, <1>5, <1>6, <1>7, ViewThreadStep

LEMMA AskInv ==
  ASSUME RingsAssumption, RingInv, NEW p \in Processes, NEW e \in Ends, Ask(p, e)
  PROVE  RingInv'
  <1> DEFINE t == thread[p][e]
             answer == Notify(Now, e, view[e].local)
             s == answer[1]
             ok == answer[2] = "ok"
             u == IF ok THEN [t EXCEPT !.pc = "recheck"] ELSE Told(answer[2])
             w == IF ok THEN [view[e] EXCEPT !.peer = s.ring.position[Other(e)]]
                  ELSE ViewAfter(p, e)
  <1>1. t.pc = "ask" /\ t \in Calls /\ Fits(ring.form, t, holds, view, process, p, e)
    BY StepTypes DEF Ask
  <1>2. /\ ring.form = "shared" /\ <<p, e>> \in holds /\ view[e].at = p
        /\ t.call # "none"
    BY <1>1 DEF Fits
  <1>3. view[e] \in Views /\ view[e].local \in Positions /\ ring.state # "free"
    BY <1>2, StepTypes DEF Views
  <1>4. CASE Report(p, e)
    BY <1>2, <1>4, ReportInv
  <1>5. CASE ~Report(p, e)
    <2>1. /\ Sound(s, holds) /\ s.ring.form = ring.form
          /\ \A x \in Processes, y \in Ends : Woken(ring.form, thread[x][y], s.thread[x][y])
          /\ s.ring.state # "free" => s.area.mapped = area.mapped
      <3>1. Sound(Now, holds) /\ Now.ring = ring /\ Now.area = area /\ Now.thread = thread
        BY StepTypes
      <3>2. /\ Sound(s, holds) /\ s.ring.form = Now.ring.form
            /\ \A x \in Processes, y \in Ends :
                 Woken(Now.ring.form, Now.thread[x][y], s.thread[x][y])
            /\ s.ring.state # "free" => s.area.mapped = Now.area.mapped
        <4>1. answer = Notify(Now, e, view[e].local) /\ Now.ring.state # "free"
          BY <1>3, <3>1
        <4>2. s = answer[1]
          OBVIOUS
        <4> HIDE DEF s, answer
        <4>3. Notified(Now, holds, e, view[e].local, answer, s)
          BY <1>3, <3>1, <4>1, <4>2, NotifySound
        <4> QED BY <4>3 DEF Notified
      <3> HIDE DEF s
      <3> QED BY <3>1, <3>2
    <2>2. s.thread[p][e] = t
      BY <1>1, <2>1 DEF Woken
    <2>3. /\ Becomes([s EXCEPT !.thread[p][e] =
                 IF ok THEN [@ EXCEPT !.pc = "recheck"] ELSE Told(answer[2])])
          /\ view' = [view EXCEPT ![e] =
                 IF ok THEN [@ EXCEPT !.peer = s.ring.position[Other(e)]]
                 ELSE ViewAfter(p, e)]
          /\ UNCHANGED <<process, holds, header, data, faulty>>
      BY <1>5 DEF Ask
    <2>4. Becomes(Goes(s, p, e, u))
      BY <2>2, <2>3 DEF Goes
    <2>5. view' = [view EXCEPT ![e] = w]
      BY <2>3
    <2>6. s.ring.position[Other(e)] \in Positions
      BY <2>1 DEF Sound, Records, RingRecords, Other, Ends
    <2> HIDE DEF s, ok
    <2>7. w \in Views /\ (ok => w.at = p) /\ w.at \in {p, Nobody}
      BY <1>2, <1>3, <2>6, ViewAfterFacts DEF Views
    <2>8. /\ u \in Calls /\ u.pc # "asleep"
          /\ ok => u.pc = "recheck" /\ u.call = t.call
          /\ ~ok => u.pc = "idle" /\ u.call = "none"
      <3>1. [t EXCEPT !.pc = "recheck"] \in Calls /\ [t EXCEPT !.pc = "recheck"].pc = "recheck"
            /\ [t EXCEPT !.pc = "recheck"].call = t.call
        BY <1>1 DEF Calls
      <3> QED BY <3>1, ToldFacts
    <2> HIDE DEF u, w, t
    <2>9. Fits(ring.form, u, holds, view, process, p, e)
      BY <1>1, <1>2, <2>8 DEF Fits
    <2>10. \/ w.at = p /\ Fits(ring.form, u, holds, view, process, p, e)
           \/ w.at = Nobody /\ u.pc = "idle" /\ u.call = "none"
      BY <2>7, <2>8, <2>9
    <2>11. UNCHANGED <<process, holds, header, data, faulty>>
      BY <2>3
    <2> QED BY <1>2, <2>1, <2>4, <2>5, <2>7, <2>8, <2>10, <2>11, ViewThreadStep
  <1> QED BY <1>4, <1>5

LEMMA RecheckInv ==
  ASSUME RingsAssumption, RingInv, NEW p \in Processes, NEW e \in Ends, Recheck(p, e)
  PROVE  RingInv'
  <1> DEFINE t == thread[p][e]
             u == [t EXCEPT !.pc = "block"]
  <1>1. t.pc = "recheck" /\ t \in Calls /\ Fits(ring.form, t, holds, view, process, p, e)
    BY StepTypes DEF Recheck
  <1>2. ring.form = "shared" /\ view[e].at = p
    BY <1>1 DEF Fits
  <1>3. CASE Report(p, e)
    BY <1>2, <1>3, ReportInv
  <1>4. CASE t.call = "wait" /\ GoesOn(p, e, "block")
    <2>1. u.pc = "block" /\ u.call = "wait"
      BY <1>1, <1>4 DEF Calls
    <2>2. Fits(ring.form, u, holds, view, process, p, e)
      BY <1>1, <1>2, <2>1 DEF Fits
    <2> QED BY <1>4, <2>2, GoesOnInv
  <1>5. CASE Returns(p, e, "none")
    BY <1>5, ReturnsInv
  <1> QED BY <1>3, <1>4, <1>5 DEF Recheck

LEMMA ReserveInv ==
  ASSUME RingsAssumption, RingInv, NEW p \in Processes, NEW e \in Ends, Reserve(p, e)
  PROVE  RingInv'
  <1>1. view[e].at = p /\ view[e] \in Views
    BY StepTypes DEF Reserve, Uses
  <1>2. CASE Report(p, e)
    BY <1>1, <1>2, ReportInv
  <1>3. CASE ~Report(p, e)
    <2> DEFINE w == [view[e] EXCEPT !.reserved = TRUE]
               k == Slot(view[e].local)
    <2>1. /\ view' = [view EXCEPT ![e] = w]
          /\ data' = IF e = "producer" THEN [data EXCEPT ![k] = view[e].local] ELSE data
          /\ UNCHANGED <<process, area, ring, holds, header, thread, faulty>>
      BY <1>3, StepTypes DEF Reserve
    <2>2. w \in Views /\ w.at = view[e].at /\ view[e].local \in Positions
      BY <1>1 DEF Views
    <2> HIDE DEF w, k
    <2>3. view' \in [Ends -> Views] /\ \A x \in Ends : view'[x].at = view[x].at
      BY <2>1, <2>2, StepTypes
    <2>4. data' \in [0 .. Capacity - 1 -> Positions]
      BY <2>1, <2>2, StepTypes
    <2> QED BY <2>1, <2>3, <2>4, StepTypes, ViewStep
  <1> QED BY <1>2, <1>3

LEMMA CommitInv ==
  ASSUME RingsAssumption, RingInv, NEW p \in Processes, NEW e \in Ends, Commit(p, e)
  PROVE  RingInv'
  <1>1. view[e].at = p /\ view[e] \in Views
    BY StepTypes DEF Commit, Uses
  <1>2. CASE Report(p, e)
    BY <1>1, <1>2, ReportInv
  <1>3. CASE ~Report(p, e)
    <2> DEFINE next == Plus(view[e].local, 1)
               w == [view[e] EXCEPT !.local = next, !.reserved = FALSE]
    <2>1. /\ header' = [header EXCEPT ![e] = next]
          /\ view' = [view EXCEPT ![e] = w]
          /\ UNCHANGED <<process, area, ring, holds, data, thread, faulty>>
      BY <1>3, StepTypes DEF Commit
    <2>2. next \in Positions
      <3>1. view[e].local \in Positions /\ 1 \in 0 .. Wrap
        BY <1>1 DEF Views, RingsAssumption
      <3> QED BY <3>1, PlusFacts
    <2> HIDE DEF next
    <2>3. w \in Views /\ w.at = view[e].at
      BY <1>1, <2>2 DEF Views
    <2> HIDE DEF w
    <2>4. view' \in [Ends -> Views] /\ \A x \in Ends : view'[x].at = view[x].at
      BY <2>1, <2>3, StepTypes
    <2>5. header' \in [Ends -> Positions]
      BY <2>1, <2>2, StepTypes
    <2> QED BY <2>1, <2>4, <2>5, StepTypes, ViewStep
  <1> QED BY <1>2, <1>3

LEMMA NearByFacts ==
  ASSUME RingsAssumption, NEW a \in Positions
  PROVE  NearBy(a) \subseteq Positions
  <1>1. Capacity + 1 \in 0 .. Wrap /\ Wrap - 1 \in 0 .. Wrap
    BY DEF RingsAssumption
  <1> QED BY <1>1, PlusFacts DEF NearBy

LEMMA DamageInv ==
  ASSUME RingsAssumption, RingInv, NEW p \in Processes, Damage(p)
  PROVE  RingInv'
  <1>1. PICK e \in Ends : \E position \in NearBy(header[e]) :
               header' = [header EXCEPT ![e] = position]
    BY DEF Damage
  <1>2. PICK position \in NearBy(header[e]) : header' = [header EXCEPT ![e] = position]
    BY <1>1
  <1>3. position \in Positions
    BY <1>2, NearByFacts, StepTypes
  <1>4. header' \in [Ends -> Positions]
    BY <1>2, <1>3, StepTypes
  <1>5. UNCHANGED <<process, area, ring, holds, data, view, thread>> /\ faulty' \subseteq Processes
    BY DEF Damage
  <1> QED BY <1>4, <1>5, StepTypes, ViewStep

(* The kernel leaves r; threads are woken or idle; no handle and no view   *)
(* begins or ends.                                                         *)
LEMMA WakingStep ==
  ASSUME RingsAssumption, RingInv, NEW r, Becomes(r), Sound(r, holds),
         r.ring.form = ring.form,
         \A p \in Processes, e \in Ends :
            \/ Woken(ring.form, thread[p][e], r.thread[p][e])
            \/ r.thread[p][e] = Idle,
         r.ring.state # "free" => r.area.mapped = area.mapped,
         ring.form = "shared" \/ r.ring.state = ring.state,
         UNCHANGED <<process, holds, view>>,
         header' \in [Ends -> Positions], data' \in [0 .. Capacity - 1 -> Positions],
         faulty' \subseteq Processes
  PROVE  RingInv'
  <1>1. AllFit(r, holds, view, process)
    <2> SUFFICES ASSUME NEW p \in Processes, NEW e \in Ends
                 PROVE  Fits(ring.form, r.thread[p][e], holds, view, process, p, e)
      BY DEF AllFit
    <2>1. thread[p][e] \in Calls /\ Fits(ring.form, thread[p][e], holds, view, process, p, e)
      BY StepTypes
    <2>2. CASE Woken(ring.form, thread[p][e], r.thread[p][e])
      BY <2>1, <2>2, WokenFits
    <2>3. CASE r.thread[p][e] = Idle
      BY <2>3, IdleFits, IdleFacts
    <2> QED BY <2>2, <2>3
  <1>2. ViewsHeld(r, holds, view, process)
    <2> SUFFICES ASSUME NEW e \in Ends, view[e].at # Nobody
                 PROVE  /\ <<view[e].at, e>> \in holds /\ view[e].at \in r.area.mapped
                        /\ process[view[e].at] = "alive" /\ ring.form = "shared"
      BY DEF ViewsHeld
    <2>1. /\ <<view[e].at, e>> \in holds /\ view[e].at \in area.mapped
          /\ process[view[e].at] = "alive" /\ ring.form = "shared"
      BY StepTypes DEF RingInv, ViewsHeld
    <2>2. r.ring.state # "free"
      BY <2>1 DEF Sound, Backs
    <2> QED BY <2>1, <2>2
  <1>3. PipesOpen(r)
    BY StepTypes DEF PipesOpen, RingInv
  <1>4. Born(holds, process)
    BY DEF RingInv
  <1>5. holds' = holds /\ process' = process /\ view' = view
    OBVIOUS
  <1> QED BY <1>1, <1>2, <1>3, <1>4, <1>5, StepTypes, KernelStep

LEMMA MisreportInv ==
  ASSUME RingsAssumption, RingInv, NEW p \in Processes, NEW e \in Ends, Misreport(p, e)
  PROVE  RingInv'
  <1>1. /\ ring.form = "shared" /\ <<p, e>> \in holds /\ faulty' \subseteq Processes
        /\ UNCHANGED <<process, holds, header, data, view>>
    BY DEF Misreport, Shared
  <1>2. PICK position \in NearBy(ring.position[e]) : Becomes(Notify(Now, e, position)[1])
    BY DEF Misreport
  <1>3. position \in Positions
    <2>1. ring.position[e] \in Positions
      BY StepTypes DEF RingRecords
    <2> QED BY <2>1, NearByFacts
  <1> DEFINE answer == Notify(Now, e, position)
             r == answer[1]
  <1>4. Sound(Now, holds) /\ Now.ring = ring /\ Now.area = area /\ Now.thread = thread
        /\ Now.ring.state # "free"
    BY <1>1, StepTypes
  <1>5. answer = Notify(Now, e, position) /\ r = answer[1] /\ Becomes(r)
    BY <1>2
  <1> HIDE DEF answer, r
  <1>6. Notified(Now, holds, e, position, answer, r)
    BY <1>3, <1>4, <1>5, NotifySound
  <1>7. /\ Sound(r, holds) /\ r.ring.form = ring.form
        /\ \A x \in Processes, y \in Ends : Woken(ring.form, thread[x][y], r.thread[x][y])
        /\ r.ring.state # "free" => r.area.mapped = area.mapped
    BY <1>4, <1>6 DEF Notified
  <1> QED BY <1>1, <1>5, <1>7, StepTypes, WakingStep

(* A pipe's end moves n elements. *)
LEMMA MovesInv ==
  ASSUME RingsAssumption, RingInv, NEW p \in Processes, NEW e \in Ends,
         thread[p][e].pc = "try", NEW n \in Nat, n <= Room(ring, e), Moves(p, e, n),
         data' \in [0 .. Capacity - 1 -> Positions]
  PROVE  RingInv'
  <1> DEFINE position == Plus(ring.position[e], n)
             t == Goes(Now, p, e, Idle)
             q == Advanced(t, e, position)
             r == IF ring.references[Other(e)] = 0 THEN q ELSE Wake(q, Other(e), "ok")
  <1>1. /\ ring.form = "copied" /\ <<p, e>> \in holds /\ ring.state = "open"
        /\ thread[p][e] \in Calls
    <2>1. Fits(ring.form, thread[p][e], holds, view, process, p, e) /\ thread[p][e] \in Calls
      BY StepTypes
    <2>2. ring.form = "copied" /\ <<p, e>> \in holds
      BY <2>1 DEF Fits
    <2>3. ring.state # "closing"
      BY <2>2, StepTypes DEF RingInv, PipesOpen
    <2> QED BY <2>1, <2>2, <2>3, StepTypes DEF RingRecords
  <1>2. ring.position[e] \in Positions /\ Used(ring) <= Capacity
    BY StepTypes DEF RingRecords, Sound
  <1>3. n \in 0 .. Wrap /\ n < Wrap
    <2>1. /\ ring.position["producer"] \in Positions /\ ring.position["consumer"] \in Positions
      BY StepTypes DEF RingRecords, Ends
    <2>2. Used(ring) \in Nat
      BY <2>1, AheadSum DEF Used
    <2>3. Room(ring, e) <= Capacity /\ Room(ring, e) \in Int
      BY <1>2, <2>2 DEF Room, RingsAssumption
    <2> QED BY <2>3 DEF RingsAssumption
  <1>4. position \in Positions /\ Ahead(position, ring.position[e]) = n
    <2>1. n \in 0 .. Wrap - 1
      BY <1>3 DEF RingsAssumption
    <2> QED BY <1>2, <1>3, <2>1, PlusFacts, PlusAhead
  <1>5. Becomes(r) /\ header' = [header EXCEPT ![e] = position]
        /\ UNCHANGED <<process, holds, view, faulty>>
    <2>1. q = [Now EXCEPT !.thread[p][e] = Idle, !.ring.position[e] = position]
      BY StepTypes DEF Goes, Advanced, Records
    <2> QED BY <2>1 DEF Moves
  <1>6. /\ Sound(t, holds) /\ t.ring = ring /\ t.area = area
        /\ \A x \in Processes, y \in Ends :
             t.thread[x][y] = IF x = p /\ y = e THEN Idle ELSE thread[x][y]
    <2>1. /\ Sound(Now, holds) /\ Now \in Records
          /\ Now.ring = ring /\ Now.area = area /\ Now.thread = thread
      BY StepTypes
    <2>2. Sound(t, holds)
      BY <2>1, IdleFacts, GoesSound
    <2>3. /\ t.ring = Now.ring /\ t.area = Now.area
          /\ \A x \in Processes, y \in Ends :
               t.thread[x][y] = IF x = p /\ y = e THEN Idle ELSE Now.thread[x][y]
      BY <2>1, IdleFacts, GoesFacts
    <2> HIDE DEF t
    <2> QED BY <2>1, <2>2, <2>3
  <1>7. Advances(t, e, position, r)
    <2>1. q = Advanced(t, e, position) /\ t.ring = ring
      BY <1>6
    <2> HIDE DEF q, t, position
    <2> QED BY <2>1 DEF Advances
  <1> HIDE DEF q, r, t, position
  <1>8. /\ Sound(r, holds)
        /\ r.ring = [ring EXCEPT !.position[e] = position] /\ r.area = area
        /\ \A x \in Processes, y \in Ends : Woken(ring.form, t.thread[x][y], r.thread[x][y])
    <2>1. Moved(t, holds, e, position, r)
      BY <1>1, <1>4, <1>6, <1>7, AdvanceSound
    <2> QED BY <1>6, <2>1 DEF Moved
  <1>9. r.ring.form = ring.form /\ r.ring.state = ring.state
    BY <1>8, StepTypes DEF RingRecords
  <1>10. \A x \in Processes, y \in Ends :
            \/ Woken(ring.form, thread[x][y], r.thread[x][y])
            \/ r.thread[x][y] = Idle
    <2> TAKE x \in Processes, y \in Ends
    <2>1. CASE x = p /\ y = e
      BY <1>6, <1>8, <2>1, IdleFacts DEF Woken
    <2>2. CASE ~(x = p /\ y = e)
      BY <1>6, <1>8, <2>2
    <2> QED BY <2>1, <2>2
  <1>11. header' \in [Ends -> Positions]
    BY <1>4, <1>5, StepTypes
  <1> QED BY <1>5, <1>8, <1>9, <1>10, <1>11, StepTypes, WakingStep

LEMMA RoomNat ==
  ASSUME RingsAssumption, RingInv, NEW e \in Ends
  PROVE  Room(ring, e) \in Nat /\ Used(ring) \in Nat
  <1>1. ring.position["producer"] \in Positions /\ ring.position["consumer"] \in Positions
    BY StepTypes DEF RingRecords, Ends
  <1>2. Used(ring) \in Nat
    BY <1>1, AheadSum DEF Used
  <1>3. Used(ring) <= Capacity
    BY StepTypes DEF Sound
  <1> QED BY <1>2, <1>3 DEF Room, RingsAssumption

LEMMA ReadInv ==
  ASSUME RingsAssumption, RingInv, NEW p \in Processes, Read(p)
  PROVE  RingInv'
  <1> DEFINE e == "consumer"
             n == AtMost(thread[p][e].want, Used(ring))
  <1>1. e \in Ends /\ thread[p][e].pc = "try" /\ thread[p][e] \in Calls
    BY StepTypes DEF Read, Ends
  <1>2. CASE Moves(p, e, n) /\ UNCHANGED data
    <2>1. thread[p][e].want \in Nat /\ Used(ring) \in Nat
      BY <1>1, RoomNat DEF Calls
    <2>2. n \in Nat /\ n <= Room(ring, e)
      BY <2>1 DEF AtMost, Room
    <2>3. data' \in [0 .. Capacity - 1 -> Positions]
      BY <1>2, StepTypes
    <2> HIDE DEF n
    <2> QED BY <1>1, <1>2, <2>2, <2>3, MovesInv
  <1>3. CASE Returns(p, e, "dead")
    BY <1>1, <1>3, ReturnsInv
  <1>4. CASE WouldBlock(p, e)
    BY <1>1, <1>4, WouldBlockInv
  <1> QED BY <1>2, <1>3, <1>4 DEF Read

LEMMA WriteInv ==
  ASSUME RingsAssumption, RingInv, NEW p \in Processes, Write(p)
  PROVE  RingInv'
  <1> DEFINE e == "producer"
             room == Room(ring, e)
             n == AtMost(thread[p][e].want, room)
             at == ring.position[e]
  <1>1. e \in Ends /\ thread[p][e].pc = "try" /\ thread[p][e] \in Calls
    BY StepTypes DEF Write, Ends
  <1>2. CASE /\ Moves(p, e, n)
             /\ data' = [k \in DOMAIN data |->
                  LET i == Ahead(k, at) % Capacity IN IF i < n THEN Plus(at, i) ELSE data[k]]
    <2>1. thread[p][e].want \in Nat /\ room \in Nat
      BY <1>1, RoomNat DEF Calls
    <2>2. n \in Nat /\ n <= room
      BY <2>1 DEF AtMost
    <2>3. data' \in [0 .. Capacity - 1 -> Positions]
      <3> SUFFICES ASSUME NEW k \in 0 .. Capacity - 1
                   PROVE  Plus(at, Ahead(k, at) % Capacity) \in Positions
        BY <1>2, StepTypes
      <3>1. k \in Positions /\ at \in Positions
        BY <1>1, StepTypes DEF Positions, RingsAssumption, RingRecords
      <3>2. Ahead(k, at) \in Nat
        BY <3>1, AheadSum
      <3>3. Ahead(k, at) % Capacity \in 0 .. Wrap
        BY <3>2 DEF RingsAssumption
      <3> QED BY <3>1, <3>3, PlusFacts
    <2> HIDE DEF n
    <2> QED BY <1>1, <1>2, <2>2, <2>3, MovesInv
  <1>3. CASE Returns(p, e, "dead")
    BY <1>1, <1>3, ReturnsInv
  <1>4. CASE WouldBlock(p, e)
    BY <1>1, <1>4, WouldBlockInv
  <1> QED BY <1>2, <1>3, <1>4 DEF Write

LEMMA AttachInv ==
  ASSUME RingsAssumption, RingInv, NEW p \in Processes, NEW e \in Ends, Attach(p, e)
  PROVE  RingInv'
  <1> DEFINE r == [ring |-> ring, area |-> area', thread |-> thread']
             u == [Idle EXCEPT !.pc = "ask", !.call = "attach"]
             w == [NoView EXCEPT !.at = p, !.local = header[e], !.peer = header[e]]
  <1>1. /\ Alive(p) /\ ring.form = "shared" /\ <<p, e>> \in holds /\ view[e].at = Nobody
        /\ p # Nobody
        /\ UNCHANGED <<process, ring, holds, header, data, faulty>>
    BY DEF Attach, Shared, RingsAssumption
  <1>2. /\ area' \in AreaRecords /\ area'.mapped = area.mapped \cup {p}
        /\ area'.state = area.state /\ area'.children = area.children
        /\ area'.handles = area.handles
    <2>1. area' = [area EXCEPT !.mapped = @ \cup {p}]
      BY DEF Attach
    <2> QED BY <2>1, StepTypes DEF AreaRecords
  <1>3. u \in Calls /\ u.pc = "ask" /\ u.call = "attach"
    BY DEF Idle, Calls
  <1>4. w \in Views /\ w.at = p
    BY NoViewFacts, StepTypes DEF Views
  <1>5. thread' = [thread EXCEPT ![p][e] = u] /\ view' = [view EXCEPT ![e] = w]
    BY DEF Attach
  <1> HIDE DEF u, w
  <1>6. /\ thread' \in [Processes -> [Ends -> Calls]]
        /\ \A x \in Processes, y \in Ends :
             thread'[x][y] = IF x = p /\ y = e THEN u ELSE thread[x][y]
    BY <1>3, <1>5, StepTypes
  <1>7. view' \in [Ends -> Views] /\ \A y \in Ends : view'[y] = IF y = e THEN w ELSE view[y]
    BY <1>4, <1>5, StepTypes
  <1>8. /\ r \in Records /\ r.ring = ring /\ r.area = area' /\ r.thread = thread' /\ Becomes(r)
    BY <1>1, <1>2, <1>6, StepTypes DEF Records, Becomes
  <1> HIDE DEF r
  <1>9. Heard(r)
    BY <1>3, <1>6, <1>8, StepTypes DEF Sound, Heard
  <1>10. Sound(r, holds)
    BY <1>2, <1>8, <1>9, StepTypes DEF Sound, Backs
  <1>11. AllFit(r, holds, view', process)
    <2> SUFFICES ASSUME NEW x \in Processes, NEW y \in Ends
                 PROVE  Fits(ring.form, thread'[x][y], holds, view', process, x, y)
      BY <1>8 DEF AllFit
    <2>1. Fits(ring.form, thread[x][y], holds, view, process, x, y) /\ x # Nobody
      BY StepTypes DEF RingsAssumption
    <2>2. CASE x = p /\ y = e
      BY <1>1, <1>3, <1>4, <1>6, <1>7, <2>2 DEF Fits, Alive
    <2>3. CASE y # e
      BY <1>6, <1>7, <2>1, <2>3 DEF Fits
    <2>4. CASE x # p /\ y = e
      <3>1. thread[x][y].pc = "idle"
        BY <1>1, <2>1, <2>4 DEF Fits
      <3> QED BY <1>6, <2>1, <2>4, <3>1 DEF Fits
    <2> QED BY <2>2, <2>3, <2>4
  <1>12. ViewsHeld(r, holds, view', process)
    <2> SUFFICES ASSUME NEW y \in Ends, view'[y].at # Nobody
                 PROVE  /\ <<view'[y].at, y>> \in holds /\ view'[y].at \in area'.mapped
                        /\ process[view'[y].at] = "alive"
      BY <1>1, <1>8 DEF ViewsHeld
    <2>1. CASE y = e
      BY <1>1, <1>2, <1>4, <1>7, <2>1 DEF Alive
    <2>2. CASE y # e
      BY <1>2, <1>7, <2>2, StepTypes DEF RingInv, ViewsHeld
    <2> QED BY <2>1, <2>2
  <1>13. PipesOpen(r) /\ Born(holds, process)
    BY <1>1, <1>8 DEF PipesOpen, RingInv
  <1> QED BY <1>1, <1>7, <1>8, <1>10, <1>11, <1>12, <1>13, StepTypes, KernelStep

(* A handle of the area is closed. *)
LEMMA ReleaseAreaSound ==
  ASSUME RingsAssumption, NEW s, NEW h, Sound(s, h), NEW p \in Processes,
         NEW r, r = ReleaseArea(s, p)
  PROVE  /\ Sound(r, h) /\ r.ring = s.ring /\ r.thread = s.thread
         /\ s.ring.state # "free" => r.area.mapped = s.area.mapped
  <1> DEFINE a == [s.area EXCEPT !.handles = @ \ {p}]
             q == [s EXCEPT !.area.handles = @ \ {p}]
  <1>1. s \in Records /\ s.area \in AreaRecords
    BY DEF Sound, Records
  <1>2. /\ a \in AreaRecords /\ a.state = s.area.state /\ a.children = s.area.children
        /\ a.mapped = s.area.mapped /\ a.handles = s.area.handles \ {p}
    BY <1>1 DEF AreaRecords
  <1>3. q = [s EXCEPT !.area = a]
    BY <1>1 DEF Records
  <1>4. r = CloseUnused(q)
    BY DEF ReleaseArea
  <1> HIDE DEF a, q
  <1>5. q \in Records /\ q.ring = s.ring /\ q.area = a /\ q.thread = s.thread
    BY <1>1, <1>2, <1>3 DEF Records
  <1>6. /\ r \in Records /\ r.ring = s.ring /\ r.thread = s.thread
        /\ r.area.handles = a.handles /\ r.area.children = a.children
        /\ a.children # 0 => r.area = a
        /\ a.state = "live" => (r.area.state = "live" <=> a.children # 0 \/ a.handles # {})
    BY <1>4, <1>5, CloseUnusedFacts
  <1>7. s.ring.state # "free" => r.area = a /\ a.state = "live"
    BY <1>2, <1>6 DEF Sound, Backs
  <1>8. r.area.state = "live" <=> r.ring.state # "free" \/ r.area.handles # {}
    <2>1. CASE s.ring.state # "free"
      BY <1>6, <1>7, <2>1
    <2>2. CASE s.ring.state = "free" /\ s.area.state = "live"
      BY <1>2, <1>6, <2>2 DEF Sound, Backs
    <2>3. CASE s.ring.state = "free" /\ s.area.state # "live"
      <3>1. a.handles = {} /\ a.state # "live"
        BY <1>2, <2>3 DEF Sound, Backs
      <3>2. r.area.state # "live"
        BY <1>1, <1>4, <1>5, <3>1 DEF CloseUnused, Records, AreaRecords
      <3> QED BY <1>6, <2>3, <3>1, <3>2
    <2> QED BY <2>1, <2>2, <2>3
  <1>9. Backs(r, h)
    BY <1>2, <1>6, <1>7, <1>8 DEF Sound, Backs
  <1>10. Heard(r)
    BY <1>6 DEF Sound, Heard
  <1> QED BY <1>2, <1>6, <1>7, <1>9, <1>10 DEF Sound

LEMMA ReleaseAreaInv ==
  ASSUME RingsAssumption, RingInv, NEW p \in Processes, Becomes(ReleaseArea(Now, p)),
         UNCHANGED <<process, holds, header, data, view, faulty>>
  PROVE  RingInv'
  <1> DEFINE r == ReleaseArea(Now, p)
  <1>1. Sound(Now, holds) /\ Now.ring = ring /\ Now.area = area /\ Now.thread = thread
    BY StepTypes
  <1>2. r = ReleaseArea(Now, p) /\ Becomes(r)
    OBVIOUS
  <1> HIDE DEF r
  <1>3. /\ Sound(r, holds) /\ r.ring = ring /\ r.thread = thread
        /\ ring.state # "free" => r.area.mapped = area.mapped
    <2>1. /\ Sound(r, holds) /\ r.ring = Now.ring /\ r.thread = Now.thread
          /\ Now.ring.state # "free" => r.area.mapped = Now.area.mapped
      BY <1>1, <1>2, ReleaseAreaSound
    <2> QED BY <1>1, <2>1
  <1>4. \A x \in Processes, y \in Ends : Woken(ring.form, thread[x][y], r.thread[x][y])
    BY <1>3 DEF Woken
  <1> QED BY <1>2, <1>3, <1>4, StepTypes, WakingStep

LEMMA CloseAreaInv ==
  ASSUME RingsAssumption, RingInv, NEW p \in Processes, CloseArea(p)
  PROVE  RingInv'
  BY ReleaseAreaInv DEF CloseArea

(* A handle of an end is closed, from a state of the kernel in which at    *)
(* most its thread has gone on, and a view of that end with it.            *)
OthersStay(s, p, e) ==
  /\ s.ring = ring /\ s.area = area
  /\ \A x \in Processes, y \in Ends : ~(x = p /\ y = e) => s.thread[x][y] = thread[x][y]

ViewCloses(p, e) ==
  /\ view' \in [Ends -> Views]
  /\ \A y \in Ends : view'[y] = IF y = e /\ view[y].at = p THEN NoView ELSE view[y]

LEMMA ReleaseEndStep ==
  ASSUME RingsAssumption, RingInv, NEW p \in Processes, NEW e \in Ends, <<p, e>> \in holds,
         NEW s, Sound(s, holds), OthersStay(s, p, e),
         Fits(ring.form, s.thread[p][e], holds', view', process, p, e),
         NEW r, r = ReleaseEnd(s, e), Becomes(r), holds' = holds \ {<<p, e>>},
         ViewCloses(p, e),
         UNCHANGED <<process, header, data, faulty>>
  PROVE  RingInv'
  <1>0. /\ s.ring = ring /\ s.area = area
        /\ \A x \in Processes, y \in Ends : ~(x = p /\ y = e) => s.thread[x][y] = thread[x][y]
        /\ view' \in [Ends -> Views]
        /\ \A y \in Ends : view'[y] = IF y = e /\ view[y].at = p THEN NoView ELSE view[y]
    BY DEF OthersStay, ViewCloses
  <1>1. /\ Sound(r, holds') /\ Keeps(s, r)
        /\ r.ring.state \in {ring.state, "free"}
    BY <1>0, ReleaseEndSound
  <1>2. /\ r.ring.form = ring.form
        /\ \A x \in Processes, y \in Ends : Woken(ring.form, s.thread[x][y], r.thread[x][y])
        /\ r.ring.state # "free" => r.area.mapped = area.mapped
    BY <1>0, <1>1 DEF Keeps
  <1>3. AllFit(r, holds', view', process)
    <2> SUFFICES ASSUME NEW x \in Processes, NEW y \in Ends
                 PROVE  Fits(ring.form, r.thread[x][y], holds', view', process, x, y)
      BY <1>2 DEF AllFit
    <2>1. s.thread[x][y] \in Calls
      BY DEF Sound, Records
    <2>2. Fits(ring.form, s.thread[x][y], holds', view', process, x, y)
      <3>1. CASE x = p /\ y = e
        BY <3>1
      <3>2. CASE ~(x = p /\ y = e)
        <4>1. Fits(ring.form, s.thread[x][y], holds, view, process, x, y)
          BY <1>0, <3>2, StepTypes
        <4>2. <<x, y>> \in holds => <<x, y>> \in holds'
          BY <3>2
        <4>3. view[y].at = x => view'[y].at = x
          BY <1>0, <3>2
        <4> QED BY <4>1, <4>2, <4>3 DEF Fits
      <3> QED BY <3>1, <3>2
    <2> QED BY <1>2, <2>1, <2>2, WokenFits
  <1>4. ViewsHeld(r, holds', view', process)
    <2> SUFFICES ASSUME NEW y \in Ends, view'[y].at # Nobody
                 PROVE  /\ <<view'[y].at, y>> \in holds' /\ view'[y].at \in r.area.mapped
                        /\ process[view'[y].at] = "alive" /\ ring.form = "shared"
      BY <1>2 DEF ViewsHeld
    <2>1. view'[y] = view[y] /\ (y = e => view[y].at # p)
      BY <1>0, NoViewFacts
    <2>2. /\ <<view[y].at, y>> \in holds /\ view[y].at \in area.mapped
          /\ process[view[y].at] = "alive" /\ ring.form = "shared"
      BY <2>1, StepTypes DEF RingInv, ViewsHeld
    <2>3. <<view[y].at, y>> \in holds'
      BY <2>1, <2>2
    <2>4. r.ring.state # "free"
      BY <1>1, <2>3 DEF Sound, Backs
    <2> QED BY <1>2, <2>1, <2>2, <2>3, <2>4
  <1>5. PipesOpen(r) /\ Born(holds', process)
    BY <1>1, <1>2, StepTypes DEF RingInv, PipesOpen, Born
  <1>6. /\ AllFit(r, holds', view', process') /\ ViewsHeld(r, holds', view', process')
        /\ PipesOpen(r) /\ Born(holds', process')
    BY <1>3, <1>4, <1>5
  <1>7. /\ process' \in [Processes -> {"unborn", "alive", "exited"}]
        /\ header' \in [Ends -> Positions] /\ data' \in [0 .. Capacity - 1 -> Positions]
        /\ faulty' \subseteq Processes
    BY StepTypes
  <1> QED BY <1>0, <1>1, <1>6, <1>7, KernelStep

LEMMA CloseEndInv ==
  ASSUME RingsAssumption, RingInv, NEW p \in Processes, NEW e \in Ends, CloseEnd(p, e)
  PROVE  RingInv'
  <1> DEFINE t == thread[p][e]
             u == IF t.pc = "asleep" THEN [t EXCEPT !.want = 0] ELSE Idle
             s == Goes(Now, p, e, u)
             r == ReleaseEnd(s, e)
  <1>1. /\ Alive(p) /\ <<p, e>> \in holds /\ (ring.form = "shared" => t.pc = "idle")
        /\ Becomes(r) /\ holds' = holds \ {<<p, e>>}
        /\ view' = IF view[e].at = p THEN [view EXCEPT ![e] = NoView] ELSE view
        /\ UNCHANGED <<process, header, data, faulty>>
    BY DEF CloseEnd, Shared, Goes
  <1>2. t \in Calls /\ Fits(ring.form, t, holds, view, process, p, e)
    BY StepTypes
  <1>3. /\ u \in Calls
        /\ \/ u.pc = "idle" /\ u.call = "none"
           \/ t.pc = "asleep" /\ u.pc = "asleep" /\ u.want = 0 /\ u.call = t.call
    BY <1>2, IdleFacts DEF Calls
  <1>4. Now \in Records /\ Sound(Now, holds) /\ Now.ring = ring /\ Now.area = area
        /\ Now.thread = thread
    BY StepTypes
  <1> HIDE DEF u, t
  <1>5. Sound(s, holds)
    BY <1>3, <1>4, GoesSound DEF t
  <1>6. /\ s.ring = ring /\ s.area = area
        /\ \A x \in Processes, y \in Ends :
             s.thread[x][y] = IF x = p /\ y = e THEN u ELSE thread[x][y]
    <2>1. /\ s.ring = Now.ring /\ s.area = Now.area
          /\ \A x \in Processes, y \in Ends :
               s.thread[x][y] = IF x = p /\ y = e THEN u ELSE Now.thread[x][y]
      BY <1>3, <1>4, GoesFacts
    <2> HIDE DEF s
    <2> QED BY <1>4, <2>1
  <1>7. r = ReleaseEnd(s, e)
    OBVIOUS
  <1> HIDE DEF s, r
  <1>8. /\ view' \in [Ends -> Views]
        /\ \A y \in Ends : view'[y] = IF y = e /\ view[y].at = p THEN NoView ELSE view[y]
    BY <1>1, StepTypes, NoViewFacts
  <1>9. Fits(ring.form, s.thread[p][e], holds', view', process, p, e)
    <2>1. s.thread[p][e] = u
      BY <1>6
    <2>2. CASE u.pc = "idle"
      BY <1>3, <2>1, <2>2, IdleFits
    <2>3. CASE u.pc # "idle"
      BY <1>1, <1>2, <1>3, <2>1, <2>3, StepTypes DEF Fits
    <2> QED BY <2>2, <2>3
  <1>10. OthersStay(s, p, e) /\ ViewCloses(p, e)
    BY <1>6, <1>8 DEF OthersStay, ViewCloses
  <1>11. <<p, e>> \in holds /\ holds' = holds \ {<<p, e>>} /\ Becomes(r)
    BY <1>1
  <1>12. UNCHANGED <<process, header, data, faulty>>
    BY <1>1
  <1> QED BY <1>5, <1>7, <1>9, <1>10, <1>11, <1>12, ReleaseEndStep

LEMMA ReapInv ==
  ASSUME RingsAssumption, RingInv, NEW p \in Processes, Reap(p)
  PROVE  RingInv'
  <1>1. process[p] = "exited" /\ UNCHANGED <<process, header, data, view, faulty>>
    BY DEF Reap
  <1>2. ASSUME NEW e \in Ends, <<p, e>> \in holds, Becomes(ReleaseEnd(Now, e)),
               holds' = holds \ {<<p, e>>}
        PROVE  RingInv'
    <2> DEFINE r == ReleaseEnd(Now, e)
    <2>1. Sound(Now, holds) /\ Now.ring = ring /\ Now.area = area /\ Now.thread = thread
      BY StepTypes
    <2>2. view[e].at # p
      <3>1. p # Nobody
        BY DEF RingsAssumption
      <3> QED BY <1>1, <3>1 DEF RingInv, ViewsHeld
    <2>3. view' \in [Ends -> Views]
          /\ \A y \in Ends : view'[y] = IF y = e /\ view[y].at = p THEN NoView ELSE view[y]
      BY <1>1, <2>2, StepTypes
    <2>4. Fits(ring.form, thread[p][e], holds, view, process, p, e)
      BY StepTypes
    <2>5. thread[p][e].pc = "idle" /\ thread[p][e].call = "none"
      BY <1>1, <2>4 DEF Fits
    <2>6. Fits(ring.form, thread[p][e], holds', view', process, p, e)
      BY <2>5, IdleFits
    <2>7. r = ReleaseEnd(Now, e) /\ Becomes(r)
      BY <1>2
    <2> HIDE DEF r
    <2>8. UNCHANGED <<process, header, data, faulty>>
      BY <1>1
    <2>9. OthersStay(Now, p, e) /\ ViewCloses(p, e)
      BY <2>1, <2>3 DEF OthersStay, ViewCloses
    <2> QED BY <1>2, <2>1, <2>6, <2>7, <2>8, <2>9, ReleaseEndStep
  <1>3. ASSUME Becomes(ReleaseArea(Now, p)), UNCHANGED holds
        PROVE  RingInv'
    BY <1>1, <1>3, ReleaseAreaInv
  <1> QED BY <1>2, <1>3 DEF Reap

(* A step that makes the kernel's records anew. *)
LEMMA RecordOf ==
  ASSUME RingsAssumption, NEW R \in RingRecords, NEW A \in AreaRecords,
         NEW T \in [Processes -> [Ends -> Calls]],
         NEW r, r = [ring |-> R, area |-> A, thread |-> T]
  PROVE  r \in Records /\ r.ring = R /\ r.area = A /\ r.thread = T
  BY DEF Records

LEMMA CreateInv ==
  ASSUME RingsAssumption, RingInv, NEW p \in Processes, Create(p)
  PROVE  RingInv'
  <1> DEFINE r == [ring |-> ring', area |-> area', thread |-> thread']
  <1>1. /\ Alive(p) /\ p \in area.handles /\ ring.state = "free"
        /\ holds' = {p} \X Ends
        /\ UNCHANGED <<process, view, thread>>
    BY DEF Create
  <1>2. /\ ring' \in RingRecords /\ ring'.state = "open" /\ ring'.form = ring.form
        /\ ring'.references = [e \in Ends |-> 1] /\ ring'.corrupt = ring.corrupt
        /\ ring'.position = ring.position
    <2>1. ring' = [ring EXCEPT !.state = "open", !.owner = p, !.references = [e \in Ends |-> 1]]
      BY DEF Create
    <2>2. [e \in Ends |-> 1] \in [Ends -> Nat]
      OBVIOUS
    <2> QED BY <2>1, <2>2, StepTypes DEF RingRecords
  <1>3. /\ area' \in AreaRecords /\ area'.children = 1 /\ area'.state = area.state
        /\ area'.handles = area.handles
    <2>1. area' = [area EXCEPT !.children = 1] /\ 1 \in 0 .. 1
      BY DEF Create
    <2>2. area \in AreaRecords
      BY StepTypes
    <2> QED BY <2>1, <2>2 DEF AreaRecords
  <1>4. /\ r \in Records /\ r.ring = ring' /\ r.area = area' /\ r.thread = thread
        /\ Becomes(r)
    BY <1>1, <1>2, <1>3, StepTypes, RecordOf DEF Becomes
  <1> HIDE DEF r
  <1>5. holds = {} /\ area.state = "live" /\ ~ring.corrupt /\ Used(ring) <= Capacity
    BY <1>1, StepTypes DEF Sound, Backs
  <1>6. \A x \in Processes, y \in Ends : thread[x][y].pc = "idle" /\ thread[x][y].call = "none"
    <2> TAKE x \in Processes, y \in Ends
    <2>1. Fits(ring.form, thread[x][y], holds, view, process, x, y)
      BY StepTypes
    <2>2. thread[x][y].pc # "asleep"
      BY <1>1, StepTypes DEF Sound, Heard
    <2> QED BY <1>5, <2>1, <2>2 DEF Fits
  <1>7. Heard(r)
    BY <1>4, <1>6 DEF Heard
  <1>8. \A e \in Ends : ring'.references[e] = Cardinality(Holders(holds', e))
    <2> TAKE e \in Ends
    <2>1. Holders(holds', e) = {p}
      BY <1>1 DEF Holders
    <2> QED BY <1>2, <2>1, FS_Singleton
  <1>9. Sound(r, holds')
    <2>1. Backs(r, holds')
      BY <1>2, <1>3, <1>4, <1>5, <1>8 DEF Backs
    <2>2. Used(r.ring) <= Capacity
      BY <1>2, <1>4, <1>5 DEF Used
    <2>3. holds' \subseteq Processes \X Ends
      BY <1>1
    <2> QED BY <1>2, <1>4, <1>7, <2>1, <2>2, <2>3 DEF Sound
  <1>10. AllFit(r, holds', view', process')
    BY <1>4, <1>6, IdleFits DEF AllFit
  <1>11. ViewsHeld(r, holds', view', process')
    BY <1>1, <1>5 DEF RingInv, ViewsHeld
  <1>12. Born(holds', process') /\ PipesOpen(r)
    BY <1>1, <1>2, <1>4 DEF Born, Alive, PipesOpen
  <1>13. /\ header' \in [Ends -> Positions] /\ data' \in [0 .. Capacity - 1 -> Positions]
         /\ faulty' \subseteq Processes
    BY DEF Create, Positions, RingsAssumption
  <1>14. process' \in [Processes -> {"unborn", "alive", "exited"}] /\ view' \in [Ends -> Views]
    BY <1>1, StepTypes
  <1> QED BY <1>4, <1>9, <1>10, <1>11, <1>12, <1>13, <1>14, KernelStep

LEMMA GiveInv ==
  ASSUME RingsAssumption, RingInv, NEW p \in Processes, NEW q \in Processes, NEW e \in Ends,
         Give(p, q, e)
  PROVE  RingInv'
  <1> DEFINE r == [ring |-> ring, area |-> area', thread |-> thread']
  <1>1. /\ Alive(q) /\ p # q /\ <<p, e>> \in holds /\ <<q, e>> \notin holds
        /\ view[e].at = Nobody
        /\ holds' = (holds \ {<<p, e>>}) \cup {<<q, e>>}
        /\ UNCHANGED <<process, ring, header, data, view, faulty>>
    BY DEF Give
  <1>2. /\ area' \in AreaRecords /\ area'.children = area.children /\ area'.state = area.state
        /\ area'.mapped = area.mapped
    <2>1. area' = [area EXCEPT !.handles = IF p \in @ THEN @ \cup {q} ELSE @]
      BY DEF Give
    <2> QED BY <2>1, StepTypes DEF AreaRecords
  <1>3. /\ thread' \in [Processes -> [Ends -> Calls]]
        /\ \A x \in Processes, y \in Ends :
             thread'[x][y] = IF x = p /\ y = e THEN Idle ELSE thread[x][y]
    <2>1. thread' = [thread EXCEPT ![p][e] = Idle]
      BY DEF Give
    <2> QED BY <2>1, IdleFacts, StepTypes
  <1>4. /\ r \in Records /\ r.ring = ring /\ r.area = area' /\ r.thread = thread'
        /\ Becomes(r)
    BY <1>1, <1>2, <1>3, StepTypes, RecordOf DEF Becomes
  <1> HIDE DEF r
  <1>5. /\ ring.state # "free" /\ area.state = "live" /\ area.children = 1 /\ ~ring.corrupt
        /\ \A y \in Ends : ring.references[y] = Cardinality(Holders(holds, y))
    BY <1>1, StepTypes DEF Sound, Backs
  <1>6. \A y \in Ends : Cardinality(Holders(holds', y)) = Cardinality(Holders(holds, y))
    <2> TAKE y \in Ends
    <2>1. CASE y = e
      <3> DEFINE h == Holders(holds, e)
      <3>1. Holders(holds', e) = (h \ {p}) \cup {q} /\ p \in h /\ q \notin h \ {p}
        BY <1>1 DEF Holders
      <3>2. IsFiniteSet(h) /\ Cardinality(h) \in Nat
        BY HoldersFinite
      <3> HIDE DEF h
      <3>3. IsFiniteSet(h \ {p}) /\ Cardinality(h \ {p}) = Cardinality(h) - 1
        BY <3>1, <3>2, FS_RemoveElement
      <3>4. Cardinality((h \ {p}) \cup {q}) = Cardinality(h \ {p}) + 1
        BY <3>1, <3>3, FS_AddElement
      <3> QED BY <2>1, <3>1, <3>2, <3>3, <3>4 DEF h
    <2>2. CASE y # e
      <3>1. Holders(holds', y) = Holders(holds, y)
        BY <1>1, <2>2 DEF Holders
      <3> QED BY <3>1
    <2> QED BY <2>1, <2>2
  <1>7. Heard(r)
    <2> SUFFICES ASSUME NEW x \in Processes, NEW y \in Ends, thread'[x][y].pc = "asleep"
                 PROVE  /\ ring.state = "open" /\ Room(ring, y) = 0
                        /\ ring.references[y] # 0 /\ ring.references[Other(y)] # 0
      BY <1>4 DEF Heard
    <2>1. thread[x][y].pc = "asleep"
      BY <1>3, IdleFacts
    <2> QED BY <2>1, StepTypes DEF Sound, Heard
  <1>8. Sound(r, holds')
    <2>1. Backs(r, holds')
      BY <1>2, <1>4, <1>5, <1>6 DEF Backs
    <2>2. Used(ring) <= Capacity
      BY StepTypes DEF Sound
    <2>3. holds' \subseteq Processes \X Ends
      BY <1>1, StepTypes
    <2> QED BY <1>4, <1>5, <1>7, <2>1, <2>2, <2>3 DEF Sound
  <1>9. AllFit(r, holds', view', process')
    <2> SUFFICES ASSUME NEW x \in Processes, NEW y \in Ends
                 PROVE  Fits(ring.form, thread'[x][y], holds', view, process, x, y)
      BY <1>1, <1>4 DEF AllFit
    <2>1. CASE x = p /\ y = e
      BY <1>3, <2>1, IdleFacts, IdleFits
    <2>2. CASE ~(x = p /\ y = e)
      <3>1. thread'[x][y] = thread[x][y] /\ (<<x, y>> \in holds => <<x, y>> \in holds')
        BY <1>1, <1>3, <2>2
      <3>2. Fits(ring.form, thread[x][y], holds, view, process, x, y)
        BY StepTypes
      <3> QED BY <3>1, <3>2 DEF Fits
    <2> QED BY <2>1, <2>2
  <1>10. ViewsHeld(r, holds', view', process')
    <2> SUFFICES ASSUME NEW y \in Ends, view[y].at # Nobody
                 PROVE  /\ <<view[y].at, y>> \in holds' /\ view[y].at \in area.mapped
                        /\ process[view[y].at] = "alive" /\ ring.form = "shared"
      BY <1>1, <1>2, <1>4 DEF ViewsHeld
    <2>1. /\ <<view[y].at, y>> \in holds /\ view[y].at \in area.mapped
          /\ process[view[y].at] = "alive" /\ ring.form = "shared"
      BY StepTypes DEF RingInv, ViewsHeld
    <2>2. y # e
      BY <1>1
    <2> QED BY <1>1, <2>1, <2>2
  <1>11. Born(holds', process') /\ PipesOpen(r)
    BY <1>1, <1>4, StepTypes DEF Born, Alive, RingInv, PipesOpen
  <1>12. /\ header' \in [Ends -> Positions] /\ data' \in [0 .. Capacity - 1 -> Positions]
         /\ faulty' \subseteq Processes
         /\ process' \in [Processes -> {"unborn", "alive", "exited"}] /\ view' \in [Ends -> Views]
    BY <1>1, StepTypes
  <1> QED BY <1>4, <1>8, <1>9, <1>10, <1>11, <1>12, KernelStep

LEMMA ForkInv ==
  ASSUME RingsAssumption, RingInv, NEW p \in Processes, NEW q \in Processes, Fork(p, q)
  PROVE  RingInv'
  <1> DEFINE copied == IF Shared THEN {} ELSE {e \in Ends : <<p, e>> \in holds}
             r == [ring |-> ring', area |-> area', thread |-> thread]
  <1>1. /\ process[q] = "unborn" /\ process' = [process EXCEPT ![q] = "alive"]
        /\ holds' = holds \cup ({q} \X copied)
        /\ UNCHANGED <<header, data, view, thread, faulty>>
        /\ copied \subseteq Ends /\ \A e \in copied : <<p, e>> \in holds
    BY DEF Fork
  <1>2. /\ ring' = [ring EXCEPT !.references =
                      [e \in Ends |-> IF e \in copied THEN @[e] + 1 ELSE @[e]]]
        /\ area' = [area EXCEPT !.handles = IF p \in @ THEN @ \cup {q} ELSE @]
    BY DEF Fork
  <1> HIDE DEF copied
  <1>3. /\ ring' \in RingRecords /\ ring'.state = ring.state /\ ring'.form = ring.form
        /\ ring'.corrupt = ring.corrupt /\ ring'.position = ring.position
        /\ ring'.terminal = ring.terminal
        /\ \A e \in Ends : ring'.references[e] =
             IF e \in copied THEN ring.references[e] + 1 ELSE ring.references[e]
    <2> DEFINE f == [e \in Ends |-> IF e \in copied THEN ring.references[e] + 1
                                    ELSE ring.references[e]]
    <2>1. ring' = [ring EXCEPT !.references = f]
      BY <1>2
    <2>2. ring.references \in [Ends -> Nat]
      BY StepTypes DEF RingRecords
    <2>3. f \in [Ends -> Nat]
      BY <2>2
    <2>4. \A e \in Ends : f[e] = IF e \in copied THEN ring.references[e] + 1 ELSE ring.references[e]
      OBVIOUS
    <2> HIDE DEF f
    <2> QED BY <2>1, <2>3, <2>4, StepTypes DEF RingRecords
  <1>4. /\ area' \in AreaRecords /\ area'.children = area.children /\ area'.state = area.state
        /\ area'.mapped = area.mapped /\ (area'.handles = {} <=> area.handles = {})
    BY <1>2, StepTypes DEF AreaRecords
  <1>5. /\ r \in Records /\ r.ring = ring' /\ r.area = area' /\ r.thread = thread
        /\ Becomes(r)
    BY <1>1, <1>3, <1>4, StepTypes, RecordOf DEF Becomes
  <1> HIDE DEF r
  <1>6. \A e \in Ends : <<q, e>> \notin holds
    BY <1>1 DEF RingInv, Born
  <1>7. \A e \in Ends : ring'.references[e] = Cardinality(Holders(holds', e))
    <2> TAKE e \in Ends
    <2>1. ring.references[e] = Cardinality(Holders(holds, e))
      BY StepTypes DEF Sound, Backs
    <2>2. CASE e \in copied
      <3>1. Holders(holds', e) = Holders(holds, e) \cup {q} /\ q \notin Holders(holds, e)
        BY <1>1, <1>6, <2>2 DEF Holders
      <3>2. Cardinality(Holders(holds, e) \cup {q}) = Cardinality(Holders(holds, e)) + 1
        BY <3>1, HoldersFinite, FS_AddElement
      <3> QED BY <1>3, <2>1, <2>2, <3>1, <3>2
    <2>3. CASE e \notin copied
      <3>1. Holders(holds', e) = Holders(holds, e)
        BY <1>1, <2>3 DEF Holders
      <3> QED BY <1>3, <2>1, <2>3, <3>1
    <2> QED BY <2>2, <2>3
  <1>8. copied # {} => holds # {}
    BY <1>1
  <1>9. Backs(r, holds')
    <2>1. /\ ring.state # "free" => area.state = "live" /\ area.children = 1
          /\ ring.state = "free" => area.children = 0 /\ holds = {}
          /\ area.state = "live" <=> ring.state # "free" \/ area.handles # {}
          /\ ~ring.corrupt
      BY StepTypes DEF Sound, Backs
    <2>2. ring.state = "free" => holds' = {}
      BY <1>1, <1>8, <2>1
    <2> QED BY <1>3, <1>4, <1>5, <1>7, <2>1, <2>2 DEF Backs
  <1>10. Heard(r)
    <2> SUFFICES ASSUME NEW x \in Processes, NEW y \in Ends, thread[x][y].pc = "asleep"
                 PROVE  /\ ring'.state = "open" /\ Room(ring', y) = 0
                        /\ ring'.references[y] # 0 /\ ring'.references[Other(y)] # 0
      BY <1>5 DEF Heard
    <2>1. /\ ring.state = "open" /\ Room(ring, y) = 0
          /\ ring.references[y] # 0 /\ ring.references[Other(y)] # 0
      BY StepTypes DEF Sound, Heard
    <2>2. Room(ring', y) = Room(ring, y)
      BY <1>3 DEF Room, Used
    <2>3. \A e \in Ends : ring.references[e] # 0 => ring'.references[e] # 0
      <3>1. ring.references \in [Ends -> Nat]
        BY StepTypes DEF RingRecords
      <3> QED BY <1>3, <3>1
    <2>4. Other(y) \in Ends
      BY DEF Other, Ends
    <2> QED BY <1>3, <2>1, <2>2, <2>3, <2>4
  <1>11. Sound(r, holds')
    <2>1. Used(ring') <= Capacity
      <3>1. Used(ring) <= Capacity
        BY StepTypes DEF Sound
      <3> QED BY <1>3, <3>1 DEF Used
    <2>2. holds' \subseteq Processes \X Ends
      BY <1>1, StepTypes
    <2>3. ring'.state = "free" => ring'.terminal = [e \in Ends |-> "ok"]
      BY <1>3, StepTypes DEF Sound
    <2> QED BY <1>5, <1>9, <1>10, <2>1, <2>2, <2>3 DEF Sound
  <1>12. \A x \in Processes : process[x] = "alive" => process'[x] = "alive"
    BY <1>1, StepTypes
  <1>13. AllFit(r, holds', view, process')
    <2> SUFFICES ASSUME NEW x \in Processes, NEW y \in Ends
                 PROVE  Fits(ring.form, thread[x][y], holds', view, process', x, y)
      BY <1>3, <1>5 DEF AllFit
    <2>1. Fits(ring.form, thread[x][y], holds, view, process, x, y)
      BY StepTypes
    <2> QED BY <1>1, <1>12, <2>1 DEF Fits
  <1>14. ViewsHeld(r, holds', view, process')
    <2> SUFFICES ASSUME NEW y \in Ends, view[y].at # Nobody
                 PROVE  /\ <<view[y].at, y>> \in holds' /\ view[y].at \in area.mapped
                        /\ process'[view[y].at] = "alive" /\ ring.form = "shared"
      BY <1>3, <1>4, <1>5 DEF ViewsHeld
    <2>1. /\ <<view[y].at, y>> \in holds /\ view[y].at \in area.mapped
          /\ process[view[y].at] = "alive" /\ ring.form = "shared"
      BY StepTypes DEF RingInv, ViewsHeld
    <2>2. view[y].at \in Processes
      BY <2>1, StepTypes
    <2> QED BY <1>1, <1>12, <2>1, <2>2
  <1>15. Born(holds', process')
    BY <1>1, StepTypes DEF RingInv, Born
  <1>16. PipesOpen(r)
    BY <1>3, <1>5, StepTypes DEF RingInv, PipesOpen
  <1>17. /\ header' \in [Ends -> Positions] /\ data' \in [0 .. Capacity - 1 -> Positions]
         /\ faulty' \subseteq Processes /\ view' = view
         /\ process' \in [Processes -> {"unborn", "alive", "exited"}]
    BY <1>1, StepTypes
  <1> QED BY <1>5, <1>11, <1>13, <1>14, <1>15, <1>16, <1>17, StepTypes, KernelStep

LEMMA ExitInv ==
  ASSUME RingsAssumption, RingInv, NEW p \in Processes, Exit(p)
  PROVE  RingInv'
  <1> DEFINE gone == [Now EXCEPT !.thread[p] = [e \in Ends |-> Idle]]
             s == IF Shared /\ ring.state = "open" /\ p \in {ring.owner, area.creator}
                    THEN Fail(gone, "dead") ELSE gone
             r == [s EXCEPT !.area.mapped = @ \ {p}]
  <1>1. /\ process' = [process EXCEPT ![p] = "exited"] /\ Becomes(r) /\ Alive(p)
        /\ view' = [e \in Ends |-> IF view[e].at = p THEN NoView ELSE view[e]]
        /\ UNCHANGED <<holds, header, data, faulty>>
    BY DEF Exit
  <1>2. /\ gone \in Records /\ gone.ring = ring /\ gone.area = area
        /\ \A x \in Processes, y \in Ends :
             gone.thread[x][y] = IF x = p THEN Idle ELSE thread[x][y]
    <2> DEFINE f == [thread EXCEPT ![p] = [e \in Ends |-> Idle]]
    <2>1. f \in [Processes -> [Ends -> Calls]]
      BY IdleFacts, StepTypes
    <2>2. \A x \in Processes, y \in Ends : f[x][y] = IF x = p THEN Idle ELSE thread[x][y]
      BY StepTypes
    <2>3. gone = [Now EXCEPT !.thread = f]
      BY StepTypes DEF Records
    <2> HIDE DEF f, gone
    <2>4. gone \in Records /\ gone.ring = ring /\ gone.area = area /\ gone.thread = f
      BY <2>1, <2>3, StepTypes DEF Records
    <2> QED BY <2>2, <2>4
  <1> HIDE DEF gone
  <1>3. Sound(gone, holds)
    <2>1. Heard(gone)
      <3> SUFFICES ASSUME NEW x \in Processes, NEW y \in Ends, gone.thread[x][y].pc = "asleep"
                   PROVE  /\ ring.state = "open" /\ Room(ring, y) = 0
                          /\ ring.references[y] # 0 /\ ring.references[Other(y)] # 0
        BY <1>2 DEF Heard
      <3>1. thread[x][y].pc = "asleep"
        BY <1>2, IdleFacts
      <3> QED BY <3>1, StepTypes DEF Sound, Heard
    <2> QED BY <1>2, <2>1, StepTypes DEF Sound, Backs
  <1>4. /\ Sound(s, holds) /\ s.ring.form = ring.form
        /\ \A x \in Processes, y \in Ends : Woken(ring.form, gone.thread[x][y], s.thread[x][y])
        /\ s.ring.state # "free" => s.area.mapped = area.mapped
        /\ ring.form = "copied" => s.ring.state = ring.state
    <2>1. CASE Shared /\ ring.state = "open" /\ p \in {ring.owner, area.creator}
      <3>1. Sound(Fail(gone, "dead"), holds) /\ Keeps(gone, Fail(gone, "dead"))
        BY <1>2, <1>3, <2>1, FailSound DEF Results
      <3>2. s = Fail(gone, "dead")
        BY <2>1
      <3> HIDE DEF s
      <3> QED BY <1>2, <2>1, <3>1, <3>2 DEF Keeps, Shared
    <2>2. CASE ~(Shared /\ ring.state = "open" /\ p \in {ring.owner, area.creator})
      <3>1. s = gone
        BY <2>2
      <3> HIDE DEF s
      <3> QED BY <1>2, <1>3, <3>1 DEF Woken
    <2> QED BY <2>1, <2>2
  <1> HIDE DEF s
  <1>5. /\ r \in Records /\ r.ring = s.ring /\ r.thread = s.thread
        /\ r.area.mapped = s.area.mapped \ {p} /\ r.area.handles = s.area.handles
        /\ r.area.state = s.area.state /\ r.area.children = s.area.children
    <2> DEFINE a == [s.area EXCEPT !.mapped = @ \ {p}]
    <2>1. s \in Records
      BY <1>4 DEF Sound
    <2>2. /\ a \in AreaRecords /\ a.mapped = s.area.mapped \ {p} /\ a.handles = s.area.handles
          /\ a.state = s.area.state /\ a.children = s.area.children
      BY <2>1 DEF Records, AreaRecords
    <2>3. r = [s EXCEPT !.area = a]
      BY <2>1 DEF Records
    <2> HIDE DEF a, r
    <2>4. r \in Records /\ r.ring = s.ring /\ r.thread = s.thread /\ r.area = a
      BY <2>1, <2>2, <2>3 DEF Records
    <2> QED BY <2>2, <2>4
  <1> HIDE DEF r
  <1>6. Sound(r, holds)
    <2>1. Heard(r)
      BY <1>4, <1>5 DEF Sound, Heard
    <2> QED BY <1>4, <1>5, <2>1 DEF Sound, Backs
  <1>7. /\ \A x \in Processes : process'[x] = IF x = p THEN "exited" ELSE process[x]
        /\ process' \in [Processes -> {"unborn", "alive", "exited"}]
        /\ view' \in [Ends -> Views]
        /\ \A y \in Ends : view'[y] = IF view[y].at = p THEN NoView ELSE view[y]
    BY <1>1, NoViewFacts, StepTypes
  <1>8. AllFit(r, holds, view', process')
    <2> SUFFICES ASSUME NEW x \in Processes, NEW y \in Ends
                 PROVE  Fits(ring.form, s.thread[x][y], holds, view', process', x, y)
      BY <1>4, <1>5 DEF AllFit
    <2>1. gone.thread[x][y] \in Calls
      BY <1>2 DEF Records
    <2>2. Fits(ring.form, gone.thread[x][y], holds, view', process', x, y)
      <3>1. CASE x = p
        BY <1>2, <3>1, IdleFacts, IdleFits
      <3>2. CASE x # p
        <4>1. gone.thread[x][y] = thread[x][y] /\ process'[x] = process[x]
          BY <1>2, <1>7, <3>2
        <4>2. view[y].at = x => view'[y].at = x
          BY <1>7, <3>2
        <4>3. Fits(ring.form, thread[x][y], holds, view, process, x, y)
          BY StepTypes
        <4> QED BY <4>1, <4>2, <4>3 DEF Fits
      <3> QED BY <3>1, <3>2
    <2> QED BY <1>4, <2>1, <2>2, WokenFits
  <1>9. ViewsHeld(r, holds, view', process')
    <2> SUFFICES ASSUME NEW y \in Ends, view'[y].at # Nobody
                 PROVE  /\ <<view'[y].at, y>> \in holds /\ view'[y].at \in s.area.mapped \ {p}
                        /\ process'[view'[y].at] = "alive" /\ ring.form = "shared"
      BY <1>4, <1>5 DEF ViewsHeld
    <2>1. view'[y] = view[y] /\ view[y].at # p
      BY <1>7, NoViewFacts
    <2>2. /\ <<view[y].at, y>> \in holds /\ view[y].at \in area.mapped
          /\ process[view[y].at] = "alive" /\ ring.form = "shared"
      BY <2>1, StepTypes DEF RingInv, ViewsHeld
    <2>3. view[y].at \in Processes
      BY <2>2, StepTypes
    <2>4. s.ring.state # "free"
      BY <1>4, <2>2 DEF Sound, Backs
    <2> QED BY <1>4, <1>7, <2>1, <2>2, <2>3, <2>4
  <1>10. Born(holds, process')
    BY <1>7 DEF RingInv, Born
  <1>11. PipesOpen(r)
    BY <1>4, <1>5, StepTypes DEF RingInv, PipesOpen
  <1>12. /\ header' \in [Ends -> Positions] /\ data' \in [0 .. Capacity - 1 -> Positions]
         /\ faulty' \subseteq Processes /\ holds' = holds /\ Becomes(r)
    BY <1>1, StepTypes
  <1> QED BY <1>6, <1>7, <1>8, <1>9, <1>10, <1>11, <1>12, KernelStep

----------------------------------------------------------------------------
LEMMA InitInv ==
  ASSUME RingsAssumption, Init
  PROVE  RingInv
  <1>1. PICK form \in Forms : ring = FreeRing(form)
    BY DEF Init
  <1>2. /\ area = [state |-> "live", creator |-> First, handles |-> {First}, children |-> 0,
                   mapped |-> {}]
        /\ holds = {} /\ header = [e \in Ends |-> 0]
        /\ data = [k \in 0 .. Capacity - 1 |-> 0] /\ view = [e \in Ends |-> NoView]
        /\ thread = [p \in Processes |-> [e \in Ends |-> Idle]] /\ faulty = {}
        /\ process \in [Processes -> {"unborn", "alive"}]
    BY DEF Init
  <1>3. 0 \in Positions
    BY DEF Positions, RingsAssumption
  <1>4. ring \in RingRecords
    BY <1>1, <1>3 DEF FreeRing, RingRecords, Results
  <1>5. /\ ring.state = "free" /\ ring.form = form /\ ~ring.corrupt
        /\ ring.terminal = [e \in Ends |-> "ok"]
        /\ \A e \in Ends : ring.references[e] = 0 /\ ring.position[e] = 0
    BY <1>1 DEF FreeRing
  <1>6. area \in AreaRecords
    BY <1>2 DEF AreaRecords, RingsAssumption
  <1>7. thread \in [Processes -> [Ends -> Calls]]
    BY <1>2, IdleFacts
  <1>8. /\ Now \in Records /\ Now.ring = ring /\ Now.area = area /\ Now.thread = thread
    BY <1>4, <1>6, <1>7, RecordOf DEF Now
  <1>9. TypeOK
    <2>1. process \in [Processes -> {"unborn", "alive", "exited"}]
      BY <1>2
    <2>2. header \in [Ends -> Positions] /\ data \in [0 .. Capacity - 1 -> Positions]
      BY <1>2, <1>3
    <2>3. view \in [Ends -> Views]
      BY <1>2, NoViewFacts
    <2> QED BY <1>2, <1>8, <2>1, <2>2, <2>3 DEF TypeOK, Now
  <1>10. \A p \in Processes, e \in Ends : thread[p][e].pc = "idle" /\ thread[p][e].call = "none"
    BY <1>2, IdleFacts
  <1>11. Sound(Now, holds)
    <2>1. \A e \in Ends : Cardinality(Holders(holds, e)) = 0
      <3>1. \A e \in Ends : Holders(holds, e) = {}
        BY <1>2 DEF Holders
      <3> QED BY <3>1, FS_EmptySet
    <2>2. area.state = "live" /\ area.handles # {} /\ area.children = 0
      BY <1>2
    <2>3. Backs(Now, holds)
      BY <1>2, <1>5, <1>8, <2>1, <2>2 DEF Backs
    <2>4. Heard(Now)
      BY <1>8, <1>10 DEF Heard
    <2>5. Used(ring) <= Capacity
      BY <1>3, <1>5, AheadSum DEF Used, Ends, RingsAssumption
    <2>6. holds \subseteq Processes \X Ends
      BY <1>2
    <2> QED BY <1>5, <1>8, <2>3, <2>4, <2>5, <2>6 DEF Sound
  <1>12. AllFit(Now, holds, view, process)
    BY <1>8, <1>10, IdleFits DEF AllFit
  <1>13. ViewsHeld(Now, holds, view, process)
    BY <1>2, NoViewFacts DEF ViewsHeld
  <1>14. Born(holds, process) /\ PipesOpen(Now)
    BY <1>2, <1>5, <1>8 DEF Born, PipesOpen
  <1> QED BY <1>9, <1>11, <1>12, <1>13, <1>14 DEF RingInv

LEMMA NextInv ==
  ASSUME RingsAssumption, RingInv, [Next]_vars
  PROVE  RingInv'
  <1>1. CASE UNCHANGED vars
    <2>1. UNCHANGED <<process, area, ring, holds, thread, header, data, view, faulty>>
      BY <1>1 DEF vars
    <2> QED BY <2>1, StepTypes, ViewStep
  <1>2. CASE Next
    <2>1. ReadLengths \cup WriteLengths \subseteq Nat \ {0} /\ "producer" \in Ends /\ "consumer" \in Ends
      BY DEF RingsAssumption, Ends
    <2>2. PICK p \in Processes :
            \/ \E e \in Ends :
                 \/ CloseEnd(p, e)
                 \/ Library(p, e)
                 \/ Block(p, e) \/ EndWait(p, e)
                 \/ Misreport(p, e)
            \/ \E q \in Processes : Fork(p, q) \/ \E e \in Ends : Give(p, q, e)
            \/ Create(p) \/ CloseArea(p) \/ Exit(p) \/ Reap(p)
            \/ \E length \in ReadLengths : Start(p, "consumer", length)
            \/ \E length \in WriteLengths : Start(p, "producer", length)
            \/ Read(p) \/ Write(p) \/ Damage(p)
      BY <1>2 DEF Next
    <2>3. ASSUME NEW e \in Ends, Library(p, e)
          PROVE  RingInv'
      BY <2>3, AttachInv, BeginInv, AskInv, RecheckInv, ReserveInv, CommitInv DEF Library
    <2>4. ASSUME NEW e \in Ends,
                 CloseEnd(p, e) \/ Block(p, e) \/ EndWait(p, e) \/ Misreport(p, e)
          PROVE  RingInv'
      BY <2>4, CloseEndInv, BlockInv, EndWaitInv, MisreportInv
    <2>5. ASSUME NEW q \in Processes, Fork(p, q) \/ \E e \in Ends : Give(p, q, e)
          PROVE  RingInv'
      BY <2>5, ForkInv, GiveInv
    <2>6. CASE Create(p) \/ CloseArea(p) \/ Exit(p) \/ Reap(p)
      BY <2>6, CreateInv, CloseAreaInv, ExitInv, ReapInv
    <2>7. ASSUME NEW e \in Ends, NEW length \in ReadLengths \cup WriteLengths, Start(p, e, length)
          PROVE  RingInv'
      BY <2>1, <2>7, StartInv
    <2>8. CASE Read(p) \/ Write(p) \/ Damage(p)
      BY <2>8, ReadInv, WriteInv, DamageInv
    <2> QED BY <2>1, <2>2, <2>3, <2>4, <2>5, <2>6, <2>7, <2>8
  <1> QED BY <1>1, <1>2

(* The invariant holds of every behaviour. *)
THEOREM Rings_Invariant == Spec => []RingInv
  <1>1. Init => RingInv
    BY RingsAssumption, InitInv
  <1>2. RingInv /\ [Next]_vars => RingInv'
    BY RingsAssumption, NextInv
  <1> QED BY <1>1, <1>2, PTL DEF Spec

(* No end is left asleep at a ring that has something for it, or whose     *)
(* other end is gone (ring.c, kernel_ring_prepare_wait and the wakes).     *)
THEOREM Rings_NoStrandedEnd == Spec => []NoStrandedEnd
  <1>1. RingInv => NoStrandedEnd
    BY RingsAssumption, StepTypes DEF Sound, Heard, NoStrandedEnd
  <1> QED BY <1>1, Rings_Invariant, PTL

(* The area and the ring last as long as what uses them, and the ring      *)
(* counts the handles of its ends (ring.c maybe_free, area.c close_area).  *)
THEOREM Rings_BackingHeld == Spec => []BackingHeld
  <1>1. ASSUME RingInv
        PROVE  BackingHeld
    <2>1. Backs(Now, holds) /\ Now.ring = ring /\ Now.area = area
      BY <1>1, RingsAssumption, StepTypes DEF Sound
    <2>2. \A e \in Ends : view[e].at # Nobody =>
             <<view[e].at, e>> \in holds /\ view[e].at \in area.mapped
      BY <1>1, <2>1 DEF RingInv, ViewsHeld
    <2> QED BY <2>1, <2>2 DEF Backs, BackingHeld, Live, Holders
  <1> QED BY <1>1, Rings_Invariant, PTL

=============================================================================
