----------------------------- MODULE Waitables -----------------------------
(***************************************************************************)
(* What events, semaphores and timers promise the threads that wait for    *)
(* them, without references, registrations, a heap or a pool: a unit is    *)
(* handed to a waiter or kept, never both and never lost; a wait ends      *)
(* once, for one reason; a timer expires when it is due; and nobody waits  *)
(* for an object that has a unit or is closed.  Module SyncObjects         *)
(* implements it.                                                          *)
(***************************************************************************)
EXTENDS Integers, Sequences, FiniteSets

CONSTANTS
  Objects, Kinds,
  Threads, WaitSets,  \* WaitSets: the sequences of objects that are waited for
  Amounts             \* of units and of ticks

VARIABLES
  object,   \* object[o]: kind, units, limit, closed (a result, or "") and alarm
            \* (ticks until a timer expires, or 0)
  wait      \* wait[t]: on (the objects t waits for, or <<>>), patience (ticks
            \* until t gives up, or 0) and outcome (a result and a member, or None)

Absent == [kind |-> "NONE", units |-> 0, limit |-> 0, closed |-> "", alarm |-> 0]
None == <<"", 0>>
Lowest(S) == CHOOSE x \in S : \A y \in S : x <= y
AtWork == [on |-> <<>>, patience |-> 0, outcome |-> None]

Waits(t) == wait[t].on # <<>>
Waiters(o) == {t \in Threads : \E i \in DOMAIN wait[t].on : wait[t].on[i] = o}
Ready(o) == object[o].closed # "" \/ object[o].units > 0
Usable(o, kind) == object[o].kind = kind /\ object[o].closed = ""

(* The wait of t ends with r for a member in S, or for none of them. *)
Ends(t, r, S) ==
  \E i \in {i \in DOMAIN wait[t].on : wait[t].on[i] \in S} :
    wait'[t] = [AtWork EXCEPT !.outcome = <<r, i>>]
Leaves(t, r) == wait'[t] = [AtWork EXCEPT !.outcome = <<r, 0>>]

(* Nothing happens to the other threads; one at work may forget. *)
Others(W) ==
  \A t \in Threads \ W :
    \/ wait'[t] = wait[t]
    \/ ~Waits(t) /\ wait'[t] = AtWork

Becomes(o, x) == object' = [object EXCEPT ![o] = x]

Create(o) ==
  /\ object[o] = Absent
  /\ object'[o].kind \in Kinds \ {"NONE"}
  /\ object'[o].limit \in Amounts /\ object'[o].units \in 0..object'[o].limit
  /\ object'[o].closed = "" /\ object'[o].alarm = 0
  /\ Becomes(o, object'[o]) /\ Others({})

(* The first member that is ready ends a wait before it begins, and gives  *)
(* up a unit unless it stays set.                                          *)
Take(t, members) ==
  LET i == Lowest({i \in DOMAIN members : Ready(members[i])})
      o == members[i]
      keeps == object[o].closed # "" \/ object[o].kind \in {"EVENT_MANUAL", "TIMER"}
  IN  /\ \E j \in DOMAIN members : Ready(members[j])
      /\ wait'[t] = [AtWork EXCEPT !.outcome =
                      <<IF object[o].closed = "" THEN "OK" ELSE object[o].closed, i>>]
      /\ Becomes(o, [object[o] EXCEPT !.units = IF keeps THEN @ ELSE @ - 1])

TakeOne(t) ==
  /\ ~Waits(t) /\ wait'[t].outcome # None /\ Others({t})
  /\ \E members \in WaitSets : Take(t, members)

Sleep(t) ==
  /\ ~Waits(t) /\ Waits(t)'
  /\ \A i \in DOMAIN wait'[t].on : ~Ready(wait'[t].on[i])
  /\ wait'[t].outcome = None
  /\ UNCHANGED object /\ Others({t})

Leaving(o) == {t \in Waiters(o) : wait'[t] # wait[t]}

(* As many waiters as there are units get one each; a semaphore keeps the  *)
(* rest, or refuses all of them; an event keeps one if nobody waits.       *)
Release(o, n) ==
  LET given == Lowest({n, Cardinality(Waiters(o))})
  IN  /\ \/ /\ Usable(o, "SEMAPHORE")
            /\ object[o].units + n - given <= object[o].limit
            /\ Becomes(o, [object[o] EXCEPT !.units = @ + n - given])
         \/ /\ Usable(o, "EVENT_AUTO") /\ n = 1
            /\ Becomes(o, [object[o] EXCEPT !.units = 1 - given])
      /\ Cardinality(Leaving(o)) = given
      /\ (\A t \in Leaving(o) : Ends(t, "OK", {o})) /\ Others(Leaving(o))

(* Set for everybody, now and from now on. *)
Rung(x) == [x EXCEPT !.units = 1, !.alarm = 0]

Set(o) ==
  /\ Usable(o, "EVENT_MANUAL") \/ Usable(o, "TIMER")
  /\ Becomes(o, Rung(object[o]))
  /\ (\A t \in Waiters(o) : Ends(t, "OK", {o})) /\ Others(Waiters(o))

Reset(o) ==
  /\ Usable(o, "EVENT_AUTO") \/ Usable(o, "EVENT_MANUAL")
  /\ Becomes(o, [object[o] EXCEPT !.units = 0]) /\ Others({})

Arm(o) ==
  /\ Usable(o, "TIMER") /\ object'[o].alarm > 0
  /\ Becomes(o, [object[o] EXCEPT !.units = 0, !.alarm = object'[o].alarm]) /\ Others({})

Disarm(o) ==
  /\ Usable(o, "TIMER")
  /\ Becomes(o, [object[o] EXCEPT !.units = 0, !.alarm = 0])
  /\ (\A t \in Waiters(o) : Ends(t, "CANCELLED", {o})) /\ Others(Waiters(o))

Cancel(t) == Waits(t) /\ Leaves(t, "CANCELLED") /\ UNCHANGED object /\ Others({t})

GiveUp(t) == ~Waits(t) /\ Leaves(t, "TIMED_OUT") /\ UNCHANGED object /\ Others({t})

(* Objects are closed, or done with, and threads die; r is what the others *)
(* that wait for such an object are told.                                  *)
Closed(x, r) == [x EXCEPT !.closed = r, !.alarm = 0]

Closes(r, S, gone) ==
  LET told == (UNION {Waiters(o) : o \in S}) \ gone
  IN  /\ \A o \in S : \/ /\ object[o].closed = ""
                         /\ object'[o] = Closed(object[o], r)
                      \/ object'[o] = Absent
      /\ object' = [o \in Objects |-> object'[o]]
      /\ (\A t \in told : Ends(t, r, S)) /\ Others(told \cup gone)

Close(r) ==
  Closes(r, {o \in Objects : object'[o] # object[o]},
            {t \in Threads : Waits(t) /\ wait'[t] = AtWork})

(* d ticks pass.  A thread whose time is up gives up even if a timer it    *)
(* waits for expires now.                                                  *)
Nearer(ticks, d) == IF ticks = 0 THEN 0 ELSE ticks - d

Passes(d, late, due) ==
  LET told == (UNION {Waiters(o) : o \in due}) \ late
  IN  /\ object' = [o \in Objects |->
           IF o \in due THEN Rung(object[o])
                        ELSE [object[o] EXCEPT !.alarm = Nearer(@, d)]]
      /\ \A t \in late : Leaves(t, "TIMED_OUT")
      /\ \A t \in told : Ends(t, "OK", due)
      /\ \A t \in Threads \ (late \cup told) :
           wait'[t] = [wait[t] EXCEPT !.patience = Nearer(@, d)]

Pass(d) ==
  Passes(d, {t \in Threads : wait[t].patience \in 1..d},
            {o \in Objects : object[o].alarm \in 1..d})

Init == object \in [Objects -> {Absent} \cup
                       [kind : Kinds, units : Nat, limit : Amounts,
                        closed : {""}, alarm : {0}]]
        /\ wait = [t \in Threads |-> AtWork]

Next ==
  \/ UNCHANGED object /\ Others({})
  \/ \E o \in Objects : Create(o) \/ Set(o) \/ Reset(o) \/ Arm(o) \/ Disarm(o)
  \/ \E o \in Objects, n \in Amounts \cup {1} : Release(o, n)
  \/ \E t \in Threads : TakeOne(t) \/ Sleep(t) \/ Cancel(t) \/ GiveUp(t)
  \/ \E r \in {"CLOSED", "PEER_DEAD"} : Close(r)
  \/ \E d \in Amounts : Pass(d)

Spec == Init /\ [][Next]_<<object, wait>>

=============================================================================
