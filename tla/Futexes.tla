------------------------------ MODULE Futexes ------------------------------
(***************************************************************************)
(* The address waits of the Axiom kernel, as one process sees them: the    *)
(* FUTEX_WAIT, FUTEX_WAKE, MUTEX_WAIT and MUTEX_UNLOCK calls               *)
(* (sw/kernel/sync.c and their cases in process.c), the ends of a wait,    *)
(* and the wait record the kernel keeps for an address.                    *)
(*                                                                         *)
(* Each action is one system call or event, and sets status[t], what the   *)
(* call returns to thread t.  Module Pthreads builds the POSIX mutex and   *)
(* condition variable on them.                                             *)
(*                                                                         *)
(* Abstractions.  Which waiter is the most urgent one depends on           *)
(* priorities, which are in module Scheduling: here it is any waiter.      *)
(* Running out of memory is left out.  Threads do not wait for each other  *)
(* in a cycle.                                                             *)
(***************************************************************************)
EXTENDS Naturals, FiniteSets

CONSTANTS
  Threads,    \* the threads of one process, by their IDs
  Words,      \* the addresses its threads wait at
  NoWord

ASSUME FutexAssumption ==
  /\ IsFiniteSet(Threads) /\ 0 \notin Threads
  /\ NoWord \notin Words

VARIABLES
  word,      \* word[a]: user memory; a mutex word is 0 or its owner's ID
  record,    \* record[a]: the futex slot for address a
  sleeping,  \* sleeping[t]: the address thread t waits at, or NoWord
  status     \* status[t]: the result of t's last call, BLOCKED, or DEAD

kernel == <<word, record, sleeping, status>>

Free == 0
NoRecord == [kind |-> "none", owner |-> Free]

Waiters(a) == {t \in Threads : sleeping[t] = a}
Live(t) == status[t] # "DEAD"
Awake(t) == Live(t) /\ sleeping[t] = NoWord

FutexInit ==
  /\ word = [a \in Words |-> 0]
  /\ record = [a \in Words |-> NoRecord]
  /\ sleeping = [t \in Threads |-> NoWord]
  /\ status = [t \in Threads |-> "OK"]

----------------------------------------------------------------------------

Return(t, result) ==
  /\ status' = [status EXCEPT ![t] = result]
  /\ UNCHANGED <<word, record, sleeping>>

Sleep(t, a, kind, owner) ==
  /\ sleeping' = [sleeping EXCEPT ![t] = a]
  /\ status' = [status EXCEPT ![t] = "BLOCKED"]
  /\ record' = [record EXCEPT ![a] = [kind |-> kind, owner |-> owner]]

(* The threads in W wake up; t, which wakes them, goes on with result. *)
Wake(W, woken, t, result) ==
  /\ sleeping' = [u \in Threads |-> IF u \in W THEN NoWord ELSE sleeping[u]]
  /\ status' = [u \in Threads |-> IF u \in W THEN woken
                                  ELSE IF u = t THEN result ELSE status[u]]

(* A wait record whose waiters have all been woken is returned. *)
Keep(a, W, rec) == IF Waiters(a) \subseteq W THEN NoRecord ELSE rec

NeverChanged(a, expected) == FALSE           \* mutant: the word is not compared
Changed(a, expected) == word[a] # expected

FutexWait(t, a, expected) ==
  IF Changed(a, expected) THEN Return(t, "WOULD_BLOCK")
  ELSE IF record[a].kind = "mutex" THEN Return(t, "INVALID_ARGUMENT")
  ELSE \/ /\ Sleep(t, a, "address", Free)
          /\ UNCHANGED word
       \/ /\ status' = [status EXCEPT ![t] = "TIMED_OUT"]   \* the deadline has passed
          /\ record' = [record EXCEPT ![a] = Keep(a, {}, @)]
          /\ UNCHANGED <<word, sleeping>>

(* Wakes at most n waiters. *)
FutexWake(t, a, n) ==
  IF record[a].kind = "mutex" THEN Return(t, "INVALID_ARGUMENT")
  ELSE \E W \in SUBSET Waiters(a) :
         /\ Cardinality(W) <= n /\ (Cardinality(W) = n \/ W = Waiters(a))
         /\ Wake(W, "OK", t, "OK")
         /\ record' = [record EXCEPT ![a] = Keep(a, W, @)]
         /\ UNCHANGED word

MutexWait(t, a) ==
  LET live == word[a] \in Threads /\ Live(word[a])
      fits == record[a] \in {NoRecord, [kind |-> "mutex", owner |-> word[a]]}
  IN  IF word[a] = Free
      THEN /\ word' = [word EXCEPT ![a] = t]
           /\ status' = [status EXCEPT ![t] = "OK"]
           /\ UNCHANGED <<record, sleeping>>
      ELSE IF word[a] # t /\ ~live THEN Return(t, "PEER_DEAD")
      ELSE IF word[a] = t \/ ~fits THEN Return(t, "INVALID_ARGUMENT")
      ELSE /\ Sleep(t, a, "mutex", word[a])
           /\ UNCHANGED word

(* Ownership passes to the next waiter, which the rest then wait for. *)
DropsWaiters(a, next) == NoRecord            \* mutant: the rest are forgotten
Handed(a, next) == Keep(a, {next}, [kind |-> "mutex", owner |-> next])

LeavesFree(next) == Free                     \* mutant: the word is cleared
Passed(next) == next

MutexUnlock(t, a) ==
  IF word[a] # t \/ record[a] \notin {NoRecord, [kind |-> "mutex", owner |-> t]}
  THEN Return(t, "ACCESS_DENIED")
  ELSE \/ /\ Waiters(a) = {}
          /\ word' = [word EXCEPT ![a] = Free]
          /\ record' = [record EXCEPT ![a] = NoRecord]
          /\ status' = [status EXCEPT ![t] = "OK"]
          /\ UNCHANGED sleeping
       \/ \E next \in Waiters(a) :
            /\ word' = [word EXCEPT ![a] = Passed(next)]
            /\ Wake({next}, "OK", t, "OK")
            /\ record' = [record EXCEPT ![a] = Handed(a, next)]

----------------------------------------------------------------------------
(* The other ends of a wait.  They leave its record behind. *)

(* A mutex wait has no deadline. *)
TimedOut(t) ==
  /\ sleeping[t] # NoWord /\ record[sleeping[t]].kind = "address"
  /\ Wake({t}, "TIMED_OUT", t, "TIMED_OUT")
  /\ UNCHANGED <<word, record>>

(* CANCEL_WAIT by another thread, or a signal. *)
Cancelled(t) ==
  /\ sleeping[t] # NoWord
  /\ Wake({t}, "CANCELLED", t, "CANCELLED")
  /\ UNCHANGED <<word, record>>

(* A thread that is not the last of its process exits: whoever waits for a *)
(* mutex of its is told.  Its ID stays in the mutex word.                  *)
Bereaved(t) == {u \in Threads : /\ sleeping[u] # NoWord
                                /\ record[sleeping[u]] = [kind |-> "mutex", owner |-> t]}

ThreadExit(t) ==
  /\ Awake(t) /\ \E u \in Threads \ {t} : Live(u)
  /\ Wake(Bereaved(t), "PEER_DEAD", t, "DEAD")
  /\ record' = [a \in Words |-> IF record[a] = [kind |-> "mutex", owner |-> t]
                                  THEN NoRecord ELSE record[a]]
  /\ UNCHANGED word

(* When some process is reaped, empty records are returned. *)
FutexReap ==
  /\ record' = [a \in Words |-> Keep(a, {}, record[a])]
  /\ record' # record
  /\ UNCHANGED <<word, sleeping, status>>

=============================================================================
