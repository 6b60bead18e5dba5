------------------------------ MODULE Pthreads ------------------------------
(***************************************************************************)
(* The POSIX mutex, condition variable, read-write lock and pthread_once   *)
(* of the Axiom C library (sw/userspace/posix/src/pthread.c) on the        *)
(* address waits of the kernel (module Futexes), used by the threads of    *)
(* one process.                                                            *)
(*                                                                         *)
(* A step is one system call or one access to shared memory.  pc[t] is     *)
(* where in the library thread t is, "out" when it is in its own code.     *)
(*                                                                         *)
(*   pthread_mutex_lock     out -> locking -> contending -> asked          *)
(*                                         -> granted -> named -> out      *)
(*   pthread_mutex_unlock   out -> unlocking -> releasing -> released      *)
(*                                         -> cleared -> out               *)
(*   condition_wait         unlock, then sleepy -> slept, then lock        *)
(*   pthread_cond_signal    out -> signalling -> out                       *)
(*   pthread_cond_broadcast out -> broadcasting -> out                     *)
(*   pthread_rwlock_...     lock, then inside, then condition_wait and     *)
(*                          inside again, or signal and unlock             *)
(*   pthread_once           out -> claiming -> initializing -> waking      *)
(*                          -> out, or claiming -> checking <-> dozing     *)
(*                                                                         *)
(* A program is one of three.  "condition" uses a mutex and a condition:   *)
(* a thread unlocks, and waits, only while it holds the mutex, and locks   *)
(* again only a recursive mutex.  "rwlock" uses a read-write lock (whose   *)
(* mutex is Mutex): a thread unlocks what it has locked and locks nothing  *)
(* twice.  "once" calls pthread_once.  MaxDepth and MaxChanges bound the   *)
(* runs: how often a thread locks again, and after how many signals no     *)
(* more are begun.                                                         *)
(***************************************************************************)
EXTENDS Futexes

CONSTANTS
  Mutex, Sequence,   \* the addresses of the mutex word and of the condition
  Readers, Writers,  \* the conditions of the read-write lock
  Once,              \* the word of pthread_once
  Programs,
  Recursive,         \* PTHREAD_MUTEX_RECURSIVE, or PTHREAD_MUTEX_DEFAULT
  MaxDepth, MaxChanges

ASSUME PthreadAssumption ==
  /\ Words = {Mutex, Sequence, Readers, Writers, Once} /\ Cardinality(Words) = 5
  /\ Programs \subseteq {"condition", "rwlock", "once"}
  /\ Recursive \in BOOLEAN
  /\ MaxDepth \in Nat \ {0} /\ MaxChanges \in Nat

VARIABLES
  program,        \* which program this process runs
  pc,
  owner, depth,   \* the mutex's fields besides its word
  held,           \* held[t]: successful locks of t less its unlocks
  seen,           \* seen[t]: the sequence condition_wait has read
  waits,          \* waits[t]: t is inside condition_wait
  rw,             \* the fields of the read-write lock
  doing,          \* doing[t]: the pthread_rwlock call t is in, or "none"
  grip,           \* grip[t]: what a call has given t to hold or to rely on
  abandoned,      \* history: a writer has given up since readers were woken
  ran,            \* history: how often the initializer has run
  unmet           \* history: see Account

rwlock == <<rw, doing, grip, abandoned>>
library == <<owner, depth, held, seen, waits, rwlock, ran>>
vars == <<program, kernel, pc, library, unmet>>

Init ==
  /\ FutexInit
  /\ program \in Programs
  /\ pc = [t \in Threads |-> "out"]
  /\ owner = Free /\ depth = 0
  /\ held = [t \in Threads |-> 0]
  /\ seen = [t \in Threads |-> 0]
  /\ waits = [t \in Threads |-> FALSE]
  /\ rw = [writer |-> Free, readers |-> 0, waiting |-> 0]
  /\ doing = [t \in Threads |-> "none"]
  /\ grip = [t \in Threads |-> "none"]
  /\ abandoned = FALSE /\ ran = 0
  /\ unmet = [t \in Threads |-> {}]

At(t, place) == Awake(t) /\ pc[t] = place
Go(t, place) == pc' = [pc EXCEPT ![t] = place]

----------------------------------------------------------------------------
(* pthread_mutex_lock and pthread_mutex_trylock *)

Lock(t) ==
  /\ At(t, "out") /\ program = "condition"
  /\ IF owner = t /\ word[Mutex] # Free
     THEN /\ Recursive /\ depth < MaxDepth
          /\ depth' = depth + 1 /\ held' = [held EXCEPT ![t] = @ + 1]
          /\ UNCHANGED <<kernel, pc, owner, seen, waits, rwlock, ran>>
     ELSE /\ held[t] < IF Recursive THEN MaxDepth ELSE 1
          /\ Go(t, "locking")
          /\ UNCHANGED <<kernel, library>>

(* Back to the program, out of whatever call t is in. *)
Leaves(t) ==
  /\ Go(t, "out")
  /\ waits' = [waits EXCEPT ![t] = FALSE]
  /\ doing' = [doing EXCEPT ![t] = "none"]

(* The calls of a thread that pthread_rwlock_wrlock counts as waiting. *)
Writing == {"wrlock", "interrupted wrlock"}
Counted(t) == waits[t] /\ doing[t] \in Writing

(* With an error of pthread_mutex_lock or _unlock.  A writer that waits    *)
(* stops waiting, without the mutex.                                       *)
KeepsCount(t) ==                       \* mutant: waiting_writers is left as it is
  /\ Leaves(t)
  /\ abandoned' = (abandoned \/ Counted(t))
  /\ UNCHANGED <<rw, grip>>

GiveUp(t) ==
  /\ Leaves(t)
  /\ rw' = [rw EXCEPT !.waiting = IF Counted(t) THEN @ - 1 ELSE @]
  /\ abandoned' = (abandoned \/ Counted(t))
  /\ UNCHANGED grip

CompareExchange(t) ==
  /\ At(t, "locking")
  /\ UNCHANGED <<record, sleeping, status, owner, depth, held, seen, ran>>
  /\ \/ /\ word[Mutex] = Free
        /\ word' = [word EXCEPT ![Mutex] = t]
        /\ Go(t, "granted") /\ UNCHANGED <<waits, rwlock>>
     \/ /\ word[Mutex] # Free
        /\ \/ Go(t, "contending") /\ UNCHANGED <<waits, rwlock>>
           \/ program = "condition" /\ ~waits[t] /\ GiveUp(t)     \* trylock: EBUSY
        /\ UNCHANGED word

Contend(t) ==
  /\ At(t, "contending") /\ MutexWait(t, Mutex) /\ Go(t, "asked")
  /\ UNCHANGED library

Locked(t) ==
  /\ At(t, "asked")
  /\ IF status[t] = "OK" THEN Go(t, "granted") /\ UNCHANGED <<waits, rwlock>>
     ELSE GiveUp(t)
  /\ UNCHANGED <<kernel, owner, depth, held, seen, ran>>

StoreOwner(t) ==
  /\ At(t, "granted") /\ owner' = t /\ Go(t, "named")
  /\ UNCHANGED <<kernel, depth, held, seen, waits, rwlock, ran>>

(* Back to the caller: the program, or a pthread_rwlock call. *)
StoreDepth(t) ==
  /\ At(t, "named") /\ depth' = 1
  /\ held' = [held EXCEPT ![t] = @ + 1]
  /\ IF doing[t] = "none" THEN Leaves(t)
     ELSE Go(t, "inside") /\ UNCHANGED <<waits, doing>>
  /\ UNCHANGED <<kernel, owner, seen, rw, grip, abandoned, ran>>

----------------------------------------------------------------------------
(* pthread_mutex_unlock *)

Unlock(t) ==
  /\ At(t, "out") /\ program = "condition" /\ held[t] > 0 /\ Go(t, "unlocking")
  /\ UNCHANGED <<kernel, library>>

Leave(t) ==
  /\ At(t, "unlocking")
  /\ UNCHANGED <<word, record, sleeping, owner, seen, ran>>
  /\ IF word[Mutex] = Free \/ owner # t
     THEN /\ status' = [status EXCEPT ![t] = "EPERM"]
          /\ GiveUp(t) /\ UNCHANGED <<depth, held>>
     ELSE IF Recursive /\ depth > 1
     THEN /\ depth' = depth - 1 /\ held' = [held EXCEPT ![t] = @ - 1]
          /\ Go(t, IF waits[t] THEN "sleepy" ELSE "out")
          /\ UNCHANGED <<status, waits, rwlock>>
     ELSE Go(t, "releasing") /\ UNCHANGED <<status, depth, held, waits, rwlock>>

Release(t) ==
  /\ At(t, "releasing") /\ MutexUnlock(t, Mutex)
  /\ IF status'[t] = "OK"
     THEN /\ held' = [held EXCEPT ![t] = @ - 1]
          /\ Go(t, "released") /\ UNCHANGED <<waits, rwlock>>
     ELSE GiveUp(t) /\ UNCHANGED held
  /\ UNCHANGED <<owner, depth, seen, ran>>

ClearOwner(t) ==
  /\ At(t, "released") /\ owner' = Free /\ Go(t, "cleared")
  /\ UNCHANGED <<kernel, depth, held, seen, waits, rwlock, ran>>

ClearDepth(t) ==
  /\ At(t, "cleared") /\ depth' = 0
  /\ IF waits[t] THEN Go(t, "sleepy") /\ UNCHANGED <<waits, doing>> ELSE Leaves(t)
  /\ UNCHANGED <<kernel, owner, held, seen, rw, grip, abandoned, ran>>

----------------------------------------------------------------------------
(* condition_wait, pthread_cond_signal and pthread_cond_broadcast *)

(* The condition that the call t is in waits for. *)
Condition(t) ==
  CASE doing[t] = "none" -> Sequence
    [] doing[t] \in Writing -> Writers
    [] OTHER -> Readers

(* condition_wait up to pthread_mutex_unlock *)
StartWait(t) ==
  /\ seen' = [seen EXCEPT ![t] = word[Condition(t)]]
  /\ waits' = [waits EXCEPT ![t] = TRUE]
  /\ Go(t, "unlocking")

CondWait(t) ==
  /\ At(t, "out") /\ program = "condition" /\ held[t] = 1
  /\ StartWait(t)
  /\ UNCHANGED <<kernel, owner, depth, held, rwlock, ran>>

(* Only pthread_cond_timedwait has a deadline. *)
Waits(t, a, expected) ==
  FutexWait(t, a, expected) /\ (program = "condition" \/ status'[t] # "TIMED_OUT")

Doze(t) ==
  /\ At(t, "sleepy") /\ Waits(t, Condition(t), seen[t]) /\ Go(t, "slept")
  /\ UNCHANGED library

(* The mutex is locked again whatever the wait returned. *)
Interrupted(call) ==
  CASE call = "rdlock" -> "interrupted rdlock"
    [] call = "wrlock" -> "interrupted wrlock"
    [] OTHER -> call

Relock(t) ==
  /\ At(t, "slept") /\ Go(t, "locking")
  /\ doing' = [doing EXCEPT ![t] = IF status[t] \in {"OK", "WOULD_BLOCK"} THEN @
                                   ELSE Interrupted(@)]
  /\ UNCHANGED <<kernel, owner, depth, held, seen, waits, rw, grip, abandoned, ran>>

Change(t) ==
  /\ At(t, "out") /\ program = "condition" /\ word[Sequence] < MaxChanges
  /\ word' = [word EXCEPT ![Sequence] = @ + 1]
  /\ Go(t, "signalling") \/ Go(t, "broadcasting")
  /\ UNCHANGED <<record, sleeping, status, library>>

(* Which condition the signal or the broadcast that t is in is for. *)
Signalled(t, place) ==
  IF doing[t] = "none" THEN Sequence
  ELSE IF place = "signalling" THEN Writers ELSE Readers

Notify(t) ==
  /\ LET a == Signalled(t, pc[t])
     IN  \/ At(t, "signalling") /\ FutexWake(t, a, 1)
         \/ At(t, "broadcasting") /\ FutexWake(t, a, Cardinality(Threads))
  /\ Go(t, IF doing[t] = "none" THEN "out" ELSE "unlocking")
  /\ UNCHANGED library

----------------------------------------------------------------------------
(* The read-write lock.  Its calls hold the mutex while they look at its   *)
(* fields, but for GiveUp, and do not look at what pthread_mutex_unlock    *)
(* returns.                                                                *)

RwCall(t) ==
  /\ At(t, "out") /\ program = "rwlock" /\ Go(t, "locking")
  /\ \/ /\ grip[t] = "none" /\ word[Readers] + word[Writers] < MaxChanges
        /\ \E call \in {"rdlock", "tryrdlock", "wrlock", "trywrlock"} :
             doing' = [doing EXCEPT ![t] = call]
     \/ grip[t] # "none" /\ doing' = [doing EXCEPT ![t] = "unlock"]
  /\ UNCHANGED <<kernel, owner, depth, held, seen, waits, rw, grip, abandoned, ran>>

(* On to pthread_mutex_unlock, and back to the program. *)
Done(t) == Go(t, "unlocking") /\ waits' = [waits EXCEPT ![t] = FALSE]

RdLock(t) ==
  LET busy == rw.writer # Free \/ rw.waiting # 0
  IN  /\ At(t, "inside") /\ doing[t] \in {"rdlock", "interrupted rdlock", "tryrdlock"}
      /\ \/ busy /\ doing[t] = "rdlock" /\ StartWait(t) /\ UNCHANGED <<rw, grip>>
         \/ /\ doing[t] = "interrupted rdlock" \/ (busy /\ doing[t] = "tryrdlock")
            /\ Done(t) /\ UNCHANGED <<seen, rw, grip>>
         \/ /\ ~busy /\ doing[t] # "interrupted rdlock"
            /\ rw' = [rw EXCEPT !.readers = @ + 1]
            /\ grip' = [grip EXCEPT ![t] = "read"]
            /\ Done(t) /\ UNCHANGED seen
      /\ UNCHANGED <<kernel, owner, depth, held, doing, abandoned, ran>>

Taken == rw.writer # Free \/ rw.readers # 0

WrLock(t) ==
  LET waiting == rw.waiting + IF doing[t] = "wrlock" /\ ~waits[t] THEN 1 ELSE 0
  IN  /\ At(t, "inside") /\ doing[t] \in Writing \cup {"trywrlock"}
      /\ \/ /\ Taken /\ doing[t] = "wrlock"
            /\ rw' = [rw EXCEPT !.waiting = waiting]
            /\ StartWait(t) /\ UNCHANGED <<grip, abandoned>>
         \/ /\ doing[t] = "interrupted wrlock"
            /\ rw' = [rw EXCEPT !.waiting = waiting - 1] /\ abandoned' = TRUE
            /\ Done(t) /\ UNCHANGED <<seen, grip>>
         \/ /\ Taken /\ doing[t] = "trywrlock"
            /\ Done(t) /\ UNCHANGED <<seen, rw, grip, abandoned>>
         \/ /\ ~Taken /\ doing[t] # "interrupted wrlock"
            /\ rw' = [rw EXCEPT !.writer = t,
                                !.waiting = waiting - IF doing[t] = "wrlock" THEN 1 ELSE 0]
            /\ grip' = [grip EXCEPT ![t] = "write"]
            /\ Done(t) /\ UNCHANGED <<seen, abandoned>>
      /\ UNCHANGED <<kernel, owner, depth, held, doing, ran>>

ReadersFirst(left) == Readers                    \* mutant: writers are not looked at
Heirs(left) == IF left.waiting # 0 THEN Writers ELSE Readers

RwUnlock(t) ==
  LET left == IF rw.writer = t THEN [rw EXCEPT !.writer = Free]
              ELSE [rw EXCEPT !.readers = @ - 1]
      to == Heirs(left)
  IN  /\ At(t, "inside") /\ doing[t] = "unlock"
      /\ rw' = left
      /\ grip' = [grip EXCEPT ![t] = "none"]
      /\ IF left.readers # 0 THEN Done(t) /\ UNCHANGED <<word, abandoned>>
         ELSE /\ word' = [word EXCEPT ![to] = @ + 1]
              /\ Go(t, IF to = Writers THEN "signalling" ELSE "broadcasting")
              /\ abandoned' = (abandoned /\ to = Writers)
              /\ UNCHANGED waits
      /\ UNCHANGED <<record, sleeping, status, owner, depth, held, seen, doing, ran>>

----------------------------------------------------------------------------
(* pthread_once *)

OnceCall(t) ==
  /\ At(t, "out") /\ program = "once"
  /\ IF word[Once] = 2 THEN grip' = [grip EXCEPT ![t] = "once"] /\ UNCHANGED pc
     ELSE Go(t, "claiming") /\ UNCHANGED grip
  /\ UNCHANGED <<kernel, owner, depth, held, seen, waits, rw, doing, abandoned, ran>>

OnceClaim(t) ==
  /\ At(t, "claiming")
  /\ IF word[Once] = 0
     THEN word' = [word EXCEPT ![Once] = 1] /\ Go(t, "initializing")
     ELSE UNCHANGED word /\ Go(t, "checking")
  /\ UNCHANGED <<record, sleeping, status, library>>

OnceStore(t) ==
  /\ At(t, "initializing") /\ ran' = ran + 1
  /\ word' = [word EXCEPT ![Once] = 2] /\ Go(t, "waking")
  /\ UNCHANGED <<record, sleeping, status, owner, depth, held, seen, waits, rwlock>>

OnceWake(t) ==
  /\ At(t, "waking") /\ FutexWake(t, Once, Cardinality(Threads))
  /\ Go(t, "out") /\ grip' = [grip EXCEPT ![t] = "once"]
  /\ UNCHANGED <<owner, depth, held, seen, waits, rw, doing, abandoned, ran>>

(* However the wait has ended, the word is looked at again. *)
TrustsWait(t) ==                       \* mutant: any end of the wait will do
  /\ At(t, "checking")
  /\ IF word[Once] = 2 \/ status[t] \in {"OK", "CANCELLED"}
     THEN Go(t, "out") /\ grip' = [grip EXCEPT ![t] = "once"]
     ELSE Go(t, "dozing") /\ UNCHANGED grip
  /\ UNCHANGED <<kernel, owner, depth, held, seen, waits, rw, doing, abandoned, ran>>

OnceCheck(t) ==
  /\ At(t, "checking")
  /\ IF word[Once] = 2 THEN Go(t, "out") /\ grip' = [grip EXCEPT ![t] = "once"]
     ELSE Go(t, "dozing") /\ UNCHANGED grip
  /\ UNCHANGED <<kernel, owner, depth, held, seen, waits, rw, doing, abandoned, ran>>

OnceDoze(t) ==
  /\ At(t, "dozing") /\ Waits(t, Once, 1) /\ Go(t, "checking")
  /\ UNCHANGED library

----------------------------------------------------------------------------

Conditions == {Sequence, Readers, Writers}

(* The threads in condition_wait for a that have given up the mutex and    *)
(* have not come out of FUTEX_WAIT.                                        *)
Waiting(a) ==
  Waiters(a) \cup {t \in Threads : /\ waits[t] /\ Condition(t) = a
                                   /\ pc[t] \in {"released", "cleared", "sleepy"}}

(* unmet[t]: what t's last signal owes the threads waiting when it was     *)
(* made, as sets of threads one of which has to come out.  A signal is met *)
(* as well by a thread that began to wait later but comes out before it    *)
(* returns.                                                                *)
Begins(t) == /\ pc[t] \in {"out", "inside"}
             /\ pc'[t] \in {"signalling", "broadcasting"}

Owed(t) ==
  LET W == Waiting(Signalled(t, pc'[t]))
  IN  IF pc'[t] = "signalling" THEN {W} \ {{}} ELSE {{u} : u \in W}

Account ==
  unmet' = [t \in Threads |->
    LET owed == IF Begins(t) THEN Owed(t) ELSE unmet[t]
    IN  {W \in owed : /\ \A u \in W : \E a \in Conditions : u \in Waiting(a)'
                      /\ \A a \in Conditions :
                           pc[t] = "signalling" /\ a = Signalled(t, pc[t])
                             => Waiting(a) \subseteq Waiting(a)'}]

Calls(t) ==
  \/ Lock(t) \/ CompareExchange(t) \/ Contend(t) \/ Locked(t) \/ StoreOwner(t)
  \/ StoreDepth(t) \/ Unlock(t) \/ Leave(t) \/ Release(t) \/ ClearOwner(t)
  \/ ClearDepth(t) \/ CondWait(t) \/ Doze(t) \/ Relock(t) \/ Change(t)
  \/ Notify(t) \/ RwCall(t) \/ RdLock(t) \/ WrLock(t) \/ RwUnlock(t)
  \/ OnceCall(t) \/ OnceClaim(t) \/ OnceStore(t) \/ OnceWake(t) \/ OnceCheck(t)
  \/ OnceDoze(t)

Events ==
  \/ \E t \in Threads :
       \/ (Cancelled(t) \/ (program = "condition" /\ TimedOut(t))) /\ UNCHANGED <<pc, library>>
       \/ /\ At(t, "out") /\ program = "condition"
          /\ ThreadExit(t) /\ UNCHANGED <<pc, library>>
  \/ FutexReap /\ UNCHANGED <<pc, library>>

Next == ((\E t \in Threads : Calls(t)) \/ Events) /\ Account /\ UNCHANGED program

Spec == Init /\ [][Next]_vars

----------------------------------------------------------------------------

TypeOK ==
  /\ word \in [Words -> Threads \cup {Free} \cup Nat]
  /\ record \in [Words -> {NoRecord} \cup
                [kind : {"address", "mutex"}, owner : Threads \cup {Free}]]
  /\ sleeping \in [Threads -> Words \cup {NoWord}]
  /\ owner \in Threads \cup {Free} /\ depth \in 0..MaxDepth
  /\ held \in [Threads -> 0..MaxDepth]
  /\ rw \in [writer : Threads \cup {Free}, readers : Nat, waiting : Nat]

(* Never do two threads hold the mutex. *)
MutualExclusion == TypeOK /\ Cardinality({t \in Threads : held[t] > 0}) <= 1

(* Whoever waits in MUTEX_WAIT waits for a live thread that can still      *)
(* unlock or die: the word and the record name the same owner, and it does *)
(* not wait for this mutex itself.  A hand-over is never lost to a         *)
(* cancelled wait, an exit or a lock taken in between.                     *)
WaitersHaveOwner ==
  LET t == word[Mutex]
  IN  Waiters(Mutex) # {} =>
        /\ t \in Threads /\ Live(t) /\ sleeping[t] # Mutex
        /\ record[Mutex] = [kind |-> "mutex", owner |-> t]

(* No wakeup is lost: once pthread_cond_broadcast has returned, all of the *)
(* threads that had given up the mutex in condition_wait before it are on  *)
(* their way out, and after pthread_cond_signal at least one is, or a      *)
(* thread that began to wait meanwhile.                                    *)
Reached == \A t \in Threads :
  pc[t] \notin {"signalling", "broadcasting"} =>
    \A W \in unmet[t] : \E u \in W : sleeping[u] = NoWord

(* A writer has the read-write lock to itself, and the writers for which   *)
(* readers stand back are those that do wait: one that is interrupted,     *)
(* with the mutex or without, is not counted for ever.                     *)
RwExclusion ==
  /\ \A t, u \in Threads : grip[t] = "write" /\ t # u => grip[u] = "none"
  /\ rw.waiting = Cardinality({t \in Threads : Counted(t)})

(* What each kind of lock is for.                                          *)
Exclusion == MutualExclusion /\ RwExclusion

(* pthread_once returns when the initializer has run, once, though its     *)
(* waits may end for any reason.                                           *)
OnceOnly == ran <= 1 /\ \A t \in Threads : grip[t] = "once" => ran = 1

(* When nothing is under way and the lock is free, or the initializer has  *)
(* run, nobody sleeps for it; unless a writer has given up, which wakes no *)
(* one.                                                                    *)
Forgotten == {t \in Threads : sleeping[t] \in {Readers, Writers, Once}}
NobodyForgotten ==
  /\ rw.writer = Free /\ rw.readers = 0 /\ ~abandoned
  /\ \A t \in Threads \ Forgotten : pc[t] = "out"
  => Forgotten = {}


(* Whoever has locked the mutex can unlock it: pthread_mutex_unlock does   *)
(* not answer EPERM to the holder.                                         *)
HolderUnlocks == \A t \in Threads : status[t] # "EPERM"

=============================================================================
