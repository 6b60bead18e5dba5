-------------------------- MODULE Pthreads_proofs --------------------------
(***************************************************************************)
(* What the locks of the Axiom C library promise, for any number of        *)
(* threads, and whatever calls, timeouts, interruptions and wake-ups       *)
(* interleave.                                                             *)
(*                                                                         *)
(*   Typed        what the fields may be                                   *)
(*   ControlInv   where in the library a thread is, and doing what         *)
(*   KernelInv    who sleeps at which address, with which record           *)
(*   OnceInv      how far pthread_once is, as its word tells               *)
(*   HoldInv      whom the mutex word names, and who may use the mutex     *)
(*   RwInv        what the counts of the read-write lock count             *)
(*   SeenInv, DueInv  which sequences have been read, and whom a signal    *)
(*                owes a wake-up                                           *)
(*   TakenInv, ForgotInv  why a thread waits for the read-write lock, and  *)
(*                who will look at a lock that is free                     *)
(*                                                                         *)
(* Each is kept by a step given those it is listed after; a theorem about  *)
(* a property follows from the one that holds of the property's fields.    *)
(***************************************************************************)
EXTENDS Pthreads, FiniteSetTheorems, TLAPS

Locking == {"locking", "contending", "asked", "granted", "named"}
Unlocking == {"unlocking", "releasing", "released", "cleared"}
Looking == {"unlocking", "releasing", "released", "cleared", "sleepy"}
Places == Locking \cup Unlocking \cup
  {"out", "inside", "sleepy", "slept", "signalling", "broadcasting",
   "claiming", "initializing", "waking", "checking", "dozing"}

Doings == {"none", "rdlock", "tryrdlock", "wrlock", "trywrlock", "unlock",
           "interrupted rdlock", "interrupted wrlock"}

Statuses == {"OK", "BLOCKED", "TIMED_OUT", "WOULD_BLOCK", "INVALID_ARGUMENT",
             "PEER_DEAD", "ACCESS_DENIED", "CANCELLED", "DEAD", "EPERM"}

Grips == {"none", "read", "write", "once"}

Records == {NoRecord} \cup [kind : {"address", "mutex"}, owner : Threads \cup {Free}]

WordTyped ==
  /\ word \in [Words -> Threads \cup Nat]
  /\ word[Mutex] \in Threads \cup {Free}
  /\ \A a \in Words \ {Mutex} : word[a] \in Nat

KernelTyped ==
  /\ record \in [Words -> Records]
  /\ sleeping \in [Threads -> Words \cup {NoWord}]
  /\ status \in [Threads -> Statuses]

LibraryTyped ==
  /\ pc \in [Threads -> Places]
  /\ waits \in [Threads -> BOOLEAN]
  /\ seen \in [Threads -> Nat]
  /\ doing \in [Threads -> Doings]
  /\ grip \in [Threads -> Grips]
  /\ owner \in Threads \cup {Free}

Typed == WordTyped /\ KernelTyped /\ LibraryTyped


OncePlaces == {"claiming", "initializing", "waking", "checking", "dozing"}
Reading == {"rdlock", "interrupted rdlock"}
Interruptions == {"interrupted rdlock", "interrupted wrlock"}
Notifying == {"signalling", "broadcasting"}

(* What a thread is doing where, in each of the programs. *)
Control(t) ==
  /\ program # "rwlock" => doing[t] = "none"
  /\ program = "condition" => grip[t] = "none"
  /\ program = "once" => pc[t] \in {"out"} \cup OncePlaces /\ ~waits[t]
  /\ program # "once" => pc[t] \notin OncePlaces /\ grip[t] # "once"
  /\ pc[t] = "out" => ~waits[t] /\ doing[t] = "none"
  /\ pc[t] = "inside" => doing[t] # "none"
  /\ pc[t] \in {"sleepy", "slept"} => waits[t]
  /\ pc[t] \in Notifying => ~waits[t] /\ doing[t] \in {"none", "unlock"}
  /\ waits[t] => grip[t] = "none" /\ doing[t] \in {"none"} \cup Reading \cup Writing
  /\ doing[t] = "unlock" /\ pc[t] \in Locking \cup {"inside"} => grip[t] \in {"read", "write"}
  /\ doing[t] \notin {"none", "unlock"} /\ pc[t] \in Locking \cup {"inside"} => grip[t] = "none"
  /\ doing[t] \in Interruptions /\ pc[t] \in Locking \cup {"inside"} => waits[t]

ControlInv ==
  /\ \A t \in Threads : Control(t)
  /\ program \in {"condition", "rwlock", "once"}
  /\ program # "condition" => depth \in 0 .. 1

(* The five words of PthreadAssumption are five: no two of their addresses coincide. *)
LEMMA Distinct ==
  /\ Mutex \notin {Sequence, Readers, Writers, Once}
  /\ Sequence \notin {Readers, Writers, Once}
  /\ Readers \notin {Writers, Once} /\ Writers # Once
<1>1. ASSUME NEW a, NEW b, NEW c, NEW d
      PROVE  Cardinality({a, b, c, d}) # 5
  <2>1. {a, b} = {a} \cup {b} /\ {a, b, c} = {a, b} \cup {c} /\ {a, b, c, d} = {a, b, c} \cup {d}
    OBVIOUS
  <2>2. IsFiniteSet({a}) /\ Cardinality({a}) = 1
    BY FS_Singleton
  <2>3. IsFiniteSet({a, b}) /\ Cardinality({a, b}) \in 1 .. 2
    BY <2>1, <2>2, FS_AddElement
  <2>4. IsFiniteSet({a, b, c}) /\ Cardinality({a, b, c}) \in 1 .. 3
    BY <2>1, <2>3, FS_AddElement
  <2> QED BY <2>1, <2>4, FS_AddElement
<1>2. /\ Cardinality({Mutex, Sequence, Readers, Writers, Once}) = 5
      /\ \A a, b, c, d : {Mutex, Sequence, Readers, Writers, Once} # {a, b, c, d}
  BY <1>1, PthreadAssumption
<1>3. /\ {Mutex, Sequence, Readers, Writers, Once} # {Sequence, Readers, Writers, Once}
      /\ {Mutex, Sequence, Readers, Writers, Once} # {Mutex, Readers, Writers, Once}
      /\ {Mutex, Sequence, Readers, Writers, Once} # {Mutex, Sequence, Writers, Once}
      /\ {Mutex, Sequence, Readers, Writers, Once} # {Mutex, Sequence, Readers, Once}
  BY <1>2
<1> QED BY <1>3

(* Each of the five is a word, and the words are a finite set. *)
LEMMA WordTypes ==
  Mutex \in Words /\ Sequence \in Words /\ Readers \in Words /\ Writers \in Words /\ Once \in Words
BY PthreadAssumption

(* The domains of the library's functions, for steps that change one entry. *)
LEMMA Domains ==
  /\ {"locking", "contending", "asked", "granted", "named", "unlocking", "releasing",
      "released", "cleared", "out", "inside", "sleepy", "slept", "signalling",
      "broadcasting", "claiming", "initializing", "waking", "checking", "dozing"} \subseteq Places
  /\ {"none", "rdlock", "tryrdlock", "wrlock", "trywrlock", "unlock",
      "interrupted rdlock", "interrupted wrlock"} \subseteq Doings
  /\ {"none", "read", "write", "once"} \subseteq Grips
  /\ {"OK", "BLOCKED", "TIMED_OUT", "WOULD_BLOCK", "INVALID_ARGUMENT",
      "PEER_DEAD", "ACCESS_DENIED", "CANCELLED", "DEAD", "EPERM"} \subseteq Statuses
BY DEF Places, Doings, Grips, Statuses, Locking, Unlocking

(* The kinds of record the kernel makes are records. *)
LEMMA RecordTypes ==
  /\ NoRecord \in Records
  /\ \A t \in Threads \cup {Free}, kind \in {"address", "mutex"} : [kind |-> kind, owner |-> t] \in Records
BY DEF Records, NoRecord, Free

(* The fields are what they are declared to be when the process begins. *)
LEMMA TypedInit == Init => Typed
<1> SUFFICES ASSUME Init PROVE Typed
  OBVIOUS
<1> USE Domains, RecordTypes, WordTypes, FutexAssumption DEF Init, FutexInit, Free
<1>1. WordTyped
  BY DEF WordTyped
<1>2. KernelTyped
  BY DEF KernelTyped
<1>3. LibraryTyped
  BY DEF LibraryTyped
<1> QED BY <1>1, <1>2, <1>3 DEF Typed

(* A condition is a word that is not the mutex. *)
LEMMA ConditionTypes ==
  \A t : Condition(t) \in Conditions /\ Condition(t) \in Words /\ Condition(t) # Mutex /\ Condition(t) # Once
BY WordTypes, Distinct DEF Condition, Conditions

(* A step that leaves the kernel and the words alone leaves them typed. *)
LEMMA KeepTyped ==
  ASSUME KernelTyped, NEW a \in Words, NEW W, NEW r \in Records
  PROVE  Keep(a, W, r) \in Records
BY RecordTypes DEF Keep

(* Waking a set of threads with a status of the kernel keeps its tables typed. *)
LEMMA WakeTyped ==
  ASSUME KernelTyped, NEW t \in Threads, NEW W, NEW woken \in Statuses, NEW result \in Statuses,
         Wake(W, woken, t, result)
  PROVE  /\ sleeping' \in [Threads -> Words \cup {NoWord}]
         /\ status' \in [Threads -> Statuses]
BY DEF KernelTyped, Wake

(* Whatever a thread begins or gives up, its fields stay what they are.     *)
LEMMA GiveUpTyped ==
  ASSUME LibraryTyped, NEW t \in Threads, GiveUp(t), UNCHANGED <<seen, owner>>
  PROVE  LibraryTyped'
BY Domains DEF LibraryTyped, GiveUp, Leaves, Go

(* condition_wait reads the sequence of a condition into seen. *)
LEMMA StartWaitTyped ==
  ASSUME WordTyped, LibraryTyped, NEW t \in Threads, StartWait(t),
         UNCHANGED <<owner, doing, grip>>
  PROVE  LibraryTyped'
BY Domains, ConditionTypes DEF WordTyped, LibraryTyped, StartWait, Go

(* Returning from a call leaves the caller outside, and in no wait. *)
LEMMA DoneTyped ==
  ASSUME LibraryTyped, NEW t \in Threads, NEW g \in Grips, Done(t),
         grip' = grip \/ grip' = [grip EXCEPT ![t] = g],
         UNCHANGED <<owner, doing, seen>>
  PROVE  LibraryTyped'
BY Domains DEF LibraryTyped, Done, Go

(* sys_address_wait keeps the kernel's tables typed. *)
LEMMA FutexWaitTyped ==
  ASSUME Typed, NEW t \in Threads, NEW a \in Words \ {Mutex}, NEW x, FutexWait(t, a, x)
  PROVE  WordTyped' /\ KernelTyped'
<1> USE WordTypes, RecordTypes, Domains DEF FutexWait, Typed
<1>1. CASE Return(t, "WOULD_BLOCK") \/ Return(t, "INVALID_ARGUMENT")
  BY <1>1 DEF Return, WordTyped, KernelTyped
<1>2. CASE Sleep(t, a, "address", Free) /\ UNCHANGED word
  BY <1>2 DEF Sleep, WordTyped, KernelTyped
<1>3. CASE /\ status' = [status EXCEPT ![t] = "TIMED_OUT"]
           /\ record' = [record EXCEPT ![a] = Keep(a, {}, @)]
           /\ UNCHANGED <<word, sleeping>>
  <2>1. Keep(a, {}, record[a]) \in Records
    BY KeepTyped DEF KernelTyped
  <2> QED BY <1>3, <2>1 DEF WordTyped, KernelTyped
<1> QED BY <1>1, <1>2, <1>3

(* sys_address_wake keeps the kernel's tables typed. *)
LEMMA FutexWakeTyped ==
  ASSUME Typed, NEW t \in Threads, NEW a \in Words \ {Mutex}, NEW n, FutexWake(t, a, n)
  PROVE  WordTyped' /\ KernelTyped'
<1> USE WordTypes, RecordTypes, Domains DEF FutexWake, Typed
<1>1. CASE Return(t, "INVALID_ARGUMENT")
  BY <1>1 DEF Return, WordTyped, KernelTyped
<1>2. ASSUME NEW W \in SUBSET Waiters(a), Wake(W, "OK", t, "OK"),
             record' = [record EXCEPT ![a] = Keep(a, W, @)], UNCHANGED word
      PROVE  WordTyped' /\ KernelTyped'
  <2>1. Keep(a, W, record[a]) \in Records
    BY KeepTyped DEF KernelTyped
  <2> QED BY <1>2, <2>1, WakeTyped DEF WordTyped, KernelTyped
<1> QED BY <1>1, <1>2

(* sys_mutex_unlock keeps the kernel's tables and the mutex word typed. *)
LEMMA MutexUnlockTyped ==
  ASSUME Typed, NEW t \in Threads, MutexUnlock(t, Mutex)
  PROVE  WordTyped' /\ KernelTyped'
<1> USE WordTypes, RecordTypes, Domains DEF MutexUnlock, Typed
<1>1. CASE Return(t, "ACCESS_DENIED")
  BY <1>1 DEF Return, WordTyped, KernelTyped
<1>2. CASE /\ word' = [word EXCEPT ![Mutex] = Free]
           /\ record' = [record EXCEPT ![Mutex] = NoRecord]
           /\ status' = [status EXCEPT ![t] = "OK"]
           /\ UNCHANGED sleeping
  BY <1>2 DEF WordTyped, KernelTyped, Free
<1>3. ASSUME NEW next \in Waiters(Mutex), word' = [word EXCEPT ![Mutex] = next],
             Wake({next}, "OK", t, "OK"),
             record' = [record EXCEPT ![Mutex] = Handed(Mutex, next)]
      PROVE  WordTyped' /\ KernelTyped'
  <2>1. next \in Threads
    BY DEF Waiters
  <2>2. Handed(Mutex, next) \in Records
    BY <2>1, KeepTyped DEF Handed
  <2> QED BY <1>3, <2>1, <2>2, WakeTyped DEF WordTyped, KernelTyped
<1> QED BY <1>1, <1>2, <1>3 DEF Passed

(* Every call of the library and the kernel keeps the types, one case per action. *)
LEMMA TypedStep ==
  ASSUME Typed, NEW t \in Threads, Calls(t) PROVE Typed'
<1>a. WordTyped /\ KernelTyped /\ LibraryTyped
  BY DEF Typed
<1>1. CASE Lock(t)
  BY <1>1, <1>a, Domains, RecordTypes, ConditionTypes, WordTypes, Distinct DEF Typed,
       WordTyped, KernelTyped, LibraryTyped, Lock, Go, kernel, rwlock, library
<1>2. CASE CompareExchange(t)
  <2>1. WordTyped'
    BY <1>2, <1>a, Distinct, WordTypes DEF WordTyped, CompareExchange, At, Go, Awake, Live,
         GiveUp, Leaves, Counted, Writing, rwlock
  <2>2. KernelTyped'
    BY <1>2, <1>a, WordTypes, RecordTypes, Domains DEF WordTyped, KernelTyped, CompareExchange,
         At, Go, Awake, Live, GiveUp, Leaves, Counted, Writing, rwlock
  <2>3. LibraryTyped'
    <3>1. CASE GiveUp(t)
      BY <1>2, <3>1, <1>a, GiveUpTyped DEF CompareExchange
    <3>2. CASE ~GiveUp(t)
      BY <1>2, <3>2, <1>a, Domains DEF LibraryTyped, CompareExchange, Go, rwlock
    <3> QED BY <3>1, <3>2
  <2> QED BY <2>1, <2>2, <2>3 DEF Typed
<1>3. CASE Contend(t)
  <2>1. WordTyped'
    BY <1>3, <1>a, Distinct, WordTypes DEF WordTyped, Contend, At, Go, Awake, Live, MutexWait,
         Return, Sleep, library, rwlock
  <2>2. KernelTyped'
    BY <1>3, <1>a, WordTypes, RecordTypes, Domains DEF WordTyped, KernelTyped, Contend, At, Go,
         Awake, Live, MutexWait, Return, Sleep, library, rwlock
  <2>3. LibraryTyped'
    BY <1>3, <1>a, Domains, WordTypes, ConditionTypes DEF WordTyped, LibraryTyped, Contend, At,
         Go, Awake, Live, MutexWait, Return, Sleep, library, rwlock
  <2> QED BY <2>1, <2>2, <2>3 DEF Typed
<1>4. CASE Locked(t)
  <2>1. WordTyped'
    BY <1>4, <1>a, Distinct, WordTypes DEF WordTyped, Locked, At, Go, Awake, Live, GiveUp,
         Leaves, Counted, Writing, kernel, rwlock
  <2>2. KernelTyped'
    BY <1>4, <1>a, WordTypes, RecordTypes, Domains DEF WordTyped, KernelTyped, Locked, At, Go,
         Awake, Live, GiveUp, Leaves, Counted, Writing, kernel, rwlock
  <2>3. LibraryTyped'
    BY <1>4, <1>a, Domains, WordTypes, ConditionTypes DEF WordTyped, LibraryTyped, Locked, At,
         Go, Awake, Live, GiveUp, Leaves, Counted, Writing, kernel, rwlock
  <2> QED BY <2>1, <2>2, <2>3 DEF Typed
<1>5. CASE StoreOwner(t)
  BY <1>5, <1>a, Domains, RecordTypes, ConditionTypes, WordTypes, Distinct DEF Typed,
       WordTyped, KernelTyped, LibraryTyped, StoreOwner, Go, kernel, rwlock
<1>6. CASE StoreDepth(t)
  <2>1. WordTyped'
    BY <1>6, <1>a, Distinct, WordTypes DEF WordTyped, StoreDepth, At, Go, Awake, Live, Leaves,
         kernel, rwlock
  <2>2. KernelTyped'
    BY <1>6, <1>a, WordTypes, RecordTypes, Domains DEF WordTyped, KernelTyped, StoreDepth, At,
         Go, Awake, Live, Leaves, kernel, rwlock
  <2>3. LibraryTyped'
    BY <1>6, <1>a, Domains, WordTypes, ConditionTypes DEF WordTyped, LibraryTyped, StoreDepth,
         At, Go, Awake, Live, Leaves, kernel, rwlock
  <2> QED BY <2>1, <2>2, <2>3 DEF Typed
<1>7. CASE Unlock(t)
  BY <1>7, <1>a, Domains, RecordTypes, ConditionTypes, WordTypes, Distinct DEF Typed,
       WordTyped, KernelTyped, LibraryTyped, Unlock, Go, kernel, library, rwlock
<1>8. CASE Leave(t)
  <2>1. WordTyped'
    BY <1>8, <1>a, Distinct, WordTypes DEF WordTyped, Leave, At, Go, Awake, Live, GiveUp,
         Leaves, Counted, Writing, rwlock
  <2>2. KernelTyped'
    BY <1>8, <1>a, WordTypes, RecordTypes, Domains DEF WordTyped, KernelTyped, Leave, At, Go,
         Awake, Live, GiveUp, Leaves, Counted, Writing, rwlock
  <2>3. LibraryTyped'
    BY <1>8, <1>a, Domains, WordTypes, ConditionTypes DEF WordTyped, LibraryTyped, Leave, At,
         Go, Awake, Live, GiveUp, Leaves, Counted, Writing, rwlock
  <2> QED BY <2>1, <2>2, <2>3 DEF Typed
<1>9. CASE Release(t)
  <2>1. WordTyped' /\ KernelTyped'
    BY <1>9, MutexUnlockTyped, ConditionTypes, WordTypes, Distinct DEF Release
  <2>2. LibraryTyped'
    BY <1>9, <1>a, Domains DEF LibraryTyped, Release, At, Go, Awake, Live, GiveUp, Leaves,
         Counted, Writing, rwlock
  <2> QED BY <2>1, <2>2 DEF Typed
<1>10. CASE ClearOwner(t)
  BY <1>10, <1>a, Domains, RecordTypes, ConditionTypes, WordTypes, Distinct DEF Typed,
       WordTyped, KernelTyped, LibraryTyped, ClearOwner, Go, kernel, rwlock
<1>11. CASE ClearDepth(t)
  <2>1. WordTyped'
    BY <1>11, <1>a, Distinct, WordTypes DEF WordTyped, ClearDepth, At, Go, Awake, Live, Leaves,
         kernel, rwlock
  <2>2. KernelTyped'
    BY <1>11, <1>a, WordTypes, RecordTypes, Domains DEF WordTyped, KernelTyped, ClearDepth, At,
         Go, Awake, Live, Leaves, kernel, rwlock
  <2>3. LibraryTyped'
    BY <1>11, <1>a, Domains, WordTypes, ConditionTypes DEF WordTyped, LibraryTyped, ClearDepth,
         At, Go, Awake, Live, Leaves, kernel, rwlock
  <2> QED BY <2>1, <2>2, <2>3 DEF Typed
<1>12. CASE CondWait(t)
  BY <1>12, <1>a, Domains, RecordTypes, ConditionTypes, WordTypes, Distinct DEF Typed,
       WordTyped, KernelTyped, LibraryTyped, CondWait, Go, StartWait, kernel, rwlock
<1>13. CASE Doze(t)
  <2>1. WordTyped' /\ KernelTyped'
    BY <1>13, FutexWaitTyped, ConditionTypes, WordTypes, Distinct DEF Doze, Waits
  <2>2. LibraryTyped'
    BY <1>13, <1>a, Domains DEF LibraryTyped, Doze, At, Go, Awake, Live, Waits, Sleep, library,
         rwlock
  <2> QED BY <2>1, <2>2 DEF Typed
<1>14. CASE Relock(t)
  BY <1>14, <1>a, Domains, RecordTypes, ConditionTypes, WordTypes, Distinct DEF Typed,
       WordTyped, KernelTyped, LibraryTyped, Relock, Go, Interrupted, kernel
<1>15. CASE Change(t)
  <2>1. WordTyped'
    BY <1>15, <1>a, Distinct, WordTypes DEF WordTyped, Change, At, Go, Awake, Live, library,
         rwlock
  <2>2. KernelTyped'
    BY <1>15, <1>a, WordTypes, RecordTypes, Domains DEF WordTyped, KernelTyped, Change, At, Go,
         Awake, Live, library, rwlock
  <2>3. LibraryTyped'
    BY <1>15, <1>a, Domains, WordTypes, ConditionTypes DEF WordTyped, LibraryTyped, Change, At,
         Go, Awake, Live, library, rwlock
  <2> QED BY <2>1, <2>2, <2>3 DEF Typed
<1>16. CASE Notify(t)
  <2>1. WordTyped' /\ KernelTyped'
    BY <1>16, FutexWakeTyped, ConditionTypes, WordTypes, Distinct DEF Notify, Signalled
  <2>2. LibraryTyped'
    BY <1>16, <1>a, Domains DEF LibraryTyped, Notify, At, Go, Awake, Live, library, rwlock
  <2> QED BY <2>1, <2>2 DEF Typed
<1>17. CASE RwCall(t)
  <2>1. WordTyped'
    BY <1>17, <1>a, Distinct, WordTypes DEF WordTyped, RwCall, At, Go, Awake, Live, kernel
  <2>2. KernelTyped'
    BY <1>17, <1>a, WordTypes, RecordTypes, Domains DEF WordTyped, KernelTyped, RwCall, At, Go,
         Awake, Live, kernel
  <2>3. LibraryTyped'
    BY <1>17, <1>a, Domains, WordTypes, ConditionTypes DEF WordTyped, LibraryTyped, RwCall, At,
         Go, Awake, Live, kernel
  <2> QED BY <2>1, <2>2, <2>3 DEF Typed
<1>18. CASE RdLock(t)
  <2>1. WordTyped'
    BY <1>18, <1>a, Distinct, WordTypes DEF WordTyped, RdLock, At, Go, Awake, Live, StartWait,
         Done, kernel
  <2>2. KernelTyped'
    BY <1>18, <1>a, WordTypes, RecordTypes, Domains DEF WordTyped, KernelTyped, RdLock, At, Go,
         Awake, Live, StartWait, Done, kernel
  <2>3. LibraryTyped'
    <3>1. CASE StartWait(t) /\ UNCHANGED <<rw, grip>>
      BY <1>18, <3>1, <1>a, StartWaitTyped DEF RdLock
    <3>2. CASE Done(t) /\ UNCHANGED seen
      BY <1>18, <3>2, <1>a, Domains, DoneTyped DEF RdLock
    <3> QED BY <1>18, <3>1, <3>2 DEF RdLock
  <2> QED BY <2>1, <2>2, <2>3 DEF Typed
<1>19. CASE WrLock(t)
  <2>1. WordTyped'
    BY <1>19, <1>a, Distinct, WordTypes DEF WordTyped, WrLock, At, Go, Awake, Live, StartWait,
         Done, kernel
  <2>2. KernelTyped'
    BY <1>19, <1>a, WordTypes, RecordTypes, Domains DEF WordTyped, KernelTyped, WrLock, At, Go,
         Awake, Live, StartWait, Done, kernel
  <2>3. LibraryTyped'
    <3>1. CASE StartWait(t) /\ UNCHANGED <<grip, abandoned>>
      BY <1>19, <3>1, <1>a, StartWaitTyped DEF WrLock
    <3>2. CASE Done(t) /\ UNCHANGED seen
      BY <1>19, <3>2, <1>a, Domains, DoneTyped DEF WrLock
    <3> QED BY <1>19, <3>1, <3>2 DEF WrLock
  <2> QED BY <2>1, <2>2, <2>3 DEF Typed
<1>20. CASE RwUnlock(t)
  <2>1. WordTyped'
    BY <1>20, <1>a, Distinct, WordTypes DEF WordTyped, RwUnlock, At, Go, Awake, Live, Heirs,
         Done
  <2>2. KernelTyped'
    BY <1>20, <1>a, WordTypes, RecordTypes, Domains DEF WordTyped, KernelTyped, RwUnlock, At,
         Go, Awake, Live, Heirs, Done
  <2>3. LibraryTyped'
    BY <1>20, <1>a, Domains, WordTypes, ConditionTypes DEF WordTyped, LibraryTyped, RwUnlock,
         At, Go, Awake, Live, Heirs, Done
  <2> QED BY <2>1, <2>2, <2>3 DEF Typed
<1>21. CASE OnceCall(t)
  BY <1>21, <1>a, Domains, RecordTypes, ConditionTypes, WordTypes, Distinct DEF Typed,
       WordTyped, KernelTyped, LibraryTyped, OnceCall, Go, kernel
<1>22. CASE OnceClaim(t)
  <2>1. WordTyped'
    BY <1>22, <1>a, Distinct, WordTypes DEF WordTyped, OnceClaim, At, Go, Awake, Live, library,
         rwlock
  <2>2. KernelTyped'
    BY <1>22, <1>a, WordTypes, RecordTypes, Domains DEF WordTyped, KernelTyped, OnceClaim, At,
         Go, Awake, Live, library, rwlock
  <2>3. LibraryTyped'
    BY <1>22, <1>a, Domains, WordTypes, ConditionTypes DEF WordTyped, LibraryTyped, OnceClaim,
         At, Go, Awake, Live, library, rwlock
  <2> QED BY <2>1, <2>2, <2>3 DEF Typed
<1>23. CASE OnceStore(t)
  BY <1>23, <1>a, Domains, RecordTypes, ConditionTypes, WordTypes, Distinct DEF Typed,
       WordTyped, KernelTyped, LibraryTyped, OnceStore, Go, rwlock
<1>24. CASE OnceWake(t)
  <2>1. WordTyped' /\ KernelTyped'
    BY <1>24, FutexWakeTyped, ConditionTypes, WordTypes, Distinct DEF OnceWake
  <2>2. LibraryTyped'
    BY <1>24, <1>a, Domains DEF LibraryTyped, OnceWake, At, Go, Awake, Live
  <2> QED BY <2>1, <2>2 DEF Typed
<1>25. CASE OnceCheck(t)
  <2>1. WordTyped'
    BY <1>25, <1>a, Distinct, WordTypes DEF WordTyped, OnceCheck, At, Go, Awake, Live, kernel
  <2>2. KernelTyped'
    BY <1>25, <1>a, WordTypes, RecordTypes, Domains DEF WordTyped, KernelTyped, OnceCheck, At,
         Go, Awake, Live, kernel
  <2>3. LibraryTyped'
    BY <1>25, <1>a, Domains, WordTypes, ConditionTypes DEF WordTyped, LibraryTyped, OnceCheck,
         At, Go, Awake, Live, kernel
  <2> QED BY <2>1, <2>2, <2>3 DEF Typed
<1>26. CASE OnceDoze(t)
  <2>1. WordTyped' /\ KernelTyped'
    BY <1>26, FutexWaitTyped, ConditionTypes, WordTypes, Distinct DEF OnceDoze, Waits
  <2>2. LibraryTyped'
    BY <1>26, <1>a, Domains DEF LibraryTyped, OnceDoze, At, Go, Awake, Live, Waits, Sleep,
         library, rwlock
  <2> QED BY <2>1, <2>2 DEF Typed
<1> QED BY <1>1, <1>2, <1>3, <1>4, <1>5, <1>6, <1>7, <1>8, <1>9, <1>10, <1>11, <1>12, <1>13,
     <1>14, <1>15, <1>16, <1>17, <1>18, <1>19, <1>20, <1>21, <1>22, <1>23, <1>24, <1>25,
     <1>26 DEF Calls

(* ... and so does every step, a timeout, an interruption or a stutter included. *)
LEMMA TypedNext == Typed /\ [Next]_vars => Typed'
<1> SUFFICES ASSUME Typed, [Next]_vars PROVE Typed'
  OBVIOUS
<1> USE WordTypes, RecordTypes, Domains DEF Typed, WordTyped, KernelTyped, LibraryTyped
<1>1. ASSUME NEW t \in Threads, Calls(t) PROVE Typed'
  BY <1>1, TypedStep
<1>2. ASSUME NEW t \in Threads, Cancelled(t) \/ TimedOut(t), UNCHANGED <<pc, library>>
      PROVE  Typed'
  BY <1>2, WakeTyped DEF Cancelled, TimedOut, library, rwlock
<1>3. ASSUME NEW t \in Threads, ThreadExit(t), UNCHANGED <<pc, library>>
      PROVE  Typed'
  BY <1>3, WakeTyped DEF ThreadExit, library, rwlock
<1>4. CASE FutexReap /\ UNCHANGED <<pc, library>>
  BY <1>4, KeepTyped DEF FutexReap, library, rwlock
<1>5. CASE UNCHANGED vars
  BY <1>5 DEF vars, kernel, library, rwlock
<1> QED BY <1>1, <1>2, <1>3, <1>4, <1>5 DEF Next, Events

(* A call moves only the thread that makes it. *)
LEMMA Local ==
  ASSUME Typed, NEW t \in Threads, Calls(t), NEW u \in Threads, u # t
  PROVE  /\ Awake(t)
         /\ pc'[u] = pc[u] /\ waits'[u] = waits[u] /\ doing'[u] = doing[u]
         /\ grip'[u] = grip[u] /\ seen'[u] = seen[u]
<1> USE DEF Typed, LibraryTyped
<1>1. CASE Lock(t)
  BY <1>1 DEF Lock, At, Go, kernel, rwlock, library
<1>2. CASE CompareExchange(t)
  BY <1>2 DEF CompareExchange, At, Go, GiveUp, Leaves, rwlock
<1>3. CASE Contend(t)
  BY <1>3 DEF Contend, At, Go, library, rwlock
<1>4. CASE Locked(t)
  BY <1>4 DEF Locked, At, Go, GiveUp, Leaves, kernel, rwlock
<1>5. CASE StoreOwner(t)
  BY <1>5 DEF StoreOwner, At, Go, kernel, rwlock
<1>6. CASE StoreDepth(t)
  BY <1>6 DEF StoreDepth, At, Go, Leaves, kernel, rwlock
<1>7. CASE Unlock(t)
  BY <1>7 DEF Unlock, At, Go, kernel, library, rwlock
<1>8. CASE Leave(t)
  BY <1>8 DEF Leave, At, Go, GiveUp, Leaves, rwlock
<1>9. CASE Release(t)
  BY <1>9 DEF Release, At, Go, GiveUp, Leaves, rwlock
<1>10. CASE ClearOwner(t)
  BY <1>10 DEF ClearOwner, At, Go, kernel, rwlock
<1>11. CASE ClearDepth(t)
  BY <1>11 DEF ClearDepth, At, Go, Leaves, kernel, rwlock
<1>12. CASE CondWait(t)
  BY <1>12 DEF CondWait, At, Go, StartWait, kernel, rwlock
<1>13. CASE Doze(t)
  BY <1>13 DEF Doze, At, Go, library, rwlock
<1>14. CASE Relock(t)
  BY <1>14 DEF Relock, At, Go, kernel
<1>15. CASE Change(t)
  BY <1>15 DEF Change, At, Go, library, rwlock
<1>16. CASE Notify(t)
  BY <1>16 DEF Notify, At, Go, library, rwlock
<1>17. CASE RwCall(t)
  BY <1>17 DEF RwCall, At, Go, kernel
<1>18. CASE RdLock(t)
  BY <1>18 DEF RdLock, At, Go, StartWait, Done, kernel
<1>19. CASE WrLock(t)
  BY <1>19 DEF WrLock, At, Go, StartWait, Done, kernel
<1>20. CASE RwUnlock(t)
  BY <1>20 DEF RwUnlock, At, Go, Done
<1>21. CASE OnceCall(t)
  BY <1>21 DEF OnceCall, At, Go, kernel
<1>22. CASE OnceClaim(t)
  BY <1>22 DEF OnceClaim, At, Go, library, rwlock
<1>23. CASE OnceStore(t)
  BY <1>23 DEF OnceStore, At, Go, rwlock
<1>24. CASE OnceWake(t)
  BY <1>24 DEF OnceWake, At, Go
<1>25. CASE OnceCheck(t)
  BY <1>25 DEF OnceCheck, At, Go, kernel
<1>26. CASE OnceDoze(t)
  BY <1>26 DEF OnceDoze, At, Go, library, rwlock
<1> QED BY <1>1, <1>2, <1>3, <1>4, <1>5, <1>6, <1>7, <1>8, <1>9, <1>10, <1>11, <1>12, <1>13,
     <1>14, <1>15, <1>16, <1>17, <1>18, <1>19, <1>20, <1>21, <1>22, <1>23, <1>24, <1>25,
     <1>26 DEF Calls

(* Only a recursive lock, which the other programs do not use, is ever held
   more than once. *)
LEMMA DepthStep ==
  ASSUME ControlInv, NEW t \in Threads, Calls(t), program # "condition"
  PROVE  depth' \in 0 .. 1
<1>1. depth \in 0 .. 1
  BY DEF ControlInv
<1>2. depth' = depth \/ depth' = 0 \/ depth' = 1 \/ (depth > 1 /\ depth' = depth - 1)
  <2>1. CASE Lock(t)
    BY <2>1 DEF Lock
  <2>2. CASE CompareExchange(t)
    BY <2>2 DEF CompareExchange
  <2>3. CASE Contend(t)
    BY <2>3 DEF Contend, library
  <2>4. CASE Locked(t)
    BY <2>4 DEF Locked
  <2>5. CASE StoreOwner(t)
    BY <2>5 DEF StoreOwner
  <2>6. CASE StoreDepth(t)
    BY <2>6 DEF StoreDepth
  <2>7. CASE Unlock(t)
    BY <2>7 DEF Unlock, library
  <2>8. CASE Leave(t)
    BY <2>8 DEF Leave
  <2>9. CASE Release(t)
    BY <2>9 DEF Release
  <2>10. CASE ClearOwner(t)
    BY <2>10 DEF ClearOwner
  <2>11. CASE ClearDepth(t)
    BY <2>11 DEF ClearDepth
  <2>12. CASE CondWait(t)
    BY <2>12 DEF CondWait
  <2>13. CASE Doze(t)
    BY <2>13 DEF Doze, library
  <2>14. CASE Relock(t)
    BY <2>14 DEF Relock
  <2>15. CASE Change(t)
    BY <2>15 DEF Change, library
  <2>16. CASE Notify(t)
    BY <2>16 DEF Notify, library
  <2>17. CASE RwCall(t)
    BY <2>17 DEF RwCall
  <2>18. CASE RdLock(t)
    BY <2>18 DEF RdLock
  <2>19. CASE WrLock(t)
    BY <2>19 DEF WrLock
  <2>20. CASE RwUnlock(t)
    BY <2>20 DEF RwUnlock
  <2>21. CASE OnceCall(t)
    BY <2>21 DEF OnceCall
  <2>22. CASE OnceClaim(t)
    BY <2>22 DEF OnceClaim, library
  <2>23. CASE OnceStore(t)
    BY <2>23 DEF OnceStore
  <2>24. CASE OnceWake(t)
    BY <2>24 DEF OnceWake
  <2>25. CASE OnceCheck(t)
    BY <2>25 DEF OnceCheck
  <2>26. CASE OnceDoze(t)
    BY <2>26 DEF OnceDoze, library
  <2> QED BY <2>1, <2>2, <2>3, <2>4, <2>5, <2>6, <2>7, <2>8, <2>9, <2>10, <2>11, <2>12, <2>13,
       <2>14, <2>15, <2>16, <2>17, <2>18, <2>19, <2>20, <2>21, <2>22, <2>23, <2>24, <2>25,
       <2>26 DEF Calls
<1> QED BY <1>1, <1>2

(* A call moves its thread along the library's code: see Control. *)
LEMMA ControlStep ==
  ASSUME Typed, ControlInv, NEW t \in Threads, Calls(t), UNCHANGED program
  PROVE  ControlInv'
<1>b. depth > 1 => doing[t] = "none"
  <2>1. program # "condition" => depth \in 0 .. 1
    BY DEF ControlInv
  <2>2. depth > 1 => program = "condition"
    BY <2>1
  <2> QED BY <2>2 DEF ControlInv, Control
<1>a. ASSUME NEW u \in Threads, u # t PROVE Control(u)'
  <2>1. /\ pc'[u] = pc[u] /\ waits'[u] = waits[u] /\ doing'[u] = doing[u]
        /\ grip'[u] = grip[u]
    BY <1>a, Local
  <2>2. Control(u)
    BY DEF ControlInv
  <2>3. program' = program
    OBVIOUS
  <2> QED BY <2>1, <2>2, <2>3, Domains DEF Control, OncePlaces, Reading, Interruptions,
       Notifying, Locking, Writing
<1> SUFFICES Control(t)'
  <2>1. \A u \in Threads : Control(u)'
    BY <1>a
  <2> QED BY <2>1, DepthStep DEF ControlInv
<1> USE Domains DEF ControlInv, Control, OncePlaces, Reading, Interruptions, Notifying, Locking, Writing
<1> USE DEF Typed, LibraryTyped
<1>1. CASE Lock(t)
  BY <1>1 DEF Lock, At, Go, kernel, rwlock, library
<1>2. CASE CompareExchange(t)
  BY <1>2 DEF CompareExchange, At, Go, GiveUp, Leaves, Counted, rwlock
<1>3. CASE Contend(t)
  BY <1>3 DEF Contend, At, Go, library, rwlock
<1>4. CASE Locked(t)
  BY <1>4 DEF Locked, At, Go, GiveUp, Leaves, Counted, kernel, rwlock
<1>5. CASE StoreOwner(t)
  BY <1>5 DEF StoreOwner, At, Go, kernel, rwlock
<1>6. CASE StoreDepth(t)
  <2>1. /\ pc[t] = "named" /\ grip' = grip
        /\ \/ /\ doing[t] = "none" /\ pc'[t] = "out"
              /\ ~waits'[t] /\ doing'[t] = "none"
           \/ doing[t] # "none" /\ pc'[t] = "inside" /\ waits' = waits /\ doing' = doing
    BY <1>6 DEF StoreDepth, At, Go, Leaves
  <2> QED BY <2>1
<1>7. CASE Unlock(t)
  BY <1>7 DEF Unlock, At, Go, kernel, library, rwlock
<1>8. CASE Leave(t)
  <2>1. /\ pc[t] = "unlocking"
        /\ \/ pc'[t] = "out" /\ ~waits'[t] /\ doing'[t] = "none" /\ grip' = grip
           \/ /\ depth > 1 /\ pc'[t] = (IF waits[t] THEN "sleepy" ELSE "out")
              /\ waits' = waits /\ doing' = doing /\ grip' = grip
           \/ pc'[t] = "releasing" /\ waits' = waits /\ doing' = doing /\ grip' = grip
    BY <1>8 DEF Leave, At, Go, GiveUp, Leaves, Counted, rwlock
  <2> QED BY <2>1, <1>b
<1>9. CASE Release(t)
  BY <1>9 DEF Release, At, Go, GiveUp, Leaves, Counted, rwlock
<1>10. CASE ClearOwner(t)
  BY <1>10 DEF ClearOwner, At, Go, kernel, rwlock
<1>11. CASE ClearDepth(t)
  <2>1. /\ pc[t] = "cleared" /\ grip' = grip
        /\ \/ waits[t] /\ pc'[t] = "sleepy" /\ waits' = waits /\ doing' = doing
           \/ pc'[t] = "out" /\ ~waits'[t] /\ doing'[t] = "none"
    BY <1>11 DEF ClearDepth, At, Go, Leaves
  <2> QED BY <2>1
<1>12. CASE CondWait(t)
  BY <1>12 DEF CondWait, At, Go, StartWait, kernel, rwlock
<1>13. CASE Doze(t)
  BY <1>13 DEF Doze, At, Go, library, rwlock
<1>14. CASE Relock(t)
  BY <1>14 DEF Relock, At, Go, Interrupted, kernel
<1>15. CASE Change(t)
  BY <1>15 DEF Change, At, Go, library, rwlock
<1>16. CASE Notify(t)
  BY <1>16 DEF Notify, At, Go, library, rwlock
<1>17. CASE RwCall(t)
  <2>1. /\ pc[t] = "out" /\ pc'[t] = "locking" /\ waits' = waits /\ grip' = grip
        /\ program = "rwlock"
        /\ \/ grip[t] = "none" /\ doing'[t] \in {"rdlock", "tryrdlock", "wrlock", "trywrlock"}
           \/ grip[t] # "none" /\ doing'[t] = "unlock"
    BY <1>17 DEF RwCall, At, Go, kernel
  <2> QED BY <2>1 DEF Grips
<1>18. CASE RdLock(t)
  BY <1>18 DEF RdLock, At, Go, StartWait, Done, kernel
<1>19. CASE WrLock(t)
  BY <1>19 DEF WrLock, At, Go, StartWait, Done, kernel
<1>20. CASE RwUnlock(t)
  BY <1>20 DEF RwUnlock, At, Go, Done
<1>21. CASE OnceCall(t)
  BY <1>21 DEF OnceCall, At, Go, kernel
<1>22. CASE OnceClaim(t)
  BY <1>22 DEF OnceClaim, At, Go, library, rwlock
<1>23. CASE OnceStore(t)
  BY <1>23 DEF OnceStore, At, Go, rwlock
<1>24. CASE OnceWake(t)
  BY <1>24 DEF OnceWake, At, Go
<1>25. CASE OnceCheck(t)
  BY <1>25 DEF OnceCheck, At, Go, kernel
<1>26. CASE OnceDoze(t)
  BY <1>26 DEF OnceDoze, At, Go, library, rwlock
<1> QED BY <1>1, <1>2, <1>3, <1>4, <1>5, <1>6, <1>7, <1>8, <1>9, <1>10, <1>11, <1>12, <1>13,
     <1>14, <1>15, <1>16, <1>17, <1>18, <1>19, <1>20, <1>21, <1>22, <1>23, <1>24, <1>25,
     <1>26 DEF Calls

(* Every thread begins in its own code. *)
LEMMA ControlInit == Init => ControlInv
<1> SUFFICES ASSUME Init PROVE ControlInv
  OBVIOUS
<1>1. ASSUME NEW t \in Threads PROVE Control(t)
  BY DEF Init, Control, OncePlaces, Notifying, Locking, Interruptions
<1>2. program \in {"condition", "rwlock", "once"} /\ depth = 0
  BY PthreadAssumption DEF Init
<1> QED BY <1>1, <1>2 DEF ControlInv

(* The library's control flow is kept by every step. *)
LEMMA ControlNext == Typed /\ ControlInv /\ [Next]_vars => ControlInv'
<1> SUFFICES ASSUME Typed, ControlInv, [Next]_vars PROVE ControlInv'
  OBVIOUS
<1>1. ASSUME NEW t \in Threads, Calls(t), UNCHANGED program PROVE ControlInv'
  BY <1>1, ControlStep
<1>2. CASE UNCHANGED <<program, pc, library>>
  BY <1>2 DEF ControlInv, Control, library, rwlock
<1> QED BY <1>1, <1>2 DEF Next, Events, vars

(* Where thread t is when it sleeps at a. *)
SleepsRight(t, a) ==
  \/ a = Mutex /\ pc[t] = "asked"
  \/ a = Once /\ pc[t] = "checking"
  \/ a \in Conditions /\ pc[t] = "slept" /\ waits[t] /\ Condition(t) = a

KernelInv ==
  /\ record[Mutex] # NoRecord =>
       /\ word[Mutex] \in Threads /\ Live(word[Mutex])
       /\ record[Mutex] = [kind |-> "mutex", owner |-> word[Mutex]]
  /\ \A a \in Words \ {Mutex} : record[a].kind # "mutex"
  /\ \A t \in Threads : sleeping[t] # NoWord =>
       /\ record[sleeping[t]] # NoRecord
       /\ status[t] = "BLOCKED"
       /\ SleepsRight(t, sleeping[t])
  /\ \A t \in Threads : word[Mutex] = t => sleeping[t] # Mutex

(* Nobody sleeps when the process begins. *)
LEMMA KernelInit == Init => KernelInv
BY WordTypes, FutexAssumption DEF Init, FutexInit, KernelInv, NoRecord, Free

(* A thread that is awake does something that puts nobody to sleep or wakes
   anybody, and at most takes a free mutex. *)
LEMMA QuietKernel ==
  ASSUME Typed, KernelInv, NEW t \in Threads, Awake(t),
         UNCHANGED <<record, sleeping>>,
         word'[Mutex] = word[Mutex] \/ (word[Mutex] = Free /\ word'[Mutex] = t),
         \A u \in Threads \ {t} : /\ status'[u] = status[u] /\ pc'[u] = pc[u]
                                  /\ waits'[u] = waits[u] /\ doing'[u] = doing[u],
         status'[t] # "DEAD"
  PROVE  KernelInv'
<1>1. sleeping[t] = NoWord
  BY DEF Awake
<1>2. record[Mutex] # NoRecord => word'[Mutex] = word[Mutex]
  BY FutexAssumption DEF KernelInv, Free
<1>3. \A u \in Threads : Live(u) => Live(u)'
  BY DEF Live
<1>4. \A u \in Threads \ {t} : \A a : SleepsRight(u, a) => SleepsRight(u, a)'
  BY DEF SleepsRight, Condition
<1>5. ASSUME NEW u \in Threads, sleeping'[u] # NoWord
      PROVE  /\ record'[sleeping'[u]] # NoRecord
             /\ status'[u] = "BLOCKED"
             /\ SleepsRight(u, sleeping[u])'
  BY <1>5, <1>1, <1>4 DEF KernelInv
<1>6. \A u \in Threads : word'[Mutex] = u => sleeping'[u] # Mutex
  BY <1>1, WordTypes, FutexAssumption DEF KernelInv
<1>7. record'[Mutex] # NoRecord =>
       /\ word'[Mutex] \in Threads /\ Live(word[Mutex])'
       /\ record'[Mutex] = [kind |-> "mutex", owner |-> word'[Mutex]]
  BY <1>2, <1>3 DEF KernelInv
<1>8. \A a \in Words \ {Mutex} : record'[a].kind # "mutex"
  BY DEF KernelInv
<1> QED BY <1>5, <1>6, <1>7, <1>8 DEF KernelInv

(* A thread goes to sleep at an address, whose record is right for it. *)
LEMMA SleepKernel ==
  ASSUME Typed, KernelInv, NEW t \in Threads, Awake(t), NEW a \in Words, NEW kind, NEW o,
         Sleep(t, a, kind, o), UNCHANGED word, SleepsRight(t, a)',
         \A u \in Threads \ {t} : /\ pc'[u] = pc[u] /\ waits'[u] = waits[u]
                                  /\ doing'[u] = doing[u],
         \/ /\ a = Mutex /\ kind = "mutex" /\ o = word[Mutex]
            /\ o \in Threads \ {t} /\ Live(o)
         \/ a # Mutex /\ kind = "address"
  PROVE  KernelInv'
<1>1. /\ sleeping' = [sleeping EXCEPT ![t] = a]
      /\ status' = [status EXCEPT ![t] = "BLOCKED"]
      /\ record' = [record EXCEPT ![a] = [kind |-> kind, owner |-> o]]
      /\ sleeping[t] = NoWord
  BY DEF Sleep, Awake
<1>2. record'[a] = [kind |-> kind, owner |-> o] /\ record'[a] # NoRecord
  BY <1>1 DEF Typed, KernelTyped, NoRecord
<1>3. \A b \in Words \ {a} : record'[b] = record[b]
  BY <1>1 DEF Typed, KernelTyped
<1>4. \A u \in Threads : Live(u) => Live(u)'
  BY <1>1 DEF Live, Typed, KernelTyped
<1>5. \A u \in Threads \ {t} : \A b : SleepsRight(u, b) => SleepsRight(u, b)'
  BY DEF SleepsRight, Condition
<1>6. ASSUME NEW u \in Threads, sleeping'[u] # NoWord
      PROVE  /\ record'[sleeping'[u]] # NoRecord
             /\ status'[u] = "BLOCKED"
             /\ SleepsRight(u, sleeping[u])'
  <2>1. CASE u = t
    BY <1>1, <1>2, <2>1 DEF Typed, KernelTyped
  <2>2. CASE u # t
    <3>1. sleeping'[u] = sleeping[u] /\ status'[u] = status[u] /\ sleeping[u] \in Words
      BY <1>1, <1>6, <2>2 DEF Typed, KernelTyped
    <3>2. record'[sleeping[u]] # NoRecord
      BY <1>2, <1>3, <1>6, <3>1 DEF KernelInv
    <3> QED BY <1>5, <1>6, <2>2, <3>1, <3>2 DEF KernelInv
  <2> QED BY <2>1, <2>2
<1>7. \A u \in Threads : word'[Mutex] = u => sleeping'[u] # Mutex
  BY <1>1 DEF KernelInv, Typed, KernelTyped
<1>8. record'[Mutex] # NoRecord =>
       /\ word'[Mutex] \in Threads /\ Live(word[Mutex])'
       /\ record'[Mutex] = [kind |-> "mutex", owner |-> word'[Mutex]]
  BY <1>2, <1>3, <1>4, WordTypes DEF KernelInv
<1>9. \A b \in Words \ {Mutex} : record'[b].kind # "mutex"
  BY <1>2, <1>3 DEF KernelInv
<1> QED BY <1>6, <1>7, <1>8, <1>9 DEF KernelInv

(* Some wake up, and those that sleep on keep their records. *)
LEMMA FewerSleep ==
  ASSUME Typed, KernelInv, UNCHANGED word,
         \A u \in Threads : sleeping'[u] # NoWord =>
           /\ sleeping'[u] = sleeping[u] /\ status'[u] = status[u] /\ pc'[u] = pc[u]
           /\ waits'[u] = waits[u] /\ doing'[u] = doing[u]
           /\ record'[sleeping[u]] = record[sleeping[u]],
         \A a \in Words : record'[a] = record[a] \/ record'[a] = NoRecord,
         record'[Mutex] # NoRecord => (Live(word[Mutex]) => Live(word[Mutex])')
  PROVE  KernelInv'
<1>1. \A u \in Threads : sleeping'[u] # NoWord =>
        (SleepsRight(u, sleeping[u]) => SleepsRight(u, sleeping[u])')
  BY DEF SleepsRight, Condition
<1>2. ASSUME NEW u \in Threads, sleeping'[u] # NoWord
      PROVE  /\ record'[sleeping'[u]] # NoRecord
             /\ status'[u] = "BLOCKED"
             /\ SleepsRight(u, sleeping[u])'
  BY <1>1, <1>2 DEF KernelInv
<1>3. \A u \in Threads : word'[Mutex] = u => sleeping'[u] # Mutex
  BY WordTypes, FutexAssumption DEF KernelInv
<1>4. record'[Mutex] # NoRecord =>
       /\ word'[Mutex] \in Threads /\ Live(word[Mutex])'
       /\ record'[Mutex] = [kind |-> "mutex", owner |-> word'[Mutex]]
  BY WordTypes DEF KernelInv
<1>5. \A a \in Words \ {Mutex} : record'[a].kind # "mutex"
  BY DEF KernelInv, NoRecord
<1> QED BY <1>2, <1>3, <1>4, <1>5 DEF KernelInv

(* sys_address_wait puts the caller to sleep only at the place of its own code that
   sleeps at that address, with the record of that address. *)
LEMMA FutexWaitKernel ==
  ASSUME Typed, KernelInv, NEW t \in Threads, Awake(t), NEW a \in Words \ {Mutex}, NEW x,
         FutexWait(t, a, x),
         \/ a = Once /\ pc'[t] = "checking"
         \/ a \in Conditions /\ pc'[t] = "slept" /\ waits'[t] /\ Condition(t)' = a,
         \A u \in Threads \ {t} : /\ pc'[u] = pc[u] /\ waits'[u] = waits[u]
                                  /\ doing'[u] = doing[u]
  PROVE  KernelInv'
<1>1. CASE Return(t, "WOULD_BLOCK") \/ Return(t, "INVALID_ARGUMENT")
  <2>1. /\ UNCHANGED <<record, sleeping>> /\ word' = word /\ status'[t] # "DEAD"
        /\ \A u \in Threads \ {t} : status'[u] = status[u]
    BY <1>1 DEF Return, Typed, KernelTyped
  <2> QED BY <2>1, QuietKernel
<1>2. CASE Sleep(t, a, "address", Free) /\ UNCHANGED word
  <2>1. SleepsRight(t, a)'
    BY DEF SleepsRight
  <2> QED BY <1>2, <2>1, SleepKernel
<1>3. CASE /\ status' = [status EXCEPT ![t] = "TIMED_OUT"]
           /\ record' = [record EXCEPT ![a] = Keep(a, {}, @)]
           /\ UNCHANGED <<word, sleeping>>
  <2>1. \A u \in Threads : sleeping[u] # NoWord => u # t
    BY DEF Awake
  <2>2. ASSUME NEW u \in Threads, sleeping[u] # NoWord
        PROVE  record'[sleeping[u]] = record[sleeping[u]]
    BY <1>3, <2>2 DEF Keep, Waiters, Typed, KernelTyped
  <2>3. \A b \in Words : record'[b] = record[b] \/ record'[b] = NoRecord
    BY <1>3 DEF Keep, Typed, KernelTyped
  <2>4. \A u \in Threads : Live(u) => Live(u)'
    BY <1>3 DEF Live, Typed, KernelTyped
  <2>5. record'[Mutex] # NoRecord => (Live(word[Mutex]) => Live(word[Mutex])')
    BY <1>3, <2>3, <2>4, WordTypes DEF KernelInv
  <2>6. \A u \in Threads \ {t} : status'[u] = status[u]
    BY <1>3 DEF Typed, KernelTyped
  <2> QED BY <1>3, <2>1, <2>2, <2>3, <2>5, <2>6, FewerSleep
<1> QED BY <1>1, <1>2, <1>3 DEF FutexWait

(* sys_address_wake leaves the records of those that sleep on as they are. *)
LEMMA FutexWakeKernel ==
  ASSUME Typed, KernelInv, NEW t \in Threads, Awake(t), NEW a \in Words \ {Mutex}, NEW n,
         FutexWake(t, a, n),
         \A u \in Threads \ {t} : /\ pc'[u] = pc[u] /\ waits'[u] = waits[u]
                                  /\ doing'[u] = doing[u]
  PROVE  KernelInv'
<1>1. CASE Return(t, "INVALID_ARGUMENT")
  <2>1. /\ UNCHANGED <<record, sleeping>> /\ word' = word /\ status'[t] # "DEAD"
        /\ \A u \in Threads \ {t} : status'[u] = status[u]
    BY <1>1 DEF Return, Typed, KernelTyped
  <2> QED BY <2>1, QuietKernel
<1>2. ASSUME NEW W \in SUBSET Waiters(a), Wake(W, "OK", t, "OK"),
             record' = [record EXCEPT ![a] = Keep(a, W, @)], UNCHANGED word
      PROVE  KernelInv'
  <2>1. ASSUME NEW u \in Threads, sleeping'[u] # NoWord
        PROVE  /\ u # t /\ u \notin W /\ sleeping'[u] = sleeping[u] /\ status'[u] = status[u]
    BY <1>2, <2>1 DEF Wake, Awake
  <2>2. ASSUME NEW u \in Threads, sleeping'[u] # NoWord
        PROVE  record'[sleeping[u]] = record[sleeping[u]]
    BY <1>2, <2>1, <2>2 DEF Keep, Waiters, Typed, KernelTyped
  <2>3. \A b \in Words : record'[b] = record[b] \/ record'[b] = NoRecord
    BY <1>2 DEF Keep, Typed, KernelTyped
  <2>4. \A u \in Threads : Live(u) => Live(u)'
    BY <1>2 DEF Live, Wake
  <2>5. record'[Mutex] # NoRecord => (Live(word[Mutex]) => Live(word[Mutex])')
    BY <1>2, <2>3, <2>4, WordTypes DEF KernelInv
  <2> QED BY <1>2, <2>1, <2>2, <2>3, <2>5, FewerSleep
<1> QED BY <1>1, <1>2 DEF FutexWake

(* sys_mutex_unlock hands the mutex to one that waits for it, or frees it when none
   does: whoever sleeps on keeps a record that names a living owner. *)
LEMMA MutexUnlockKernel ==
  ASSUME Typed, KernelInv, NEW t \in Threads, Awake(t), MutexUnlock(t, Mutex),
         \A u \in Threads \ {t} : /\ pc'[u] = pc[u] /\ waits'[u] = waits[u]
                                  /\ doing'[u] = doing[u]
  PROVE  KernelInv'
<1>a. sleeping[t] = NoWord
  BY DEF Awake
<1>b. Mutex \in Words
  BY WordTypes
<1>1. CASE Return(t, "ACCESS_DENIED")
  <2>1. /\ UNCHANGED <<record, sleeping>> /\ word' = word /\ status'[t] # "DEAD"
        /\ \A u \in Threads \ {t} : status'[u] = status[u]
    BY <1>1 DEF Return, Typed, KernelTyped
  <2> QED BY <2>1, QuietKernel
<1>2. CASE /\ Waiters(Mutex) = {}
           /\ word' = [word EXCEPT ![Mutex] = Free]
           /\ record' = [record EXCEPT ![Mutex] = NoRecord]
           /\ status' = [status EXCEPT ![t] = "OK"]
           /\ UNCHANGED sleeping
  <2>1. \A u \in Threads : sleeping[u] # Mutex
    BY <1>2 DEF Waiters
  <2>2. record'[Mutex] = NoRecord /\ \A a \in Words \ {Mutex} : record'[a] = record[a]
    BY <1>2, <1>b DEF Typed, KernelTyped
  <2>3. ASSUME NEW u \in Threads, sleeping'[u] # NoWord
        PROVE  /\ record'[sleeping'[u]] # NoRecord
               /\ status'[u] = "BLOCKED"
               /\ SleepsRight(u, sleeping[u])'
    <3>1. u # t /\ sleeping'[u] = sleeping[u] /\ status'[u] = status[u] /\ sleeping[u] \in Words \ {Mutex}
      BY <1>2, <2>1, <2>3, <1>a DEF Typed, KernelTyped
    <3>2. SleepsRight(u, sleeping[u]) => SleepsRight(u, sleeping[u])'
      BY <3>1 DEF SleepsRight, Condition
    <3> QED BY <3>1, <3>2, <2>2, <2>3 DEF KernelInv
  <2> QED BY <2>1, <2>2, <2>3, <1>2 DEF KernelInv
<1>3. ASSUME NEW next \in Waiters(Mutex), word' = [word EXCEPT ![Mutex] = next],
             Wake({next}, "OK", t, "OK"),
             record' = [record EXCEPT ![Mutex] = Handed(Mutex, next)]
      PROVE  KernelInv'
  <2>1. next \in Threads /\ word'[Mutex] = next /\ sleeping'[next] = NoWord /\ Live(next)'
    BY <1>3, <1>b DEF Waiters, Wake, Typed, WordTyped, Live
  <2>2. /\ record'[Mutex] = Handed(Mutex, next)
        /\ \A a \in Words \ {Mutex} : record'[a] = record[a]
    BY <1>3, <1>b DEF Typed, KernelTyped
  <2>3. ASSUME NEW u \in Threads, sleeping'[u] # NoWord
        PROVE  /\ record'[sleeping'[u]] # NoRecord
               /\ status'[u] = "BLOCKED"
               /\ SleepsRight(u, sleeping[u])'
    <3>1. u # t /\ u # next /\ sleeping'[u] = sleeping[u] /\ status'[u] = status[u] /\ sleeping[u] \in Words
      BY <1>3, <2>3, <1>a DEF Wake, Typed, KernelTyped
    <3>2. SleepsRight(u, sleeping[u]) => SleepsRight(u, sleeping[u])'
      BY <3>1 DEF SleepsRight, Condition
    <3>3. sleeping[u] = Mutex => record'[Mutex] # NoRecord
      BY <2>2, <3>1 DEF Handed, Keep, Waiters, NoRecord
    <3> QED BY <3>1, <3>2, <3>3, <2>2, <2>3 DEF KernelInv
  <2>4. record'[Mutex] # NoRecord => record'[Mutex] = [kind |-> "mutex", owner |-> word'[Mutex]]
    BY <2>1, <2>2 DEF Handed, Keep
  <2>5. \A u \in Threads : word'[Mutex] = u => sleeping'[u] # Mutex
    BY <2>1, <1>b, FutexAssumption
  <2>6. \A a \in Words \ {Mutex} : record'[a].kind # "mutex"
    BY <2>2 DEF KernelInv
  <2> QED BY <2>1, <2>3, <2>4, <2>5, <2>6 DEF KernelInv
<1> QED BY <1>1, <1>2, <1>3 DEF MutexUnlock, Passed

(* sys_mutex_lock has the caller wait for the owner its word names, or take it. *)
LEMMA MutexWaitKernel ==
  ASSUME Typed, KernelInv, NEW t \in Threads, Awake(t), MutexWait(t, Mutex), pc'[t] = "asked",
         \A u \in Threads \ {t} : /\ pc'[u] = pc[u] /\ waits'[u] = waits[u]
                                  /\ doing'[u] = doing[u]
  PROVE  KernelInv'
<1>b. Mutex \in Words
  BY WordTypes
<1>1. CASE Return(t, "PEER_DEAD") \/ Return(t, "INVALID_ARGUMENT")
  <2>1. /\ UNCHANGED <<record, sleeping>> /\ word' = word /\ status'[t] # "DEAD"
        /\ \A u \in Threads \ {t} : status'[u] = status[u]
    BY <1>1 DEF Return, Typed, KernelTyped
  <2> QED BY <2>1, QuietKernel
<1>2. CASE /\ word[Mutex] = Free
           /\ word' = [word EXCEPT ![Mutex] = t]
           /\ status' = [status EXCEPT ![t] = "OK"]
           /\ UNCHANGED <<record, sleeping>>
  <2>1. /\ UNCHANGED <<record, sleeping>> /\ word'[Mutex] = t /\ status'[t] # "DEAD"
        /\ \A u \in Threads \ {t} : status'[u] = status[u]
    BY <1>2, <1>b DEF Typed, KernelTyped, WordTyped
  <2> QED BY <1>2, <2>1, QuietKernel
<1>3. CASE /\ Sleep(t, Mutex, "mutex", word[Mutex]) /\ UNCHANGED word
           /\ word[Mutex] \in Threads /\ Live(word[Mutex]) /\ word[Mutex] # t
  <2>1. SleepsRight(t, Mutex)'
    BY DEF SleepsRight
  <2> QED BY <1>3, <1>b, <2>1, SleepKernel
<1> QED BY <1>1, <1>2, <1>3 DEF MutexWait, Typed, WordTyped

(* Every call keeps what the kernel's tables say of the sleepers. *)
LEMMA KernelStep ==
  ASSUME Typed, ControlInv, KernelInv, NEW t \in Threads, Calls(t)
  PROVE  KernelInv'
<1>a. Awake(t)
  BY Local DEF Calls, At, Lock, CompareExchange, Contend, Locked, StoreOwner, StoreDepth,
       Unlock, Leave, Release, ClearOwner, ClearDepth, CondWait, Doze, Relock, Change, Notify,
       RwCall, RdLock, WrLock, RwUnlock, OnceCall, OnceClaim, OnceStore, OnceWake, OnceCheck,
       OnceDoze
<1>b. \A u \in Threads \ {t} : /\ pc'[u] = pc[u] /\ waits'[u] = waits[u]
                               /\ doing'[u] = doing[u]
  BY Local
<1>c. status[t] # "DEAD"
  BY <1>a DEF Awake, Live
<1>1. CASE kernel' = kernel
  BY <1>1, <1>a, <1>b, <1>c, QuietKernel DEF kernel
<1>2. CASE CompareExchange(t)
  <2>1. /\ UNCHANGED <<record, sleeping, status>>
        /\ word'[Mutex] = word[Mutex] \/ (word[Mutex] = Free /\ word'[Mutex] = t)
    BY <1>2, WordTypes DEF CompareExchange, Typed, WordTyped
  <2> QED BY <2>1, <1>a, <1>b, <1>c, QuietKernel
<1>3. CASE Contend(t)
  <2>1. pc'[t] = "asked"
    BY <1>3 DEF Contend, Go, Typed, LibraryTyped
  <2> QED BY <1>3, <1>a, <1>b, <2>1, MutexWaitKernel DEF Contend
<1>4. CASE Leave(t)
  <2>1. /\ UNCHANGED <<record, sleeping>> /\ word' = word /\ status'[t] # "DEAD"
        /\ \A u \in Threads \ {t} : status'[u] = status[u]
    BY <1>4, <1>c DEF Leave, Typed, KernelTyped
  <2> QED BY <2>1, <1>a, <1>b, QuietKernel
<1>5. CASE Release(t)
  BY <1>5, <1>a, <1>b, MutexUnlockKernel DEF Release
<1>6. CASE Doze(t)
  <2>1. pc'[t] = "slept" /\ waits'[t] /\ Condition(t)' = Condition(t)
    BY <1>6 DEF Doze, At, Go, library, rwlock, Condition, ControlInv, Control, Typed,
         LibraryTyped
  <2>2. Condition(t) \in Conditions /\ Condition(t) \in Words \ {Mutex}
    BY ConditionTypes
  <2> QED BY <1>6, <1>a, <1>b, <2>1, <2>2, FutexWaitKernel DEF Doze, Waits
<1>7. CASE OnceDoze(t)
  <2>1. pc'[t] = "checking" /\ Once \in Words \ {Mutex}
    BY <1>7, WordTypes, Distinct DEF OnceDoze, Go, Typed, LibraryTyped
  <2> QED BY <1>7, <1>a, <1>b, <2>1, FutexWaitKernel DEF OnceDoze, Waits
<1>8. CASE Notify(t)
  <2>1. Signalled(t, pc[t]) \in Words \ {Mutex}
    BY WordTypes, Distinct DEF Signalled
  <2> QED BY <1>8, <1>a, <1>b, <2>1, FutexWakeKernel DEF Notify
<1>9. CASE OnceWake(t)
  BY <1>9, <1>a, <1>b, WordTypes, Distinct, FutexWakeKernel DEF OnceWake
<1>10. CASE Change(t) \/ RwUnlock(t) \/ OnceClaim(t) \/ OnceStore(t)
  <2>1. UNCHANGED <<record, sleeping, status>> /\ word'[Mutex] = word[Mutex]
    BY <1>10, Distinct, WordTypes DEF Change, RwUnlock, Heirs, OnceClaim, OnceStore, Typed,
         WordTyped
  <2> QED BY <2>1, <1>a, <1>b, <1>c, QuietKernel
<1> QED BY <1>1, <1>2, <1>3, <1>4, <1>5, <1>6, <1>7, <1>8, <1>9, <1>10 DEF Calls, Lock, Locked,
     StoreOwner, StoreDepth, Unlock, ClearOwner, ClearDepth, CondWait, Relock, RwCall, RdLock,
     WrLock, OnceCall, OnceCheck

(* A timeout and an interruption end one wait and change no other. *)
LEMMA KernelEvents ==
  ASSUME Typed, KernelInv, Events
  PROVE  KernelInv'
<1> USE DEF library, rwlock
<1>1. ASSUME NEW t \in Threads, Cancelled(t) \/ TimedOut(t), UNCHANGED <<pc, library>>
      PROVE  KernelInv'
  <2>1. UNCHANGED <<word, record>>
    BY <1>1 DEF Cancelled, TimedOut
  <2>2. \A u \in Threads : sleeping'[u] # NoWord =>
          u # t /\ sleeping'[u] = sleeping[u] /\ status'[u] = status[u]
    BY <1>1 DEF Cancelled, TimedOut, Wake
  <2>3. \A u \in Threads : Live(u) => Live(u)'
    BY <1>1 DEF Cancelled, TimedOut, Wake, Live
  <2>4. record'[Mutex] # NoRecord => (Live(word[Mutex]) => Live(word[Mutex])')
    BY <2>1, <2>3 DEF KernelInv
  <2> QED BY <1>1, <2>1, <2>2, <2>4, FewerSleep
<1>2. ASSUME NEW t \in Threads, ThreadExit(t), UNCHANGED <<pc, library>>
      PROVE  KernelInv'
  <2>1. /\ Awake(t) /\ UNCHANGED word
        /\ \A a \in Words : record'[a] = IF record[a] = [kind |-> "mutex", owner |-> t]
                                          THEN NoRecord ELSE record[a]
    BY <1>2 DEF ThreadExit
  <2>2. ASSUME NEW u \in Threads, sleeping'[u] # NoWord
        PROVE  /\ u # t /\ u \notin Bereaved(t)
               /\ sleeping'[u] = sleeping[u] /\ status'[u] = status[u]
    BY <1>2, <2>1, <2>2 DEF ThreadExit, Wake, Awake
  <2>3. ASSUME NEW u \in Threads, sleeping'[u] # NoWord
        PROVE  record'[sleeping[u]] = record[sleeping[u]]
    <3>1. sleeping[u] \in Words /\ record[sleeping[u]] # [kind |-> "mutex", owner |-> t]
      BY <2>2, <2>3 DEF Bereaved, Typed, KernelTyped
    <3> QED BY <3>1, <2>1
  <2>4. \A u \in Threads \ {t} : Live(u) => Live(u)'
    BY <1>2 DEF ThreadExit, Wake, Live
  <2>5. record'[Mutex] # NoRecord => word[Mutex] # t
    BY <2>1, WordTypes DEF KernelInv
  <2>6. record'[Mutex] # NoRecord => word[Mutex] \in Threads
    BY <2>1, WordTypes DEF KernelInv
  <2>7. record'[Mutex] # NoRecord => (Live(word[Mutex]) => Live(word[Mutex])')
    <3>1. word'[Mutex] = word[Mutex]
      BY <2>1
    <3> QED BY <2>4, <2>5, <2>6, <3>1 DEF Live
  <2>8. \A a \in Words : record'[a] = record[a] \/ record'[a] = NoRecord
    BY <2>1
  <2> QED BY <1>2, <2>1, <2>2, <2>3, <2>7, <2>8, FewerSleep
<1>3. CASE FutexReap /\ UNCHANGED <<pc, library>>
  <2>1. \A a \in Words : record'[a] = Keep(a, {}, record[a])
    BY <1>3 DEF FutexReap
  <2>2. ASSUME NEW u \in Threads, sleeping[u] # NoWord
        PROVE  record'[sleeping[u]] = record[sleeping[u]]
    BY <2>1, <2>2 DEF Keep, Waiters, Typed, KernelTyped
  <2>3. \A a \in Words : record'[a] = record[a] \/ record'[a] = NoRecord
    BY <2>1 DEF Keep
  <2>4. UNCHANGED <<word, sleeping, status>>
    BY <1>3 DEF FutexReap
  <2>5. record'[Mutex] # NoRecord => (Live(word[Mutex]) => Live(word[Mutex])')
    BY <2>4 DEF Live
  <2> QED BY <1>3, <2>2, <2>3, <2>4, <2>5, FewerSleep
<1> QED BY <1>1, <1>2, <1>3 DEF Events

(* The kernel's tables stay right on every step. *)
LEMMA KernelNext == Typed /\ ControlInv /\ KernelInv /\ [Next]_vars => KernelInv'
<1> SUFFICES ASSUME Typed, ControlInv, KernelInv, [Next]_vars PROVE KernelInv'
  OBVIOUS
<1>1. ASSUME NEW t \in Threads, Calls(t) PROVE KernelInv'
  BY <1>1, KernelStep
<1>2. CASE UNCHANGED vars
  BY <1>2 DEF vars, kernel, library, rwlock, KernelInv, Live, SleepsRight, Condition
<1> QED BY <1>1, <1>2, KernelEvents DEF Next

Safe == Typed /\ ControlInv /\ KernelInv

(* Types, control flow and the kernel's tables hold in every reachable state. *)
LEMMA SafeAlways == Spec => []Safe
<1>1. Init => Safe
  BY TypedInit, ControlInit, KernelInit DEF Safe
<1>2. Safe /\ [Next]_vars => Safe'
  BY TypedNext, ControlNext, KernelNext DEF Safe
<1> QED BY <1>1, <1>2, PTL DEF Spec

(* Whoever sleeps in sys_mutex_lock sleeps on a mutex whose record names an owner that
   has not finished with it, for every number of threads: sys_mutex_unlock never leaves
   a waiter behind on a free mutex (sw/kernel/process.c). *)
THEOREM WaitersHaveOwnerAlways == Spec => []WaitersHaveOwner
<1>1. KernelInv => WaitersHaveOwner
  <2> SUFFICES ASSUME KernelInv, NEW u \in Threads, sleeping[u] = Mutex
               PROVE  /\ word[Mutex] \in Threads /\ Live(word[Mutex])
                      /\ sleeping[word[Mutex]] # Mutex
                      /\ record[Mutex] = [kind |-> "mutex", owner |-> word[Mutex]]
    BY DEF WaitersHaveOwner, Waiters
  <2>1. record[Mutex] # NoRecord
    BY WordTypes, FutexAssumption DEF KernelInv
  <2> QED BY <2>1 DEF KernelInv
<1> QED BY <1>1, SafeAlways, PTL DEF Safe

(* The initializer's progress, as the word of pthread_once tells it. *)
OnceInv ==
  /\ program # "once" => word[Once] = 0
  /\ word[Once] \in {0, 1, 2}
  /\ ran = IF word[Once] = 2 THEN 1 ELSE 0
  /\ \A t \in Threads :
       /\ pc[t] = "initializing" => word[Once] = 1
       /\ pc[t] = "waking" => word[Once] = 2
       /\ grip[t] = "once" => word[Once] = 2
  /\ \A t, u \in Threads : pc[t] = "initializing" /\ pc[u] = "initializing" => t = u
  /\ word[Once] = 1 => \E t \in Threads : pc[t] = "initializing"
  /\ (\E t \in Threads : sleeping[t] = Once) =>
       \E t \in Threads : pc[t] \in {"initializing", "waking"}

(* pthread_once begins with its word zero and nobody inside. *)
LEMMA OnceInit == Init => OnceInv
BY WordTypes, FutexAssumption DEF Init, FutexInit, OnceInv

(* Another program never touches the word. *)
LEMMA OtherPrograms ==
  ASSUME Typed, ControlInv, OnceInv, program # "once", NEW t \in Threads, Calls(t)
  PROVE  word'[Once] = word[Once] /\ ran' = ran
<1>1. pc[t] \notin OncePlaces
  BY DEF ControlInv, Control
<1>2. ~(OnceCall(t) \/ OnceClaim(t) \/ OnceStore(t) \/ OnceWake(t) \/ OnceCheck(t) \/ OnceDoze(t))
  BY <1>1 DEF OnceCall, OnceClaim, OnceStore, OnceWake, OnceCheck, OnceDoze, At, OncePlaces
<1>3. CASE kernel' = kernel
  <2>1. word' = word
    BY <1>3 DEF kernel
  <2> QED BY <2>1, <1>2 DEF Calls, Lock, CompareExchange, Contend, Locked, StoreOwner,
       StoreDepth,
        Unlock, Leave, Release, ClearOwner, ClearDepth, CondWait, Doze, Relock, Change, Notify,
        RwCall, RdLock, WrLock, RwUnlock, library
<1>4. CASE CompareExchange(t)
  BY <1>4, WordTypes, Distinct DEF CompareExchange, Typed, WordTyped
<1>5. CASE Contend(t)
  BY <1>5, WordTypes, Distinct DEF Contend, MutexWait, Return, library, Typed, WordTyped
<1>6. CASE Leave(t)
  BY <1>6 DEF Leave
<1>7. CASE Release(t)
  BY <1>7, WordTypes, Distinct DEF Release, MutexUnlock, Return, Typed, WordTyped
<1>8. CASE Doze(t)
  BY <1>8 DEF Doze, Waits, FutexWait, Return, library
<1>9. CASE Notify(t)
  BY <1>9 DEF Notify, FutexWake, Return, library
<1>10. CASE Change(t)
  BY <1>10, WordTypes, Distinct DEF Change, library, Typed, WordTyped
<1>11. CASE RwUnlock(t)
  BY <1>11, WordTypes, Distinct DEF RwUnlock, Heirs, Typed, WordTyped
<1> QED BY <1>2, <1>3, <1>4, <1>5, <1>6, <1>7, <1>8, <1>9, <1>10, <1>11 DEF Calls, Lock,
     Locked, StoreOwner, StoreDepth, Unlock, ClearOwner, ClearDepth, CondWait, Relock, RwCall,
     RdLock, WrLock

(* A wake-up of as many threads as there are wakes all that wait. *)
LEMMA WakesAll ==
  ASSUME Typed, KernelInv, NEW t \in Threads, NEW a \in Words \ {Mutex},
         FutexWake(t, a, Cardinality(Threads))
  PROVE  /\ UNCHANGED word
         /\ \A u \in Threads : sleeping'[u] = IF sleeping[u] = a THEN NoWord ELSE sleeping[u]
<1>1. record[a].kind # "mutex"
  BY DEF KernelInv
<1>2. PICK W \in SUBSET Waiters(a) :
        /\ Cardinality(W) = Cardinality(Threads) \/ W = Waiters(a)
        /\ Wake(W, "OK", t, "OK") /\ UNCHANGED word
  BY <1>1 DEF FutexWake
<1>3. W = Waiters(a)
  <2>1. CASE Cardinality(W) = Cardinality(Threads)
    <3>1. W \subseteq Threads
      BY DEF Waiters
    <3>2. W = Threads
      BY <2>1, <3>1, FutexAssumption, FS_Subset
    <3> QED BY <3>2 DEF Waiters
  <2> QED BY <1>2, <2>1
<1> QED BY <1>2, <1>3 DEF Wake, Waiters

(* The word of pthread_once tells the initializer's progress on every step. *)
LEMMA OnceNext == Typed /\ ControlInv /\ KernelInv /\ OnceInv /\ [Next]_vars => OnceInv'
<1> SUFFICES ASSUME Typed, ControlInv, KernelInv, OnceInv, [Next]_vars PROVE OnceInv'
  OBVIOUS
<1>a. ControlInv' /\ KernelInv'
  BY ControlNext, KernelNext
<1>1. CASE program # "once"
  <2>1. word'[Once] = word[Once] /\ ran' = ran /\ program' # "once"
    <3>1. ASSUME Events PROVE word' = word /\ ran' = ran
      BY <3>1 DEF Events, Cancelled, TimedOut, ThreadExit, FutexReap, library
    <3>2. CASE UNCHANGED vars
      BY <1>1, <3>2 DEF vars, kernel, library
    <3> QED BY <1>1, <3>1, <3>2, OtherPrograms DEF Next
  <2>2. \A t \in Threads : pc'[t] \notin OncePlaces /\ grip'[t] # "once"
    BY <1>a, <2>1 DEF ControlInv, Control
  <2>3. \A t \in Threads : sleeping'[t] # Once
    BY <1>a, <2>2, WordTypes, Distinct, FutexAssumption DEF KernelInv, SleepsRight, OncePlaces,
         Conditions
  <2> QED BY <1>1, <2>1, <2>2, <2>3 DEF OnceInv, OncePlaces
<1>2. CASE program = "once"
  <2>a. ASSUME NEW u \in Threads PROVE pc[u] \in {"out", "claiming", "initializing", "waking", "checking", "dozing"}
    BY <1>2 DEF ControlInv, Control, OncePlaces
  <2>1. ASSUME NEW t \in Threads, Calls(t), UNCHANGED program PROVE OnceInv'
    <3>a. Awake(t) /\ \A u \in Threads \ {t} : pc'[u] = pc[u] /\ grip'[u] = grip[u]
      BY <2>1, Local DEF Calls, At, Lock, CompareExchange, Contend, Locked, StoreOwner,
           StoreDepth, Unlock, Leave, Release, ClearOwner, ClearDepth, CondWait, Doze, Relock,
           Change, Notify, RwCall, RdLock, WrLock, RwUnlock, OnceCall, OnceClaim, OnceStore,
           OnceWake, OnceCheck, OnceDoze
    <3> USE <2>1, <3>a DEF OnceInv, At, Go, Typed, WordTyped, LibraryTyped
    <3>1. CASE OnceCall(t) \/ OnceCheck(t)
      <4>1. /\ UNCHANGED <<word, sleeping, ran>>
            /\ pc[t] \in {"out", "checking"} /\ pc'[t] \in {"out", "claiming", "checking", "dozing"}
            /\ grip'[t] = grip[t] \/ word[Once] = 2
        BY <3>1 DEF OnceCall, OnceCheck, kernel
      <4> QED BY <4>1
    <3>2. CASE OnceClaim(t)
      <4>1. /\ UNCHANGED <<sleeping, ran, grip>> /\ pc[t] = "claiming"
            /\ \/ word[Once] = 0 /\ word'[Once] = 1 /\ pc'[t] = "initializing"
               \/ word[Once] # 0 /\ word'[Once] = word[Once] /\ pc'[t] = "checking"
        BY <3>2, WordTypes DEF OnceClaim, library, rwlock
      <4>2. CASE word[Once] = 0
        <5>1. word'[Once] = 1 /\ pc'[t] = "initializing"
          BY <4>1, <4>2
        <5>2. \A u \in Threads \ {t} : pc'[u] \notin {"initializing", "waking"} /\ grip'[u] # "once"
          BY <4>1, <4>2
        <5>3. ran' = 0 /\ grip'[t] # "once"
          BY <4>1, <4>2
        <5>4. \A u \in Threads : pc'[u] = "initializing" <=> u = t
          BY <5>1, <5>2
        <5>5. \A u \in Threads : pc'[u] # "waking" /\ grip'[u] # "once"
          BY <5>1, <5>2, <5>3
        <5> HIDE <3>a
        <5> QED BY <1>2, <5>1, <5>3, <5>4, <5>5
      <4>3. CASE word[Once] # 0
        <5>1. word'[Once] = word[Once] /\ pc'[t] = "checking"
          BY <4>1, <4>3
        <5>2. \A u \in Threads : pc'[u] \in {"initializing", "waking"} <=> pc[u] \in {"initializing", "waking"}
          BY <4>1, <5>1
        <5>3. \A u \in Threads : pc'[u] = "initializing" <=> pc[u] = "initializing"
          BY <4>1, <5>1
        <5>4. \A u \in Threads : pc'[u] = "waking" <=> pc[u] = "waking"
          BY <4>1, <5>1
        <5> HIDE <3>a
        <5> QED BY <4>1, <5>1, <5>2, <5>3, <5>4
      <4> QED BY <4>2, <4>3
    <3>3. CASE OnceStore(t)
      <4>1. /\ UNCHANGED <<sleeping, grip>> /\ pc[t] = "initializing"
            /\ ran' = ran + 1 /\ word'[Once] = 2 /\ pc'[t] = "waking"
        BY <3>3, WordTypes DEF OnceStore, rwlock
      <4> QED BY <4>1
    <3>4. CASE OnceWake(t)
      <4>1. /\ UNCHANGED <<ran, word>> /\ pc[t] = "waking" /\ pc'[t] = "out" /\ grip'[t] = "once"
            /\ \A u \in Threads : sleeping'[u] # Once
        BY <3>4, WakesAll, WordTypes, Distinct, FutexAssumption DEF OnceWake
      <4> QED BY <4>1
    <3>5. CASE OnceDoze(t)
      <4>1. /\ UNCHANGED <<ran, grip>> /\ word' = word
            /\ pc[t] = "dozing" /\ pc'[t] = "checking"
        BY <3>5 DEF OnceDoze, Waits, FutexWait, Return, library, rwlock
      <4>2. sleeping' = sleeping \/ (word[Once] = 1 /\ sleeping' = [sleeping EXCEPT ![t] = Once])
        BY <3>5 DEF OnceDoze, Waits, FutexWait, Changed, Return, Sleep
      <4>3. word[Once] = 1 => \E u \in Threads : pc'[u] = "initializing"
        BY <4>1
      <4> QED BY <4>1, <4>2, <4>3
    <3> QED BY <1>2, <2>a, <3>1, <3>2, <3>3, <3>4, <3>5 DEF Calls, Lock, CompareExchange,
         Contend, Locked, StoreOwner, StoreDepth, Unlock, Leave, Release, ClearOwner,
         ClearDepth, CondWait, Doze, Relock, Change, Notify, RwCall, RdLock, WrLock, RwUnlock
  <2>2. CASE Events /\ UNCHANGED program
    <3>1. UNCHANGED <<word, pc, library>>
      BY <2>2 DEF Events, Cancelled, TimedOut, ThreadExit, FutexReap
    <3>2. \A u \in Threads : sleeping'[u] = sleeping[u] \/ sleeping'[u] = NoWord
      BY <2>2 DEF Events, Cancelled, TimedOut, ThreadExit, FutexReap, Wake
    <3> QED BY <2>2, <3>1, <3>2, WordTypes, FutexAssumption DEF OnceInv, library, rwlock
  <2>3. CASE UNCHANGED vars
    BY <2>3 DEF OnceInv, vars, kernel, library, rwlock
  <2> QED BY <2>1, <2>2, <2>3 DEF Next
<1> QED BY <1>1, <1>2

(* ... and so in every reachable state. *)
LEMMA OnceAlways == Spec => []OnceInv
<1>1. Safe /\ OnceInv /\ [Next]_vars => OnceInv'
  BY OnceNext DEF Safe
<1> QED BY <1>1, OnceInit, SafeAlways, PTL DEF Spec

(* pthread_once runs its initializer at most once, and no call returns before it has
   run, whatever wakes, times out or is interrupted meanwhile. *)
THEOREM OnceOnlyAlways == Spec => []OnceOnly
<1>1. OnceInv => OnceOnly
  BY DEF OnceInv, OnceOnly
<1> QED BY <1>1, OnceAlways, PTL

(* Thread t has been given the mutex, and has yet to say so. *)
Granted(t) == pc[t] \in {"granted", "named"} \/ (pc[t] = "asked" /\ status[t] = "OK")

Hold(t) ==
  /\ held[t] \in {0, 1}
  /\ held[t] = 1 => word[Mutex] = t
  /\ Granted(t) => word[Mutex] = t /\ held[t] = 0
  /\ sleeping[t] = Mutex => held[t] = 0
  /\ pc[t] \in {"inside", "unlocking", "releasing"} => held[t] = 1
  /\ pc[t] \in Notifying /\ doing[t] # "none" => held[t] = 1

(* A mutex that cannot be locked twice is held by the thread its word names. *)
HoldInv ==
  /\ held \in [Threads -> Int]
  /\ depth \in {0, 1}
  /\ \A t \in Threads : Hold(t)

(* The mutex is free when the process begins. *)
LEMMA HoldInit == Init => HoldInv
<1> SUFFICES ASSUME Init PROVE HoldInv
  OBVIOUS
<1>1. ASSUME NEW t \in Threads PROVE Hold(t)
  BY WordTypes, FutexAssumption DEF Init, FutexInit, Hold, Granted, Notifying
<1> QED BY <1>1 DEF Init, HoldInv

(* Nothing but pthread_mutex_unlock takes the mutex from a thread or gives it
   to one that waits. *)
LEMMA Undisturbed ==
  ASSUME Typed, ControlInv, KernelInv, NEW t \in Threads, Calls(t), ~Release(t)
  PROVE  /\ word'[Mutex] = word[Mutex] \/ word[Mutex] = Free
         /\ \A u \in Threads \ {t} :
              /\ sleeping'[u] = Mutex => sleeping[u] = Mutex
              /\ pc[u] = "asked" /\ status'[u] = "OK" => status[u] = "OK"
<1> DEFINE Goal == /\ word'[Mutex] = word[Mutex] \/ word[Mutex] = Free
                   /\ \A u \in Threads \ {t} :
                        /\ sleeping'[u] = Mutex => sleeping[u] = Mutex
                        /\ pc[u] = "asked" /\ status'[u] = "OK" => status[u] = "OK"
<1>1. ASSUME NEW a \in Words \ {Mutex}, NEW n, FutexWake(t, a, n) PROVE Goal
  <2>1. CASE Return(t, "INVALID_ARGUMENT")
    BY <2>1 DEF Return, Typed, KernelTyped
  <2>2. ASSUME NEW W \in SUBSET Waiters(a), Wake(W, "OK", t, "OK"), UNCHANGED word PROVE Goal
    <3>1. \A u \in W : u \in Threads /\ pc[u] # "asked"
      BY <1>1, Distinct, WordTypes, FutexAssumption DEF Waiters, KernelInv, SleepsRight
    <3> QED BY <2>2, <3>1, WordTypes, FutexAssumption DEF Wake
  <2> QED BY <1>1, <2>1, <2>2 DEF FutexWake
<1>2. ASSUME NEW a \in Words \ {Mutex}, NEW x, FutexWait(t, a, x) PROVE Goal
  BY <1>2 DEF FutexWait, Return, Sleep, Typed, KernelTyped
<1>3. CASE kernel' = kernel
  BY <1>3 DEF kernel
<1>4. CASE CompareExchange(t)
  BY <1>4 DEF CompareExchange
<1>5. CASE Contend(t)
  BY <1>5 DEF Contend, MutexWait, Return, Sleep, Typed, KernelTyped
<1>6. CASE Leave(t)
  BY <1>6 DEF Leave, Typed, KernelTyped
<1>7. CASE Doze(t)
  BY <1>7, <1>2, ConditionTypes DEF Doze, Waits
<1>8. CASE OnceDoze(t)
  BY <1>8, <1>2, WordTypes, Distinct DEF OnceDoze, Waits
<1>9. CASE Notify(t)
  <2>1. Signalled(t, pc[t]) \in Words \ {Mutex}
    BY WordTypes, Distinct DEF Signalled
  <2> QED BY <1>9, <1>1, <2>1 DEF Notify
<1>10. CASE OnceWake(t)
  BY <1>10, <1>1, WordTypes, Distinct DEF OnceWake
<1>11. CASE Change(t) \/ RwUnlock(t) \/ OnceClaim(t) \/ OnceStore(t)
  BY <1>11, Distinct, WordTypes DEF Change, RwUnlock, Heirs, OnceClaim, OnceStore, Typed,
       WordTyped
<1> QED BY <1>3, <1>4, <1>5, <1>6, <1>7, <1>8, <1>9, <1>10, <1>11 DEF Calls, Lock, Locked,
     StoreOwner, StoreDepth, Unlock, ClearOwner, ClearDepth, CondWait, Relock, RwCall, RdLock,
     WrLock, OnceCall, OnceCheck

(* A thread that makes a call is awake. *)
LEMMA CallAwake ==
  ASSUME NEW t \in Threads, Calls(t) PROVE Awake(t)
BY DEF Calls, At, Lock, CompareExchange, Contend, Locked, StoreOwner, StoreDepth, Unlock, Leave,
       Release, ClearOwner, ClearDepth, CondWait, Doze, Relock, Change, Notify, RwCall, RdLock,
       WrLock, RwUnlock, OnceCall, OnceClaim, OnceStore, OnceWake, OnceCheck, OnceDoze

(* A call that leaves the mutex word alone keeps the invariant of the others. *)
LEMMA HoldOthers ==
  ASSUME Typed, ControlInv, KernelInv, HoldInv, NEW t \in Threads, Calls(t), ~Release(t),
         NEW u \in Threads \ {t}, held'[u] = held[u]
  PROVE  Hold(u)'
<1>1. /\ pc'[u] = pc[u] /\ doing'[u] = doing[u]
      /\ word'[Mutex] = word[Mutex] \/ word[Mutex] = Free
      /\ sleeping'[u] = Mutex => sleeping[u] = Mutex
      /\ pc[u] = "asked" /\ status'[u] = "OK" => status[u] = "OK"
  BY Local, Undisturbed
<1>2. Granted(u)' => Granted(u)
  BY <1>1 DEF Granted
<1>3. Hold(u) /\ word[Mutex] = Free => held[u] = 0 /\ ~Granted(u)
  BY FutexAssumption DEF Hold, Free
<1>4. Hold(u)
  BY DEF HoldInv
<1> QED BY <1>1, <1>2, <1>3, <1>4 DEF Hold

(* pthread_mutex_unlock gives the mutex from its caller to nobody, or to one that
   sleeps for it. *)
LEMMA HoldRelease ==
  ASSUME Typed, ControlInv, KernelInv, HoldInv, NEW t \in Threads, Release(t)
  PROVE  HoldInv'
<1>1. /\ At(t, "releasing") /\ pc[t] = "releasing" /\ sleeping[t] = NoWord
      /\ MutexUnlock(t, Mutex) /\ Mutex \in Words
      /\ depth' = depth
  BY WordTypes DEF Release, At, Awake
<1>2. held[t] = 1 /\ word[Mutex] = t /\ ~Granted(t)
  BY <1>1 DEF HoldInv, Hold, Granted
<1>3. \A u \in Threads \ {t} : held[u] = 0 /\ ~Granted(u)
  BY <1>2 DEF HoldInv, Hold
<1>4. \A u \in Threads \ {t} : pc'[u] = pc[u] /\ doing'[u] = doing[u]
  BY Local DEF Calls
<1>5. CASE status'[t] = "OK" /\ ~Return(t, "ACCESS_DENIED")
  <2>1. /\ held' = [held EXCEPT ![t] = @ - 1] /\ pc'[t] = "released"
    BY <1>5 DEF Release, Go, Typed, LibraryTyped
  <2>2. /\ held'[t] = 0 /\ held' \in [Threads -> Int]
        /\ \A u \in Threads \ {t} : held'[u] = 0
    BY <2>1, <1>2, <1>3 DEF HoldInv
  <2>3. ASSUME NEW u \in Threads, Granted(u)' PROVE word'[Mutex] = u
    <3>1. u # t /\ pc[u] = "asked" /\ status'[u] = "OK" /\ status[u] # "OK"
      BY <2>1, <2>3, <1>3, <1>4 DEF Granted
    <3>2. PICK next \in Waiters(Mutex) :
            word' = [word EXCEPT ![Mutex] = next] /\ Wake({next}, "OK", t, "OK")
      BY <3>1, <1>1, <1>5 DEF MutexUnlock, Passed, Typed, KernelTyped
    <3>3. u = next
      BY <3>1, <3>2 DEF Wake
    <3> QED BY <3>2, <3>3, <1>1 DEF Typed, WordTyped
  <2>4. ASSUME NEW u \in Threads \ {t}, pc'[u] \in {"inside", "unlocking", "releasing"} \/ (pc'[u] \in Notifying /\ doing'[u] # "none")
        PROVE FALSE
    BY <2>4, <1>3, <1>4 DEF HoldInv, Hold
  <2>5. ASSUME NEW u \in Threads PROVE Hold(u)'
    BY <2>1, <2>2, <2>3, <2>4 DEF Hold, Notifying
  <2> QED BY <1>1, <2>2, <2>5 DEF HoldInv
<1>6. CASE Return(t, "ACCESS_DENIED")
  <2>1. /\ UNCHANGED <<word, sleeping>> /\ status'[t] = "ACCESS_DENIED"
        /\ \A u \in Threads \ {t} : status'[u] = status[u]
    BY <1>6 DEF Return, Typed, KernelTyped
  <2>2. pc'[t] = "out" /\ held' = held
    BY <2>1, <1>1 DEF Release, GiveUp, Leaves, Go, Typed, LibraryTyped
  <2>3. ASSUME NEW u \in Threads PROVE Hold(u)'
    BY <2>1, <2>2, <1>1, <1>2, <1>3, <1>4, FutexAssumption DEF HoldInv, Hold, Granted, Notifying
  <2> QED BY <1>1, <2>2, <2>3 DEF HoldInv
<1>7. status'[t] = "OK" \/ Return(t, "ACCESS_DENIED")
  BY <1>1 DEF MutexUnlock, Wake, Waiters, Typed, KernelTyped
<1> QED BY <1>5, <1>6, <1>7

(* Every call keeps the word the name of the one thread that is between a successful
   lock and its unlock. *)
LEMMA HoldStep ==
  ASSUME ~Recursive, Typed, ControlInv, KernelInv, HoldInv, NEW t \in Threads, Calls(t)
  PROVE  HoldInv'
<1>a. Mutex \in Words /\ Mutex # Once /\ Mutex # NoWord
  BY WordTypes, Distinct, FutexAssumption
<1>b. Hold(t) /\ Control(t) /\ sleeping[t] = NoWord
  BY CallAwake DEF HoldInv, ControlInv, Awake
<1>c. /\ pc \in [Threads -> Places] /\ doing \in [Threads -> Doings]
      /\ waits \in [Threads -> BOOLEAN]
      /\ word \in [Words -> Threads \cup Nat] /\ status \in [Threads -> Statuses]
      /\ sleeping \in [Threads -> Words \cup {NoWord}]
  BY DEF Typed, LibraryTyped, WordTyped, KernelTyped
<1>d. ASSUME held' = held, depth' \in {0, 1}, Hold(t)', ~Release(t) PROVE HoldInv'
  <2>1. \A u \in Threads : Hold(u)'
    BY <1>d, HoldOthers
  <2> QED BY <1>d, <2>1 DEF HoldInv
<1>e. depth \in {0, 1} /\ held \in [Threads -> Int]
  BY DEF HoldInv
<1>f. kernel' = kernel => word' = word /\ sleeping' = sleeping /\ status' = status
  BY DEF kernel
(* What t does not bring into a place where it should hold the mutex.       *)
<1>g. ASSUME held' = held, word'[Mutex] = word[Mutex], sleeping' = sleeping, depth' \in {0, 1}, ~Release(t),
             pc'[t] \in {"asked"} \cup Notifying =>
               pc'[t] \in Notifying /\ (doing'[t] # "none" => held[t] = 1),
             pc'[t] \in {"inside", "unlocking", "releasing"} => held[t] = 1,
             pc'[t] \in {"granted", "named"} => Granted(t)
      PROVE  HoldInv'
  <2>1. Hold(t)'
    BY <1>a, <1>b, <1>g DEF Hold, Granted, Notifying
  <2> QED BY <1>d, <1>g, <2>1
<1> USE <1>a, <1>b, <1>c, <1>e, <1>f DEF At, Go, library, rwlock
<1>1. CASE Lock(t)
  <2>1. held' = held /\ word' = word /\ sleeping' = sleeping /\ depth' = depth /\ pc'[t] = "locking"
    BY <1>1 DEF Lock
  <2> QED BY <2>1, <1>g, <1>1 DEF Notifying, Lock, Release
<1>2. CASE CompareExchange(t)
  <2>1. /\ held' = held /\ sleeping' = sleeping /\ depth' = depth /\ pc[t] = "locking"
        /\ \/ word[Mutex] = Free /\ word'[Mutex] = t /\ pc'[t] = "granted"
           \/ word' = word /\ pc'[t] \in {"contending", "out"}
    BY <1>2 DEF CompareExchange, GiveUp, Leaves
  <2>2. word[Mutex] = Free => held[t] = 0
    BY FutexAssumption DEF Hold, Free
  <2>3. Hold(t)'
    BY <2>1, <2>2 DEF Hold, Granted, Notifying
  <2> QED BY <2>1, <2>3, <1>d, <1>2 DEF Release
<1>3. CASE Contend(t)
  <2>1. held' = held /\ depth' = depth /\ pc'[t] = "asked" /\ pc[t] = "contending"
    BY <1>3 DEF Contend
  <2>2. \/ word' = word /\ sleeping' = sleeping /\ status'[t] # "OK"
        \/ word[Mutex] = Free /\ word'[Mutex] = t /\ sleeping' = sleeping
        \/ word' = word /\ word[Mutex] # t /\ status'[t] # "OK"
    BY <1>3 DEF Contend, MutexWait, Return, Sleep
  <2>3. word[Mutex] # t => held[t] = 0
    BY DEF Hold
  <2>4. word[Mutex] = Free => held[t] = 0
    BY FutexAssumption DEF Hold, Free
  <2>5. Hold(t)'
    BY <2>1, <2>2, <2>3, <2>4 DEF Hold, Granted, Notifying
  <2> QED BY <2>1, <2>5, <1>d, <1>3 DEF Release
<1>4. CASE Locked(t)
  <2>1. /\ held' = held /\ word' = word /\ sleeping' = sleeping /\ depth' = depth
        /\ pc[t] = "asked"
        /\ \/ status[t] = "OK" /\ pc'[t] = "granted"
           \/ pc'[t] = "out"
    BY <1>4 DEF Locked, GiveUp, Leaves
  <2> QED BY <2>1, <1>g, <1>4 DEF Notifying, Release, Granted
<1>5. CASE StoreOwner(t)
  <2>1. /\ held' = held /\ word' = word /\ sleeping' = sleeping /\ depth' = depth
        /\ pc[t] = "granted" /\ pc'[t] = "named"
    BY <1>5 DEF StoreOwner
  <2> QED BY <2>1, <1>g, <1>5 DEF Notifying, Release, Granted
<1>6. CASE StoreDepth(t)
  <2>1. /\ pc[t] = "named" /\ held' = [held EXCEPT ![t] = @ + 1] /\ depth' = 1
        /\ word' = word /\ sleeping' = sleeping /\ pc'[t] \in {"out", "inside"}
    BY <1>6 DEF StoreDepth, Leaves
  <2>2. held[t] = 0 /\ word[Mutex] = t
    BY <2>1 DEF Hold, Granted
  <2>3. Hold(t)'
    BY <2>1, <2>2 DEF Hold, Granted, Notifying
  <2>4. \A u \in Threads \ {t} : held'[u] = held[u]
    BY <2>1
  <2>5. \A u \in Threads : Hold(u)'
    BY <2>1, <2>3, <2>4, HoldOthers DEF Release
  <2> QED BY <2>1, <2>5 DEF HoldInv
<1>7. CASE Unlock(t)
  <2>1. /\ held' = held /\ word' = word /\ sleeping' = sleeping /\ depth' = depth
        /\ held[t] > 0 /\ pc[t] = "out" /\ pc'[t] = "unlocking"
    BY <1>7 DEF Unlock
  <2>2. held[t] = 1
    BY <2>1 DEF Hold
  <2> QED BY <2>1, <2>2, <1>g DEF Notifying, Release
<1>8. CASE Leave(t)
  <2>1. /\ held' = held /\ word' = word /\ sleeping' = sleeping /\ depth' = depth
        /\ pc[t] = "unlocking" /\ pc'[t] \in {"out", "releasing"}
    BY <1>8 DEF Leave, GiveUp, Leaves
  <2> QED BY <2>1, <1>g DEF Notifying, Release, Hold
<1>9. CASE Release(t)
  BY <1>9, HoldRelease
<1>10. CASE ClearOwner(t)
  <2>1. /\ held' = held /\ word' = word /\ sleeping' = sleeping /\ depth' = depth
        /\ pc[t] = "released" /\ pc'[t] = "cleared"
    BY <1>10 DEF ClearOwner
  <2> QED BY <2>1, <1>g DEF Notifying, Release
<1>11. CASE ClearDepth(t)
  <2>1. /\ held' = held /\ word' = word /\ sleeping' = sleeping /\ depth' = 0
        /\ pc[t] = "cleared" /\ pc'[t] \in {"sleepy", "out"}
    BY <1>11 DEF ClearDepth, Leaves
  <2> QED BY <2>1, <1>g DEF Notifying, Release
<1>12. CASE CondWait(t)
  <2>1. /\ held' = held /\ word' = word /\ sleeping' = sleeping /\ depth' = depth
        /\ held[t] = 1 /\ pc[t] = "out" /\ pc'[t] = "unlocking"
    BY <1>12 DEF CondWait, StartWait
  <2> QED BY <2>1, <1>g DEF Notifying, Release
<1>13. CASE Doze(t)
  <2>1. /\ held' = held /\ word' = word /\ depth' = depth
        /\ pc[t] = "sleepy" /\ pc'[t] = "slept"
        /\ \/ sleeping' = sleeping
           \/ sleeping' = [sleeping EXCEPT ![t] = Condition(t)]
    BY <1>13 DEF Doze, Waits, FutexWait, Return, Sleep
  <2>2. Hold(t)'
    BY <2>1, ConditionTypes DEF Hold, Granted, Notifying
  <2> QED BY <2>1, <2>2, <1>d DEF Release
<1>14. CASE Relock(t)
  <2>1. /\ held' = held /\ word' = word /\ sleeping' = sleeping /\ depth' = depth
        /\ pc[t] = "slept" /\ pc'[t] = "locking"
    BY <1>14 DEF Relock
  <2> QED BY <2>1, <1>g DEF Notifying, Release
<1>15. CASE Change(t)
  <2>1. /\ held' = held /\ word'[Mutex] = word[Mutex] /\ sleeping' = sleeping /\ depth' = depth
        /\ pc[t] = "out" /\ pc'[t] \in Notifying /\ doing'[t] = "none"
    BY <1>15, WordTypes, Distinct DEF Change, Notifying, Control
  <2> QED BY <2>1, <1>g DEF Notifying, Release
<1>16. CASE Notify(t)
  <2>1. /\ held' = held /\ word' = word /\ depth' = depth /\ doing' = doing
        /\ pc[t] \in Notifying /\ pc'[t] = (IF doing[t] = "none" THEN "out" ELSE "unlocking")
    BY <1>16 DEF Notify, Notifying, FutexWake, Return
  <2>2. sleeping'[t] = NoWord
    BY <1>16 DEF Notify, FutexWake, Return, Wake
  <2>3. Hold(t)'
    BY <2>1, <2>2 DEF Hold, Granted, Notifying
  <2> QED BY <2>1, <2>3, <1>d DEF Release, Notifying
<1>17. CASE RwCall(t)
  <2>1. /\ held' = held /\ word' = word /\ sleeping' = sleeping /\ depth' = depth
        /\ pc[t] = "out" /\ pc'[t] = "locking"
    BY <1>17 DEF RwCall
  <2> QED BY <2>1, <1>g DEF Notifying, Release
<1>18. CASE RdLock(t)
  <2>1. /\ held' = held /\ word' = word /\ sleeping' = sleeping /\ depth' = depth
        /\ pc[t] = "inside" /\ pc'[t] = "unlocking"
    BY <1>18 DEF RdLock, StartWait, Done
  <2> QED BY <2>1, <1>g DEF Notifying, Release, Hold
<1>19. CASE WrLock(t)
  <2>1. /\ held' = held /\ word' = word /\ sleeping' = sleeping /\ depth' = depth
        /\ pc[t] = "inside" /\ pc'[t] = "unlocking"
    BY <1>19 DEF WrLock, StartWait, Done
  <2> QED BY <2>1, <1>g DEF Notifying, Release, Hold
<1>20. CASE RwUnlock(t)
  <2>1. /\ held' = held /\ word'[Mutex] = word[Mutex] /\ sleeping' = sleeping /\ depth' = depth
        /\ pc[t] = "inside" /\ pc'[t] \in {"unlocking", "signalling", "broadcasting"}
    BY <1>20, WordTypes, Distinct DEF RwUnlock, Heirs, Done
  <2> QED BY <2>1, <1>g DEF Notifying, Release, Hold
<1>21. CASE OnceCall(t)
  <2>1. /\ held' = held /\ word' = word /\ sleeping' = sleeping /\ depth' = depth
        /\ pc[t] = "out" /\ pc'[t] \in {"out", "claiming"}
    BY <1>21 DEF OnceCall
  <2> QED BY <2>1, <1>g DEF Notifying, Release
<1>22. CASE OnceClaim(t)
  <2>1. /\ held' = held /\ word'[Mutex] = word[Mutex] /\ sleeping' = sleeping /\ depth' = depth
        /\ pc[t] = "claiming" /\ pc'[t] \in {"initializing", "checking"}
    BY <1>22 DEF OnceClaim
  <2> QED BY <2>1, <1>g DEF Notifying, Release
<1>23. CASE OnceStore(t)
  <2>1. /\ held' = held /\ word'[Mutex] = word[Mutex] /\ sleeping' = sleeping /\ depth' = depth
        /\ pc[t] = "initializing" /\ pc'[t] = "waking"
    BY <1>23 DEF OnceStore
  <2> QED BY <2>1, <1>g DEF Notifying, Release
<1>24. CASE OnceWake(t)
  <2>1. /\ held' = held /\ word' = word /\ depth' = depth
        /\ pc[t] = "waking" /\ pc'[t] = "out"
    BY <1>24 DEF OnceWake, FutexWake, Return
  <2>2. sleeping'[t] = NoWord
    BY <1>24 DEF OnceWake, FutexWake, Return, Wake
  <2>3. Hold(t)'
    BY <2>1, <2>2 DEF Hold, Granted, Notifying
  <2> QED BY <2>1, <2>3, <1>d DEF Release
<1>25. CASE OnceCheck(t)
  <2>1. /\ held' = held /\ word' = word /\ sleeping' = sleeping /\ depth' = depth
        /\ pc[t] = "checking" /\ pc'[t] \in {"out", "dozing"}
    BY <1>25 DEF OnceCheck
  <2> QED BY <2>1, <1>g DEF Notifying, Release
<1>26. CASE OnceDoze(t)
  <2>1. /\ held' = held /\ word' = word /\ depth' = depth
        /\ pc[t] = "dozing" /\ pc'[t] = "checking"
        /\ \/ sleeping' = sleeping
           \/ sleeping' = [sleeping EXCEPT ![t] = Once]
    BY <1>26 DEF OnceDoze, Waits, FutexWait, Return, Sleep
  <2>2. Hold(t)'
    BY <2>1 DEF Hold, Granted, Notifying
  <2> QED BY <2>1, <2>2, <1>d DEF Release
<1> QED BY <1>1, <1>2, <1>3, <1>4, <1>5, <1>6, <1>7, <1>8, <1>9, <1>10, <1>11, <1>12, <1>13,
     <1>14, <1>15, <1>16, <1>17, <1>18, <1>19, <1>20, <1>21, <1>22, <1>23, <1>24, <1>25,
     <1>26 DEF Calls

(* ... and so does every step. *)
LEMMA HoldNext == ~Recursive /\ Typed /\ ControlInv /\ KernelInv /\ HoldInv /\ [Next]_vars => HoldInv'
<1> SUFFICES ASSUME ~Recursive, Typed, ControlInv, KernelInv, HoldInv, [Next]_vars PROVE HoldInv'
  OBVIOUS
<1>1. ASSUME NEW t \in Threads, Calls(t) PROVE HoldInv'
  BY <1>1, HoldStep
<1>2. CASE Events
  <2>1. UNCHANGED <<word, held, depth, pc, doing>>
    BY <1>2 DEF Events, Cancelled, TimedOut, ThreadExit, FutexReap, library, rwlock
  <2>2. \A t \in Threads : /\ sleeping'[t] = Mutex => sleeping[t] = Mutex
                           /\ status'[t] = "OK" => status[t] = "OK"
    BY <1>2, WordTypes, FutexAssumption DEF Events, Cancelled, TimedOut, ThreadExit, FutexReap,
         Wake
  <2> QED BY <2>1, <2>2 DEF HoldInv, Hold, Granted
<1>3. CASE UNCHANGED vars
  BY <1>3 DEF vars, kernel, library, rwlock, HoldInv, Hold, Granted
<1> QED BY <1>1, <1>2, <1>3 DEF Next

RwRecords == [writer : Threads \cup {Free}, readers : Nat, waiting : Nat]
Reads(t) == grip[t] = "read"
Readings == {t \in Threads : Reads(t)}
Countings == {t \in Threads : Counted(t)}

(* The fields of the read-write lock count who has it and who waits for it. *)
RwInv ==
  /\ rw \in RwRecords
  /\ rw.waiting = Cardinality(Countings)
  /\ rw.readers = Cardinality(Readings)
  /\ \A t \in Threads :
       /\ rw.writer = t <=> grip[t] = "write"
       /\ grip[t] = "write" => rw.readers = 0
       /\ grip[t] \in {"read", "write"} => program = "rwlock"

(* The read-write lock begins free. *)
LEMMA RwInit == Init => RwInv
<1> SUFFICES ASSUME Init PROVE RwInv
  OBVIOUS
<1>1. Readings = {} /\ Countings = {}
  BY DEF Init, Readings, Reads, Countings, Counted
<1> QED BY <1>1, FS_EmptySet, FutexAssumption DEF Init, RwInv, RwRecords, Free

(* An update of some fields of the lock's record, as a record. *)
LEMMA RwUpdate ==
  ASSUME NEW r \in RwRecords, NEW w \in Threads \cup {Free}, NEW c, NEW d
  PROVE  /\ [r EXCEPT !.writer = w] = [writer |-> w, readers |-> r.readers, waiting |-> r.waiting]
         /\ [r EXCEPT !.readers = c] = [writer |-> r.writer, readers |-> c, waiting |-> r.waiting]
         /\ [r EXCEPT !.waiting = d] = [writer |-> r.writer, readers |-> r.readers, waiting |-> d]
         /\ [r EXCEPT !.writer = w, !.waiting = d] =
              [writer |-> w, readers |-> r.readers, waiting |-> d]
<1>1. [r EXCEPT !.writer = w] = [writer |-> w, readers |-> r.readers, waiting |-> r.waiting]
  BY DEF RwRecords
<1>2. [[writer |-> w, readers |-> r.readers, waiting |-> r.waiting] EXCEPT !.waiting = d] =
      [writer |-> w, readers |-> r.readers, waiting |-> d]
  OBVIOUS
<1>3. [r EXCEPT !.writer = w, !.waiting = d] = [[r EXCEPT !.writer = w] EXCEPT !.waiting = d]
  OBVIOUS
<1>4. /\ [r EXCEPT !.readers = c] = [writer |-> r.writer, readers |-> c, waiting |-> r.waiting]
      /\ [r EXCEPT !.waiting = d] = [writer |-> r.writer, readers |-> r.readers, waiting |-> d]
  BY DEF RwRecords
<1> QED BY <1>1, <1>2, <1>3, <1>4

(* One more is counted, or one less. *)
LEMMA OneMore ==
  ASSUME NEW S \in SUBSET Threads, NEW t \in Threads
  PROVE  /\ IsFiniteSet(S) /\ Cardinality(S) \in Nat
         /\ t \notin S => Cardinality(S \cup {t}) = Cardinality(S) + 1
         /\ t \in S => Cardinality(S \ {t}) = Cardinality(S) - 1 /\ Cardinality(S) > 0
         /\ S = {} <=> Cardinality(S) = 0
<1>1. IsFiniteSet(S)
  BY FutexAssumption, FS_Subset
<1>2. Cardinality(S) \in Nat
  BY <1>1, FS_CardinalityType
<1>3. S = {} <=> Cardinality(S) = 0
  BY <1>1, FS_EmptySet
<1>4. t \notin S => Cardinality(S \cup {t}) = Cardinality(S) + 1
  BY <1>1, FS_AddElement
<1>5. t \in S => Cardinality(S \ {t}) = Cardinality(S) - 1
  BY <1>1, FS_RemoveElement
<1>6. t \in S => Cardinality(S) > 0
  BY <1>2, <1>3
<1> QED BY <1>1, <1>2, <1>3, <1>4, <1>5, <1>6

(* Every call keeps the counts of the read-write lock those of the threads that have
   or want it, one case per action. *)
LEMMA RwStep ==
  ASSUME Typed, ControlInv, RwInv, NEW t \in Threads, Calls(t), UNCHANGED program
  PROVE  RwInv'
<1>a. \A u \in Threads \ {t} : /\ pc'[u] = pc[u] /\ waits'[u] = waits[u] /\ doing'[u] = doing[u]
                               /\ grip'[u] = grip[u]
  BY Local
<1>b. \A u \in Threads \ {t} : Counted(u)' <=> Counted(u)
  BY <1>a DEF Counted
<1>c. /\ waits \in [Threads -> BOOLEAN] /\ doing \in [Threads -> Doings] /\ grip \in [Threads -> Grips]
      /\ pc \in [Threads -> Places]
  BY DEF Typed, LibraryTyped
<1>d. /\ rw \in RwRecords /\ rw.writer \in Threads \cup {Free} /\ rw.readers \in Nat /\ rw.waiting \in Nat
      /\ Countings \in SUBSET Threads /\ Readings \in SUBSET Threads
      /\ rw.waiting = Cardinality(Countings) /\ rw.readers = Cardinality(Readings)
      /\ Free \notin Threads
  BY FutexAssumption DEF RwInv, RwRecords, Countings, Readings, Free
<1>i. rw.readers \in Nat /\ rw.waiting \in Nat
  BY <1>d
<1>e. /\ t \in Countings <=> Counted(t)
      /\ t \in Readings <=> grip[t] = "read"
  BY DEF Countings, Readings, Reads
<1>f. Control(t)
  BY DEF ControlInv
<1>h. /\ \A u \in Threads \ {t} : Reads(u)' <=> Reads(u)
      /\ Reads(t) <=> grip[t] = "read"
      /\ Reads(t)' <=> grip'[t] = "read"
  BY <1>a DEF Reads
(* The number of writers that are counted goes with what becomes of t.      *)
<1>1. ASSUME rw'.waiting = rw.waiting + (IF Counted(t)' THEN 1 ELSE 0) - (IF Counted(t) THEN 1 ELSE 0)
      PROVE  rw'.waiting = Cardinality(Countings)' /\ rw'.waiting \in Nat
  <2>1. CASE Counted(t) /\ ~Counted(t)'
    <3>1. Countings' = Countings \ {t}
      BY <2>1, <1>b DEF Countings
    <3> QED BY <3>1, <2>1, <1>1, <1>d, <1>e, OneMore
  <2>2. CASE ~Counted(t) /\ Counted(t)'
    <3>1. Countings' = Countings \cup {t}
      BY <2>2, <1>b DEF Countings
    <3> QED BY <3>1, <2>2, <1>1, <1>d, <1>e, OneMore
  <2>3. CASE Counted(t) <=> Counted(t)'
    <3>1. Countings' = Countings
      BY <2>3, <1>b DEF Countings
    <3> QED BY <3>1, <2>3, <1>1, <1>d
  <2> QED BY <2>1, <2>2, <2>3
<1>2. ASSUME rw'.readers = rw.readers + (IF grip'[t] = "read" THEN 1 ELSE 0) - (IF grip[t] = "read" THEN 1 ELSE 0)
      PROVE  rw'.readers = Cardinality(Readings)' /\ rw'.readers \in Nat
  <2>1. CASE grip[t] = "read" /\ grip'[t] # "read"
    <3>a. Reads(t) /\ ~Reads(t)'
      BY <2>1, <1>h
    <3>1. Readings' = Readings \ {t}
      BY <3>a, <1>h DEF Readings
    <3>2. rw'.readers = rw.readers - 1 /\ t \in Readings
      BY <2>1, <1>2, <1>e, <1>i
    <3> QED BY <3>1, <3>2, <1>d, OneMore
  <2>2. CASE grip[t] # "read" /\ grip'[t] = "read"
    <3>1. Readings' = Readings \cup {t}
      BY <2>2, <1>h DEF Readings
    <3> QED BY <3>1, <2>2, <1>2, <1>d, <1>e, OneMore
  <2>3. CASE grip[t] = "read" <=> grip'[t] = "read"
    <3>1. Readings' = Readings
      BY <2>3, <1>h DEF Readings
    <3> QED BY <3>1, <2>3, <1>2, <1>d
  <2> QED BY <2>1, <2>2, <2>3
(* A call that leaves the lock to those who have it.                        *)
<1>3. ASSUME \/ rw' = rw
             \/ rw' = [rw EXCEPT !.waiting = rw'.waiting],
             rw'.waiting = rw.waiting + (IF Counted(t)' THEN 1 ELSE 0) - (IF Counted(t) THEN 1 ELSE 0),
             \/ grip'[t] = grip[t]
             \/ grip[t] \notin {"read", "write"} /\ grip'[t] \notin {"read", "write"}
      PROVE  RwInv'
  <2>1. rw' = [writer |-> rw.writer, readers |-> rw.readers, waiting |-> rw'.waiting]
    <3>1. rw = [writer |-> rw.writer, readers |-> rw.readers, waiting |-> rw.waiting]
      BY <1>d DEF RwRecords
    <3>2. [rw EXCEPT !.waiting = rw'.waiting] = [writer |-> rw.writer, readers |-> rw.readers, waiting |-> rw'.waiting]
      BY <1>d, RwUpdate
    <3> QED BY <1>3, <3>1, <3>2
  <2>2. rw'.writer = rw.writer /\ rw'.readers = rw.readers
    BY <2>1
  <2>3. rw'.waiting = Cardinality(Countings)' /\ rw'.waiting \in Nat
    BY <1>1, <1>3
  <2>4. rw'.readers = Cardinality(Readings)'
    BY <1>2, <1>3, <2>2, <1>d
  <2>5. rw' \in RwRecords
    BY <2>1, <2>3, <1>d DEF RwRecords
  <2>6. ASSUME NEW u \in Threads
        PROVE  /\ rw'.writer = u <=> grip'[u] = "write"
               /\ grip'[u] = "write" => rw'.readers = 0
               /\ grip'[u] \in {"read", "write"} => program' = "rwlock"
    <3>1. \/ grip'[u] = grip[u]
          \/ grip[u] \notin {"read", "write"} /\ grip'[u] \notin {"read", "write"}
      BY <1>3, <1>a
    <3> QED BY <3>1, <2>2 DEF RwInv
  <2> QED BY <2>3, <2>4, <2>5, <2>6 DEF RwInv
<1>g. ASSUME Leaves(t) PROVE ~Counted(t)'
  BY <1>g, <1>c DEF Leaves, Counted
<1>4. ASSUME GiveUp(t) PROVE RwInv'
  <2>1. ~Counted(t)' /\ grip' = grip
    BY <1>4, <1>g DEF GiveUp
  <2>2. rw' = [rw EXCEPT !.waiting = rw.waiting - (IF Counted(t) THEN 1 ELSE 0)]
    <3>1. CASE Counted(t)
      BY <3>1, <1>4 DEF GiveUp
    <3>2. CASE ~Counted(t)
      BY <3>2, <1>4, <1>d DEF GiveUp
    <3> QED BY <3>1, <3>2
  <2>3. rw'.waiting = rw.waiting - (IF Counted(t) THEN 1 ELSE 0)
    <3>1. CASE Counted(t)
      BY <3>1, <2>2, <1>d, RwUpdate
    <3>2. CASE ~Counted(t)
      BY <3>2, <2>2, <1>d, RwUpdate
    <3> QED BY <3>1, <3>2
  <2>4. rw'.waiting = rw.waiting + (IF Counted(t)' THEN 1 ELSE 0) - (IF Counted(t) THEN 1 ELSE 0)
    BY <2>1, <2>3, <1>d
  <2>5. rw' = [rw EXCEPT !.waiting = rw'.waiting]
    BY <2>2, <2>3
  <2> QED BY <2>1, <2>4, <2>5, <1>3
<1>5. ASSUME UNCHANGED <<rw, grip>>, Counted(t)' <=> Counted(t) PROVE RwInv'
  BY <1>5, <1>3, <1>d
<1>6. ASSUME rwlock' = rwlock, waits' = waits PROVE RwInv'
  BY <1>6, <1>5 DEF rwlock, Counted
<1>7. CASE Lock(t) \/ Unlock(t) \/ Contend(t) \/ StoreOwner(t) \/ ClearOwner(t) \/ Doze(t)
           \/ Change(t) \/ Notify(t) \/ OnceClaim(t) \/ OnceStore(t) \/ OnceDoze(t)
  BY <1>7, <1>6 DEF Lock, Unlock, Contend, StoreOwner, ClearOwner, Doze, Change, Notify,
       OnceClaim,
       OnceStore, OnceDoze, library
<1>8. CASE CompareExchange(t) \/ Locked(t) \/ Leave(t) \/ Release(t)
  BY <1>8, <1>4, <1>6 DEF CompareExchange, Locked, Leave, Release
<1>9. CASE StoreDepth(t)
  <2>1. UNCHANGED <<rw, grip>>
    BY <1>9 DEF StoreDepth
  <2>2. CASE doing[t] = "none"
    <3>1. ~Counted(t)' /\ ~Counted(t)
      BY <2>2, <1>9, <1>g DEF StoreDepth, Counted, Writing
    <3> QED BY <2>1, <3>1, <1>5
  <2>3. CASE doing[t] # "none"
    BY <2>1, <2>3, <1>9, <1>5 DEF StoreDepth, Counted
  <2> QED BY <2>2, <2>3
<1>10. CASE ClearDepth(t)
  <2>1. UNCHANGED <<rw, grip>>
    BY <1>10 DEF ClearDepth
  <2>2. CASE waits[t]
    BY <2>1, <2>2, <1>10, <1>5 DEF ClearDepth, Counted
  <2>3. CASE ~waits[t]
    <3>1. ~Counted(t)' /\ ~Counted(t)
      BY <2>3, <1>10, <1>g DEF ClearDepth, Counted
    <3> QED BY <2>1, <3>1, <1>5
  <2> QED BY <2>2, <2>3
<1>11. CASE CondWait(t)
  <2>1. UNCHANGED <<rw, grip, doing>> /\ doing[t] = "none"
    BY <1>11, <1>f DEF CondWait, rwlock, Control
  <2> QED BY <2>1, <1>5 DEF Counted, Writing
<1>12. CASE Relock(t)
  <2>1. UNCHANGED <<rw, grip, waits>> /\ (doing'[t] = doing[t] \/ doing'[t] = Interrupted(doing[t]))
    BY <1>12, <1>c DEF Relock
  <2>2. Interrupted(doing[t]) \in Writing <=> doing[t] \in Writing
    BY DEF Interrupted, Writing
  <2> QED BY <2>1, <2>2, <1>5 DEF Counted
<1>13. CASE RwCall(t)
  <2>1. UNCHANGED <<rw, grip, waits>> /\ ~waits[t]
    BY <1>13, <1>f DEF RwCall, Control, At
  <2> QED BY <2>1, <1>5 DEF Counted
<1>14. CASE OnceCall(t) \/ OnceWake(t) \/ OnceCheck(t)
  <2>1. /\ UNCHANGED <<rw, waits, doing>>
        /\ grip'[t] = grip[t] \/ grip'[t] = "once"
        /\ program # "rwlock"
    BY <1>14, <1>c, <1>f DEF OnceCall, OnceWake, OnceCheck, Control, At, OncePlaces
  <2>2. \/ grip'[t] = grip[t]
        \/ grip[t] \notin {"read", "write"} /\ grip'[t] \notin {"read", "write"}
    BY <2>1 DEF RwInv
  <2>3. Counted(t)' <=> Counted(t)
    BY <2>1 DEF Counted
  <2>4. rw'.waiting = rw.waiting + (IF Counted(t)' THEN 1 ELSE 0) - (IF Counted(t) THEN 1 ELSE 0)
    BY <2>1, <2>3, <1>d
  <2> QED BY <2>1, <2>2, <2>4, <1>3
<1>15. CASE RdLock(t)
  <2>1. /\ pc[t] = "inside" /\ ~Counted(t) /\ ~Counted(t)'
        /\ doing[t] \in {"rdlock", "interrupted rdlock", "tryrdlock"}
    BY <1>15 DEF RdLock, Counted, Writing, At
  <2>2. CASE UNCHANGED <<rw, grip>>
    BY <2>1, <2>2, <1>5
  <2>3. CASE /\ ~(rw.writer # Free \/ rw.waiting # 0) /\ doing[t] # "interrupted rdlock"
             /\ rw' = [rw EXCEPT !.readers = @ + 1] /\ grip' = [grip EXCEPT ![t] = "read"]
    <3>1. grip[t] = "none" /\ grip'[t] = "read" /\ program = "rwlock"
      BY <2>1, <2>3, <1>c, <1>f DEF Control
    <3>2. rw' = [writer |-> rw.writer, readers |-> rw.readers + 1, waiting |-> rw.waiting]
      BY <2>3, <1>d, RwUpdate
    <3>3. rw'.writer = Free /\ rw'.readers = rw.readers + 1 /\ rw'.waiting = rw.waiting
      BY <2>3, <3>2
    <3>a. rw'.waiting = rw.waiting + (IF Counted(t)' THEN 1 ELSE 0) - (IF Counted(t) THEN 1 ELSE 0)
      <4>1. ~Counted(t) /\ ~Counted(t)'
        BY <2>1
      <4>2. rw'.waiting = rw.waiting
        BY <3>3
      <4> QED BY <4>1, <4>2, <1>i
    <3>4. rw'.waiting = Cardinality(Countings)' /\ rw'.waiting \in Nat
      BY <3>a, <1>1
    <3>5. rw'.readers = Cardinality(Readings)' /\ rw'.readers \in Nat
      BY <3>1, <3>3, <1>2, <1>d
    <3>6. \A u \in Threads : grip'[u] # "write"
      BY <2>3, <3>1, <1>a, <1>d DEF RwInv
    <3>7. rw' \in RwRecords
      BY <3>2, <3>4, <3>5, <1>d DEF RwRecords
    <3> QED BY <3>1, <3>3, <3>4, <3>5, <3>6, <3>7, <1>a, <1>d DEF RwInv
  <2> QED BY <1>15, <2>2, <2>3 DEF RdLock
<1>16. CASE WrLock(t)
  <2>1. /\ pc[t] = "inside" /\ doing' = doing /\ doing[t] \in {"wrlock", "interrupted wrlock", "trywrlock"}
        /\ grip[t] = "none" /\ program = "rwlock"
    BY <1>16, <1>f DEF WrLock, Control, At, Writing
  <2>2. CASE /\ Taken /\ doing[t] = "wrlock"
             /\ rw' = [rw EXCEPT !.waiting = rw.waiting + IF doing[t] = "wrlock" /\ ~waits[t] THEN 1 ELSE 0]
             /\ StartWait(t) /\ UNCHANGED grip
    <3>1. Counted(t)' /\ (Counted(t) <=> waits[t])
      BY <2>1, <2>2, <1>c DEF StartWait, Counted, Writing
    <3>2. CASE waits[t]
      <4>1. rw' = [rw EXCEPT !.waiting = rw.waiting]
        BY <2>2, <3>2, <1>d
      <4>a. rw' = [writer |-> rw.writer, readers |-> rw.readers, waiting |-> rw.waiting]
        BY <4>1, <1>d, RwUpdate
      <4>2. rw'.waiting = rw.waiting
        BY <4>a
      <4> QED BY <3>1, <3>2, <4>1, <4>2, <2>2, <1>3, <1>d
    <3>3. CASE ~waits[t]
      <4>1. rw' = [rw EXCEPT !.waiting = rw.waiting + 1]
        BY <2>2, <3>3, <1>d
      <4>2. rw'.waiting = rw.waiting + 1
        BY <4>1, <1>d, RwUpdate
      <4> QED BY <3>1, <3>3, <4>1, <4>2, <2>2, <1>3, <1>d
    <3> QED BY <3>2, <3>3
  <2>3. CASE /\ doing[t] = "interrupted wrlock"
             /\ rw' = [rw EXCEPT !.waiting = (rw.waiting + IF doing[t] = "wrlock" /\ ~waits[t] THEN 1 ELSE 0) - 1]
             /\ Done(t) /\ UNCHANGED grip
    <3>1. Counted(t) /\ ~Counted(t)'
      BY <2>1, <2>3, <1>c, <1>f DEF Done, Counted, Writing, Control, Interruptions
    <3>a. (rw.waiting + IF doing[t] = "wrlock" /\ ~waits[t] THEN 1 ELSE 0) - 1 = rw.waiting - 1
      <4>1. doing[t] # "wrlock"
        BY <2>3
      <4> QED BY <4>1, <1>d
    <3>2. rw' = [rw EXCEPT !.waiting = rw.waiting - 1]
      BY <2>3, <3>a
    <3>b. rw' = [writer |-> rw.writer, readers |-> rw.readers, waiting |-> rw.waiting - 1]
      BY <3>2, <1>d, RwUpdate
    <3>3. rw'.waiting = rw.waiting - 1
      BY <3>b
    <3>4. rw' = [rw EXCEPT !.waiting = rw'.waiting]
      BY <3>2, <3>3
    <3>5. rw'.waiting = rw.waiting + (IF Counted(t)' THEN 1 ELSE 0) - (IF Counted(t) THEN 1 ELSE 0)
      BY <3>1, <3>3, <1>d
    <3> QED BY <3>4, <3>5, <2>3, <1>3
  <2>4. CASE doing[t] = "trywrlock" /\ UNCHANGED <<rw, grip>>
    <3>1. ~Counted(t) /\ ~Counted(t)'
      BY <2>1, <2>4 DEF Counted, Writing
    <3> QED BY <3>1, <2>4, <1>5
  <2>6. doing[t] # "interrupted wrlock" => doing[t] \in {"wrlock", "trywrlock"}
    BY <2>1
  <2>5. CASE /\ ~Taken /\ doing[t] # "interrupted wrlock"
             /\ rw' = [rw EXCEPT !.writer = t,
                                !.waiting = (rw.waiting + IF doing[t] = "wrlock" /\ ~waits[t] THEN 1 ELSE 0)
                                             - IF doing[t] = "wrlock" THEN 1 ELSE 0]
             /\ grip' = [grip EXCEPT ![t] = "write"]
             /\ Done(t)
    <3>1. ~Counted(t)' /\ grip'[t] = "write" /\ rw.readers = 0 /\ rw.writer = Free
      BY <2>5, <1>c DEF Done, Counted, Taken
    <3> DEFINE d == (rw.waiting + IF doing[t] = "wrlock" /\ ~waits[t] THEN 1 ELSE 0)
                     - IF doing[t] = "wrlock" THEN 1 ELSE 0
    <3>3. d = rw.waiting - (IF Counted(t) THEN 1 ELSE 0)
      <4>2. Counted(t) <=> waits[t] /\ doing[t] = "wrlock"
        <5>1. doing[t] # "interrupted wrlock"
          BY <2>5
        <5> QED BY <2>1, <5>1 DEF Counted, Writing
      <4> QED BY <4>2, <1>d
    <3>b. rw' = [rw EXCEPT !.writer = t, !.waiting = d]
      BY <2>5
    <3> HIDE DEF d
    <3>2. rw' = [writer |-> t, readers |-> rw.readers, waiting |-> d]
      BY <3>b, <1>d, RwUpdate
    <3>4. rw'.writer = t /\ rw'.readers = 0 /\ rw'.waiting = d
      BY <3>1, <3>2
    <3>5. rw'.waiting = Cardinality(Countings)' /\ rw'.waiting \in Nat
      BY <3>1, <3>3, <3>4, <1>1, <1>d
    <3>6. rw'.readers = Cardinality(Readings)'
      <4>1. rw'.readers = rw.readers /\ grip[t] = "none" /\ grip'[t] = "write"
        BY <2>1, <3>1, <3>4
      <4> QED BY <4>1, <1>2, <1>d
    <3>7. rw' \in RwRecords
      BY <3>2, <3>4, <3>5, <1>d DEF RwRecords
    <3>8. \A u \in Threads \ {t} : grip'[u] # "write" /\ (grip'[u] \in {"read", "write"} => program' = "rwlock")
      BY <2>1, <3>1, <1>a, <1>d DEF RwInv
    <3> QED BY <2>1, <3>1, <3>4, <3>5, <3>6, <3>7, <3>8 DEF RwInv
  <2> QED BY <1>16, <2>2, <2>3, <2>4, <2>5 DEF WrLock
<1>17. CASE RwUnlock(t)
  <2>1. /\ doing[t] = "unlock" /\ doing' = doing /\ grip'[t] = "none" /\ grip[t] \in {"read", "write"}
        /\ ~Counted(t) /\ ~Counted(t)'
        /\ rw' = IF rw.writer = t THEN [rw EXCEPT !.writer = Free] ELSE [rw EXCEPT !.readers = @ - 1]
    BY <1>17, <1>c, <1>f DEF RwUnlock, Control, At, Counted, Writing
  <2>2. CASE rw.writer = t
    <3>1. grip[t] = "write" /\ rw.readers = 0
      BY <2>2 DEF RwInv
    <3>2. rw' = [writer |-> Free, readers |-> rw.readers, waiting |-> rw.waiting]
      BY <2>1, <2>2, <1>d, RwUpdate
    <3>3. rw'.writer = Free /\ rw'.readers = rw.readers /\ rw'.waiting = rw.waiting
      BY <3>2
    <3>4. \A u \in Threads : grip'[u] # "write"
      BY <2>1, <2>2, <1>a, <1>d DEF RwInv
    <3>5. rw'.waiting = Cardinality(Countings)' /\ rw'.waiting \in Nat
      BY <2>1, <3>3, <1>1, <1>d
    <3>6. rw'.readers = Cardinality(Readings)'
      BY <2>1, <3>1, <3>3, <1>2
    <3>7. rw' \in RwRecords
      BY <3>2, <1>d DEF RwRecords
    <3> QED BY <2>1, <3>3, <3>4, <3>5, <3>6, <3>7, <1>a, <1>d DEF RwInv
  <2>3. CASE rw.writer # t
    <3>1. grip[t] = "read"
      BY <2>1, <2>3 DEF RwInv
    <3>2. rw' = [writer |-> rw.writer, readers |-> rw.readers - 1, waiting |-> rw.waiting]
      BY <2>1, <2>3, <1>d, RwUpdate
    <3>3. rw'.writer = rw.writer /\ rw'.readers = rw.readers - 1 /\ rw'.waiting = rw.waiting
      BY <3>2
    <3>4. rw'.waiting = Cardinality(Countings)' /\ rw'.waiting \in Nat
      BY <2>1, <3>3, <1>1, <1>d
    <3>5. rw'.readers = Cardinality(Readings)' /\ rw'.readers \in Nat
      BY <2>1, <3>1, <3>3, <1>2, <1>d
    <3>6. rw' \in RwRecords
      BY <3>2, <3>4, <3>5, <1>d DEF RwRecords
    <3>7. rw.readers # 0
      BY <3>3, <3>5, <1>d
    <3>8. \A u \in Threads : grip'[u] # "write"
      BY <3>7, <2>1, <1>a DEF RwInv
    <3>9. \A u \in Threads : rw'.writer # u
      BY <3>3, <3>7 DEF RwInv
    <3> QED BY <2>1, <3>3, <3>4, <3>5, <3>6, <3>8, <3>9, <1>a DEF RwInv
  <2> QED BY <2>2, <2>3
<1> QED BY <1>7, <1>8, <1>9, <1>10, <1>11, <1>12, <1>13, <1>14, <1>15, <1>16, <1>17 DEF Calls

(* ... and so does every step. *)
LEMMA RwNext == Typed /\ ControlInv /\ RwInv /\ [Next]_vars => RwInv'
<1> SUFFICES ASSUME Typed, ControlInv, RwInv, [Next]_vars PROVE RwInv'
  OBVIOUS
<1>1. ASSUME NEW t \in Threads, Calls(t), UNCHANGED program PROVE RwInv'
  BY <1>1, RwStep
<1>2. CASE UNCHANGED <<program, pc, library>>
  BY <1>2 DEF RwInv, Countings, Counted, Readings, Reads, library, rwlock
<1> QED BY <1>1, <1>2 DEF Next, Events, vars

(* ... and so in every reachable state. *)
LEMMA RwAlways == Spec => []RwInv
<1>1. Safe /\ RwInv /\ [Next]_vars => RwInv'
  BY RwNext DEF Safe
<1> QED BY <1>1, RwInit, SafeAlways, PTL DEF Spec

(* A mutex that is not recursive is held by the thread its word names, always. *)
LEMMA HoldAlways == ~Recursive => (Spec => []HoldInv)
<1> SUFFICES ASSUME ~Recursive PROVE Spec => []HoldInv
  OBVIOUS
<1>1. Safe /\ HoldInv /\ [Next]_vars => HoldInv'
  BY HoldNext DEF Safe
<1> QED BY <1>1, HoldInit, SafeAlways, PTL DEF Spec

(* A read-write lock has one writer and no reader, or no writer: pthread_rwlock_rdlock
   and pthread_rwlock_wrlock grant it to nobody else, however waits end. *)
THEOREM RwExclusionAlways == Spec => []RwExclusion
<1>1. Safe /\ RwInv => RwExclusion
  <2> SUFFICES ASSUME Safe, RwInv PROVE RwExclusion
    OBVIOUS
  <2>1. ASSUME NEW t \in Threads, NEW u \in Threads, grip[t] = "write", t # u
        PROVE  grip[u] = "none"
    <3>1. grip[u] # "write"
      BY <2>1 DEF RwInv
    <3>2. grip[u] # "read"
      <4>1. rw.readers = 0 /\ rw.readers = Cardinality(Readings) /\ Readings \in SUBSET Threads
        BY <2>1 DEF RwInv, Readings
      <4>2. Readings = {}
        BY <4>1, OneMore
      <4> QED BY <4>2 DEF Readings, Reads
    <3>3. grip[u] # "once"
      BY <2>1 DEF Safe, RwInv, ControlInv, Control
    <3> QED BY <3>1, <3>2, <3>3 DEF Safe, Typed, LibraryTyped, Grips
  <2>2. rw.waiting = Cardinality({t \in Threads : Counted(t)})
    BY DEF RwInv, Countings
  <2> QED BY <2>1, <2>2 DEF RwExclusion
<1> QED BY <1>1, RwAlways, SafeAlways, PTL

(* Two threads never hold the mutex, nor a writer and another the read-write lock, for
   any number of threads. It is stated for a mutex that is not recursive: the owner and
   depth fields, which only a recursive lock relies on, are stored after the word is
   taken and cleared after it is given up. *)
THEOREM ExclusionAlways == ~Recursive => (Spec => []Exclusion)
<1>1. Safe /\ HoldInv /\ RwInv => MutualExclusion
  <2> SUFFICES ASSUME Safe, HoldInv, RwInv PROVE MutualExclusion
    OBVIOUS
  <2>1. {t \in Threads : held[t] > 0} \subseteq {word[Mutex]}
    BY DEF HoldInv, Hold
  <2>2. Cardinality({t \in Threads : held[t] > 0}) <= 1
    <3>1. IsFiniteSet({word[Mutex]}) /\ Cardinality({word[Mutex]}) = 1
      BY FS_Singleton
    <3> QED BY <2>1, <3>1, FS_Subset
  <2>3. \A t \in Threads : held[t] \in 0 .. MaxDepth
    BY PthreadAssumption DEF HoldInv, Hold
  <2>4. depth \in 0 .. MaxDepth
    BY PthreadAssumption DEF HoldInv
  <2>5. held \in [Threads -> 0 .. MaxDepth]
    BY <2>3 DEF HoldInv
  <2>6. /\ word \in [Words -> Threads \cup {Free} \cup Nat]
        /\ sleeping \in [Threads -> Words \cup {NoWord}]
        /\ owner \in Threads \cup {Free}
    BY DEF Safe, Typed, WordTyped, KernelTyped, LibraryTyped
  <2>7. record \in [Words -> {NoRecord} \cup [kind : {"address", "mutex"}, owner : Threads \cup {Free}]]
    BY DEF Safe, Typed, KernelTyped, Records
  <2>8. rw \in [writer : Threads \cup {Free}, readers : Nat, waiting : Nat]
    BY DEF RwInv, RwRecords
  <2>9. TypeOK
    BY <2>4, <2>5, <2>6, <2>7, <2>8 DEF TypeOK
  <2> QED BY <2>2, <2>9 DEF MutualExclusion
<1> QED BY <1>1, HoldAlways, RwAlways, SafeAlways, RwExclusionAlways, PTL DEF Exclusion

(* Nobody puts another thread to sleep. *)
LEMMA SleepOthers ==
  ASSUME Typed, NEW t \in Threads, Calls(t), NEW u \in Threads \ {t}
  PROVE  sleeping'[u] = sleeping[u] \/ sleeping'[u] = NoWord
<1> USE DEF Typed, KernelTyped
<1>1. ASSUME NEW a, NEW n, FutexWake(t, a, n) PROVE sleeping'[u] = sleeping[u] \/ sleeping'[u] = NoWord
  BY <1>1 DEF FutexWake, Return, Wake
<1>2. ASSUME NEW a, NEW x, FutexWait(t, a, x) PROVE sleeping'[u] = sleeping[u]
  BY <1>2 DEF FutexWait, Return, Sleep
<1>3. CASE kernel' = kernel
  BY <1>3 DEF kernel
<1>4. CASE Contend(t)
  BY <1>4 DEF Contend, MutexWait, Return, Sleep
<1>5. CASE Release(t)
  BY <1>5 DEF Release, MutexUnlock, Return, Wake
<1>6. CASE Doze(t)
  BY <1>6, <1>2 DEF Doze, Waits
<1>7. CASE OnceDoze(t)
  BY <1>7, <1>2 DEF OnceDoze, Waits
<1>8. CASE Notify(t)
  BY <1>8, <1>1 DEF Notify
<1>9. CASE OnceWake(t)
  BY <1>9, <1>1 DEF OnceWake
<1>10. CASE CompareExchange(t) \/ Leave(t) \/ Change(t) \/ RwUnlock(t) \/ OnceClaim(t) \/ OnceStore(t)
  BY <1>10 DEF CompareExchange, Leave, Change, RwUnlock, OnceClaim, OnceStore
<1> QED BY <1>3, <1>4, <1>5, <1>6, <1>7, <1>8, <1>9, <1>10 DEF Calls, Lock, Locked, StoreOwner,
     StoreDepth, Unlock, ClearOwner, ClearDepth, CondWait, Relock, RwCall, RdLock, WrLock,
     OnceCall, OnceCheck

(* The sequence of a condition only grows, by a signal or a broadcast. *)
LEMMA SequencesGrow ==
  ASSUME Typed, NEW t \in Threads, Calls(t), NEW a \in Conditions
  PROVE  /\ word[a] \in Nat /\ word'[a] \in Nat /\ word'[a] >= word[a]
         /\ ~Change(t) /\ ~RwUnlock(t) => word'[a] = word[a]
<1> USE DEF Typed, WordTyped
<1>a. a \in Words /\ a # Mutex /\ a # Once /\ Mutex \in Words /\ Once \in Words
  BY WordTypes, Distinct DEF Conditions
<1>b. word[a] \in Nat
  BY <1>a
<1>1. CASE kernel' = kernel
  <2>1. word' = word
    BY <1>1 DEF kernel
  <2> QED BY <2>1, <1>b
<1>2. CASE CompareExchange(t) \/ OnceClaim(t) \/ OnceStore(t)
  <2>1. word'[a] = word[a]
    BY <1>2, <1>a DEF CompareExchange, OnceClaim, OnceStore
  <2> QED BY <2>1, <1>b
<1>3. CASE Contend(t)
  <2>1. word'[a] = word[a]
    BY <1>3, <1>a DEF Contend, MutexWait, Return
  <2> QED BY <2>1, <1>b
<1>4. CASE Release(t)
  <2>1. word'[a] = word[a]
    BY <1>4, <1>a DEF Release, MutexUnlock, Return
  <2> QED BY <2>1, <1>b
<1>5. CASE Leave(t) \/ Doze(t) \/ OnceDoze(t) \/ Notify(t) \/ OnceWake(t)
  <2>1. word' = word
    BY <1>5 DEF Leave, Doze, OnceDoze, Waits, FutexWait, Return, Notify, OnceWake, FutexWake
  <2> QED BY <2>1, <1>b
<1>6. CASE Change(t)
  <2>1. word'[a] = word[a] \/ word'[a] = word[a] + 1
    BY <1>6, <1>a, WordTypes DEF Change
  <2> QED BY <2>1, <1>b, <1>6
<1>7. CASE RwUnlock(t)
  <2>1. word'[a] = word[a] \/ word'[a] = word[a] + 1
    BY <1>7, <1>a, WordTypes DEF RwUnlock, Heirs
  <2> QED BY <2>1, <1>b, <1>7
<1> QED BY <1>1, <1>2, <1>3, <1>4, <1>5, <1>6, <1>7 DEF Calls, Lock, Locked, StoreOwner,
     StoreDepth, Unlock, ClearOwner, ClearDepth, CondWait, Relock, RwCall, RdLock, WrLock,
     OnceCall, OnceCheck

(* The ends of a wait that no thread of the library calls for. *)
LEMMA EventsWake ==
  ASSUME Typed, Events
  PROVE  /\ UNCHANGED <<word, pc, library>>
         /\ \A u \in Threads : sleeping'[u] = sleeping[u] \/ sleeping'[u] = NoWord
<1>1. UNCHANGED <<word, pc, library>>
  BY DEF Events, Cancelled, TimedOut, ThreadExit, FutexReap
<1>2. \A u \in Threads : sleeping'[u] = sleeping[u] \/ sleeping'[u] = NoWord
  BY DEF Events, Cancelled, TimedOut, ThreadExit, FutexReap, Wake
<1> QED BY <1>1, <1>2

(* Thread u has given up the mutex to wait, and does not sleep yet. *)
Outside(u) == waits[u] /\ pc[u] \in {"released", "cleared", "sleepy"}

(* What it has yet to look at has changed since it did. *)
Awoken(u) == Outside(u) /\ seen[u] < word[Condition(u)]

(* What StillWaiting says of a thread. *)
LEMMA WaitingMeans ==
  ASSUME KernelInv, NEW u \in Threads, NEW a \in Conditions
  PROVE  /\ u \in Waiting(a) <=> sleeping[u] = a \/ (Outside(u) /\ Condition(u) = a)
         /\ sleeping[u] = a => Condition(u) = a /\ pc[u] = "slept" /\ ~Outside(u)
         /\ Outside(u) => sleeping[u] = NoWord
<1>1. a \in Words /\ a # NoWord /\ a # Mutex /\ a # Once
  BY WordTypes, Distinct, FutexAssumption DEF Conditions
<1>2. u \in Waiting(a) <=> sleeping[u] = a \/ (Outside(u) /\ Condition(u) = a)
  BY DEF Waiting, Waiters, Outside
<1>3. sleeping[u] # NoWord => pc[u] \in {"asked", "checking", "slept"}
  BY DEF KernelInv, SleepsRight
<1>4. sleeping[u] = a => Condition(u) = a /\ pc[u] = "slept"
  BY <1>1 DEF KernelInv, SleepsRight
<1> QED BY <1>2, <1>3, <1>4 DEF Outside

(* As long as a thread waits, it waits for the same condition, and its wakeup,
   once due, stays due. *)
LEMMA StillWaiting ==
  ASSUME Typed, ControlInv, KernelInv, KernelInv', Next, NEW u \in Threads,
         NEW a \in Conditions, NEW b \in Conditions, u \in Waiting(a), u \in Waiting(b)'
  PROVE  /\ a = b
         /\ sleeping[u] = a => sleeping'[u] = a
         /\ Awoken(u) => Awoken(u)' /\ sleeping'[u] = NoWord
<1>a. /\ u \in Waiting(a) <=> sleeping[u] = a \/ (Outside(u) /\ Condition(u) = a)
      /\ sleeping[u] = a => Condition(u) = a /\ pc[u] = "slept" /\ ~Outside(u)
      /\ Outside(u) => sleeping[u] = NoWord
  BY WaitingMeans
<1>b. /\ u \in Waiting(b)' <=> sleeping'[u] = b \/ (Outside(u)' /\ Condition(u)' = b)
      /\ sleeping'[u] = b => Condition(u)' = b /\ pc'[u] = "slept"
      /\ Outside(u)' => sleeping'[u] = NoWord
  <2>1. /\ u \in Waiting(b)' <=> sleeping'[u] = b \/ (Outside(u)' /\ Condition(u)' = b)
    BY DEF Waiting, Waiters, Outside
  <2>2. b # NoWord /\ b # Mutex /\ b # Once
    BY WordTypes, Distinct, FutexAssumption DEF Conditions
  <2>3. sleeping'[u] = b => Condition(u)' = b /\ pc'[u] = "slept"
    BY <2>2 DEF KernelInv, SleepsRight
  <2>4. sleeping'[u] # NoWord => pc'[u] \in {"asked", "checking", "slept"}
    BY DEF KernelInv, SleepsRight
  <2> QED BY <2>1, <2>3, <2>4 DEF Outside
<1>c. a # NoWord /\ b # NoWord
  BY WordTypes, FutexAssumption DEF Conditions
<1>1. ASSUME /\ pc'[u] = pc[u] /\ waits'[u] = waits[u] /\ doing'[u] = doing[u] /\ seen'[u] = seen[u],
             sleeping'[u] = sleeping[u] \/ sleeping'[u] = NoWord,
             \A c \in Conditions : word[c] \in Nat /\ word'[c] \in Nat /\ word'[c] >= word[c]
      PROVE  /\ a = b
             /\ sleeping[u] = a => sleeping'[u] = a
             /\ Awoken(u) => Awoken(u)' /\ sleeping'[u] = NoWord
  <2>1. Condition(u)' = Condition(u) /\ (Outside(u)' <=> Outside(u))
    BY <1>1 DEF Condition, Outside
  <2>2. Condition(u) \in Conditions
    BY ConditionTypes
  <2>3. seen[u] \in Nat
    BY DEF Typed, LibraryTyped
  <2>4. seen[u] < word[Condition(u)] => seen'[u] < word'[Condition(u)]
    BY <1>1, <2>2, <2>3
  <2> QED BY <1>a, <1>b, <1>c, <1>1, <2>1, <2>4 DEF Awoken
<1>2. ASSUME NEW t \in Threads, Calls(t), t # u
      PROVE  /\ a = b
             /\ sleeping[u] = a => sleeping'[u] = a
             /\ Awoken(u) => Awoken(u)' /\ sleeping'[u] = NoWord
  BY <1>2, <1>1, Local, SleepOthers, SequencesGrow
<1>3. ASSUME Calls(u)
      PROVE  /\ a = b
             /\ sleeping[u] = a => sleeping'[u] = a
             /\ Awoken(u) => Awoken(u)' /\ sleeping'[u] = NoWord
  <2>1. sleeping[u] = NoWord /\ Outside(u) /\ Condition(u) = a
    BY <1>3, <1>a, <1>c, CallAwake DEF Awake
  <2>2. pc[u] \in {"released", "cleared", "sleepy"} /\ waits[u]
    BY <2>1 DEF Outside
  <2>3. ClearOwner(u) \/ ClearDepth(u) \/ Doze(u)
    BY <1>3, <2>2 DEF Calls, At, Lock, CompareExchange, Contend, Locked, StoreOwner, StoreDepth,
         Unlock, Leave, Release, CondWait, Relock, Change, Notify, RwCall, RdLock, WrLock, RwUnlock,
         OnceCall, OnceClaim, OnceStore, OnceWake, OnceCheck, OnceDoze
  <2>4. CASE ClearOwner(u) \/ ClearDepth(u)
    <3>1. UNCHANGED <<word, sleeping, waits, doing, seen>>
      BY <2>2, <2>4 DEF ClearOwner, ClearDepth, kernel, rwlock
    <3>2. pc'[u] \in {"cleared", "sleepy"}
      BY <2>2, <2>4 DEF ClearOwner, ClearDepth, Go, Typed, LibraryTyped
    <3>3. Condition(u)' = Condition(u) /\ Outside(u)'
      BY <2>2, <3>1, <3>2 DEF Condition, Outside
    <3> QED BY <2>1, <3>1, <3>3, <1>b, <1>c DEF Awoken
  <2>5. CASE Doze(u)
    <3>1. pc'[u] = "slept" /\ UNCHANGED <<waits, doing, seen>>
      BY <2>5 DEF Doze, Go, library, rwlock, Typed, LibraryTyped
    <3>2. Condition(u)' = Condition(u) /\ ~Outside(u)'
      BY <3>1 DEF Condition, Outside
    <3>3. sleeping'[u] = b /\ a = b
      BY <1>b, <2>1, <3>2
    <3>4. word[Condition(u)] = seen[u]
      BY <2>5, <2>1, <3>3, <1>c DEF Doze, Waits, FutexWait, Changed, Return
    <3>5. ~Awoken(u)
      BY <3>4 DEF Awoken, Typed, LibraryTyped
    <3> QED BY <2>1, <3>3, <3>5, <1>c
  <2> QED BY <2>3, <2>4, <2>5
<1>4. CASE Events
  <2>1. \A c \in Conditions : word[c] \in Nat
    BY WordTypes, Distinct DEF Conditions, Typed, WordTyped
  <2>2. UNCHANGED <<word, pc, waits, doing, seen>> /\ (sleeping'[u] = sleeping[u] \/ sleeping'[u] = NoWord)
    BY <1>4, EventsWake DEF library, rwlock
  <2> QED BY <2>1, <2>2, <1>1
<1> QED BY <1>2, <1>3, <1>4 DEF Next

(* What is owed to the set W of threads for the signal or broadcast of t. *)
Due(t, W) ==
  /\ W # {}
  /\ IF pc[t] \in Notifying
     THEN \A u \in W : /\ u \in Waiting(Signalled(t, pc[t]))
                       /\ sleeping[u] # NoWord \/ Awoken(u)
     ELSE \E u \in W : Awoken(u) /\ sleeping[u] = NoWord
  /\ pc[t] = "broadcasting" => \E u \in Threads : W = {u}

SeenInv == \A u \in Threads : waits[u] => seen[u] <= word[Condition(u)]

DueInv ==
  /\ unmet \in [Threads -> SUBSET SUBSET Threads]
  /\ \A t \in Threads : \A W \in unmet[t] : Due(t, W)

(* Nobody waits for a condition when the process begins. *)
LEMMA SignalInit == Init => SeenInv /\ DueInv
BY DEF Init, SeenInv, DueInv

(* Nobody has seen a sequence that is yet to come: every call keeps seen within what
   the condition has counted. *)
LEMMA SeenStep ==
  ASSUME Typed, ControlInv, SeenInv, NEW t \in Threads, Calls(t)
  PROVE  SeenInv'
<1>a. ASSUME NEW u \in Threads PROVE Condition(u) \in Conditions /\ seen[u] \in Nat
  BY ConditionTypes DEF Typed, LibraryTyped
<1>b. \A a \in Conditions : word[a] \in Nat /\ word'[a] \in Nat /\ word'[a] >= word[a]
  BY SequencesGrow
<1>1. ASSUME NEW u \in Threads, waits'[u], waits[u], seen'[u] = seen[u], Condition(u)' = Condition(u)
      PROVE  seen'[u] <= word'[Condition(u)']
  <2>1. seen[u] <= word[Condition(u)]
    BY <1>1 DEF SeenInv
  <2> QED BY <1>1, <1>a, <1>b, <2>1
<1>2. ASSUME NEW u \in Threads \ {t}, waits'[u] PROVE seen'[u] <= word'[Condition(u)']
  <2>1. waits[u] /\ seen'[u] = seen[u] /\ Condition(u)' = Condition(u)
    BY <1>2, Local DEF Condition
  <2> QED BY <1>1, <1>2, <2>1
<1>3. ASSUME waits'[t] PROVE seen'[t] <= word'[Condition(t)']
  <2>1. CASE CondWait(t) \/ (RdLock(t) /\ StartWait(t)) \/ (WrLock(t) /\ StartWait(t))
    <3>1. word' = word /\ doing' = doing
      BY <2>1 DEF CondWait, RdLock, WrLock, kernel, rwlock
    <3>2. seen'[t] = word[Condition(t)]
      BY <2>1 DEF CondWait, StartWait, Typed, LibraryTyped
    <3>3. Condition(t)' = Condition(t)
      BY <3>1 DEF Condition
    <3> QED BY <3>1, <3>2, <3>3, <1>a, <1>b
  <2>2. CASE Relock(t)
    <3>1. UNCHANGED <<waits, seen>> /\ (doing'[t] = doing[t] \/ doing'[t] = Interrupted(doing[t]))
      BY <2>2 DEF Relock, Typed, LibraryTyped
    <3>2. /\ Interrupted(doing[t]) = "none" <=> doing[t] = "none"
          /\ Interrupted(doing[t]) \in Writing <=> doing[t] \in Writing
      BY DEF Interrupted, Writing
    <3>3. Condition(t)' = Condition(t)
      BY <3>1, <3>2 DEF Condition
    <3> QED BY <1>1, <1>3, <3>1, <3>3
  <2>3. CASE RwCall(t)
    <3>1. ~waits'[t]
      BY <2>3 DEF RwCall, At, ControlInv, Control
    <3> QED BY <1>3, <3>1
  <2>4. CASE \/ Lock(t) \/ CompareExchange(t) \/ Contend(t) \/ Locked(t) \/ StoreOwner(t)
             \/ StoreDepth(t) \/ Unlock(t) \/ Leave(t) \/ Release(t) \/ ClearOwner(t)
             \/ ClearDepth(t) \/ Doze(t) \/ Change(t) \/ Notify(t) \/ RwUnlock(t)
             \/ (RdLock(t) /\ ~StartWait(t)) \/ (WrLock(t) /\ ~StartWait(t))
             \/ OnceCall(t) \/ OnceClaim(t) \/ OnceStore(t) \/ OnceWake(t) \/ OnceCheck(t) \/ OnceDoze(t)
    <3>1. seen' = seen
      BY <2>4 DEF Lock, CompareExchange, Contend, Locked, StoreOwner, StoreDepth, Unlock, Leave,
           Release, ClearOwner, ClearDepth, Doze, Change, Notify, RwUnlock, RdLock, WrLock,
           OnceCall, OnceClaim, OnceStore, OnceWake, OnceCheck, OnceDoze, library
    <3>2. waits[t] /\ doing'[t] = doing[t]
      BY <1>3, <2>4 DEF Lock, CompareExchange, Contend, Locked, StoreOwner, StoreDepth, Unlock,
           Leave,
           Release, ClearOwner, ClearDepth, Doze, Change, Notify, RwUnlock, RdLock, WrLock,
           OnceCall, OnceClaim, OnceStore, OnceWake, OnceCheck, OnceDoze, library, rwlock, Typed,
           LibraryTyped, GiveUp, Leaves, Done
    <3>3. Condition(t)' = Condition(t)
      BY <3>2 DEF Condition
    <3> QED BY <1>1, <1>3, <3>1, <3>2, <3>3
  <2> QED BY <2>1, <2>2, <2>3, <2>4 DEF Calls
<1> QED BY <1>2, <1>3 DEF SeenInv

(* ... and so does every step. *)
LEMMA SeenNext == Typed /\ ControlInv /\ SeenInv /\ [Next]_vars => SeenInv'
<1> SUFFICES ASSUME Typed, ControlInv, SeenInv, [Next]_vars PROVE SeenInv'
  OBVIOUS
<1>1. ASSUME NEW t \in Threads, Calls(t) PROVE SeenInv'
  BY <1>1, SeenStep
<1>2. CASE UNCHANGED <<word, pc, library>>
  BY <1>2 DEF SeenInv, Condition, library, rwlock
<1>3. CASE UNCHANGED vars
  BY <1>2, <1>3 DEF vars, kernel
<1> QED BY <1>1, <1>2, <1>3, EventsWake DEF Next

(* How a signal or a broadcast begins: the sequence of its condition is
   counted up. *)
LEMMA Beginning ==
  ASSUME Typed, ControlInv, SeenInv, KernelInv, NEW t \in Threads, Next, Begins(t),
         NEW u \in Waiting(Signalled(t, pc'[t]))
  PROVE  /\ sleeping'[u] = sleeping[u]
         /\ u \in Waiting(Signalled(t, pc[t]))'
         /\ sleeping[u] # NoWord \/ Awoken(u)'
<1>1. Calls(t)
  <2>1. pc'[t] # pc[t]
    BY DEF Begins
  <2> QED BY <2>1, Local, EventsWake DEF Next
<1>2. Change(t) \/ RwUnlock(t)
  BY <1>1 DEF Calls, Begins, Lock, CompareExchange, Contend, Locked, StoreOwner, StoreDepth,
       Unlock,
     Leave, Release, ClearOwner, ClearDepth, CondWait, Doze, Relock, Notify, RwCall, RdLock, WrLock,
     OnceCall, OnceClaim, OnceStore, OnceWake, OnceCheck, OnceDoze, At, Go, Typed, LibraryTyped,
     GiveUp, Leaves, StartWait, Done
<1>3. /\ doing' = doing /\ seen' = seen /\ sleeping' = sleeping
      /\ pc[t] \in {"out", "inside"}
  BY <1>2 DEF Change, RwUnlock, library, rwlock, At
<1> DEFINE a == Signalled(t, pc'[t])
<1>4. a \in Conditions /\ Signalled(t, pc[t])' = a
  BY <1>3 DEF Signalled, Conditions
<1>5. word[a] \in Nat /\ word'[a] = word[a] + 1
  <2>a. a \in Words /\ a # Mutex /\ a # Once /\ Sequence # Writers /\ Sequence # Readers /\ Readers # Writers
    BY <1>4, WordTypes, Distinct DEF Conditions
  <2>1. word[a] \in Nat
    BY <2>a DEF Typed, WordTyped
  <2>2. CASE Change(t)
    <3>1. a = Sequence
      BY <2>2 DEF Change, At, ControlInv, Control, Signalled
    <3> QED BY <2>1, <2>2, <2>a, <3>1 DEF Change, Typed, WordTyped
  <2>3. CASE RwUnlock(t)
    <3>1. doing[t] = "unlock" /\ pc[t] = "inside"
      BY <2>3 DEF RwUnlock, At
    <3>2. \E to \in {Readers, Writers} :
            /\ word' = [word EXCEPT ![to] = @ + 1]
            /\ pc'[t] = (IF to = Writers THEN "signalling" ELSE "broadcasting")
      <4>1. pc'[t] # "unlocking"
        BY DEF Begins
      <4> QED BY <2>3, <4>1 DEF RwUnlock, Heirs, Done, Go, Typed, LibraryTyped
    <3>3. word' = [word EXCEPT ![a] = @ + 1]
      BY <3>1, <3>2, <2>a DEF Signalled
    <3> QED BY <2>1, <2>a, <3>3 DEF Typed, WordTyped
  <2> QED BY <1>2, <2>2, <2>3
<1>6. u \in Threads
  BY DEF Waiting, Waiters
<1>7. /\ sleeping[u] = a \/ (Outside(u) /\ Condition(u) = a)
      /\ Outside(u) => sleeping[u] = NoWord
  BY <1>4, <1>6, WaitingMeans
<1>8. CASE sleeping[u] = a
  <2>1. sleeping[u] # NoWord
    BY <1>4, <1>8, WordTypes, FutexAssumption DEF Conditions
  <2> QED BY <1>3, <1>4, <1>6, <1>8, <2>1 DEF Waiting, Waiters
<1>9. CASE Outside(u) /\ Condition(u) = a
  <2>1. u # t
    BY <1>3, <1>9 DEF Outside
  <2>2. pc'[u] = pc[u] /\ waits'[u] = waits[u] /\ doing'[u] = doing[u] /\ seen'[u] = seen[u]
    BY <2>1, <1>1, <1>6, Local
  <2>3. Outside(u)' /\ Condition(u)' = a
    BY <2>2, <1>9 DEF Outside, Condition
  <2>4. seen[u] <= word[a] /\ seen[u] \in Nat
    BY <1>6, <1>9 DEF SeenInv, Outside, Typed, LibraryTyped
  <2>5. Awoken(u)'
    BY <2>2, <2>3, <2>4, <1>5 DEF Awoken
  <2>6. u \in Waiting(Signalled(t, pc[t]))'
    BY <2>3, <1>4, <1>6 DEF Waiting, Outside
  <2> QED BY <1>3, <2>5, <2>6
<1> QED BY <1>7, <1>8, <1>9

(* A signal that has been made has been met when it returns. *)
LEMMA Notified ==
  ASSUME Typed, ControlInv, KernelInv, NEW t \in Threads, Notify(t),
         NEW W \in SUBSET Threads, Due(t, W),
         \A u \in W : \E b \in Conditions : u \in Waiting(b)',
         \A a \in Conditions : pc[t] = "signalling" /\ a = Signalled(t, pc[t])
                              => Waiting(a) \subseteq Waiting(a)'
  PROVE  \E u \in W : Awoken(u) /\ sleeping[u] = NoWord
<1>1. PICK a \in Conditions : a = Signalled(t, pc[t]) /\ a \in Words \ {Mutex} /\ a # NoWord
  BY WordTypes, Distinct, FutexAssumption DEF Signalled, Conditions
<1>2. record[a].kind # "mutex"
  BY <1>1 DEF KernelInv
<1>3. /\ pc[t] \in Notifying
      /\ W # {} /\ \A u \in W : u \in Waiting(a) /\ (sleeping[u] # NoWord \/ Awoken(u))
  BY <1>1 DEF Notify, Notifying, At, Due
<1>4. \A u \in W : u \in Threads /\ (sleeping[u] # NoWord => sleeping[u] = a)
  <2>1. ASSUME NEW u \in W, sleeping[u] # NoWord PROVE sleeping[u] = a
    <3>1. sleeping[u] = a \/ Outside(u)
      BY <1>1, <1>3, <2>1, WaitingMeans
    <3> QED BY <1>1, <2>1, <3>1, WaitingMeans
  <2> QED BY <2>1
(* Who is woken waits no longer.                                            *)
<1>5. ASSUME NEW u \in Threads, sleeping[u] = a, sleeping'[u] = NoWord, NEW b \in Conditions
      PROVE  u \notin Waiting(b)'
  <2>1. u # t /\ pc[u] = "slept" /\ b # NoWord
    BY <1>1, <1>5, WaitingMeans, WordTypes, FutexAssumption DEF Notify, At, Awake, Conditions
  <2>2. pc'[u] = "slept"
    BY <2>1, Local DEF Calls
  <2> QED BY <1>5, <2>1, <2>2 DEF Waiting, Waiters
<1>6. CASE At(t, "signalling") /\ FutexWake(t, a, 1)
  <2>1. PICK S \in SUBSET Waiters(a) :
          (Cardinality(S) = 1 \/ S = Waiters(a)) /\ Wake(S, "OK", t, "OK")
    BY <1>2, <1>6 DEF FutexWake
  <2>2. \A u \in S : u \in Waiting(a) /\ u \notin Waiting(a)'
    <3>1. \A u \in S : u \in Threads /\ sleeping[u] = a /\ sleeping'[u] = NoWord
      BY <2>1 DEF Waiters, Wake
    <3> QED BY <3>1, <1>1, <1>5 DEF Waiting, Waiters
  <2>3. S = {}
    BY <2>2, <1>1, <1>6 DEF At
  <2>4. Waiters(a) = {}
    BY <2>1, <2>3, FS_EmptySet
  <2>5. \A u \in W : sleeping[u] = NoWord
    BY <2>4, <1>4 DEF Waiters
  <2> QED BY <1>3, <2>5
<1>7. CASE At(t, "broadcasting") /\ FutexWake(t, a, Cardinality(Threads))
  <2>1. PICK u \in Threads : W = {u}
    BY <1>7 DEF Due, At
  <2>2. sleeping[u] = a => sleeping'[u] = NoWord
    BY <1>1, <1>7, WakesAll
  <2>3. sleeping[u] # a
    BY <2>1, <2>2, <1>5
  <2> QED BY <2>1, <2>3, <1>3, <1>4
<1> QED BY <1>1, <1>6, <1>7 DEF Notify

(* Every call keeps what a signal owes to those that waited when it began. *)
LEMMA DueStep ==
  ASSUME Typed, ControlInv, SeenInv, KernelInv, KernelInv', DueInv, Next, Account,
         NEW t \in Threads, NEW W \in unmet'[t]
  PROVE  W \in SUBSET Threads /\ Due(t, W)'
<1> DEFINE owed == IF Begins(t) THEN Owed(t) ELSE unmet[t]
<1>1. /\ W \in owed
      /\ \A u \in W : \E b \in Conditions : u \in Waiting(b)'
      /\ \A a \in Conditions : pc[t] = "signalling" /\ a = Signalled(t, pc[t])
                              => Waiting(a) \subseteq Waiting(a)'
  BY DEF Account
<1>2. CASE Begins(t)
  <2>1. pc'[t] \in Notifying
    BY <1>2 DEF Begins, Notifying
  <2>2. /\ W # {} /\ W \subseteq Waiting(Signalled(t, pc'[t]))
        /\ pc'[t] = "broadcasting" => \E u \in Threads : W = {u}
    BY <1>1, <1>2 DEF Owed, Waiting, Waiters
  <2>3. \A u \in W : /\ u \in Waiting(Signalled(t, pc[t]))'
                     /\ sleeping'[u] # NoWord \/ Awoken(u)'
    BY <1>2, <2>2, Beginning
  <2>4. W \in SUBSET Threads
    BY <2>2 DEF Waiting, Waiters
  <2> QED BY <2>1, <2>2, <2>3, <2>4 DEF Due
<1>3. CASE ~Begins(t)
  <2>1. W \in unmet[t] /\ W \in SUBSET Threads /\ Due(t, W)
    BY <1>1, <1>3 DEF DueInv
  <2>2. CASE Notify(t)
    <3>1. PICK u \in W : Awoken(u) /\ sleeping[u] = NoWord
      BY <1>1, <2>1, <2>2, Notified
    <3>2. u \in Waiting(Condition(u)) /\ Condition(u) \in Conditions /\ u \in Threads
      BY <2>1, <3>1, ConditionTypes DEF Awoken, Outside, Waiting
    <3>3. Awoken(u)' /\ sleeping'[u] = NoWord
      BY <1>1, <3>1, <3>2, StillWaiting
    <3>4. pc'[t] \in {"out", "unlocking"}
      BY <2>2 DEF Notify, Go, Typed, LibraryTyped
    <3> QED BY <2>1, <3>3, <3>4 DEF Due, Notifying
  <2>3. CASE ~Notify(t) /\ pc[t] \in Notifying
    <3>1. pc'[t] = pc[t] /\ doing'[t] = doing[t]
      <4>1. ~Calls(t)
        BY <2>3 DEF Calls, Notifying, At, Lock, CompareExchange, Contend, Locked, StoreOwner,
             StoreDepth,
         Unlock, Leave, Release, ClearOwner, ClearDepth, CondWait, Doze, Relock, Change, RwCall, RdLock,
         WrLock, RwUnlock, OnceCall, OnceClaim, OnceStore, OnceWake, OnceCheck, OnceDoze
      <4>2. CASE \E x \in Threads : Calls(x)
        BY <4>1, <4>2, Local
      <4>3. CASE Events
        BY <4>3, EventsWake DEF library, rwlock
      <4> QED BY <4>2, <4>3 DEF Next
    <3> DEFINE a == Signalled(t, pc[t])
    <3>2. a \in Conditions /\ Signalled(t, pc[t])' = a
      BY <3>1 DEF Signalled, Conditions
    <3>3. ASSUME NEW u \in W PROVE u \in Waiting(a)' /\ (sleeping'[u] # NoWord \/ Awoken(u)')
      <4>1. u \in Threads /\ u \in Waiting(a) /\ (sleeping[u] # NoWord \/ Awoken(u))
        BY <2>1, <2>3 DEF Due
      <4>2. PICK b \in Conditions : u \in Waiting(b)'
        BY <1>1
      <4>3. /\ a = b
            /\ sleeping[u] = a => sleeping'[u] = a
            /\ Awoken(u) => Awoken(u)' /\ sleeping'[u] = NoWord
        BY <3>2, <4>1, <4>2, StillWaiting
      <4>4. sleeping[u] # NoWord => sleeping[u] = a
        BY <3>2, <4>1, WaitingMeans
      <4>5. a # NoWord
        BY <3>2, WordTypes, FutexAssumption DEF Conditions
      <4>6. u \in Waiting(Signalled(t, pc[t]))'
        BY <3>2, <4>2, <4>3 DEF Waiting, Waiters, Condition
      <4> QED BY <4>1, <4>3, <4>4, <4>5, <4>6
    <3> QED BY <2>1, <2>3, <3>1, <3>2, <3>3 DEF Due
  <2>4. CASE pc[t] \notin Notifying
    <3>1. PICK u \in W : Awoken(u) /\ sleeping[u] = NoWord
      BY <2>1, <2>4 DEF Due
    <3>2. u \in Waiting(Condition(u)) /\ Condition(u) \in Conditions /\ u \in Threads
      BY <2>1, <3>1, ConditionTypes DEF Awoken, Outside, Waiting
    <3>3. Awoken(u)' /\ sleeping'[u] = NoWord
      BY <1>1, <3>1, <3>2, StillWaiting
    <3>4. pc'[t] \notin Notifying
      <4>1. CASE pc'[t] = pc[t]
        BY <4>1, <2>4
      <4>2. CASE pc'[t] # pc[t]
        <5>1. Calls(t)
          BY <4>2, Local, EventsWake DEF Next
        <5>2. pc[t] \in {"out", "inside"} \/ pc'[t] \notin Notifying
          BY <5>1, <2>4 DEF Calls, Notifying, Lock, CompareExchange, Contend, Locked,
               StoreOwner,
            StoreDepth, Unlock, Leave, Release, ClearOwner, ClearDepth, CondWait, Doze, Relock, Change,
            Notify, RwCall, RdLock, WrLock, RwUnlock, OnceCall, OnceClaim, OnceStore, OnceWake,
            OnceCheck, OnceDoze, At, Go, Typed, LibraryTyped, GiveUp, Leaves, StartWait, Done
        <5> QED BY <5>2, <1>3 DEF Begins, Notifying
      <4> QED BY <4>1, <4>2
    <3> QED BY <2>1, <3>3, <3>4 DEF Due, Notifying
  <2> QED BY <2>2, <2>3, <2>4
<1> QED BY <1>2, <1>3

(* ... and so does every step. *)
LEMMA DueNext ==
  Typed /\ ControlInv /\ SeenInv /\ KernelInv /\ DueInv /\ [Next]_vars => DueInv'
<1> SUFFICES ASSUME Typed, ControlInv, SeenInv, KernelInv, DueInv, [Next]_vars PROVE DueInv'
  OBVIOUS
<1>1. CASE Next
  <2>1. KernelInv' /\ Account
    BY <1>1, KernelNext DEF Next
  <2>2. \A t \in Threads : \A W \in unmet'[t] : W \in SUBSET Threads /\ Due(t, W)'
    BY <1>1, <2>1, DueStep
  <2>3. unmet' \in [Threads -> SUBSET SUBSET Threads]
    <3>1. \A t \in Threads : unmet'[t] \in SUBSET SUBSET Threads
      BY <2>2
    <3>2. \E F : unmet' = [t \in Threads |-> F[t]]
      <4> DEFINE F == [t \in Threads |-> unmet'[t]]
      <4>1. unmet' = [t \in Threads |-> F[t]]
        BY <2>1 DEF Account
      <4> QED BY <4>1
    <3> QED BY <3>1, <3>2
  <2> QED BY <2>2, <2>3 DEF DueInv
<1>2. CASE UNCHANGED vars
  <2>1. \A t \in Threads, W \in SUBSET Threads : Due(t, W) => Due(t, W)'
    BY <1>2 DEF vars, kernel, library, rwlock, Due, Awoken, Outside, Waiting, Waiters,
         Signalled, Condition
  <2> QED BY <1>2, <2>1 DEF DueInv, vars
<1> QED BY <1>1, <1>2

(* A signal that has returned has reached one of those that waited when it began, and
   a broadcast all of them: between the store of the sequence and the wake-up no waiter
   is lost, whether it sleeps already or has yet to compare the sequence. *)
THEOREM ReachedAlways == Spec => []Reached
<1>1. DueInv => Reached
  BY DEF DueInv, Due, Reached, Notifying
<1>2. Safe /\ SeenInv /\ DueInv /\ [Next]_vars => SeenInv' /\ DueInv'
  BY SeenNext, DueNext DEF Safe
<1> QED BY <1>1, <1>2, SignalInit, SafeAlways, PTL DEF Spec

(* Thread t is in condition_wait and has yet to look at the sequence again. *)
Looks(t) == waits[t] /\ pc[t] \in Looking

(* Whoever waits for a sequence that has not changed waits for a good reason. *)
TakenInv == \A t \in Threads : Looks(t) =>
  /\ doing[t] \notin Interruptions
  /\ seen[t] = word[Condition(t)] =>
       /\ doing[t] = "wrlock" => Taken
       /\ doing[t] = "rdlock" => rw.writer # Free \/ rw.waiting # 0 \/ abandoned

(* A writer that is about to look at the lock. *)
Retries(t) ==
  /\ Counted(t) /\ sleeping[t] # Writers
  /\ pc[t] \in Looking => seen[t] < word[Writers]

Wakes(t, place) == pc[t] = place /\ doing[t] = "unlock"

(* A lock that is free is looked at by a writer, or someone is being woken. *)
ForgotInv ==
  ~Taken /\ ~abandoned =>
    /\ rw.waiting # 0 => \E t \in Threads : Retries(t) \/ Wakes(t, "signalling")
    /\ (\E u \in Threads : sleeping[u] = Readers) =>
         rw.waiting # 0 \/ \E t \in Threads : Wakes(t, "broadcasting")

(* The lock begins free, and nobody waits for it. *)
LEMMA ForgotInit == Init => TakenInv /\ ForgotInv
<1> SUFFICES ASSUME Init PROVE TakenInv /\ ForgotInv
  OBVIOUS
<1>1. TakenInv
  BY DEF Init, TakenInv, Looks
<1>2. rw.waiting = 0 /\ \A u \in Threads : sleeping[u] # Readers
  BY WordTypes, FutexAssumption DEF Init, FutexInit
<1> QED BY <1>1, <1>2 DEF ForgotInv

(* What a call other than pthread_rwlock_unlock does to the lock. *)
LEMMA LockSteps ==
  ASSUME Typed, ControlInv, RwInv, NEW t \in Threads, Calls(t), ~RwUnlock(t)
  PROVE  /\ abandoned => abandoned'
         /\ \/ rw' = rw /\ (Counted(t) => Counted(t)' \/ abandoned')
            \/ abandoned' /\ rw'.writer = rw.writer /\ rw'.readers = rw.readers
            \/ /\ RdLock(t) /\ rw'.readers # 0
               /\ rw'.writer = rw.writer /\ rw'.waiting = rw.waiting
            \/ WrLock(t) /\ rw'.writer # Free
            \/ /\ WrLock(t) /\ Taken /\ rw'.waiting # 0
               /\ rw'.writer = rw.writer /\ rw'.readers = rw.readers
<1> DEFINE Goal ==
      /\ abandoned => abandoned'
      /\ \/ rw' = rw /\ (Counted(t) => Counted(t)' \/ abandoned')
         \/ abandoned' /\ rw'.writer = rw.writer /\ rw'.readers = rw.readers
         \/ /\ RdLock(t) /\ rw'.readers # 0
            /\ rw'.writer = rw.writer /\ rw'.waiting = rw.waiting
         \/ WrLock(t) /\ rw'.writer # Free
         \/ /\ WrLock(t) /\ Taken /\ rw'.waiting # 0
            /\ rw'.writer = rw.writer /\ rw'.readers = rw.readers
<1>a. /\ rw \in RwRecords /\ rw.readers \in Nat /\ rw.waiting \in Nat /\ Free \notin Threads
      /\ waits \in [Threads -> BOOLEAN] /\ doing \in [Threads -> Doings]
  BY FutexAssumption DEF RwInv, RwRecords, Free, Typed, LibraryTyped
<1>1. ASSUME GiveUp(t) PROVE Goal
  <2>1. CASE Counted(t)
    <3>1. abandoned' /\ rw' = [rw EXCEPT !.waiting = rw.waiting - 1]
      BY <1>1, <2>1 DEF GiveUp
    <3>2. rw' = [writer |-> rw.writer, readers |-> rw.readers, waiting |-> rw.waiting - 1]
      BY <3>1, <1>a, RwUpdate
    <3> QED BY <3>1, <3>2
  <2>2. CASE ~Counted(t)
    <3>1. rw' = [rw EXCEPT !.waiting = rw.waiting]
      BY <1>1, <2>2 DEF GiveUp
    <3>2. [rw EXCEPT !.waiting = rw.waiting] = [writer |-> rw.writer, readers |-> rw.readers, waiting |-> rw.waiting]
      BY <1>a, RwUpdate
    <3>3. rw = [writer |-> rw.writer, readers |-> rw.readers, waiting |-> rw.waiting]
      BY <1>a DEF RwRecords
    <3>4. rw' = rw
      BY <3>1, <3>2, <3>3
    <3>5. abandoned => abandoned'
      BY <1>1 DEF GiveUp
    <3> QED BY <3>4, <3>5, <2>2
  <2> QED BY <2>1, <2>2
<1>2. ASSUME UNCHANGED <<rw, abandoned>>, Counted(t) => Counted(t)' PROVE Goal
  BY <1>2
<1>3. ASSUME rwlock' = rwlock, waits' = waits PROVE Goal
  BY <1>3, <1>2 DEF rwlock, Counted
<1>4. CASE Lock(t) \/ Unlock(t) \/ Contend(t) \/ StoreOwner(t) \/ ClearOwner(t) \/ Doze(t)
           \/ Change(t) \/ Notify(t) \/ OnceClaim(t) \/ OnceStore(t) \/ OnceDoze(t)
  BY <1>4, <1>3 DEF Lock, Unlock, Contend, StoreOwner, ClearOwner, Doze, Change, Notify,
       OnceClaim,
       OnceStore, OnceDoze, library
<1>5. CASE CompareExchange(t) \/ Locked(t) \/ Leave(t) \/ Release(t)
  BY <1>5, <1>1, <1>3 DEF CompareExchange, Locked, Leave, Release
<1>6. CASE StoreDepth(t)
  <2>1. UNCHANGED <<rw, abandoned>>
    BY <1>6 DEF StoreDepth
  <2>2. Counted(t) => Counted(t)'
    BY <1>6 DEF StoreDepth, Counted, Writing
  <2> QED BY <2>1, <2>2, <1>2
<1>7. CASE ClearDepth(t)
  <2>1. UNCHANGED <<rw, abandoned>>
    BY <1>7 DEF ClearDepth
  <2>2. Counted(t) => Counted(t)'
    BY <1>7 DEF ClearDepth, Counted, Writing
  <2> QED BY <2>1, <2>2, <1>2
<1>8. CASE CondWait(t)
  <2>1. UNCHANGED <<rw, abandoned, doing>> /\ waits'[t]
    BY <1>8, <1>a DEF CondWait, rwlock, StartWait
  <2> QED BY <2>1, <1>2 DEF Counted
<1>9. CASE Relock(t)
  <2>1. UNCHANGED <<rw, abandoned, waits>> /\ (doing'[t] = doing[t] \/ doing'[t] = Interrupted(doing[t]))
    BY <1>9, <1>a DEF Relock
  <2>2. Interrupted(doing[t]) \in Writing <=> doing[t] \in Writing
    BY DEF Interrupted, Writing
  <2>3. Counted(t) => Counted(t)'
    BY <2>1, <2>2 DEF Counted
  <2> QED BY <2>1, <2>3, <1>2
<1>10. CASE RwCall(t)
  <2>1. UNCHANGED <<rw, abandoned>> /\ ~waits[t]
    BY <1>10 DEF RwCall, ControlInv, Control, At
  <2> QED BY <2>1, <1>2 DEF Counted
<1>11. CASE OnceCall(t) \/ OnceWake(t) \/ OnceCheck(t)
  <2>1. UNCHANGED <<rw, abandoned, waits, doing>>
    BY <1>11 DEF OnceCall, OnceWake, OnceCheck
  <2> QED BY <2>1, <1>2 DEF Counted
<1>12. CASE RdLock(t)
  <2>1. ~Counted(t)
    BY <1>12 DEF RdLock, Counted, Writing
  <2>2. CASE rw' = rw
    BY <1>12, <2>1, <2>2 DEF RdLock
  <2>3. CASE rw' = [rw EXCEPT !.readers = @ + 1]
    <3>1. rw' = [writer |-> rw.writer, readers |-> rw.readers + 1, waiting |-> rw.waiting]
      BY <2>3, <1>a, RwUpdate
    <3>2. rw.readers + 1 # 0
      BY <1>a
    <3>3. abandoned' = abandoned
      BY <1>12 DEF RdLock
    <3> QED BY <3>1, <3>2, <3>3, <1>12
  <2> QED BY <1>12, <2>2, <2>3 DEF RdLock
<1>13. CASE WrLock(t)
  <2>1. CASE doing[t] = "trywrlock" /\ UNCHANGED <<rw, grip, abandoned>>
    BY <2>1, <1>2 DEF Counted, Writing
  <2>2. CASE /\ doing[t] = "interrupted wrlock" /\ abandoned' = TRUE
             /\ rw' = [rw EXCEPT !.waiting = (rw.waiting + IF doing[t] = "wrlock" /\ ~waits[t] THEN 1 ELSE 0) - 1]
    <3> DEFINE d == (rw.waiting + IF doing[t] = "wrlock" /\ ~waits[t] THEN 1 ELSE 0) - 1
    <3>1. rw' = [rw EXCEPT !.waiting = d] /\ abandoned'
      BY <2>2
    <3> HIDE DEF d
    <3>2. rw' = [writer |-> rw.writer, readers |-> rw.readers, waiting |-> d]
      BY <3>1, <1>a, RwUpdate
    <3> QED BY <3>1, <3>2
  <2>3. CASE /\ Taken /\ doing[t] = "wrlock" /\ abandoned' = abandoned
             /\ rw' = [rw EXCEPT !.waiting = rw.waiting + IF doing[t] = "wrlock" /\ ~waits[t] THEN 1 ELSE 0]
    <3> DEFINE d == rw.waiting + IF doing[t] = "wrlock" /\ ~waits[t] THEN 1 ELSE 0
    <3>1. rw' = [rw EXCEPT !.waiting = d]
      BY <2>3
    <3>2. doing[t] = "wrlock"
      BY <2>3
    <3>3. d # 0
      <4>1. CASE waits[t]
        <5>1. t \in Countings /\ Countings \in SUBSET Threads /\ rw.waiting = Cardinality(Countings)
          BY <3>2, <4>1 DEF RwInv, Countings, Counted, Writing
        <5>2. rw.waiting # 0
          BY <5>1, OneMore
        <5> QED BY <5>2, <4>1, <1>a
      <4>2. CASE ~waits[t]
        BY <4>2, <3>2, <1>a
      <4> QED BY <4>1, <4>2
    <3> HIDE DEF d
    <3>4. rw' = [writer |-> rw.writer, readers |-> rw.readers, waiting |-> d]
      BY <3>1, <1>a, RwUpdate
    <3> QED BY <3>3, <3>4, <2>3, <1>13
  <2>4. CASE /\ rw' = [rw EXCEPT !.writer = t,
                              !.waiting = (rw.waiting + IF doing[t] = "wrlock" /\ ~waits[t] THEN 1 ELSE 0)
                                           - IF doing[t] = "wrlock" THEN 1 ELSE 0]
             /\ abandoned' = abandoned
    <3> DEFINE d == (rw.waiting + IF doing[t] = "wrlock" /\ ~waits[t] THEN 1 ELSE 0)
                     - IF doing[t] = "wrlock" THEN 1 ELSE 0
    <3>1. rw' = [rw EXCEPT !.writer = t, !.waiting = d] /\ abandoned' = abandoned
      BY <2>4
    <3> HIDE DEF d
    <3>2. rw' = [writer |-> t, readers |-> rw.readers, waiting |-> d]
      BY <3>1, <1>a, RwUpdate
    <3> QED BY <3>1, <3>2, <1>a, <1>13
  <2> QED BY <1>13, <2>1, <2>2, <2>3, <2>4 DEF WrLock
<1> QED BY <1>4, <1>5, <1>6, <1>7, <1>8, <1>9, <1>10, <1>11, <1>12, <1>13 DEF Calls

(* What pthread_mutex_lock, _unlock and the wait itself leave of a condition_wait, and
   how a wait begins. *)
LEMMA LooksStep ==
  ASSUME Typed, ControlInv, program = "rwlock", NEW t \in Threads, Calls(t), ~RwUnlock(t),
         Looks(t)'
  PROVE  /\ doing'[t] = doing[t]
         /\ \/ Looks(t) /\ seen'[t] = seen[t]
            \/ RdLock(t) /\ doing[t] = "rdlock" /\ rw' = rw /\ (rw.writer # Free \/ rw.waiting # 0)
            \/ /\ WrLock(t) /\ doing[t] = "wrlock" /\ Taken
               /\ rw'.writer = rw.writer /\ rw'.readers = rw.readers
<1> DEFINE Goal ==
      /\ doing'[t] = doing[t]
      /\ \/ Looks(t) /\ seen'[t] = seen[t]
         \/ RdLock(t) /\ doing[t] = "rdlock" /\ rw' = rw /\ (rw.writer # Free \/ rw.waiting # 0)
         \/ /\ WrLock(t) /\ doing[t] = "wrlock" /\ Taken
            /\ rw'.writer = rw.writer /\ rw'.readers = rw.readers
<1>a. /\ pc \in [Threads -> Places] /\ waits \in [Threads -> BOOLEAN]
      /\ doing \in [Threads -> Doings] /\ seen \in [Threads -> Nat]
      /\ waits'[t] /\ pc'[t] \in Looking
  BY DEF Typed, LibraryTyped, Looks
<1>1. CASE RdLock(t)
  <2>1. doing' = doing
    BY <1>1 DEF RdLock
  <2>2. ~Done(t)
    BY <1>a DEF Done
  <2>3. doing[t] = "rdlock" /\ rw' = rw /\ (rw.writer # Free \/ rw.waiting # 0)
    BY <1>1, <2>2 DEF RdLock
  <2> QED BY <1>1, <2>1, <2>3
<1>2. CASE WrLock(t)
  <2>1. doing' = doing
    BY <1>2 DEF WrLock
  <2>2. ~Done(t)
    BY <1>a DEF Done
  <2>3. /\ Taken /\ doing[t] = "wrlock"
        /\ \E d : rw' = [rw EXCEPT !.waiting = d]
    BY <1>2, <2>2 DEF WrLock
  <2>4. rw'.writer = rw.writer /\ rw'.readers = rw.readers
    BY <2>3
  <2> QED BY <1>2, <2>1, <2>3, <2>4
<1>3. CASE Leave(t) \/ Release(t) \/ ClearOwner(t) \/ ClearDepth(t)
  <2>1. pc[t] \in {"unlocking", "releasing", "released", "cleared"} /\ seen' = seen
    BY <1>3 DEF Leave, Release, ClearOwner, ClearDepth, At
  <2>2. ~GiveUp(t) /\ ~Leaves(t)
    BY <1>a DEF GiveUp, Leaves
  <2>3. waits' = waits /\ doing' = doing
    BY <1>3, <2>2 DEF Leave, Release, ClearOwner, ClearDepth, rwlock
  <2> QED BY <1>a, <2>1, <2>3 DEF Looks, Looking
<1>4. CASE Lock(t) \/ Unlock(t) \/ CondWait(t) \/ Change(t)
  BY <1>4 DEF Lock, Unlock, CondWait, Change
<1>5. CASE OnceCall(t) \/ OnceClaim(t) \/ OnceStore(t) \/ OnceWake(t) \/ OnceCheck(t) \/ OnceDoze(t)
  BY <1>5 DEF OnceCall, OnceClaim, OnceStore, OnceWake, OnceCheck, OnceDoze, ControlInv,
       Control,
       At, OncePlaces
<1>6. CASE Notify(t)
  BY <1>6, <1>a DEF Notify, At, ControlInv, Control, library, Notifying
<1>7. CASE \/ CompareExchange(t) \/ Contend(t) \/ Locked(t) \/ StoreOwner(t) \/ StoreDepth(t)
           \/ Doze(t) \/ Relock(t) \/ RwCall(t)
  <2>1. pc'[t] \notin Looking
    BY <1>7, <1>a DEF CompareExchange, Contend, Locked, StoreOwner, StoreDepth, Doze, Relock,
         RwCall,
         Go, GiveUp, Leaves, Looking
  <2> QED BY <1>a, <2>1
<1> QED BY <1>1, <1>2, <1>3, <1>4, <1>5, <1>6, <1>7 DEF Calls

(* A thread goes to sleep for the lock only where it waits, for a sequence that is the
   one it has read. *)
LEMMA DozesOnly ==
  ASSUME Typed, NEW t \in Threads, Calls(t), sleeping'[t] \in {Readers, Writers}
  PROVE  /\ pc[t] = "sleepy" /\ sleeping'[t] = Condition(t) /\ seen[t] = word[Condition(t)]
<1>a. /\ sleeping \in [Threads -> Words \cup {NoWord}] /\ sleeping[t] = NoWord
      /\ sleeping'[t] # NoWord /\ sleeping'[t] \notin {Mutex, Once, Sequence}
  BY CallAwake, WordTypes, Distinct, FutexAssumption DEF Typed, KernelTyped, Awake
<1>1. CASE Doze(t)
  <2>1. sleeping' # sleeping
    BY <1>a
  <2>2. Sleep(t, Condition(t), "address", Free) /\ ~Changed(Condition(t), seen[t])
    BY <1>1, <2>1 DEF Doze, Waits, FutexWait, Return
  <2> QED BY <1>1, <1>a, <2>2 DEF Doze, At, Sleep, Changed
<1>2. ASSUME NEW a, NEW n, FutexWake(t, a, n) PROVE sleeping'[t] = NoWord
  BY <1>2, <1>a DEF FutexWake, Return, Wake
<1>3. CASE Notify(t) \/ OnceWake(t)
  BY <1>3, <1>2, <1>a DEF Notify, OnceWake
<1>4. CASE Release(t)
  BY <1>4, <1>a DEF Release, MutexUnlock, Return, Wake
<1>5. CASE Contend(t)
  BY <1>5, <1>a DEF Contend, MutexWait, Return, Sleep
<1>6. CASE OnceDoze(t)
  BY <1>6, <1>a DEF OnceDoze, Waits, FutexWait, Return, Sleep
<1>7. CASE sleeping' = sleeping
  BY <1>7, <1>a
<1> QED BY <1>1, <1>3, <1>4, <1>5, <1>6, <1>7 DEF Calls, Lock, CompareExchange, Locked,
     StoreOwner,
     StoreDepth, Unlock, Leave, ClearOwner, ClearDepth, CondWait, Relock, Change, RwCall, RdLock,
     WrLock, RwUnlock, OnceCall, OnceClaim, OnceStore, OnceCheck, kernel

(* A thread that has a signal or a broadcast to make makes it. *)
LEMMA NotifiesNext ==
  ASSUME NEW t \in Threads, Calls(t), pc[t] \in Notifying
  PROVE  Notify(t)
BY DEF Calls, At, Lock, CompareExchange, Contend, Locked, StoreOwner, StoreDepth, Unlock, Leave,
       Release, ClearOwner, ClearDepth, CondWait, Doze, Relock, Change, RwCall, RdLock,
       WrLock, RwUnlock, OnceCall, OnceClaim, OnceStore, OnceWake, OnceCheck, OnceDoze, Notifying

(* Writers are counted, if there are any. *)
LEMMA CountedWaits ==
  ASSUME RwInv
  PROVE  rw.waiting # 0 <=> \E t \in Threads : Counted(t)
<1>1. Countings \in SUBSET Threads /\ rw.waiting = Cardinality(Countings)
  BY DEF Countings, RwInv
<1>2. Countings = {} <=> rw.waiting = 0
  BY <1>1, FS_Subset, FS_EmptySet, FutexAssumption
<1>3. Countings = {} <=> ~(\E t \in Threads : Counted(t))
  BY DEF Countings
<1> QED BY <1>2, <1>3

(* What the last one out does: the heirs are told that the sequence has moved on. *)
LEMMA UnlockSteps ==
  ASSUME Typed, ControlInv, RwInv, NEW t \in Threads, RwUnlock(t)
  PROVE  /\ rw'.waiting = rw.waiting /\ UNCHANGED <<seen, doing, sleeping>> /\ ~Looks(t)'
         /\ doing[t] = "unlock"
         /\ \/ /\ rw'.readers # 0 /\ rw'.writer = rw.writer /\ (abandoned => abandoned')
               /\ word' = word
            \/ /\ rw.waiting # 0 /\ pc'[t] = "signalling" /\ (abandoned => abandoned')
               /\ word'[Writers] = word[Writers] + 1 /\ word'[Readers] = word[Readers]
            \/ /\ rw.waiting = 0 /\ pc'[t] = "broadcasting"
               /\ word'[Readers] = word[Readers] + 1 /\ word'[Writers] = word[Writers]
<1> DEFINE left == IF rw.writer = t THEN [rw EXCEPT !.writer = Free]
                   ELSE [rw EXCEPT !.readers = @ - 1]
<1>a. /\ pc \in [Threads -> Places] /\ waits \in [Threads -> BOOLEAN]
      /\ rw \in RwRecords /\ Free \in Threads \cup {Free}
      /\ Writers \in Words /\ Readers \in Words /\ Writers # Readers
      /\ \A a \in Words : (word' = [word EXCEPT ![a] = word[a] + 1] =>
           word'[a] = word[a] + 1 /\ \A b \in Words \ {a} : word'[b] = word[b])
  BY WordTypes, Distinct DEF Typed, LibraryTyped, WordTyped, RwInv
<1>1. /\ left.waiting = rw.waiting
      /\ left.readers # 0 => left.writer = rw.writer
  <2>1. CASE rw.writer = t
    <3>1. left = [writer |-> Free, readers |-> rw.readers, waiting |-> rw.waiting]
      BY <2>1, <1>a, RwUpdate
    <3>2. rw.readers = 0
      BY <2>1 DEF RwInv
    <3> QED BY <3>1, <3>2
  <2>2. CASE rw.writer # t
    <3>1. left = [writer |-> rw.writer, readers |-> rw.readers - 1, waiting |-> rw.waiting]
      BY <2>2, <1>a, RwUpdate
    <3> QED BY <3>1
  <2> QED BY <2>1, <2>2
<1>2. /\ At(t, "inside") /\ doing[t] = "unlock" /\ rw' = left
      /\ UNCHANGED <<seen, doing, sleeping>>
      /\ IF left.readers # 0 THEN Done(t) /\ UNCHANGED <<word, abandoned>>
         ELSE /\ word' = [word EXCEPT ![Heirs(left)] = @ + 1]
              /\ Go(t, IF Heirs(left) = Writers THEN "signalling" ELSE "broadcasting")
              /\ abandoned' = (abandoned /\ Heirs(left) = Writers)
              /\ UNCHANGED waits
  BY DEF RwUnlock
<1> HIDE DEF left
<1>3. ~Looks(t)'
  <2>1. CASE left.readers # 0
    BY <1>2, <2>1, <1>a DEF Looks, Done
  <2>2. CASE left.readers = 0
    BY <1>2, <2>2, <1>a DEF Looks, Looking, Go
  <2> QED BY <2>1, <2>2
<1>4. CASE left.readers # 0
  BY <1>1, <1>2, <1>3, <1>4
<1>5. CASE left.readers = 0 /\ rw.waiting # 0
  <2>1. Heirs(left) = Writers
    BY <1>1, <1>5 DEF Heirs
  <2>2. pc'[t] = "signalling" /\ (abandoned => abandoned')
    BY <1>2, <1>5, <1>a, <2>1 DEF Go
  <2>3. word' = [word EXCEPT ![Writers] = word[Writers] + 1]
    BY <1>2, <1>5, <2>1
  <2> QED BY <1>1, <1>2, <1>3, <1>5, <1>a, <2>2, <2>3
<1>6. CASE left.readers = 0 /\ rw.waiting = 0
  <2>1. Heirs(left) = Readers
    BY <1>1, <1>6 DEF Heirs
  <2>2. pc'[t] = "broadcasting"
    BY <1>2, <1>6, <1>a, <2>1 DEF Go
  <2>3. word' = [word EXCEPT ![Readers] = word[Readers] + 1]
    BY <1>2, <1>6, <2>1
  <2> QED BY <1>1, <1>2, <1>3, <1>6, <1>a, <2>2, <2>3
<1> QED BY <1>4, <1>5, <1>6

(* Whoever has begun to wait for a reason still has it, or its sequence has moved on. *)
LEMMA TakenStep ==
  ASSUME Typed, ControlInv, RwInv, SeenInv, TakenInv, program = "rwlock",
         NEW t \in Threads, Calls(t)
  PROVE  TakenInv'
<1>a. /\ \A u \in Threads : /\ doing[u] \in Writing => Condition(u) = Writers
                            /\ doing[u] = "rdlock" => Condition(u) = Readers
                            /\ doing[u]' \in Writing => Condition(u)' = Writers
                            /\ doing[u]' = "rdlock" => Condition(u)' = Readers
      /\ "wrlock" \in Writing
      /\ \A u \in Threads : seen[u] \in Nat
      /\ word[Writers] \in Nat /\ word[Readers] \in Nat
  <2>1. Writers \in Conditions /\ Readers \in Conditions
    BY DEF Conditions
  <2>2. word[Writers] \in Nat /\ word[Readers] \in Nat
    BY <2>1, SequencesGrow
  <2> QED BY <2>2 DEF Condition, Writing, Typed, LibraryTyped
<1>1. CASE RwUnlock(t)
  <2> SUFFICES ASSUME NEW u \in Threads, Looks(u)'
               PROVE  /\ doing'[u] \notin Interruptions
                      /\ seen'[u] = word'[Condition(u)'] =>
                           /\ doing'[u] = "wrlock" => Taken'
                           /\ doing'[u] = "rdlock" =>
                                rw'.writer # Free \/ rw'.waiting # 0 \/ abandoned'
    BY DEF TakenInv
  <2>1. /\ rw'.waiting = rw.waiting /\ UNCHANGED <<seen, doing, sleeping>> /\ ~Looks(t)'
        /\ \/ /\ rw'.readers # 0 /\ rw'.writer = rw.writer /\ (abandoned => abandoned')
              /\ word' = word
           \/ /\ rw.waiting # 0
              /\ word'[Writers] = word[Writers] + 1 /\ word'[Readers] = word[Readers]
           \/ /\ rw.waiting = 0
              /\ word'[Readers] = word[Readers] + 1 /\ word'[Writers] = word[Writers]
    BY <1>1, UnlockSteps
  <2>2. u # t
    BY <2>1
  <2>3. Looks(u) /\ doing'[u] = doing[u] /\ seen'[u] = seen[u] /\ Condition(u)' = Condition(u)
    BY <2>1, <2>2, Local DEF Looks, Condition
  <2>4. /\ doing[u] \notin Interruptions /\ seen[u] <= word[Condition(u)]
        /\ seen[u] = word[Condition(u)] =>
             /\ doing[u] = "wrlock" => Taken
             /\ doing[u] = "rdlock" => rw.writer # Free \/ rw.waiting # 0 \/ abandoned
    BY <2>3 DEF TakenInv, SeenInv, Looks
  <2>5. doing[u] = "wrlock" => rw.waiting # 0
    BY <2>3, <1>a, CountedWaits DEF Counted, Looks
  <2>6. CASE doing[u] = "wrlock"
    <3>1. Condition(u) = Writers /\ rw.waiting # 0
      BY <1>a, <2>5, <2>6
    <3>2. word'[Writers] = word[Writers] + 1 \/ (rw'.readers # 0)
      BY <2>1, <3>1
    <3>3. word'[Writers] = word[Writers] + 1 => seen'[u] # word'[Condition(u)']
      BY <1>a, <2>3, <2>4, <3>1
    <3> QED BY <2>3, <2>4, <2>6, <3>2, <3>3 DEF Taken
  <2>7. CASE doing[u] = "rdlock"
    <3>1. Condition(u) = Readers
      BY <1>a, <2>7
    <3>2. word'[Readers] = word[Readers] + 1 => seen'[u] # word'[Condition(u)']
      BY <1>a, <2>3, <2>4, <3>1
    <3> QED BY <2>1, <2>3, <2>4, <2>7, <3>1, <3>2
  <2> QED BY <2>3, <2>4, <2>6, <2>7
<1>2. CASE ~RwUnlock(t)
  <2>1. /\ abandoned => abandoned'
        /\ \/ rw' = rw
           \/ abandoned' /\ rw'.writer = rw.writer /\ rw'.readers = rw.readers
           \/ /\ RdLock(t) /\ rw'.readers # 0
              /\ rw'.writer = rw.writer /\ rw'.waiting = rw.waiting
           \/ WrLock(t) /\ rw'.writer # Free
           \/ /\ WrLock(t) /\ Taken /\ rw'.waiting # 0
              /\ rw'.writer = rw.writer /\ rw'.readers = rw.readers
    BY <1>2, LockSteps
  <2>2. /\ Taken => Taken'
        /\ rw.writer # Free \/ rw.waiting # 0 \/ abandoned =>
             rw'.writer # Free \/ rw'.waiting # 0 \/ abandoned'
    BY <2>1 DEF Taken
  <2>3. ~Change(t) /\ word'[Writers] = word[Writers] /\ word'[Readers] = word[Readers]
    BY <1>2, SequencesGrow DEF Change, Conditions
  <2>4. ASSUME NEW u \in Threads, Looks(u)', Looks(u), doing'[u] = doing[u], seen'[u] = seen[u]
        PROVE  /\ doing'[u] \notin Interruptions
               /\ seen'[u] = word'[Condition(u)'] =>
                    /\ doing'[u] = "wrlock" => Taken'
                    /\ doing'[u] = "rdlock" =>
                         rw'.writer # Free \/ rw'.waiting # 0 \/ abandoned'
    <3>1. /\ doing[u] \notin Interruptions
          /\ seen[u] = word[Condition(u)] =>
               /\ doing[u] = "wrlock" => Taken
               /\ doing[u] = "rdlock" => rw.writer # Free \/ rw.waiting # 0 \/ abandoned
      BY <2>4 DEF TakenInv
    <3>2. CASE doing[u] = "wrlock"
      <4>1. Condition(u) = Writers /\ Condition(u)' = Writers
        BY <1>a, <2>4, <3>2
      <4> QED BY <2>2, <2>3, <2>4, <3>1, <3>2, <4>1
    <3>3. CASE doing[u] = "rdlock"
      <4>1. Condition(u) = Readers /\ Condition(u)' = Readers
        BY <1>a, <2>4, <3>3
      <4> QED BY <2>2, <2>3, <2>4, <3>1, <3>3, <4>1
    <3> QED BY <2>4, <3>1, <3>2, <3>3
  <2>5. ASSUME NEW u \in Threads \ {t}, Looks(u)'
        PROVE  Looks(u) /\ doing'[u] = doing[u] /\ seen'[u] = seen[u]
    BY <2>5, Local DEF Looks
  <2>6. ASSUME Looks(t)'
        PROVE  /\ doing'[t] \notin Interruptions
               /\ seen'[t] = word'[Condition(t)'] =>
                    /\ doing'[t] = "wrlock" => Taken'
                    /\ doing'[t] = "rdlock" =>
                         rw'.writer # Free \/ rw'.waiting # 0 \/ abandoned'
    <3>1. /\ doing'[t] = doing[t]
          /\ \/ Looks(t) /\ seen'[t] = seen[t]
             \/ doing[t] = "rdlock" /\ rw' = rw /\ (rw.writer # Free \/ rw.waiting # 0)
             \/ doing[t] = "wrlock" /\ Taken
      BY <1>2, <2>6, LooksStep
    <3>2. CASE Looks(t) /\ seen'[t] = seen[t]
      BY <2>4, <2>6, <3>1, <3>2
    <3>3. CASE doing[t] = "rdlock" /\ rw' = rw /\ (rw.writer # Free \/ rw.waiting # 0)
      BY <3>1, <3>3 DEF Interruptions
    <3>4. CASE doing[t] = "wrlock" /\ Taken
      BY <2>2, <3>1, <3>4 DEF Interruptions
    <3> QED BY <3>1, <3>2, <3>3, <3>4
  <2> QED BY <2>4, <2>5, <2>6 DEF TakenInv
<1> QED BY <1>1, <1>2

(* A signal for the writers wakes one, or finds one that will look at the lock. *)
LEMMA SignalRetries ==
  ASSUME Typed, ControlInv, KernelInv, RwInv, SeenInv, TakenInv, program = "rwlock",
         NEW t \in Threads, Notify(t), Calls(t), Wakes(t, "signalling"), ~Taken, rw.waiting # 0
  PROVE  \E v \in Threads : Retries(v)'
<1>a. /\ Writers \in Words \ {Mutex} /\ Writers \in Conditions /\ Writers # NoWord
      /\ Signalled(t, "signalling") = Writers /\ sleeping[t] = NoWord /\ ~waits[t]
  BY WordTypes, Distinct, FutexAssumption
     DEF Conditions, Wakes, Signalled, Notify, At, Awake, ControlInv, Control, Notifying
<1>b. ASSUME NEW v \in Threads \ {t}
      PROVE  /\ Counted(v)' <=> Counted(v)
             /\ pc'[v] = pc[v] /\ seen'[v] = seen[v]
  BY Local DEF Counted
<1>1. word'[Writers] = word[Writers]
  BY <1>a, SequencesGrow DEF Notify, Change, RwUnlock, Wakes, At
<1>2. PICK W \in SUBSET Waiters(Writers) :
        /\ Cardinality(W) = 1 \/ W = Waiters(Writers)
        /\ Wake(W, "OK", t, "OK")
  <2>1. FutexWake(t, Writers, 1)
    BY <1>a DEF Notify, Wakes, At
  <2>2. record[Writers].kind # "mutex"
    BY <1>a DEF KernelInv
  <2> QED BY <2>1, <2>2 DEF FutexWake
<1>3. \A v \in Threads : sleeping'[v] = IF v \in W THEN NoWord ELSE sleeping[v]
  BY <1>2 DEF Wake
<1>4. CASE Waiters(Writers) # {}
  <2>1. W # {}
    BY <1>2, <1>4, FS_EmptySet
  <2>2. PICK v \in W : v \in Threads /\ sleeping[v] = Writers
    BY <2>1 DEF Waiters
  <2>3. v # t
    BY <1>a, <2>2
  <2>4. pc[v] = "slept" /\ Counted(v)
    <3>1. SleepsRight(v, Writers)
      BY <1>a, <2>2 DEF KernelInv
    <3>2. pc[v] = "slept" /\ waits[v] /\ Condition(v) = Writers
      BY <1>a, <3>1, WordTypes, Distinct DEF SleepsRight
    <3>3. doing[v] \in Writing
      BY <3>2, WordTypes, Distinct DEF Condition
    <3> QED BY <3>2, <3>3 DEF Counted
  <2>5. sleeping'[v] = NoWord
    BY <1>3, <2>2
  <2> QED BY <1>a, <1>b, <2>2, <2>3, <2>4, <2>5 DEF Retries, Looking
<1>5. CASE Waiters(Writers) = {}
  <2>1. PICK v \in Threads : Counted(v)
    BY CountedWaits
  <2>2. v # t
    BY <1>a, <2>1 DEF Counted
  <2>3. sleeping'[v] # Writers
    BY <1>a, <1>3, <1>5 DEF Waiters
  <2>4. ASSUME pc[v] \in Looking
        PROVE  seen[v] < word[Writers]
    <3>1. Looks(v) /\ Condition(v) = Writers
      BY <2>1, <2>4 DEF Looks, Counted, Condition, Writing
    <3>2. doing[v] = "wrlock"
      BY <2>1, <3>1 DEF TakenInv, Counted, Writing, Interruptions
    <3>3. seen[v] # word[Writers] /\ seen[v] <= word[Writers]
      BY <2>1, <3>1, <3>2 DEF TakenInv, SeenInv, Counted
    <3>4. seen[v] \in Nat /\ word[Writers] \in Nat
      BY <1>a, SequencesGrow DEF Typed, LibraryTyped
    <3> QED BY <3>3, <3>4
  <2> QED BY <1>1, <1>b, <2>1, <2>2, <2>3, <2>4 DEF Retries
<1> QED BY <1>4, <1>5

(* A writer that is on its way to look at the lock does so, or gives up. *)
LEMMA RetriesStep ==
  ASSUME Typed, ControlInv, RwInv, program = "rwlock", NEW t \in Threads, Calls(t), ~RwUnlock(t),
         NEW v \in Threads, Retries(v), ~Taken, v = t => Counted(t)'
  PROVE  Retries(v)'
<1>a. Writers \in Conditions /\ NoWord # Writers
  BY WordTypes, FutexAssumption DEF Conditions
<1>1. word'[Writers] = word[Writers]
  BY <1>a, SequencesGrow DEF Change
<1>2. CASE v # t
  <2>1. /\ pc'[v] = pc[v] /\ waits'[v] = waits[v] /\ doing'[v] = doing[v] /\ seen'[v] = seen[v]
    BY <1>2, Local
  <2>2. sleeping'[v] # Writers
    BY <1>a, <1>2, SleepOthers DEF Retries
  <2> QED BY <1>1, <2>1, <2>2 DEF Retries, Counted
<1>3. CASE v = t
  <2>1. /\ doing[t] \in Writing /\ Condition(t) = Writers /\ seen[t] \in Nat
    BY <1>3 DEF Retries, Counted, Condition, Typed, LibraryTyped
  <2>2. sleeping'[t] # Writers
    <3> SUFFICES ASSUME sleeping'[t] = Writers
                 PROVE  FALSE
      OBVIOUS
    <3>1. pc[t] = "sleepy" /\ seen[t] = word[Condition(t)]
      BY DozesOnly
    <3>2. seen[t] < word[Writers]
      BY <1>3, <3>1 DEF Retries, Looking
    <3> QED BY <2>1, <3>1, <3>2
  <2>3. ASSUME pc'[t] \in Looking
        PROVE  seen'[t] < word'[Writers]
    <3>1. Looks(t)'
      BY <1>3, <2>3 DEF Looks, Counted
    <3>2. Looks(t) /\ seen'[t] = seen[t]
      BY <2>1, <3>1, LooksStep DEF Writing
    <3> QED BY <1>1, <1>3, <3>2 DEF Retries, Looks
  <2> QED BY <1>3, <2>2, <2>3 DEF Retries
<1> QED BY <1>2, <1>3

(* Every call leaves a free lock to somebody who will look at it. *)
LEMMA ForgotStep ==
  ASSUME Typed, ControlInv, KernelInv, RwInv, SeenInv, TakenInv, ForgotInv, program = "rwlock",
         NEW t \in Threads, Calls(t)
  PROVE  ForgotInv'
<1> SUFFICES ASSUME ~Taken', ~abandoned'
             PROVE  /\ rw'.waiting # 0 => \E v \in Threads : (Retries(v) \/ Wakes(v, "signalling"))'
                    /\ (\E u \in Threads : sleeping'[u] = Readers) =>
                         rw'.waiting # 0 \/ \E v \in Threads : Wakes(v, "broadcasting")'
  BY DEF ForgotInv
<1>1. CASE RwUnlock(t)
  <2>1. /\ rw'.waiting = rw.waiting /\ doing'[t] = "unlock"
        /\ \/ rw'.readers # 0
           \/ rw.waiting # 0 /\ pc'[t] = "signalling"
           \/ rw.waiting = 0 /\ pc'[t] = "broadcasting"
    BY <1>1, UnlockSteps
  <2> QED BY <2>1 DEF Taken, Wakes
<1>2. CASE ~RwUnlock(t)
  <2>1. /\ rw' = rw /\ (Counted(t) => Counted(t)') /\ ~Taken /\ ~abandoned
    BY <1>2, LockSteps DEF Taken
  <2>2. ASSUME NEW v \in Threads \ {t}, NEW place, Wakes(v, place)
        PROVE  Wakes(v, place)'
    BY <2>2, Local DEF Wakes
  <2>3. ASSUME rw'.waiting # 0
        PROVE  \E v \in Threads : (Retries(v) \/ Wakes(v, "signalling"))'
    <3>1. PICK v \in Threads : Retries(v) \/ Wakes(v, "signalling")
      BY <2>1, <2>3 DEF ForgotInv
    <3>2. CASE Retries(v)
      <4>1. Counted(v)
        BY <3>2 DEF Retries
      <4>2. Retries(v)'
        BY <1>2, <2>1, <3>2, <4>1, RetriesStep
      <4> QED BY <4>2
    <3>3. CASE Wakes(v, "signalling") /\ v = t
      <4>1. Notify(t)
        BY <3>3, NotifiesNext DEF Wakes, Notifying
      <4>2. \E w \in Threads : Retries(w)'
        BY <2>1, <2>3, <3>3, <4>1, SignalRetries
      <4> QED BY <4>2
    <3>4. CASE Wakes(v, "signalling") /\ v # t
      BY <2>2, <3>4
    <3> QED BY <3>1, <3>2, <3>3, <3>4
  <2>4. ASSUME NEW u \in Threads, sleeping'[u] = Readers, rw'.waiting = 0
        PROVE  \E v \in Threads : Wakes(v, "broadcasting")'
    <3>a. Readers # NoWord /\ Readers \in Words \ {Mutex} /\ Readers # Sequence /\ Readers # Writers
      BY WordTypes, Distinct, FutexAssumption
    <3>1. CASE sleeping[u] = Readers
      <4>1. PICK v \in Threads : Wakes(v, "broadcasting")
        BY <2>1, <2>4, <3>1 DEF ForgotInv
      <4>2. v # t
        <5> SUFFICES ASSUME v = t
                     PROVE  FALSE
          OBVIOUS
        <5>1. Notify(t) /\ pc[t] = "broadcasting" /\ doing[t] = "unlock"
          BY <4>1, NotifiesNext DEF Wakes, Notifying
        <5>2. FutexWake(t, Readers, Cardinality(Threads))
          BY <5>1 DEF Notify, At, Signalled
        <5> QED BY <2>4, <3>1, <3>a, <5>2, WakesAll
      <4> QED BY <2>2, <4>1, <4>2
    <3>2. CASE sleeping[u] # Readers
      <4>1. u = t
        BY <2>4, <3>2, <3>a, SleepOthers
      <4>2. pc[t] = "sleepy" /\ Condition(t) = Readers /\ seen[t] = word[Readers]
        BY <2>4, <4>1, DozesOnly
      <4>3. Looks(t) /\ doing[t] \in Reading
        BY <3>a, <4>2 DEF Looks, Looking, Condition, ControlInv, Control
      <4>4. doing[t] = "rdlock"
        BY <4>3 DEF TakenInv, Interruptions, Reading
      <4>5. rw.writer # Free \/ rw.waiting # 0 \/ abandoned
        BY <4>2, <4>3, <4>4 DEF TakenInv
      <4> QED BY <2>1, <2>4, <4>5 DEF Taken
    <3> QED BY <3>1, <3>2
  <2> QED BY <2>3, <2>4
<1> QED BY <1>1, <1>2

(* Every step keeps both. *)
LEMMA ForgotNext ==
  /\ Typed /\ ControlInv /\ KernelInv /\ RwInv /\ SeenInv /\ TakenInv /\ ForgotInv
  /\ ControlInv' /\ KernelInv' /\ RwInv'
  /\ [Next]_vars
  => TakenInv' /\ ForgotInv'
<1> SUFFICES ASSUME Typed, ControlInv, KernelInv, RwInv, SeenInv, TakenInv, ForgotInv,
                    ControlInv', KernelInv', RwInv', [Next]_vars
             PROVE  TakenInv' /\ ForgotInv'
  OBVIOUS
<1>1. program' = program
  BY DEF Next, vars
<1>2. CASE program # "rwlock"
  <2>1. \A t \in Threads : doing'[t] = "none" /\ ~Counted(t)'
    BY <1>1, <1>2 DEF ControlInv, Control, Counted, Writing
  <2>2. rw'.waiting = 0
    <3>1. Countings' = {}
      BY <2>1 DEF Countings
    <3> QED BY <3>1, FS_EmptySet DEF RwInv
  <2>3. \A t \in Threads : sleeping'[t] # Readers
    BY <2>1, WordTypes, Distinct, FutexAssumption DEF KernelInv, SleepsRight, Condition
  <2> QED BY <2>1, <2>2, <2>3 DEF TakenInv, ForgotInv, Interruptions
<1>3. CASE program = "rwlock"
  <2>1. ASSUME NEW t \in Threads, Calls(t) PROVE TakenInv' /\ ForgotInv'
    BY <1>3, <2>1, TakenStep, ForgotStep
  <2>2. ASSUME UNCHANGED <<word, pc, library>>,
               \A u \in Threads : sleeping'[u] = sleeping[u] \/ sleeping'[u] = NoWord
        PROVE  TakenInv' /\ ForgotInv'
    <3>1. /\ UNCHANGED <<word, pc, seen, waits, rw, doing, abandoned>>
          /\ Readers # NoWord /\ Writers # NoWord
      BY <2>2, WordTypes, FutexAssumption DEF library, rwlock
    <3>2. TakenInv'
      BY <3>1 DEF TakenInv, Looks, Taken, Condition
    <3>3. \A u \in Threads : /\ Retries(u) => Retries(u)'
                             /\ \A place : Wakes(u, place)' <=> Wakes(u, place)
                             /\ sleeping'[u] = Readers => sleeping[u] = Readers
      BY <2>2, <3>1 DEF Retries, Counted, Wakes
    <3>4. (Taken' <=> Taken) /\ abandoned' = abandoned /\ rw' = rw
      BY <3>1 DEF Taken
    <3> QED BY <3>2, <3>3, <3>4 DEF ForgotInv
  <2>3. CASE Events
    BY <2>2, <2>3, EventsWake
  <2>4. CASE UNCHANGED vars
    BY <2>2, <2>4 DEF vars, kernel
  <2> QED BY <2>1, <2>3, <2>4 DEF Next
<1> QED BY <1>2, <1>3

(* Nobody sleeps for a read-write lock that is free, or for an initializer that has
   run, when nothing is under way: pthread_rwlock_unlock and pthread_once leave no one
   behind, but for a writer that gave up and wakes nobody (pthread.c:703). *)
THEOREM NobodyForgottenAlways == Spec => []NobodyForgotten
<1>1. Init => TakenInv /\ ForgotInv
  BY ForgotInit
<1>2. Safe /\ Safe' /\ RwInv /\ RwInv' /\ SeenInv /\ TakenInv /\ ForgotInv /\ [Next]_vars
      => TakenInv' /\ ForgotInv'
  BY ForgotNext DEF Safe
<1>3. Safe /\ SeenInv /\ [Next]_vars => SeenInv'
  BY SeenNext DEF Safe
<1>4. Init => SeenInv
  BY SignalInit
<1>5. Safe /\ RwInv /\ OnceInv /\ ForgotInv => NobodyForgotten
  <2> SUFFICES ASSUME Safe, RwInv, OnceInv, ForgotInv, ~Taken, ~abandoned,
                      \A t \in Threads \ Forgotten : pc[t] = "out",
                      NEW u \in Threads, sleeping[u] \in {Readers, Writers, Once}
               PROVE  FALSE
    BY DEF NobodyForgotten, Forgotten, Taken
  <2>a. /\ NoWord \notin {Readers, Writers, Once} /\ Mutex \notin {Readers, Writers, Once}
        /\ Readers # Writers /\ Readers # Once /\ Writers # Once
        /\ Sequence \notin {Readers, Writers, Once}
    BY WordTypes, Distinct, FutexAssumption
  <2>1. ASSUME NEW t \in Threads
        PROVE  /\ pc[t] \in {"out", "slept", "checking"}
               /\ sleeping[t] = Once => pc[t] = "checking"
               /\ pc[t] # "out" => sleeping[t] \in {Readers, Writers, Once}
    <3>1. CASE t \in Forgotten
      <4>1. sleeping[t] \in {Readers, Writers, Once} /\ SleepsRight(t, sleeping[t])
        BY <2>a, <3>1 DEF Forgotten, Safe, KernelInv
      <4> QED BY <2>a, <4>1 DEF SleepsRight, Conditions
    <3>2. CASE t \notin Forgotten
      <4>1. pc[t] = "out" /\ sleeping[t] \notin {Readers, Writers, Once}
        BY <3>2 DEF Forgotten
      <4> QED BY <2>a, <4>1
    <3> QED BY <3>1, <3>2
  <2>2. CASE sleeping[u] = Once
    BY <2>1, <2>2 DEF OnceInv
  <2>3. CASE sleeping[u] # Once
    <3>1. ASSUME NEW t \in Threads PROVE ~Wakes(t, "signalling") /\ ~Wakes(t, "broadcasting")
      BY <2>1 DEF Wakes
    <3>2. rw.waiting # 0
      <4>1. CASE sleeping[u] = Readers
        BY <3>1, <4>1 DEF ForgotInv
      <4>2. CASE sleeping[u] = Writers
        <5>1. SleepsRight(u, Writers)
          BY <2>a, <4>2 DEF Safe, KernelInv
        <5>2. waits[u] /\ Condition(u) = Writers
          BY <2>a, <5>1 DEF SleepsRight
        <5>3. Counted(u)
          BY <2>a, <5>2 DEF Counted, Condition
        <5> QED BY <5>3, CountedWaits
      <4> QED BY <2>3, <4>1, <4>2
    <3>3. PICK v \in Threads : Retries(v)
      BY <3>1, <3>2 DEF ForgotInv
    <3>4. Counted(v) /\ sleeping[v] # Writers
      BY <3>3 DEF Retries
    <3>5. pc[v] # "out"
      BY <3>4 DEF Counted, Safe, ControlInv, Control
    <3>6. sleeping[v] \in {Readers, Once}
      BY <2>1, <3>4, <3>5
    <3>7. SleepsRight(v, sleeping[v])
      BY <2>a, <3>6 DEF Safe, KernelInv
    <3>8. CASE sleeping[v] = Readers
      <4>1. Condition(v) = Readers
        BY <2>a, <3>7, <3>8 DEF SleepsRight
      <4> QED BY <2>a, <3>4, <4>1 DEF Counted, Condition, Writing
    <3>9. CASE sleeping[v] = Once
      <4>1. pc[v] = "checking"
        BY <2>a, <3>7, <3>9 DEF SleepsRight, Conditions
      <4> QED BY <3>4, <4>1 DEF Counted, Safe, ControlInv, Control, OncePlaces
    <3> QED BY <3>6, <3>8, <3>9
  <2> QED BY <2>2, <2>3
<1>6. Spec => []SeenInv
  BY <1>3, <1>4, SafeAlways, PTL DEF Spec
<1> QED BY <1>1, <1>2, <1>5, <1>6, SafeAlways, RwAlways, OnceAlways, PTL DEF Spec

============================================================================
