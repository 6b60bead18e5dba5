------------------------- MODULE ReplyCalls_proofs -------------------------
(***************************************************************************)
(* What holds of the reply capability protocol for any number of threads,  *)
(* processes and calls: the inductive invariant, one lemma for each kind   *)
(* of change to the state, one step for each action.                       *)
(***************************************************************************)
EXTENDS ReplyCalls, TLAPS

IInv == TypeOK /\ NothingLeftBehind /\ CallersAnswerable

(* Threads that return from PORT_CALL (complete_wait in thread.c) or die   *)
(* leave well-typed thread records.                                        *)
LEMMA ReturnType ==
  ASSUME TypeOK, NEW T, NEW D
  PROVE  Return(T, D) \in [Threads -> ThreadRecord]
<1>1. 0 \in 0..LastNumber /\ 0 \in 0..MaxCalls
  BY ReplyCallsAssumption
<1>2. ASSUME NEW t \in Threads
      PROVE  /\ [thread[t] EXCEPT !.state = "dead"] \in ThreadRecord
             /\ [thread[t] EXCEPT !.state = "running", !.call = 0, !.timed = FALSE,
                                  !.made = 0] \in ThreadRecord
             /\ thread[t] \in ThreadRecord
  BY <1>1 DEF TypeOK, ThreadRecord
<1> QED BY <1>2 DEF Return

(* The thread records that thread_create and process_create publish        *)
(* (kernel_thread_publish) are well typed.                                 *)
LEMMA FreshType ==
  /\ FreeThread \in ThreadRecord
  /\ \A p \in Processes : RunningThread(p) \in ThreadRecord
<1>1. FreeThread \in ThreadRecord
  BY ReplyCallsAssumption DEF FreeThread, ThreadRecord
<1> QED BY <1>1 DEF RunningThread, ThreadRecord

(* Moving capabilities between handle tables and port messages keeps them  *)
(* well typed (port.c, handle.c).                                          *)
LEMMA MoveType ==
  ASSUME TypeOK, NEW R, NEW place \in Places
  PROVE  Move(R, place) \in [Calls -> Capability]
BY DEF Move, TypeOK, Capability

(* A handle table, a port and nowhere are places.                          *)
LEMMA PlaceType ==
  /\ Nowhere \in Places
  /\ \A p \in Processes : Table(p) \in Places /\ Port(p) \in Places
BY DEF Places

(* The number kernel_thread_call_begin gives out is never 0 and never past *)
(* the last one.                                                           *)
LEMMA NextNumberType ==
  ASSUME NEW n \in 0..LastNumber
  PROVE  NextNumber(n) \in 1..LastNumber
BY ReplyCallsAssumption DEF NextNumber

(* A thread that makes a system call belongs to a live process             *)
(* (process_for_thread in process.c does not fail).                        *)
LEMMA AbleProcess ==
  ASSUME TypeOK, NothingLeftBehind, NEW t \in Threads,
         thread[t].state \in {"running", "blocked"}
  PROVE  Process(t) \in Processes /\ process[Process(t)] = "alive"
BY DEF NothingLeftBehind

(* Every system call, timeout, death and reap keeps the state well typed.  *)
LEMMA TypeStep ==
  ASSUME TypeOK, NothingLeftBehind, [Next]_vars
  PROVE  TypeOK'
<1>1. CASE UNCHANGED vars
  BY <1>1 DEF TypeOK, vars
<1>2. ASSUME NEW t \in Threads, NEW p \in Processes, NEW S \in SUBSET Calls,
             NEW timed \in BOOLEAN, PortCall(t, p, S, timed)
      PROVE  TypeOK'
  <2>1. NextNumber(number) \in 1..LastNumber
    BY NextNumberType DEF TypeOK
  <2>2. issued + 1 \in 1..MaxCalls
    BY <1>2, ReplyCallsAssumption DEF PortCall, TypeOK
  <2>3. cap' \in [Calls -> Capability]
    BY <1>2, <2>1, PlaceType DEF PortCall, TypeOK, Capability
  <2>4. [thread[t] EXCEPT !.state = "blocked", !.call = NextNumber(number),
                          !.timed = timed, !.made = issued + 1] \in ThreadRecord
    <3>1. NextNumber(number) \in 0..LastNumber /\ issued + 1 \in 0..MaxCalls
      BY <2>1, <2>2
    <3>2. thread[t] \in ThreadRecord
      BY DEF TypeOK
    <3> QED BY <3>1, <3>2 DEF ThreadRecord
  <2>5. thread' \in [Threads -> ThreadRecord]
    BY <1>2, <2>4 DEF PortCall, TypeOK
  <2> QED BY <1>2, <2>1, <2>2, <2>3, <2>5 DEF PortCall, TypeOK
<1>3. ASSUME NEW t \in Threads, PortCallRefused(t)
      PROVE  TypeOK'
  <2>1. NextNumber(number) \in 1..LastNumber
    BY NextNumberType DEF TypeOK
  <2>2. issued + 1 \in 1..MaxCalls
    BY <1>3, ReplyCallsAssumption DEF PortCallRefused, TypeOK
  <2>3. [at |-> Nowhere, slot |-> t, call |-> NextNumber(number)] \in Capability
    BY <2>1, PlaceType DEF Capability
  <2>4. cap' \in [Calls -> Capability]
    BY <1>3, <2>3 DEF PortCallRefused, TypeOK
  <2> QED BY <1>3, <2>1, <2>2, <2>4 DEF PortCallRefused, TypeOK
<1>4. ASSUME NEW t \in Threads, NEW p \in Processes, NEW S \in SUBSET Calls,
             PortSend(t, p, S)
      PROVE  TypeOK'
  BY <1>4, PlaceType, MoveType DEF PortSend, TypeOK
<1>5. ASSUME NEW t \in Threads, NEW S \in SUBSET Calls, PortReceive(t, S)
      PROVE  TypeOK'
  <2>1. Process(t) \in Processes
    BY <1>5, AbleProcess DEF PortReceive, Able
  <2> QED BY <1>5, <2>1, PlaceType, MoveType DEF PortReceive, TypeOK
<1>6. ASSUME NEW t \in Threads, NEW i \in Calls, NEW S \in SUBSET Calls,
             NEW room \in BOOLEAN, Reply(t, i, S, room)
      PROVE  TypeOK'
  <2> DEFINE place == IF room THEN Table(Process(cap[i].slot)) ELSE Nowhere
  <2>1. place \in Places
    <3>1. cap[i].slot \in Threads /\ thread[cap[i].slot].state = "blocked"
      BY <1>6 DEF Reply, Answerable, TypeOK, Capability
    <3> QED BY <3>1, AbleProcess, PlaceType
  <2>2. Move(S, place) \in [Calls -> Capability]
    BY <2>1, MoveType
  <2>3. cap' = [Move(S, place) EXCEPT ![i] = [@ EXCEPT !.call = 0]]
    BY <1>6 DEF Reply
  <2>4. cap' \in [Calls -> Capability]
    <3> HIDE DEF place
    <3> QED BY <2>2, <2>3, ReplyCallsAssumption DEF Capability
  <2>5. thread' \in [Threads -> ThreadRecord]
    BY <1>6, ReturnType DEF Reply
  <2> QED BY <1>6, <2>4, <2>5 DEF Reply, TypeOK
<1>7. ASSUME NEW R, NEW D, Release(R, D)
      PROVE  thread' \in [Threads -> ThreadRecord] /\ cap' \in [Calls -> Capability]
  BY <1>7, ReturnType, MoveType, PlaceType DEF Release
<1>8. ASSUME NEW t \in Threads, NEW i \in Calls, HandleClose(t, i)
      PROVE  TypeOK'
  BY <1>8, <1>7 DEF HandleClose, TypeOK
<1>9. ASSUME NEW t \in Threads, PortClose(t)
      PROVE  TypeOK'
  BY <1>9, <1>7 DEF PortClose, TypeOK
<1>10. ASSUME NEW t \in Threads, TimedOut(t)
       PROVE  TypeOK'
  BY <1>10, ReturnType DEF TimedOut, TypeOK
<1>11. ASSUME NEW u \in Threads, NEW t \in Threads, CancelWait(u, t)
       PROVE  TypeOK'
  BY <1>11, ReturnType DEF CancelWait, TypeOK
<1>12. ASSUME NEW u \in Threads, NEW t \in Threads, ThreadCreate(u, t)
       PROVE  TypeOK'
  BY <1>12, AbleProcess, FreshType DEF ThreadCreate, TypeOK, Able
<1>13. ASSUME NEW u \in Threads, NEW t \in Threads, NEW p \in Processes,
              ProcessCreate(u, t, p)
       PROVE  TypeOK'
  BY <1>13, FreshType DEF ProcessCreate, TypeOK
<1>14. ASSUME NEW t \in Threads, ThreadExit(t)
       PROVE  TypeOK'
  BY <1>14, ReturnType DEF ThreadExit, TypeOK
<1>15. ASSUME NEW u \in Threads, NEW p \in Processes, ProcessTerminate(u, p)
       PROVE  TypeOK'
  BY <1>15, <1>7 DEF ProcessTerminate, TypeOK
<1>16. ASSUME NEW t \in Threads, Exec(t)
       PROVE  TypeOK'
  BY <1>16, ReturnType DEF Exec, TypeOK
<1>17. ASSUME NEW p \in Processes, CloseHandles(p)
       PROVE  TypeOK'
  BY <1>17, <1>7 DEF CloseHandles, TypeOK
<1>18. ASSUME NEW t \in Threads, ReapThread(t)
       PROVE  TypeOK'
  BY <1>18, FreshType DEF ReapThread, TypeOK
<1>19. ASSUME NEW p \in Processes, ReapProcess(p)
       PROVE  TypeOK'
  BY <1>19, FreshType DEF ReapProcess, TypeOK
<1> QED
  BY <1>1, <1>2, <1>3, <1>4, <1>5, <1>6, <1>8, <1>9, <1>10, <1>11, <1>12, <1>13,
     <1>14, <1>15, <1>16, <1>17, <1>18, <1>19
  DEF Next, Calling, LifeCycle

(* No handle table is a port or nowhere, and different processes have      *)
(* different ones.                                                         *)
LEMMA PlacesDiffer ==
  /\ \A p, q : Table(p) # Port(q) /\ Table(p) # Nowhere /\ Port(p) # Nowhere
  /\ \A p, q : (Table(p) = Table(q) => p = q) /\ (Port(p) = Port(q) => p = q)
BY DEF Table, Port, Nowhere

(* Threads that return or die stay in their process, and none comes alive  *)
(* (complete_wait, kernel_thread_complete).                                *)
LEMMA ReturnKeeps ==
  ASSUME TypeOK, NEW T \in SUBSET {t \in Threads : thread[t].state = "blocked"},
         NEW D, thread' = Return(T, D), NEW t \in Threads
  PROVE  /\ Process(t)' = Process(t)
         /\ thread'[t].state \in {"running", "blocked"} =>
              thread[t].state \in {"running", "blocked"} /\ t \notin D
BY DEF Return, Process, TypeOK, ThreadRecord

(* Only waiting threads return when capabilities are used up or dropped:   *)
(* deliver_reply and reply_release end no other thread's wait.             *)
LEMMA CallersBlocked ==
  ASSUME TypeOK, NEW R \in SUBSET Calls
  PROVE  Callers(R) \in SUBSET {t \in Threads : thread[t].state = "blocked"}
BY DEF Callers, Answerable, TypeOK, Capability

(* Moving capabilities takes them from everywhere else: a reply capability *)
(* is in one table or one message (kernel_handle_transfer_commit_export).  *)
LEMMA MoveKeeps ==
  ASSUME TypeOK, NEW R \in SUBSET Calls, NEW place, cap' = Move(R, place),
         NEW p \in Processes
  PROVE  /\ Held(p)' = (Held(p) \ R) \cup (IF place = Table(p) THEN R ELSE {})
         /\ Queued(p)' = (Queued(p) \ R) \cup (IF place = Port(p) THEN R ELSE {})
BY DEF Move, Held, Queued, TypeOK, Capability

(* Closing capabilities takes them out of the tables and messages they are *)
(* in (kernel_handle_close, discard_messages in port.c).                   *)
LEMMA ReleaseKeeps ==
  ASSUME TypeOK, NEW R \in SUBSET Calls, NEW D, Release(R, D)
  PROVE  /\ \A q \in Processes : Held(q)' = Held(q) \ R /\ Queued(q)' = Queued(q) \ R
         /\ \A u \in Threads :
              /\ Process(u)' = Process(u)
              /\ thread'[u].state \in {"running", "blocked"} =>
                   thread[u].state \in {"running", "blocked"} /\ u \notin D
<1>1. cap' = Move(R, Nowhere) /\ thread' = Return(Callers(R), D)
  BY DEF Release
<1>2. ASSUME NEW q \in Processes
      PROVE  Held(q)' = Held(q) \ R /\ Queued(q)' = Queued(q) \ R
  <2>1. /\ Held(q)' = (Held(q) \ R) \cup (IF Nowhere = Table(q) THEN R ELSE {})
        /\ Queued(q)' = (Queued(q) \ R) \cup (IF Nowhere = Port(q) THEN R ELSE {})
    BY <1>1, MoveKeeps
  <2> QED BY <2>1, PlacesDiffer
<1>3. ASSUME NEW u \in Threads
      PROVE  /\ Process(u)' = Process(u)
             /\ thread'[u].state \in {"running", "blocked"} =>
                  thread[u].state \in {"running", "blocked"} /\ u \notin D
  BY <1>1, CallersBlocked, ReturnKeeps
<1> QED BY <1>2, <1>3

(* A step that moves no capability into a closed table or port, revives no *)
(* thread and closes nothing keeps NothingLeftBehind.                      *)
LEMMA NothingKept ==
  ASSUME TypeOK, NothingLeftBehind, UNCHANGED <<process, open>>,
         \A p \in Processes : /\ Held(p)' # {} => Held(p) # {} \/ process[p] = "alive"
                              /\ Queued(p)' # {} => Queued(p) # {} \/ open[p],
         \A t \in Threads : thread'[t].state \in {"running", "blocked"} =>
           thread[t].state \in {"running", "blocked"} /\ Process(t)' = Process(t)
  PROVE  NothingLeftBehind'
<1>1. ASSUME NEW p \in Processes
      PROVE  /\ process'[p] \in {"free", "closed"} => Held(p)' = {}
             /\ ~open'[p] => Queued(p)' = {}
             /\ open'[p] => process'[p] = "alive"
  BY DEF NothingLeftBehind
<1>2. ASSUME NEW t \in Threads, thread'[t].state \in {"running", "blocked"}
      PROVE  Process(t)' \in Processes /\ process'[Process(t)'] = "alive"
  BY <1>2 DEF NothingLeftBehind
<1> QED BY <1>1, <1>2 DEF NothingLeftBehind

(* Every step keeps NothingLeftBehind: retiring and reaping a process      *)
(* (retire_process, finish_reap in process.c) empties its table and its    *)
(* port before its slot is used again.                                     *)
LEMMA NothingStep ==
  ASSUME TypeOK, NothingLeftBehind, [Next]_vars
  PROVE  NothingLeftBehind'
<1>1. CASE UNCHANGED vars
  BY <1>1 DEF NothingLeftBehind, Held, Queued, Process, vars
<1>2. ASSUME NEW t \in Threads, NEW p \in Processes, NEW S \in SUBSET Calls,
             NEW timed \in BOOLEAN, PortCall(t, p, S, timed)
      PROVE  NothingLeftBehind'
  <2>1. ASSUME NEW q \in Processes
        PROVE  /\ Held(q)' \subseteq Held(q)
               /\ Queued(q)' # {} => Queued(q) # {} \/ q = p
    BY <1>2, PlacesDiffer DEF PortCall, Held, Queued, TypeOK, Capability
  <2>2. ASSUME NEW u \in Threads, thread'[u].state \in {"running", "blocked"}
        PROVE  thread[u].state \in {"running", "blocked"} /\ Process(u)' = Process(u)
    BY <1>2, <2>2 DEF PortCall, Able, Process, TypeOK, ThreadRecord
  <2> QED BY <1>2, <2>1, <2>2, NothingKept DEF PortCall
<1>3. ASSUME NEW t \in Threads, PortCallRefused(t)
      PROVE  NothingLeftBehind'
  <2>1. ASSUME NEW q \in Processes
        PROVE  Held(q)' \subseteq Held(q) /\ Queued(q)' \subseteq Queued(q)
    BY <1>3, PlacesDiffer DEF PortCallRefused, Held, Queued, TypeOK, Capability
  <2> QED BY <1>3, <2>1, NothingKept DEF PortCallRefused, Process
<1>4. ASSUME NEW t \in Threads, NEW p \in Processes, NEW S \in SUBSET Calls,
             PortSend(t, p, S)
      PROVE  NothingLeftBehind'
  <2>1. ASSUME NEW q \in Processes
        PROVE  /\ Held(q)' \subseteq Held(q)
               /\ Queued(q)' # {} => Queued(q) # {} \/ q = p
    <3>1. cap' = Move(S, Port(p))
      BY <1>4 DEF PortSend
    <3>2. /\ Held(q)' = (Held(q) \ S) \cup (IF Port(p) = Table(q) THEN S ELSE {})
          /\ Queued(q)' = (Queued(q) \ S) \cup (IF Port(p) = Port(q) THEN S ELSE {})
      BY <3>1, MoveKeeps
    <3> QED BY <3>2, PlacesDiffer
  <2> QED BY <1>4, <2>1, NothingKept DEF PortSend, Process
<1>5. ASSUME NEW t \in Threads, NEW S \in SUBSET Calls, PortReceive(t, S)
      PROVE  NothingLeftBehind'
  <2>1. Process(t) \in Processes /\ process[Process(t)] = "alive"
    BY <1>5, AbleProcess DEF PortReceive, Able
  <2>2. ASSUME NEW q \in Processes
        PROVE  /\ Held(q)' # {} => Held(q) # {} \/ q = Process(t)
               /\ Queued(q)' \subseteq Queued(q)
    BY <1>5, <2>1, MoveKeeps, PlacesDiffer DEF PortReceive
  <2> QED BY <1>5, <2>1, <2>2, NothingKept DEF PortReceive, Process
<1>6. ASSUME NEW t \in Threads, NEW i \in Calls, NEW S \in SUBSET Calls,
             NEW room \in BOOLEAN, Reply(t, i, S, room)
      PROVE  NothingLeftBehind'
  <2> DEFINE caller == cap[i].slot
  <2>1. caller \in Threads /\ thread[caller].state = "blocked"
    BY <1>6 DEF Reply, Answerable, TypeOK, Capability
  <2>2. Process(caller) \in Processes /\ process[Process(caller)] = "alive"
    BY <2>1, AbleProcess
  <2>3. ASSUME NEW q \in Processes
        PROVE  /\ Held(q)' # {} => Held(q) # {} \/ q = Process(caller)
               /\ Queued(q)' \subseteq Queued(q)
    <3>1. PICK place : /\ place \in {Table(Process(caller)), Nowhere}
                       /\ cap' = [Move(S, place) EXCEPT ![i] = [@ EXCEPT !.call = 0]]
      BY <1>6 DEF Reply
    <3>2. ASSUME NEW j \in Calls
          PROVE  cap'[j].at = IF j \in S THEN place ELSE cap[j].at
      <4>1. i \notin S
        BY <1>6 DEF Reply
      <4> QED BY <3>1, <4>1 DEF Move, TypeOK, Capability
    <3> QED BY <3>1, <3>2, <2>2, PlacesDiffer DEF Held, Queued
  <2>4. Answered(i, S, room) \in SUBSET {u \in Threads : thread[u].state = "blocked"}
    BY <2>1, CallersBlocked DEF Answered
  <2> QED BY <1>6, <2>2, <2>3, <2>4, ReturnKeeps, NothingKept DEF Reply
<1>8. ASSUME NEW t \in Threads, NEW i \in Calls, HandleClose(t, i)
      PROVE  NothingLeftBehind'
  <2>1. {i} \in SUBSET Calls /\ Release({i}, {}) /\ UNCHANGED <<process, open>>
    BY <1>8 DEF HandleClose
  <2>2. /\ \A q \in Processes : Held(q)' = Held(q) \ {i} /\ Queued(q)' = Queued(q) \ {i}
        /\ \A u \in Threads :
             /\ Process(u)' = Process(u)
             /\ thread'[u].state \in {"running", "blocked"} =>
                  thread[u].state \in {"running", "blocked"}
    BY <2>1, ReleaseKeeps
  <2> QED BY <2>1, <2>2, NothingKept
<1>9. ASSUME NEW t \in Threads, PortClose(t)
      PROVE  NothingLeftBehind'
  <2> DEFINE R == Queued(Process(t))
  <2>1. R \in SUBSET Calls /\ Release(R, {})
    BY <1>9 DEF PortClose, Queued
  <2>2. Process(t) \in Processes
    BY <1>9, AbleProcess DEF PortClose, Able
  <2>3. /\ \A q \in Processes : Held(q)' = Held(q) \ R /\ Queued(q)' = Queued(q) \ R
        /\ \A u \in Threads :
             /\ Process(u)' = Process(u)
             /\ thread'[u].state \in {"running", "blocked"} =>
                  thread[u].state \in {"running", "blocked"}
    BY <2>1, ReleaseKeeps
  <2>4. process' = process /\ open' = [open EXCEPT ![Process(t)] = FALSE]
    BY <1>9 DEF PortClose
  <2>5. ASSUME NEW q \in Processes
        PROVE  /\ process'[q] \in {"free", "closed"} => Held(q)' = {}
               /\ ~open'[q] => Queued(q)' = {}
               /\ open'[q] => process'[q] = "alive"
    BY <2>2, <2>3, <2>4 DEF NothingLeftBehind, TypeOK
  <2>6. ASSUME NEW v \in Threads, thread'[v].state \in {"running", "blocked"}
        PROVE  Process(v)' \in Processes /\ process'[Process(v)'] = "alive"
    BY <2>3, <2>4, <2>6 DEF NothingLeftBehind
  <2> QED BY <2>5, <2>6 DEF NothingLeftBehind
<1>10. ASSUME NEW t \in Threads, TimedOut(t)
       PROVE  NothingLeftBehind'
  BY <1>10, ReturnKeeps, NothingKept DEF TimedOut, Held, Queued
<1>11. ASSUME NEW u \in Threads, NEW t \in Threads, CancelWait(u, t)
       PROVE  NothingLeftBehind'
  BY <1>11, ReturnKeeps, NothingKept DEF CancelWait, Held, Queued
<1>12. ASSUME NEW u \in Threads, NEW t \in Threads, ThreadCreate(u, t)
       PROVE  NothingLeftBehind'
  <2>1. Process(u) \in Processes /\ process[Process(u)] = "alive"
    BY <1>12, AbleProcess DEF ThreadCreate, Able
  <2>2. thread'[t].process = Process(u) /\ \A v \in Threads \ {t} : thread'[v] = thread[v]
    BY <1>12 DEF ThreadCreate, TypeOK, RunningThread, FreeThread
  <2> QED BY <1>12, <2>1, <2>2 DEF ThreadCreate, NothingLeftBehind, Held, Queued, Process
<1>13. ASSUME NEW u \in Threads, NEW t \in Threads, NEW p \in Processes,
              ProcessCreate(u, t, p)
       PROVE  NothingLeftBehind'
  <2>1. thread'[t].process = p /\ \A v \in Threads \ {t} : thread'[v] = thread[v]
    BY <1>13 DEF ProcessCreate, TypeOK, RunningThread, FreeThread
  <2> QED BY <1>13, <2>1 DEF ProcessCreate, NothingLeftBehind, Held, Queued, Process, TypeOK
<1>14. ASSUME NEW t \in Threads, ThreadExit(t)
       PROVE  NothingLeftBehind'
  BY <1>14, ReturnKeeps, NothingKept DEF ThreadExit, Held, Queued
<1>15. ASSUME NEW u \in Threads, NEW p \in Processes, ProcessTerminate(u, p)
       PROVE  NothingLeftBehind'
  <2>1. Queued(p) \in SUBSET Calls /\ Release(Queued(p), Live(p))
    BY <1>15 DEF ProcessTerminate, Queued
  <2>2. ASSUME NEW v \in Threads, thread'[v].state \in {"running", "blocked"}
        PROVE  /\ Process(v)' = Process(v) /\ Process(v) # p
               /\ thread[v].state \in {"running", "blocked"}
    <3>1. /\ Process(v)' = Process(v)
          /\ thread[v].state \in {"running", "blocked"} /\ v \notin Live(p)
      BY <2>1, <2>2, ReleaseKeeps
    <3> QED BY <3>1 DEF Live
  <2>3. ASSUME NEW q \in Processes
        PROVE  Held(q)' \subseteq Held(q) /\ Queued(q)' = Queued(q) \ Queued(p)
    <3>1. Held(q)' = Held(q) \ Queued(p) /\ Queued(q)' = Queued(q) \ Queued(p)
      BY <2>1, ReleaseKeeps
    <3> QED BY <3>1
  <2>4. ASSUME NEW q \in Processes
        PROVE  /\ process'[q] \in {"free", "closed"} => Held(q)' = {}
               /\ ~open'[q] => Queued(q)' = {}
               /\ open'[q] => process'[q] = "alive"
    BY <1>15, <2>3 DEF ProcessTerminate, NothingLeftBehind, TypeOK
  <2>5. ASSUME NEW v \in Threads, thread'[v].state \in {"running", "blocked"}
        PROVE  Process(v)' \in Processes /\ process'[Process(v)'] = "alive"
    BY <1>15, <2>2, <2>5 DEF ProcessTerminate, NothingLeftBehind, TypeOK
  <2> QED BY <2>4, <2>5 DEF NothingLeftBehind
<1>16. ASSUME NEW t \in Threads, Exec(t)
       PROVE  NothingLeftBehind'
  BY <1>16, ReturnKeeps, NothingKept DEF Exec, Held, Queued
<1>17. ASSUME NEW p \in Processes, CloseHandles(p)
       PROVE  NothingLeftBehind'
  <2>1. Held(p) \in SUBSET Calls /\ Release(Held(p), {})
    BY <1>17 DEF CloseHandles, Held
  <2>2. /\ \A q \in Processes : Held(q)' = Held(q) \ Held(p) /\ Queued(q)' = Queued(q) \ Held(p)
        /\ \A u \in Threads :
             /\ Process(u)' = Process(u)
             /\ thread'[u].state \in {"running", "blocked"} =>
                  thread[u].state \in {"running", "blocked"}
    BY <2>1, ReleaseKeeps
  <2>3. process[p] = "exiting" /\ process' = [process EXCEPT ![p] = "closed"] /\ open' = open
    BY <1>17 DEF CloseHandles
  <2>4. ASSUME NEW q \in Processes
        PROVE  /\ process'[q] \in {"free", "closed"} => Held(q)' = {}
               /\ ~open'[q] => Queued(q)' = {}
               /\ open'[q] => process'[q] = "alive"
    BY <2>2, <2>3 DEF NothingLeftBehind, TypeOK
  <2>5. ASSUME NEW v \in Threads, thread'[v].state \in {"running", "blocked"}
        PROVE  Process(v)' \in Processes /\ process'[Process(v)'] = "alive"
    BY <2>2, <2>3, <2>5 DEF NothingLeftBehind, TypeOK
  <2> QED BY <2>4, <2>5 DEF NothingLeftBehind
<1>18. ASSUME NEW t \in Threads, ReapThread(t)
       PROVE  NothingLeftBehind'
  <2>1. thread'[t].state = "free" /\ \A v \in Threads \ {t} : thread'[v] = thread[v]
    BY <1>18 DEF ReapThread, TypeOK, FreeThread
  <2> QED BY <1>18, <2>1 DEF ReapThread, NothingLeftBehind, Held, Queued, Process
<1>19. ASSUME NEW p \in Processes, ReapProcess(p)
       PROVE  NothingLeftBehind'
  <2>1. ASSUME NEW v \in Threads, thread'[v].state \in {"running", "blocked"}
        PROVE  thread'[v] = thread[v] /\ Process(v) # p
    BY <1>19, <2>1 DEF ReapProcess, FreeThread
  <2> QED BY <1>19, <2>1 DEF ReapProcess, NothingLeftBehind, Held, Queued, Process, TypeOK
<1> QED
  BY <1>1, <1>2, <1>3, <1>4, <1>5, <1>6, <1>8, <1>9, <1>10, <1>11, <1>12, <1>13,
     <1>14, <1>15, <1>16, <1>17, <1>18, <1>19
  DEF Next, Calling, LifeCycle

(* A caller stays answerable while it waits in the same call and its       *)
(* capability keeps its numbers and stays within reach.                    *)
LEMMA CallerKept ==
  ASSUME TypeOK, CallersAnswerable, TypeOK', issued' >= issued,
         NEW t \in Threads, thread[t].state = "blocked", thread'[t] = thread[t],
         NEW i, thread[t].made = i,
         cap'[i].slot = cap[i].slot, cap'[i].call = cap[i].call,
         Reachable(i) => Reachable(i)'
  PROVE  CallerAnswerable(t)'
BY DEF CallersAnswerable, CallerAnswerable, Answerable, TypeOK

(* A thread that still waits after some threads returned or died was not   *)
(* one of them.                                                            *)
LEMMA ReturnBlocked ==
  ASSUME TypeOK, NEW T, NEW D, thread' = Return(T, D),
         NEW t \in Threads, thread'[t].state = "blocked"
  PROVE  thread[t].state = "blocked" /\ thread'[t] = thread[t] /\ t \notin T /\ t \notin D
BY DEF Return, TypeOK, ThreadRecord

(* Capabilities that are closed are not those of callers that still wait:  *)
(* reply_release has woken these with PEER_DEAD.                           *)
LEMMA ReleaseBlocked ==
  ASSUME TypeOK, CallersAnswerable, NEW R \in SUBSET Calls, NEW D, Release(R, D),
         NEW t \in Threads, thread'[t].state = "blocked"
  PROVE  /\ thread[t].state = "blocked" /\ thread'[t] = thread[t]
         /\ thread[t].made \notin R
         /\ cap'[thread[t].made] = cap[thread[t].made]
<1>1. /\ thread[t].state = "blocked" /\ thread'[t] = thread[t] /\ t \notin Callers(R)
  BY ReturnBlocked DEF Release
<1>2. /\ thread[t].made \in Calls /\ cap[thread[t].made].slot = t
      /\ Answerable(thread[t].made)
  BY <1>1, ReplyCallsAssumption DEF CallersAnswerable, CallerAnswerable, Calls, TypeOK
<1>3. thread[t].made \notin R
  BY <1>1, <1>2 DEF Callers
<1> QED BY <1>1, <1>2, <1>3 DEF Release, Move

(* A capability stays within reach, so that somebody can reply on it, if   *)
(* its place does.                                                         *)
LEMMA ReachKept ==
  ASSUME NEW i, Reachable(i), cap'[i].at = cap[i].at,
         \A p \in Processes :
           /\ cap[i].at = Table(p) /\ process[p] \in {"alive", "exiting"} =>
                process'[p] \in {"alive", "exiting"}
           /\ cap[i].at = Port(p) /\ open[p] => open'[p]
  PROVE  Reachable(i)'
BY DEF Reachable

(* A capability that moves to the table of a live process or to an open    *)
(* port is within reach (PORT_SEND, PORT_RECEIVE).                         *)
LEMMA ReachMoved ==
  ASSUME NEW i, Reachable(i), UNCHANGED <<process, open>>, NEW p \in Processes,
         \/ cap'[i].at = cap[i].at
         \/ cap'[i].at = Table(p) /\ process[p] = "alive"
         \/ cap'[i].at = Port(p) /\ open[p]
  PROVE  Reachable(i)'
BY DEF Reachable

(* Every step keeps every waiting caller of PORT_CALL answerable, by the   *)
(* action it is: calls, sends, receives, replies, closes, timeouts,        *)
(* cancellations, deaths, execs and reaps.                                 *)
LEMMA CallersStep ==
  ASSUME TypeOK, TypeOK', NothingLeftBehind, CallersAnswerable, [Next]_vars
  PROVE  CallersAnswerable'
<1> SUFFICES ASSUME NEW v \in Threads, thread'[v].state = "blocked"
             PROVE  CallerAnswerable(v)'
  BY DEF CallersAnswerable
<1> PICK j : thread[v].made = j
  OBVIOUS
<1>0. ASSUME thread[v].state = "blocked"
      PROVE  /\ j \in Calls /\ j \in 1..issued /\ cap[j].slot = v /\ cap[j] \in Capability
             /\ Answerable(j) /\ Reachable(j)
  BY <1>0, ReplyCallsAssumption DEF CallersAnswerable, CallerAnswerable, Calls, TypeOK
<1>1. CASE UNCHANGED vars
  BY <1>1, CallerKept DEF vars, Reachable, TypeOK
<1>2. ASSUME NEW t \in Threads, NEW p \in Processes, NEW S \in SUBSET Calls,
             NEW timed \in BOOLEAN, PortCall(t, p, S, timed)
      PROVE  CallerAnswerable(v)'
  <2>1. NextNumber(number) # 0
    BY NextNumberType DEF TypeOK
  <2>2. issued' = issued + 1 /\ issued + 1 \in Calls
    BY <1>2, ReplyCallsAssumption DEF PortCall, Calls, TypeOK
  <2>3. CASE v = t
    <3>1. /\ thread'[v].made = issued + 1 /\ thread'[v].state = "blocked"
          /\ thread'[v].call = NextNumber(number)
      BY <1>2, <2>3 DEF PortCall, TypeOK, ThreadRecord
    <3>2. /\ cap'[issued + 1].slot = v /\ cap'[issued + 1].call = NextNumber(number)
          /\ cap'[issued + 1].at = Port(p) /\ open'[p]
      BY <1>2, <2>2, <2>3 DEF PortCall
    <3>3. issued + 1 \in 1..(issued + 1)
      BY DEF TypeOK
    <3> QED BY <2>1, <2>2, <3>1, <3>2, <3>3 DEF CallerAnswerable, Answerable, Reachable
  <2>4. CASE v # t
    <3>1. thread'[v] = thread[v] /\ thread[v].state = "blocked"
      BY <1>2, <2>4 DEF PortCall, TypeOK
    <3>2. j # issued + 1
      BY <1>0, <3>1 DEF TypeOK
    <3>3. /\ cap'[j].slot = cap[j].slot /\ cap'[j].call = cap[j].call
          /\ cap'[j].at = cap[j].at \/ cap'[j].at = Port(p)
      BY <1>2, <1>0, <3>1, <3>2 DEF PortCall, Capability
    <3>4. Reachable(j) => Reachable(j)'
      <4>1. open[p] /\ UNCHANGED <<process, open>>
        BY <1>2 DEF PortCall
      <4> QED BY <3>3, <4>1, ReachMoved
    <3>5. issued' >= issued
      BY <2>2 DEF TypeOK
    <3> QED BY <3>1, <3>3, <3>4, <3>5, CallerKept
  <2> QED BY <2>3, <2>4
<1>3. ASSUME NEW t \in Threads, PortCallRefused(t)
      PROVE  CallerAnswerable(v)'
  <2>1. thread'[v] = thread[v] /\ thread[v].state = "blocked"
    BY <1>3 DEF PortCallRefused
  <2>2. cap'[j] = cap[j]
    <3>1. j # issued + 1
      BY <1>0, <2>1 DEF TypeOK
    <3> QED BY <1>3, <3>1, <1>0, <2>1 DEF PortCallRefused, TypeOK
  <2>3. issued' >= issued
    BY <1>3 DEF PortCallRefused, TypeOK
  <2> QED BY <1>3, <2>1, <2>2, <2>3, CallerKept DEF PortCallRefused, Reachable
<1>4. ASSUME NEW t \in Threads, NEW p \in Processes, NEW S \in SUBSET Calls,
             PortSend(t, p, S)
      PROVE  CallerAnswerable(v)'
  <2>1. thread'[v] = thread[v] /\ thread[v].state = "blocked"
    BY <1>4 DEF PortSend
  <2>2. /\ cap'[j].slot = cap[j].slot /\ cap'[j].call = cap[j].call
        /\ cap'[j].at = cap[j].at \/ cap'[j].at = Port(p)
    BY <1>4, <1>0, <2>1 DEF PortSend, Move, Capability
  <2>3. Reachable(j) => Reachable(j)'
    <3>1. open[p] /\ UNCHANGED <<process, open>>
      BY <1>4 DEF PortSend
    <3> QED BY <2>2, <3>1, ReachMoved
  <2>4. issued' >= issued
    BY <1>4 DEF PortSend, TypeOK
  <2> QED BY <2>1, <2>2, <2>3, <2>4, CallerKept
<1>5. ASSUME NEW t \in Threads, NEW S \in SUBSET Calls, PortReceive(t, S)
      PROVE  CallerAnswerable(v)'
  <2>1. thread'[v] = thread[v] /\ thread[v].state = "blocked"
    BY <1>5 DEF PortReceive
  <2>2. Process(t) \in Processes /\ process[Process(t)] = "alive"
    BY <1>5, AbleProcess DEF PortReceive, Able
  <2>3. /\ cap'[j].slot = cap[j].slot /\ cap'[j].call = cap[j].call
        /\ cap'[j].at = cap[j].at \/ cap'[j].at = Table(Process(t))
    BY <1>5, <1>0, <2>1 DEF PortReceive, Move, Capability
  <2>4. Reachable(j) => Reachable(j)'
    <3>1. UNCHANGED <<process, open>>
      BY <1>5 DEF PortReceive
    <3> QED BY <2>2, <2>3, <3>1, ReachMoved
  <2>5. issued' >= issued
    BY <1>5 DEF PortReceive, TypeOK
  <2> QED BY <2>1, <2>3, <2>4, <2>5, CallerKept
<1>6. ASSUME NEW t \in Threads, NEW i \in Calls, NEW S \in SUBSET Calls,
             NEW room \in BOOLEAN, Reply(t, i, S, room)
      PROVE  CallerAnswerable(v)'
  <2>1. /\ thread[v].state = "blocked" /\ thread'[v] = thread[v]
        /\ v \notin Answered(i, S, room)
    BY <1>6, ReturnBlocked DEF Reply
  <2>2. j # i
    BY <1>0, <2>1 DEF Answered
  <2>3. cap[i].slot \in Threads /\ thread[cap[i].slot].state = "blocked"
    BY <1>6 DEF Reply, Answerable, TypeOK, Capability
  <2>4. Process(cap[i].slot) \in Processes /\ process[Process(cap[i].slot)] = "alive"
    BY <2>3, AbleProcess
  <2>5. j \in S => room
    BY <1>0, <2>1 DEF Answered, Callers
  <2>6. /\ cap'[j].slot = cap[j].slot /\ cap'[j].call = cap[j].call
        /\ cap'[j].at = cap[j].at \/ cap'[j].at = Table(Process(cap[i].slot))
    BY <1>6, <1>0, <2>1, <2>2, <2>5 DEF Reply, Move, Capability
  <2>7. Reachable(j) => Reachable(j)'
    <3>1. UNCHANGED <<process, open>>
      BY <1>6 DEF Reply
    <3> QED BY <2>4, <2>6, <3>1, ReachMoved
  <2>8. issued' >= issued
    BY <1>6 DEF Reply, TypeOK
  <2> QED BY <2>1, <2>6, <2>7, <2>8, CallerKept
<1>7. ASSUME UNCHANGED issued, NEW R \in SUBSET Calls, NEW D, Release(R, D),
             j \notin R /\ cap'[j] = cap[j] /\ Reachable(j) => Reachable(j)'
      PROVE  CallerAnswerable(v)'
  <2>1. /\ thread[v].state = "blocked" /\ thread'[v] = thread[v]
        /\ j \notin R /\ cap'[j] = cap[j]
    BY <1>7, ReleaseBlocked
  <2>2. issued' >= issued
    BY <1>7 DEF TypeOK
  <2> QED BY <1>7, <2>1, <2>2, CallerKept
<1>8. ASSUME NEW t \in Threads, NEW i \in Calls, HandleClose(t, i)
      PROVE  CallerAnswerable(v)'
  <2>1. {i} \in SUBSET Calls /\ Release({i}, {}) /\ UNCHANGED <<process, open, issued>>
    BY <1>8 DEF HandleClose
  <2>2. cap'[j] = cap[j] /\ Reachable(j) => Reachable(j)'
    BY <2>1, ReachKept
  <2> QED BY <2>1, <2>2, <1>7
<1>9. ASSUME NEW t \in Threads, PortClose(t)
      PROVE  CallerAnswerable(v)'
  <2> DEFINE R == Queued(Process(t))
  <2>1. /\ R \in SUBSET Calls /\ Release(R, {})
        /\ UNCHANGED <<process, issued>> /\ open' = [open EXCEPT ![Process(t)] = FALSE]
    BY <1>9 DEF PortClose, Queued
  <2>2. ASSUME j \notin R, cap'[j] = cap[j], Reachable(j)
        PROVE  Reachable(j)'
    <3>1. thread[v].state = "blocked"
      BY <2>1, ReleaseBlocked
    <3>2. cap[j].at # Port(Process(t))
      BY <2>2, <3>1, <1>0 DEF Queued
    <3> QED BY <2>1, <2>2, <3>2, ReachKept DEF TypeOK
  <2> QED BY <2>1, <2>2, <1>7
<1>10. ASSUME NEW T, NEW D, thread' = Return(T, D),
              UNCHANGED <<process, open, issued, cap>>
       PROVE  CallerAnswerable(v)'
  <2>1. thread[v].state = "blocked" /\ thread'[v] = thread[v]
    BY <1>10, ReturnBlocked
  <2> QED BY <1>10, <2>1, CallerKept DEF Reachable, TypeOK
<1>11. ASSUME NEW u \in Threads, NEW t \in Threads, ThreadCreate(u, t)
       PROVE  CallerAnswerable(v)'
  <2>1. thread[v].state = "blocked" /\ thread'[v] = thread[v]
    BY <1>11 DEF ThreadCreate, RunningThread, FreeThread, TypeOK
  <2> QED BY <1>11, <2>1, CallerKept DEF ThreadCreate, Reachable, TypeOK
<1>12. ASSUME NEW u \in Threads, NEW t \in Threads, NEW p \in Processes,
              ProcessCreate(u, t, p)
       PROVE  CallerAnswerable(v)'
  <2>1. thread[v].state = "blocked" /\ thread'[v] = thread[v]
    BY <1>12 DEF ProcessCreate, RunningThread, FreeThread, TypeOK
  <2>2. Reachable(j) => Reachable(j)'
    <3>1. /\ process' = [process EXCEPT ![p] = "alive"]
          /\ open' = [open EXCEPT ![p] = TRUE] /\ UNCHANGED cap
      BY <1>12 DEF ProcessCreate
    <3> QED BY <3>1, ReachKept DEF TypeOK
  <2> QED BY <1>12, <2>1, <2>2, CallerKept DEF ProcessCreate, TypeOK
<1>13. ASSUME NEW u \in Threads, NEW p \in Processes, ProcessTerminate(u, p)
       PROVE  CallerAnswerable(v)'
  <2>1. /\ Queued(p) \in SUBSET Calls /\ Release(Queued(p), Live(p))
        /\ UNCHANGED issued /\ process' = [process EXCEPT ![p] = "exiting"]
        /\ open' = [open EXCEPT ![p] = FALSE]
    BY <1>13 DEF ProcessTerminate, Queued
  <2>2. ASSUME j \notin Queued(p), cap'[j] = cap[j], Reachable(j)
        PROVE  Reachable(j)'
    <3>1. thread[v].state = "blocked"
      BY <2>1, ReleaseBlocked
    <3>2. cap[j].at # Port(p)
      BY <2>2, <3>1, <1>0 DEF Queued
    <3> QED BY <2>1, <2>2, <3>2, ReachKept DEF TypeOK
  <2> QED BY <2>1, <2>2, <1>7
<1>14. ASSUME NEW p \in Processes, CloseHandles(p)
       PROVE  CallerAnswerable(v)'
  <2>1. /\ Held(p) \in SUBSET Calls /\ Release(Held(p), {})
        /\ UNCHANGED <<open, issued>> /\ process' = [process EXCEPT ![p] = "closed"]
    BY <1>14 DEF CloseHandles, Held
  <2>2. ASSUME j \notin Held(p), cap'[j] = cap[j], Reachable(j)
        PROVE  Reachable(j)'
    <3>1. thread[v].state = "blocked"
      BY <2>1, ReleaseBlocked
    <3>2. cap[j].at # Table(p)
      BY <2>2, <3>1, <1>0 DEF Held
    <3> QED BY <2>1, <2>2, <3>2, ReachKept DEF TypeOK
  <2> QED BY <2>1, <2>2, <1>7
<1>15. ASSUME NEW t \in Threads, ReapThread(t)
       PROVE  CallerAnswerable(v)'
  <2>1. thread[v].state = "blocked" /\ thread'[v] = thread[v]
    BY <1>15 DEF ReapThread, FreeThread, TypeOK
  <2> QED BY <1>15, <2>1, CallerKept DEF ReapThread, Reachable, TypeOK
<1>16. ASSUME NEW p \in Processes, ReapProcess(p)
       PROVE  CallerAnswerable(v)'
  <2>1. thread[v].state = "blocked" /\ thread'[v] = thread[v]
    BY <1>16 DEF ReapProcess, FreeThread, TypeOK
  <2>2. Reachable(j) => Reachable(j)'
    <3>1. process[p] = "closed" /\ process' = [process EXCEPT ![p] = "free"]
          /\ UNCHANGED <<open, cap>>
      BY <1>16 DEF ReapProcess
    <3> QED BY <3>1, ReachKept DEF TypeOK
  <2> QED BY <1>16, <2>1, <2>2, CallerKept DEF ReapProcess, TypeOK
<1>17. ASSUME NEW t \in Threads, TimedOut(t) \/ ThreadExit(t) \/ Exec(t)
       PROVE  CallerAnswerable(v)'
  BY <1>17, <1>10 DEF TimedOut, ThreadExit, Exec
<1>18. ASSUME NEW u \in Threads, NEW t \in Threads, CancelWait(u, t)
       PROVE  CallerAnswerable(v)'
  BY <1>18, <1>10 DEF CancelWait
<1> QED
  BY <1>1, <1>2, <1>3, <1>4, <1>5, <1>6, <1>8, <1>9, <1>11, <1>12, <1>13, <1>14,
     <1>15, <1>16, <1>17, <1>18
  DEF Next, Calling, LifeCycle

----------------------------------------------------------------------------

(* The invariant holds after kernel_process_init, with one process and no  *)
(* calls.                                                                  *)
LEMMA InitIInv ==
  ASSUME Init
  PROVE  IInv
<1>1. TypeOK
  <2>1. thread \in [Threads -> ThreadRecord]
    BY FreshType, ReplyCallsAssumption DEF Init
  <2>2. NoCapability \in Capability
    BY PlaceType, ReplyCallsAssumption DEF NoCapability, Capability
  <2> QED BY <2>1, <2>2, ReplyCallsAssumption DEF Init, TypeOK
<1>2. NothingLeftBehind
  <2>1. \A p \in Processes : Held(p) = {} /\ Queued(p) = {}
    BY PlacesDiffer DEF Init, Held, Queued, NoCapability
  <2>2. \A p \in Processes : open[p] => process[p] = "alive"
    BY DEF Init
  <2>3. \A t \in Threads : thread[t].state \in {"running", "blocked"} =>
          Process(t) \in Processes /\ process[Process(t)] = "alive"
    BY ReplyCallsAssumption DEF Init, Process, RunningThread, FreeThread
  <2> QED BY <2>1, <2>2, <2>3 DEF NothingLeftBehind
<1>3. CallersAnswerable
  BY DEF Init, CallersAnswerable, RunningThread, FreeThread
<1> QED BY <1>1, <1>2, <1>3 DEF IInv

(* The invariant is inductive: a step from a state in which it holds, of   *)
(* whatever thread in whatever call, leads to such a state.                *)
LEMMA NextIInv ==
  ASSUME IInv, [Next]_vars
  PROVE  IInv'
BY TypeStep, NothingStep, CallersStep DEF IInv

(* The invariant holds always. Reachability of the capability needs        *)
(* NothingLeftBehind: a process slot taken by process_create must not      *)
(* resurrect a table or a port with capabilities nobody can close any      *)
(* more.                                                                   *)
THEOREM Invariance == Spec => []IInv
BY InitIInv, NextIInv, PTL DEF Spec

(* The kernel's records stay well typed: a call number                     *)
(* (kernel_thread_call_begin) is never past the last one and 0 means none, *)
(* and no capability is at a place of a process that does not exist.       *)
THEOREM TypeCorrect == Spec => []TypeOK
<1>1. IInv => TypeOK
  BY DEF IInv
<1> QED BY <1>1, Invariance, PTL

(* No caller of PORT_CALL is ever stranded: whatever is forwarded          *)
(* (PORT_SEND), closed (reply_release), replied on (deliver_reply) or      *)
(* killed (retire_process), its capability stays where somebody can use or *)
(* drop it and still matches its thread's call, even after the call        *)
(* numbers have wrapped around.                                            *)
THEOREM NoCallerStranded == Spec => []CallersAnswerable
<1>1. IInv => CallersAnswerable
  BY DEF IInv
<1> QED BY <1>1, Invariance, PTL

(* A process slot is reused (finish_reap, claim_process_record in          *)
(* process.c) with an empty handle table and port, and no thread runs in a *)
(* process that is dead.                                                   *)
THEOREM SlotsReusedClean == Spec => []NothingLeftBehind
<1>1. IInv => NothingLeftBehind
  BY DEF IInv
<1> QED BY <1>1, Invariance, PTL

----------------------------------------------------------------------------
(* As long as no more calls are made than there are call numbers, the      *)
(* i-th capability is the only one that ever bears the number i.           *)

Numbered ==
  /\ number = issued
  /\ \A i \in Calls : cap[i].call \in {0, i}
  /\ \A t \in Threads : thread[t].state = "blocked" => thread[t].call = thread[t].made

(* A step that makes no call (kernel_thread_call_begin) keeps the call     *)
(* numbers as they are.                                                    *)
LEMMA NumberedKept ==
  ASSUME TypeOK, Numbered, UNCHANGED <<number, issued>>,
         \A i \in Calls : cap'[i].call \in {0, cap[i].call},
         \A t \in Threads : thread'[t].state = "blocked" => thread'[t] = thread[t]
  PROVE  Numbered'
<1>1. \A i \in Calls : cap'[i].call \in {0, i}
  BY DEF Numbered
<1>2. \A t \in Threads : thread'[t].state = "blocked" => thread'[t].call = thread'[t].made
  BY DEF Numbered
<1> QED BY <1>1, <1>2 DEF Numbered

(* As long as fewer calls were made than there are numbers, call i has     *)
(* number i: every step keeps this.                                        *)
LEMMA NumberedStep ==
  ASSUME MaxCalls <= LastNumber, TypeOK, Numbered, [Next]_vars
  PROVE  Numbered'
<1>1. CASE UNCHANGED vars
  BY <1>1 DEF vars, Numbered
<1>2. ASSUME issued < MaxCalls
      PROVE  NextNumber(number) = issued + 1 /\ issued + 1 \in Calls
  BY <1>2, ReplyCallsAssumption DEF NextNumber, Numbered, TypeOK, Calls
<1>3. ASSUME NEW t \in Threads, NEW p \in Processes, NEW S \in SUBSET Calls,
             NEW timed \in BOOLEAN, PortCall(t, p, S, timed)
      PROVE  Numbered'
  <2>1. /\ NextNumber(number) = issued + 1 /\ issued + 1 \in Calls
        /\ issued' = issued + 1 /\ number' = issued + 1
    BY <1>2, <1>3 DEF PortCall
  <2>2. ASSUME NEW i \in Calls
        PROVE  cap'[i].call \in {0, i}
    <3>1. CASE i = issued + 1
      BY <1>3, <2>1, <3>1 DEF PortCall
    <3>2. CASE i # issued + 1
      BY <1>3, <3>2 DEF PortCall, Numbered, TypeOK, Capability
    <3> QED BY <3>1, <3>2
  <2>3. ASSUME NEW u \in Threads, thread'[u].state = "blocked"
        PROVE  thread'[u].call = thread'[u].made
    <3>1. CASE u = t
      BY <1>3, <2>1, <3>1 DEF PortCall, TypeOK, ThreadRecord
    <3>2. CASE u # t
      BY <1>3, <2>3, <3>2 DEF PortCall, Numbered, TypeOK
    <3> QED BY <3>1, <3>2
  <2> QED BY <2>1, <2>2, <2>3 DEF Numbered
<1>4. ASSUME NEW t \in Threads, PortCallRefused(t)
      PROVE  Numbered'
  <2>1. /\ NextNumber(number) = issued + 1 /\ issued + 1 \in Calls
        /\ issued' = issued + 1 /\ number' = issued + 1 /\ UNCHANGED thread
    BY <1>2, <1>4 DEF PortCallRefused
  <2>2. ASSUME NEW i \in Calls
        PROVE  cap'[i].call \in {0, i}
    BY <1>4, <2>1 DEF PortCallRefused, Numbered, TypeOK
  <2> QED BY <2>1, <2>2 DEF Numbered
<1>5. ASSUME NEW R, NEW place, cap' = Move(R, place)
      PROVE  \A i \in Calls : cap'[i].call = cap[i].call
  BY <1>5 DEF Move, TypeOK, Capability
<1>6. ASSUME NEW T, NEW D, thread' = Return(T, D)
      PROVE  \A t \in Threads : thread'[t].state = "blocked" => thread'[t] = thread[t]
  BY <1>6, ReturnBlocked
<1>7. ASSUME NEW t \in Threads, NEW i \in Calls, NEW S \in SUBSET Calls,
             NEW room \in BOOLEAN, Reply(t, i, S, room)
      PROVE  Numbered'
  <2>1. PICK place : cap' = [Move(S, place) EXCEPT ![i] = [@ EXCEPT !.call = 0]]
    BY <1>7 DEF Reply
  <2>2. \A k \in Calls : cap'[k].call \in {0, cap[k].call}
    BY <2>1 DEF Move, TypeOK, Capability
  <2>3. \A u \in Threads : thread'[u].state = "blocked" => thread'[u] = thread[u]
    BY <1>7, <1>6 DEF Reply
  <2> QED BY <1>7, <2>2, <2>3, NumberedKept DEF Reply
<1>8. ASSUME NEW R, NEW D, Release(R, D), UNCHANGED <<number, issued>>
      PROVE  Numbered'
  BY <1>8, <1>5, <1>6, NumberedKept DEF Release
<1>9. ASSUME NEW T, NEW D, thread' = Return(T, D), UNCHANGED <<number, issued, cap>>
       PROVE  Numbered'
  BY <1>9, <1>6, NumberedKept
<1>10. ASSUME UNCHANGED <<number, issued, cap>>,
              \A u \in Threads : thread'[u].state = "blocked" => thread'[u] = thread[u]
       PROVE  Numbered'
  BY <1>10, NumberedKept
<1>11. \A p \in Processes : RunningThread(p).state = "running" /\ FreeThread.state = "free"
  BY DEF RunningThread, FreeThread
<1>12. ASSUME NEW t \in Threads, NEW p \in Processes, NEW S \in SUBSET Calls,
              PortSend(t, p, S)
       PROVE  Numbered'
  BY <1>12, <1>5, NumberedKept DEF PortSend
<1>13. ASSUME NEW t \in Threads, NEW S \in SUBSET Calls, PortReceive(t, S)
       PROVE  Numbered'
  BY <1>13, <1>5, NumberedKept DEF PortReceive
<1>14. ASSUME NEW t \in Threads, NEW i \in Calls, HandleClose(t, i)
       PROVE  Numbered'
  BY <1>14, <1>8 DEF HandleClose
<1>15. ASSUME NEW t \in Threads, PortClose(t)
       PROVE  Numbered'
  BY <1>15, <1>8 DEF PortClose
<1>16. ASSUME NEW t \in Threads, TimedOut(t)
       PROVE  Numbered'
  BY <1>16, <1>9 DEF TimedOut
<1>17. ASSUME NEW u \in Threads, NEW t \in Threads, CancelWait(u, t)
       PROVE  Numbered'
  BY <1>17, <1>9 DEF CancelWait
<1>18. ASSUME NEW u \in Threads, NEW t \in Threads, ThreadCreate(u, t)
       PROVE  Numbered'
  <2>1. thread' = [thread EXCEPT ![t] = RunningThread(Process(u))]
    BY <1>18 DEF ThreadCreate
  <2>2. RunningThread(Process(u)).state = "running"
    BY DEF RunningThread, FreeThread
  <2> QED BY <1>18, <1>10, <2>1, <2>2 DEF ThreadCreate, TypeOK
<1>19. ASSUME NEW u \in Threads, NEW t \in Threads, NEW p \in Processes,
              ProcessCreate(u, t, p)
       PROVE  Numbered'
  <2>1. thread' = [thread EXCEPT ![t] = RunningThread(p)]
    BY <1>19 DEF ProcessCreate
  <2> QED BY <1>19, <1>10, <1>11, <2>1 DEF ProcessCreate, TypeOK
<1>20. ASSUME NEW t \in Threads, ThreadExit(t)
       PROVE  Numbered'
  BY <1>20, <1>9 DEF ThreadExit
<1>21. ASSUME NEW u \in Threads, NEW p \in Processes, ProcessTerminate(u, p)
       PROVE  Numbered'
  BY <1>21, <1>8 DEF ProcessTerminate
<1>22. ASSUME NEW t \in Threads, Exec(t)
       PROVE  Numbered'
  BY <1>22, <1>9 DEF Exec
<1>23. ASSUME NEW p \in Processes, CloseHandles(p)
       PROVE  Numbered'
  BY <1>23, <1>8 DEF CloseHandles
<1>24. ASSUME NEW t \in Threads, ReapThread(t)
       PROVE  Numbered'
  <2>1. FreeThread.state = "free"
    BY DEF FreeThread
  <2> QED BY <1>24, <1>10, <2>1 DEF ReapThread, TypeOK
<1>25. ASSUME NEW p \in Processes, ReapProcess(p)
       PROVE  Numbered'
  BY <1>25, <1>10, <1>11 DEF ReapProcess
<1>26. CASE Calling
  BY <1>3, <1>4, <1>7, <1>12, <1>13, <1>14, <1>15, <1>16, <1>17, <1>26 DEF Calling
<1>27. CASE LifeCycle
  BY <1>18, <1>19, <1>20, <1>21, <1>22, <1>23, <1>24, <1>25, <1>27 DEF LifeCycle
<1> QED BY <1>1, <1>26, <1>27 DEF Next

(* deliver_reply and reply_release answer no other call than the one the   *)
(* capability was made for, although it may outlive that call, the calling *)
(* thread and its process: as long as fewer calls were made than there are *)
(* call numbers (StaleNumber shows what happens after that).               *)
THEOREM OwnAnswerOnly ==
  ASSUME MaxCalls <= LastNumber
  PROVE  Spec => []OwnAnswer
<1>1. Init => Numbered
  BY DEF Init, Numbered, NoCapability, RunningThread, FreeThread
<1>2. TypeOK /\ Numbered /\ [Next]_vars => Numbered'
  BY NumberedStep
<1>3. TypeOK /\ Numbered => OwnAnswer
  BY DEF OwnAnswer, Answerable, Numbered, TypeOK, Capability
<1> QED BY <1>1, <1>2, <1>3, TypeCorrect, PTL DEF Spec

----------------------------------------------------------------------------
(* The reply capability protocol implements CallOutcomes, for any number   *)
(* of threads, processes and calls: every step is a call begun, a call     *)
(* refused, or rights settled.                                             *)

(* Capabilities that have not been made yet are nowhere.                   *)
Unissued == \A i \in Calls : i > issued => cap[i].at = Nowhere

(* A step makes no right to answer out of nothing: capabilities that are   *)
(* nowhere stay there, and a spent one stays spent (deliver_reply,         *)
(* kernel_handle_transfer_commit_import).                                  *)
NoneMade == \A i \in Calls : /\ cap[i].at = Nowhere => cap'[i].at = Nowhere
                             /\ cap[i].call = 0 => cap'[i].call = 0

(* A step begins no wait (kernel_thread_call_block).                       *)
NoneBegun == \A t \in Threads : thread'[t].state = "blocked" =>
               thread[t].state = "blocked" /\ thread'[t] = thread[t]

(* Capabilities that move were somewhere: a handle table or a port.        *)
LEMMA MovedFrom ==
  ASSUME TypeOK, NEW R \in SUBSET Calls, NEW place, cap' = Move(R, place),
         place = Nowhere \/ \A i \in R : cap[i].at # Nowhere
  PROVE  NoneMade
BY DEF NoneMade, Move, TypeOK, Capability

(* What is in a table or at a port is not nowhere.                         *)
LEMMA Somewhere ==
  ASSUME NEW p
  PROVE  \A i \in Held(p) \cup Queued(p) : cap[i].at # Nowhere
BY PlacesDiffer DEF Held, Queued

(* Every step but a call (PORT_CALL, sent or refused) makes no capability  *)
(* and begins no wait.                                                     *)
LEMMA OtherSteps ==
  ASSUME TypeOK, [Next]_vars,
         ~\E t \in Threads, p \in Processes, S \in SUBSET Calls, timed \in BOOLEAN :
            PortCall(t, p, S, timed),
         ~\E t \in Threads : PortCallRefused(t)
  PROVE  NoneMade /\ NoneBegun /\ UNCHANGED issued
<1>1. CASE UNCHANGED vars
  BY <1>1 DEF vars, NoneMade, NoneBegun
<1>2. ASSUME NEW T, NEW D, thread' = Return(T, D)
      PROVE  NoneBegun
  BY <1>2, ReturnBlocked DEF NoneBegun
<1>3. ASSUME NEW R \in SUBSET Calls, NEW D, Release(R, D)
      PROVE  NoneMade /\ NoneBegun
  BY <1>3, <1>2, MovedFrom DEF Release
<1>4. ASSUME UNCHANGED cap
      PROVE  NoneMade
  BY <1>4 DEF NoneMade
<1>5. ASSUME UNCHANGED thread
      PROVE  NoneBegun
  BY <1>5 DEF NoneBegun
<1>6. ASSUME NEW t \in Threads, NEW p \in Processes, NEW S \in SUBSET Calls,
             PortSend(t, p, S)
      PROVE  NoneMade /\ NoneBegun /\ UNCHANGED issued
  BY <1>6, <1>5, MovedFrom, Somewhere DEF PortSend
<1>7. ASSUME NEW t \in Threads, NEW S \in SUBSET Calls, PortReceive(t, S)
      PROVE  NoneMade /\ NoneBegun /\ UNCHANGED issued
  BY <1>7, <1>5, MovedFrom, Somewhere DEF PortReceive
<1>8. ASSUME NEW t \in Threads, NEW i \in Calls, NEW S \in SUBSET Calls,
             NEW room \in BOOLEAN, Reply(t, i, S, room)
      PROVE  NoneMade /\ NoneBegun /\ UNCHANGED issued
  <2>1. PICK place : cap' = [Move(S, place) EXCEPT ![i] = [@ EXCEPT !.call = 0]]
    BY <1>8 DEF Reply
  <2>2. \A j \in S : cap[j].at # Nowhere
    BY <1>8, Somewhere DEF Reply
  <2>3. ASSUME NEW j \in Calls
        PROVE  /\ cap'[j].at = IF j \in S THEN place ELSE cap[j].at
               /\ cap'[j].call \in {0, cap[j].call}
    <3>1. i \notin S
      BY <1>8 DEF Reply
    <3> QED BY <2>1, <3>1 DEF Move, TypeOK, Capability
  <2>4. NoneMade
    BY <2>2, <2>3 DEF NoneMade
  <2> QED BY <1>8, <1>2, <2>4 DEF Reply
<1>9. ASSUME NEW t \in Threads, NEW i \in Calls, HandleClose(t, i)
      PROVE  NoneMade /\ NoneBegun /\ UNCHANGED issued
  BY <1>9, <1>3 DEF HandleClose
<1>10. ASSUME NEW t \in Threads, PortClose(t)
       PROVE  NoneMade /\ NoneBegun /\ UNCHANGED issued
  BY <1>10, <1>3 DEF PortClose, Queued
<1>11. ASSUME NEW t \in Threads, TimedOut(t) \/ ThreadExit(t) \/ Exec(t)
       PROVE  NoneMade /\ NoneBegun /\ UNCHANGED issued
  BY <1>11, <1>2, <1>4 DEF TimedOut, ThreadExit, Exec
<1>12. ASSUME NEW u \in Threads, NEW t \in Threads, CancelWait(u, t)
       PROVE  NoneMade /\ NoneBegun /\ UNCHANGED issued
  BY <1>12, <1>2, <1>4 DEF CancelWait
<1>13. ASSUME NEW t \in Threads, NEW r, r.state # "blocked",
              thread' = [thread EXCEPT ![t] = r]
       PROVE  NoneBegun
  BY <1>13 DEF NoneBegun, TypeOK
<1>14. \A p : RunningThread(p).state = "running" /\ FreeThread.state = "free"
  BY DEF RunningThread, FreeThread
<1>15. ASSUME NEW u \in Threads, NEW t \in Threads, ThreadCreate(u, t)
       PROVE  NoneMade /\ NoneBegun /\ UNCHANGED issued
  BY <1>15, <1>4, <1>13, <1>14 DEF ThreadCreate
<1>16. ASSUME NEW u \in Threads, NEW t \in Threads, NEW p \in Processes,
              ProcessCreate(u, t, p)
       PROVE  NoneMade /\ NoneBegun /\ UNCHANGED issued
  BY <1>16, <1>4, <1>13, <1>14 DEF ProcessCreate
<1>17. ASSUME NEW u \in Threads, NEW p \in Processes, ProcessTerminate(u, p)
       PROVE  NoneMade /\ NoneBegun /\ UNCHANGED issued
  BY <1>17, <1>3 DEF ProcessTerminate, Queued
<1>18. ASSUME NEW p \in Processes, CloseHandles(p)
       PROVE  NoneMade /\ NoneBegun /\ UNCHANGED issued
  BY <1>18, <1>3 DEF CloseHandles, Held
<1>19. ASSUME NEW t \in Threads, ReapThread(t)
       PROVE  NoneMade /\ NoneBegun /\ UNCHANGED issued
  BY <1>19, <1>4, <1>13, <1>14 DEF ReapThread
<1>20. ASSUME NEW p \in Processes, ReapProcess(p)
       PROVE  NoneMade /\ NoneBegun /\ UNCHANGED issued
  BY <1>20, <1>4, <1>14 DEF ReapProcess, NoneBegun
<1> QED
  BY <1>1, <1>6, <1>7, <1>8, <1>9, <1>10, <1>11, <1>12, <1>15, <1>16, <1>17, <1>18,
     <1>19, <1>20
  DEF Next, Calling, LifeCycle

(* Capability issued + 1 is the one that a call, sent or refused, makes,   *)
(* and it is a call that has not begun.                                    *)
LEMMA NextCall ==
  ASSUME TypeOK, issued < MaxCalls
  PROVE  /\ issued + 1 \in Calls /\ issued + 1 \notin 1..issued
         /\ 1..(issued + 1) = (1..issued) \cup {issued + 1}
BY ReplyCallsAssumption DEF TypeOK, Calls

(* Unissued is kept by every step: kernel_thread_call_begin makes one      *)
(* capability at a time.                                                   *)
LEMMA UnissuedStep ==
  ASSUME TypeOK, Unissued, [Next]_vars
  PROVE  Unissued'
<1>1. ASSUME NoneMade, UNCHANGED issued
      PROVE  Unissued'
  BY <1>1 DEF Unissued, NoneMade
<1>2. ASSUME NEW t \in Threads, NEW p \in Processes, NEW S \in SUBSET Calls,
             NEW timed \in BOOLEAN, PortCall(t, p, S, timed)
      PROVE  Unissued'
  <2>1. \A i \in S : cap[i].at # Nowhere
    BY <1>2, Somewhere DEF PortCall
  <2>2. issued' = issued + 1
    BY <1>2 DEF PortCall
  <2>3. ASSUME NEW i \in Calls, i > issued + 1
        PROVE  cap'[i].at = Nowhere
    <3>1. i > issued /\ i # issued + 1
      BY <2>3 DEF TypeOK, Calls
    <3>2. i \notin S
      BY <2>1, <3>1 DEF Unissued
    <3> QED BY <1>2, <3>1, <3>2 DEF PortCall, Unissued
  <2> QED BY <2>2, <2>3 DEF Unissued
<1>3. ASSUME NEW t \in Threads, PortCallRefused(t)
      PROVE  Unissued'
  <2>1. ASSUME NEW i \in Calls, i > issued + 1
        PROVE  cap'[i].at = Nowhere
    <3>1. i > issued /\ i # issued + 1
      BY <2>1 DEF TypeOK, Calls
    <3> QED BY <1>3, <3>1 DEF PortCallRefused, Unissued, TypeOK
  <2> QED BY <1>3, <2>1 DEF PortCallRefused, Unissued
<1> QED BY <1>1, <1>2, <1>3, OtherSteps

(* Every call whose caller waits can be answered or dropped by somebody    *)
(* (deliver_reply, reply_release): CallersAnswerable, in the promise's     *)
(* terms, in this state and in the next.                                   *)
LEMMA OpenHasRight ==
  ASSUME TypeOK, CallersAnswerable
  PROVE  OpenCalls \subseteq Rights
<1>1. ASSUME NEW t \in Threads, thread[t].state = "blocked"
      PROVE  thread[t].made \in Rights
  <2>1. CallerAnswerable(t)
    BY <1>1 DEF CallersAnswerable
  <2>2. thread[t].made \in Calls
    BY <2>1, ReplyCallsAssumption DEF CallerAnswerable, Calls, TypeOK
  <2>3. cap[thread[t].made].at # Nowhere
    BY <2>1, PlacesDiffer DEF CallerAnswerable, Reachable
  <2> QED BY <2>1, <2>2, <2>3 DEF CallerAnswerable, Answerable, Rights
<1> QED BY <1>1 DEF OpenCalls

(* The same of the next state (deliver_reply, reply_release).              *)
LEMMA OpenHasRightNext ==
  ASSUME TypeOK', CallersAnswerable'
  PROVE  OpenCalls' \subseteq Rights'
<1>1. ASSUME NEW t \in Threads, thread'[t].state = "blocked"
      PROVE  thread'[t].made \in Rights'
  <2>1. CallerAnswerable(t)'
    BY <1>1 DEF CallersAnswerable
  <2>2. thread'[t].made \in Calls
    BY <2>1, ReplyCallsAssumption DEF CallerAnswerable, Calls, TypeOK
  <2>3. cap'[thread'[t].made].at # Nowhere
    BY <2>1, PlacesDiffer DEF CallerAnswerable, Reachable
  <2> QED BY <2>1, <2>2, <2>3 DEF CallerAnswerable, Answerable, Rights
<1> QED BY <1>1 DEF OpenCalls

(* A step that makes no capability and begins no wait settles: the rights  *)
(* it uses up end their calls (deliver_reply, reply_release), and the      *)
(* other calls it ends are left by their callers.                          *)
LEMMA OtherSettles ==
  ASSUME TypeOK, TypeOK', CallersAnswerable, CallersAnswerable', NoneMade, NoneBegun,
         UNCHANGED issued
  PROVE  \E used, left \in SUBSET Calls : Promise!Settle(used, left)
<1> DEFINE used == Rights \ Rights'
           left == OpenCalls \ OpenCalls'
<1>1. Rights' \subseteq Rights
  BY DEF Rights, NoneMade
<1>2. OpenCalls' \subseteq OpenCalls
  BY DEF OpenCalls, NoneBegun
<1>3. OpenCalls' \subseteq Rights' /\ OpenCalls \subseteq Rights
  BY OpenHasRight, OpenHasRightNext
<1>4. used \in SUBSET Calls /\ Rights \subseteq Calls
  BY DEF Rights
<1>5. left \in SUBSET Calls
  BY <1>3, <1>4
<1>6. Promise!Settle(used, left)
  <2>1. UNCHANGED (1..issued)
    OBVIOUS
  <2> QED BY <1>1, <1>2, <1>3, <2>1 DEF Promise!Settle
<1> QED BY <1>4, <1>5, <1>6

(* PORT_CALL begins the call of the capability it makes                    *)
(* (port_call_syscall).                                                    *)
LEMMA CallBegins ==
  ASSUME TypeOK, NEW t \in Threads, NEW p \in Processes, NEW S \in SUBSET Calls,
         NEW timed \in BOOLEAN, PortCall(t, p, S, timed)
  PROVE  issued + 1 \in Calls /\ Promise!Begin(issued + 1)
<1>1. /\ issued + 1 \in Calls /\ issued + 1 \notin 1..issued
      /\ 1..issued' = (1..issued) \cup {issued + 1}
  BY NextCall DEF PortCall
<1>2. NextNumber(number) # 0
  <2>1. NextNumber(number) \in 1..LastNumber
    BY NextNumberType DEF TypeOK
  <2> QED BY <2>1
<1>3. \A i \in S : cap[i].at # Nowhere
  BY Somewhere DEF PortCall
<1>4. Rights' = Rights \cup {issued + 1}
  <2>1. ASSUME NEW i \in Calls, i # issued + 1
        PROVE  /\ cap'[i].call = cap[i].call
               /\ cap'[i].at = Nowhere <=> cap[i].at = Nowhere
    BY <1>3, <2>1, PlacesDiffer DEF PortCall, TypeOK, Capability
  <2>2. cap'[issued + 1].call # 0 /\ cap'[issued + 1].at # Nowhere
    BY <1>1, <1>2, PlacesDiffer DEF PortCall
  <2> QED BY <1>1, <2>1, <2>2 DEF Rights
<1>5. OpenCalls' = OpenCalls \cup {issued + 1}
  <2>1. thread[t].state # "blocked"
    BY DEF PortCall, Able
  <2>2. thread'[t].state = "blocked" /\ thread'[t].made = issued + 1
    BY DEF PortCall, TypeOK, ThreadRecord
  <2>3. \A u \in Threads \ {t} : thread'[u] = thread[u]
    BY DEF PortCall, TypeOK
  <2> QED BY <2>1, <2>2, <2>3 DEF OpenCalls
<1> QED BY <1>1, <1>4, <1>5 DEF Promise!Begin

(* A PORT_CALL that is refused leaves nothing to answer: its capability is *)
(* closed again and its wait aborted (port_call_syscall).                  *)
LEMMA CallRefused ==
  ASSUME TypeOK, Unissued, NEW t \in Threads, PortCallRefused(t)
  PROVE  issued + 1 \in Calls /\ Promise!Refuse(issued + 1)
<1>1. /\ issued + 1 \in Calls /\ issued + 1 \notin 1..issued
      /\ 1..issued' = (1..issued) \cup {issued + 1}
  BY NextCall DEF PortCallRefused
<1>2. cap[issued + 1].at = Nowhere
  <2>1. issued + 1 > issued
    BY DEF TypeOK
  <2> QED BY <1>1, <2>1 DEF Unissued
<1>3. Rights' = Rights
  <2>1. cap'[issued + 1].at = Nowhere
    BY <1>1 DEF PortCallRefused, TypeOK
  <2>2. \A i \in Calls : i # issued + 1 => cap'[i] = cap[i]
    BY DEF PortCallRefused, TypeOK
  <2> QED BY <1>2, <2>1, <2>2 DEF Rights
<1>4. OpenCalls' = OpenCalls
  BY DEF PortCallRefused, OpenCalls
<1> QED BY <1>1, <1>3, <1>4 DEF Promise!Refuse

(* Nothing is made yet when the system starts (kernel_process_init).       *)
LEMMA InitPromise ==
  ASSUME Init
  PROVE  Promise!Init /\ Unissued
<1>1. OpenCalls = {}
  BY DEF Init, OpenCalls, RunningThread, FreeThread
<1>2. Rights = {}
  BY DEF Init, Rights, NoCapability
<1>3. 1..issued = {}
  BY DEF Init
<1> QED BY <1>1, <1>2, <1>3 DEF Promise!Init, Init, Unissued, NoCapability

(* Every step of the kernel is a step of the promise or changes nothing    *)
(* that it speaks of (port_call_syscall, deliver_reply, reply_release).    *)
LEMMA StepKeepsPromise ==
  ASSUME IInv, IInv', Unissued, [Next]_vars
  PROVE  [Promise!Next]_<<1..issued, OpenCalls, Rights>>
<1>1. ASSUME NEW t \in Threads, NEW p \in Processes, NEW S \in SUBSET Calls,
             NEW timed \in BOOLEAN, PortCall(t, p, S, timed)
      PROVE  Promise!Next
  BY <1>1, CallBegins DEF IInv, Promise!Next
<1>2. ASSUME NEW t \in Threads, PortCallRefused(t)
      PROVE  Promise!Next
  BY <1>2, CallRefused DEF IInv, Promise!Next
<1>3. ASSUME ~\E t \in Threads, p \in Processes, S \in SUBSET Calls, timed \in BOOLEAN :
                PortCall(t, p, S, timed),
             ~\E t \in Threads : PortCallRefused(t)
      PROVE  Promise!Next
  BY <1>3, OtherSteps, OtherSettles DEF IInv, Promise!Next
<1> QED BY <1>1, <1>2, <1>3

(* PORT_CALL's promise holds for any number of threads, processes and      *)
(* calls: a call that was sent stays answerable as long as its caller      *)
(* waits, and using up or dropping the right to answer it ends it          *)
(* (port_call_syscall, deliver_reply, reply_release).                      *)
THEOREM PromiseKept == Spec => KeepsPromise
<1>1. Init => Promise!Init /\ Unissued
  BY InitPromise
<1>2. IInv /\ Unissued /\ [Next]_vars => Unissued'
  BY UnissuedStep DEF IInv
<1>3. IInv /\ IInv' /\ Unissued /\ [Next]_vars =>
        [Promise!Next]_<<1..issued, OpenCalls, Rights>>
  BY StepKeepsPromise
<1> QED
  BY <1>1, <1>2, <1>3, Invariance, PTL DEF Spec, KeepsPromise, Promise!Spec

=============================================================================
