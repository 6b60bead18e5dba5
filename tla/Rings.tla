------------------------------- MODULE Rings -------------------------------
(***************************************************************************)
(* Bulk rings over shared areas (sw/kernel/ring.c and area.c), with the    *)
(* two programs that use them: the NDK's endpoints                         *)
(* (sw/userspace/system/src/bulk_ring.c) and the pipes of POSIX            *)
(* (sw/userspace/posix/src/console.c).                                     *)
(*                                                                         *)
(* A ring is "shared" or "copied".  The ends of a shared ring write their  *)
(* positions into a header both have mapped, and tell the kernel of them   *)
(* by RING_NOTIFY when they like; the kernel keeps positions of its own,   *)
(* never reads the header, and wakes by its own.  The ends of a copied     *)
(* ring, a pipe, are read and written by system calls; fork copies them.   *)
(*                                                                         *)
(* System calls are single steps.  What a library call does between them,  *)
(* the checks of the header and the copying of an element, are steps of    *)
(* their own, and the field pc of a thread is how far it is.               *)
(*                                                                         *)
(* Abstractions.  A position is a number below Wrap, 2^32 in the code, and *)
(* an element is the position it was written at.  There is one area with   *)
(* room for one ring; a process has at most one handle of each kind, and a *)
(* thread for each end.  A handle passed on in a message arrives (Ports    *)
(* has the messages, and one that is discarded is a close).  An area is    *)
(* CLOSING only inside the call that frees it, as nothing but the loss of  *)
(* its last user closes it.  A process does not unmap it while it lives.   *)
(* The header's constant fields, the generation and lack of memory are     *)
(* left out.                                                               *)
(***************************************************************************)
EXTENDS Integers, FiniteSets

CONSTANTS
  Processes, Nobody,
  First,         \* the process that creates the area at the start
  Capacity,      \* elements in the ring
  Wrap,          \* the number of positions, 2^32
  AtomicMax,     \* the longest write that is atomic
  ReadLengths,   \* the lengths asked for by reads and writes of a pipe
  WriteLengths,
  Forms          \* the forms rings are created in: "shared", "copied"

ASSUME RingsAssumption ==
  /\ IsFiniteSet(Processes) /\ First \in Processes /\ Nobody \notin Processes
  /\ Capacity \in Nat \ {0, 1} /\ AtomicMax \in 1 .. Capacity
  /\ ReadLengths \cup WriteLengths \subseteq Nat \ {0}
  /\ Wrap \in Nat /\ Wrap >= 4 * Capacity /\ Wrap % Capacity = 0
  /\ Forms \subseteq {"shared", "copied"}

VARIABLES
  process,    \* process[p]: unborn, alive or exited
  area,       \* the area's record
  ring,       \* the ring's record
  holds,      \* the handles of the ring's ends: pairs of process and end
  header,     \* header[e]: the position of end e in shared memory
  data,       \* data[k]: the element in slot k
  view,       \* view[e]: the AstraBulkRing of end e
  thread,     \* thread[p][e]: process p's thread that uses end e
  faulty      \* history: processes that did not keep to the library

vars == <<process, area, ring, holds, header, data, view, thread, faulty>>

Ends == {"producer", "consumer"}
Other(e) == IF e = "producer" THEN "consumer" ELSE "producer"

(* Positions wrap. *)
Ahead(a, b) == (a - b) % Wrap
Plus(a, n) == (a + n) % Wrap
Slot(position) == position % Capacity
AtMost(n, m) == IF n < m THEN n ELSE m

Used(r) == Ahead(r.position["producer"], r.position["consumer"])

(* Bound: the rings of a behaviour are of one form. *)
FreeRing(form) == [state |-> "free", form |-> form, owner |-> Nobody,
             position |-> [e \in Ends |-> 0], references |-> [e \in Ends |-> 0],
             terminal |-> [e \in Ends |-> "ok"], corrupt |-> FALSE]

NoView == [at |-> Nobody, local |-> 0, peer |-> 0, reserved |-> FALSE, failed |-> FALSE]

(* dead: the last call returned PEER_DEAD, the end of file.  want is the   *)
(* length asked for, 0 if the handle was closed meanwhile.                 *)
Idle == [pc |-> "idle", call |-> "none", want |-> 0, dead |-> FALSE]
Told(result) == [Idle EXCEPT !.dead = result = "dead"]

Attached(e) == view[e].at # Nobody /\ thread[view[e].at][e].call # "attach"

Positions == 0 .. Wrap - 1
Results == {"ok", "closed", "dead", "failed"}
RingRecords ==
  [state : {"free", "open", "closing"}, form : Forms, owner : Processes \cup {Nobody},
   position : [Ends -> Positions], references : [Ends -> Nat],
   terminal : [Ends -> Results], corrupt : BOOLEAN]
AreaRecords ==
  [state : {"free", "live"}, creator : Processes \cup {Nobody},
   handles : SUBSET Processes, children : 0 .. 1, mapped : SUBSET Processes]
Calls ==
  [pc : {"idle", "ask", "recheck", "try", "block", "asleep"},
   call : {"none", "attach", "notify", "wait"}, want : Nat, dead : BOOLEAN]
Records ==
  [ring : RingRecords, area : AreaRecords, thread : [Processes -> [Ends -> Calls]]]
Views == [at : Processes \cup {Nobody}, local : Positions, peer : Positions,
          reserved : BOOLEAN, failed : BOOLEAN]

TypeOK ==
  /\ process \in [Processes -> {"unborn", "alive", "exited"}]
  /\ [ring |-> ring, area |-> area, thread |-> thread] \in Records
  /\ holds \subseteq Processes \X Ends
  /\ header \in [Ends -> Positions]
  /\ data \in [0 .. Capacity - 1 -> Positions]
  /\ view \in [Ends -> Views]
  /\ faulty \subseteq Processes

Init ==
  /\ process \in [Processes -> {"unborn", "alive"}] /\ process[First] = "alive"
  /\ area = [state |-> "live", creator |-> First, handles |-> {First}, children |-> 0,
             mapped |-> {}]
  /\ \E form \in Forms : ring = FreeRing(form)
  /\ holds = {}
  /\ header = [e \in Ends |-> 0]
  /\ data = [k \in 0 .. Capacity - 1 |-> 0]
  /\ view = [e \in Ends |-> NoView]
  /\ thread = [p \in Processes |-> [e \in Ends |-> Idle]]
  /\ faulty = {}

----------------------------------------------------------------------------
(* The kernel: a record of ring, area and thread is changed in steps.      *)

Now == [ring |-> ring, area |-> area, thread |-> thread]
Becomes(s) == ring' = s.ring /\ area' = s.area /\ thread' = s.thread

Asleep(s, e) == {p \in Processes : s.thread[p][e].pc = "asleep"}

(* A thread whose wait at end e gives result goes on: wait_until refreshes *)
(* again and a pipe's read or write tries again, a read also to learn what *)
(* the producer left.                                                      *)
After(s, t, e, result) ==
  IF s.ring.form = "shared"
    THEN IF result = "ok" THEN [t EXCEPT !.pc = "ask"] ELSE Told(result)
    ELSE IF t.want = 0 THEN Idle
         ELSE IF result = "ok" \/ e = "consumer" THEN [t EXCEPT !.pc = "try"]
         ELSE Told(result)

(* kernel_thread_wake_all *)
Wake(s, e, result) ==
  [s EXCEPT !.thread = [p \in Processes |->
     IF p \in Asleep(s, e) THEN [s.thread[p] EXCEPT ![e] = After(s, @, e, result)]
     ELSE s.thread[p]]]

(* close_area, for an area without handles and rings: the mappings go. *)
CloseUnused(s) ==
  IF s.area.handles = {} /\ s.area.children = 0
    THEN [s EXCEPT !.area.state = "free", !.area.creator = Nobody, !.area.mapped = {}]
    ELSE s

(* kernel_area_handle_release *)
ReleaseAreaOnly(s, p) ==                             \* mutant: the ring does not count
  LET r == [s EXCEPT !.area.handles = @ \ {p}]
  IN  IF r.area.handles = {}
        THEN [r EXCEPT !.area.state = "free", !.area.mapped = {}] ELSE r

ReleaseArea(s, p) == CloseUnused([s EXCEPT !.area.handles = @ \ {p}])

(* The last end releases the area, and must find no waiting thread. *)
MaybeFree(s) ==
  IF \E e \in Ends : s.ring.references[e] # 0 THEN s
  ELSE IF \E e \in Ends : Asleep(s, e) # {} THEN [s EXCEPT !.ring.corrupt = TRUE]
  ELSE CloseUnused([s EXCEPT !.ring = FreeRing(s.ring.form), !.area.children = @ - 1])

(* kernel_ring_handle_release: the last handle of an end tells the other.  *)
Last(s, e) == s.ring.references[e] = 1 /\ s.ring.state = "open"

Released(s, e) ==
  [s EXCEPT !.ring.references[e] = @ - 1,
            !.ring.terminal = IF Last(s, e)
                              THEN [x \in Ends |-> IF x = e THEN "closed" ELSE "dead"]
                              ELSE @]

ReleaseEndAlone(s, e) ==                             \* mutant: the other end sleeps on
  MaybeFree(IF Last(s, e) THEN Wake(Released(s, e), e, "closed") ELSE Released(s, e))

ReleaseEnd(s, e) ==
  MaybeFree(IF Last(s, e)
              THEN Wake(Wake(Released(s, e), e, "closed"), Other(e), "dead")
              ELSE Released(s, e))

(* fail_ring, for a ring that is open. *)
Fail(s, result) ==
  LET r == [s EXCEPT !.ring.state = "closing", !.ring.terminal = [e \in Ends |-> result]]
  IN  MaybeFree(Wake(Wake(r, "producer", result), "consumer", result))

Failure(r) == IF \E e \in Ends : r.terminal[e] = "failed" THEN "failed" ELSE "dead"

(* How far the position of end e may advance.  An end's own references are *)
(* not 0 while it has a handle to ask with.                                *)
Room(r, e) == IF e = "producer" THEN Capacity - Used(r) ELSE Used(r)

(* An end's position is as far as room allows: the other end is woken. *)
Accept(s, e, position) ==
  LET r == [s EXCEPT !.ring.position[e] = position]
      wakes == /\ position # s.ring.position[e]
               /\ r.ring.references[Other(e)] # 0 /\ Room(r.ring, Other(e)) # 0
  IN  IF wakes THEN Wake(r, Other(e), "ok") ELSE r

NotifyUnchecked(s, e, position) ==                   \* mutant: any position is accepted
  IF s.ring.state = "closing" THEN <<s, Failure(s.ring)>>
  ELSE IF e = "producer" /\ s.ring.references["consumer"] = 0 THEN <<s, "dead">>
  ELSE <<Accept(s, e, position), "ok">>

(* kernel_ring_notify: the new state, and what the caller is told. *)
Notify(s, e, position) ==
  IF s.ring.state = "closing" THEN <<s, Failure(s.ring)>>
  ELSE IF e = "producer" /\ s.ring.references["consumer"] = 0 THEN <<s, "dead">>
  ELSE IF Ahead(position, s.ring.position[e]) > Room(s.ring, e)
    THEN <<Fail(s, "failed"), "failed">>
  ELSE <<Accept(s, e, position), "ok">>

ReadinessPeerFirst(r, e) ==                          \* mutant: the end before the data
  IF r.state = "closing" THEN Failure(r)
  ELSE IF r.references[Other(e)] = 0 THEN "dead"
  ELSE IF Room(r, e) # 0 THEN "ok" ELSE "sleep"

(* kernel_ring_prepare_wait: "sleep" is WOULD_BLOCK.  A consumer gets what *)
(* there is before it learns that the producer is gone.                    *)
Readiness(r, e) ==
  IF r.state = "closing" THEN Failure(r)
  ELSE IF e = "producer" /\ r.references["consumer"] = 0 THEN "dead"
  ELSE IF Room(r, e) # 0 THEN "ok"
  ELSE IF r.references[Other(e)] = 0 THEN "dead" ELSE "sleep"

----------------------------------------------------------------------------
(* Areas, handles and processes.                                           *)

Alive(p) == process[p] = "alive"
Shared == ring.form = "shared"

(* RING_CREATE in the area; the header is cleared (and here the data with  *)
(* it: what an earlier ring left there is never read).                     *)
Create(p) ==
  /\ Alive(p) /\ p \in area.handles /\ ring.state = "free"
  /\ ring' = [ring EXCEPT !.state = "open", !.owner = p, !.references = [e \in Ends |-> 1]]
  /\ area' = [area EXCEPT !.children = 1]
  /\ holds' = {p} \X Ends
  /\ header' = [e \in Ends |-> 0]
  /\ data' = [k \in 0 .. Capacity - 1 |-> 0]
  /\ faulty' = {}
  /\ UNCHANGED <<process, view, thread>>

(* A handle of an end moves to another process, with one of the area. *)
Give(p, q, e) ==
  /\ Alive(p) /\ Alive(q) /\ p # q
  /\ <<p, e>> \in holds /\ <<q, e>> \notin holds
  /\ thread[p][e].pc = "idle" /\ view[e].at = Nobody
  /\ holds' = (holds \ {<<p, e>>}) \cup {<<q, e>>}
  /\ area' = [area EXCEPT !.handles = IF p \in @ THEN @ \cup {q} ELSE @]
  /\ thread' = [thread EXCEPT ![p][e] = Idle]
  /\ UNCHANGED <<process, ring, header, data, view, faulty>>

(* CLOSE.  The other threads of a pipe's process may be anywhere; a view   *)
(* is used by one thread.                                                  *)
CloseEnd(p, e) ==
  LET t == thread[p][e]
      s == [Now EXCEPT !.thread[p][e] =
             IF t.pc = "asleep" THEN [t EXCEPT !.want = 0] ELSE Idle]
  IN  /\ Alive(p) /\ <<p, e>> \in holds
      /\ Shared => t.pc = "idle"
      /\ Becomes(ReleaseEnd(s, e))
      /\ holds' = holds \ {<<p, e>>}
      /\ view' = IF view[e].at = p THEN [view EXCEPT ![e] = NoView] ELSE view
      /\ UNCHANGED <<process, header, data, faulty>>

CloseArea(p) ==
  /\ Alive(p) /\ p \in area.handles /\ faulty = {}
  /\ Becomes(ReleaseArea(Now, p))
  /\ UNCHANGED <<process, holds, header, data, view, faulty>>

(* fork copies the handles that can be copied: those of the area, and of a *)
(* copied ring (kernel_ring_handle_retain).                                *)
Fork(p, q) ==
  LET copied == IF Shared THEN {} ELSE {e \in Ends : <<p, e>> \in holds}
  IN  /\ Alive(p) /\ process[q] = "unborn"
      /\ process' = [process EXCEPT ![q] = "alive"]
      /\ holds' = holds \cup ({q} \X copied)
      /\ ring' = [ring EXCEPT !.references =
                    [e \in Ends |-> IF e \in copied THEN @[e] + 1 ELSE @[e]]]
      /\ area' = [area EXCEPT !.handles = IF p \in @ THEN @ \cup {q} ELSE @]
      /\ UNCHANGED <<header, data, view, thread, faulty>>

(* retire_process: its threads end, kernel_ring_process_died fails a       *)
(* shared ring that it owns or whose area it created, and its mappings go. *)
Exit(p) ==
  LET gone == [Now EXCEPT !.thread[p] = [e \in Ends |-> Idle]]
      s == IF Shared /\ ring.state = "open" /\ p \in {ring.owner, area.creator}
             THEN Fail(gone, "dead") ELSE gone
  IN  /\ Alive(p)
      /\ process' = [process EXCEPT ![p] = "exited"]
      /\ Becomes([s EXCEPT !.area.mapped = @ \ {p}])
      /\ view' = [e \in Ends |-> IF view[e].at = p THEN NoView ELSE view[e]]
      /\ UNCHANGED <<holds, header, data, faulty>>

(* The worker closes the handles of a process that has exited, one by one. *)
Reap(p) ==
  /\ process[p] = "exited"
  /\ \/ \E e \in Ends :
          /\ <<p, e>> \in holds
          /\ Becomes(ReleaseEnd(Now, e))
          /\ holds' = holds \ {<<p, e>>}
     \/ /\ p \in area.handles
        /\ Becomes(ReleaseArea(Now, p))
        /\ UNCHANGED holds
  /\ UNCHANGED <<process, header, data, view, faulty>>

----------------------------------------------------------------------------
(* The NDK's endpoints of a shared ring.                                   *)

(* header_valid: of what it reads, only the positions can change.          *)
HeaderValid(e) ==
  /\ Ahead(header["producer"], header["consumer"]) <= Capacity
  /\ header[e] = view[e].local

(* endpoint_ready *)
ReadyWhenFull(e) ==                                  \* mutant: a full ring is ready
  IF e = "producer" THEN Ahead(view[e].local, view[e].peer) <= Capacity
  ELSE view[e].peer # view[e].local
Ready(e) ==
  IF e = "producer" THEN Ahead(view[e].local, view[e].peer) < Capacity
  ELSE view[e].peer # view[e].local

(* An attach that fails leaves no view. *)
ViewAfter(p, e) == IF thread[p][e].call = "attach" THEN NoView ELSE view[e]

(* report_corruption: the view has failed, and the kernel fails the ring.  *)
Report(p, e) ==
  LET s == IF ring.state = "open" THEN Fail(Now, "failed") ELSE Now
      v == [ViewAfter(p, e) EXCEPT !.failed = view[e].at # Nobody /\ Attached(e)]
  IN  /\ Becomes([s EXCEPT !.thread[p][e] = Told("failed")])
      /\ view' = [view EXCEPT ![e] = v]
      /\ UNCHANGED <<process, holds, header, data, faulty>>

(* The part of a library call that ends this thread's step at pc.          *)
GoesOn(p, e, pc) ==
  /\ thread' = [thread EXCEPT ![p][e].pc = pc]
  /\ UNCHANGED <<process, area, ring, holds, header, data, view, faulty>>

Returns(p, e, told) ==
  /\ thread' = [thread EXCEPT ![p][e] = Told(told)]
  /\ UNCHANGED <<process, area, ring, holds, header, data, view, faulty>>

Uses(p, e) ==
  /\ Alive(p) /\ p \notin faulty /\ thread[p][e].pc = "idle"
  /\ view[e].at = p /\ ~view[e].failed

(* The area is mapped, if it is not yet, and the view begins at the        *)
(* position in the header.                                                 *)
Attach(p, e) ==
  /\ Alive(p) /\ p \notin faulty /\ Shared /\ <<p, e>> \in holds
  /\ view[e].at = Nobody /\ thread[p][e].pc = "idle"
  /\ p \in area.handles \cup area.mapped
  /\ area' = [area EXCEPT !.mapped = @ \cup {p}]
  /\ view' = [view EXCEPT ![e] = [NoView EXCEPT !.at = p, !.local = header[e],
                                                !.peer = header[e]]]
  /\ thread' = [thread EXCEPT ![p][e] = [Idle EXCEPT !.pc = "ask", !.call = "attach"]]
  /\ UNCHANGED <<process, ring, holds, header, data, faulty>>

(* astra_bulk_ring_notify, astra_bulk_ring_wait_until *)
Begin(p, e, call) ==
  /\ Uses(p, e) /\ ~view[e].reserved
  /\ thread' = [thread EXCEPT ![p][e] = [Idle EXCEPT !.pc = "ask", !.call = call]]
  /\ UNCHANGED <<process, area, ring, holds, header, data, view, faulty>>

(* refresh: the header is checked and the kernel is told this end's        *)
(* position and asked for the other's (what it answers of this end's is    *)
(* what it was told).  The check and the call are one step: an end that    *)
(* keeps to the library never makes a valid header invalid, ...            *)
Ask(p, e) ==
  LET answer == Notify(Now, e, view[e].local)
      s == answer[1]
      ok == answer[2] = "ok"
  IN  /\ thread[p][e].pc = "ask"
      /\ \/ ~HeaderValid(e) /\ Report(p, e)
         \/ /\ HeaderValid(e)
            /\ Becomes([s EXCEPT !.thread[p][e] =
                 IF ok THEN [@ EXCEPT !.pc = "recheck"] ELSE Told(answer[2])])
            /\ view' = [view EXCEPT ![e] =
                 IF ok THEN [@ EXCEPT !.peer = s.ring.position[Other(e)]]
                 ELSE ViewAfter(p, e)]
            /\ UNCHANGED <<process, holds, header, data, faulty>>

(* ... and the header is checked again; wait_until then may have to wait.  *)
Recheck(p, e) ==
  /\ thread[p][e].pc = "recheck"
  /\ IF ~HeaderValid(e) THEN Report(p, e)
     ELSE IF thread[p][e].call = "wait" /\ ~Ready(e) THEN GoesOn(p, e, "block")
     ELSE Returns(p, e, "none")

(* astra_bulk_ring_write_reserve, astra_bulk_ring_read_reserve; a producer *)
(* writes the element it has reserved.                                     *)
Reserve(p, e) ==
  /\ Uses(p, e) /\ ~view[e].reserved
  /\ \/ ~HeaderValid(e) /\ Report(p, e)
     \/ /\ HeaderValid(e) /\ Ready(e)
        /\ view' = [view EXCEPT ![e].reserved = TRUE]
        /\ data' = IF e = "producer"
                     THEN [data EXCEPT ![Slot(view[e].local)] = view[e].local] ELSE data
        /\ UNCHANGED <<process, area, ring, holds, header, thread, faulty>>

(* astra_bulk_ring_write_commit, astra_bulk_ring_read_commit *)
Commit(p, e) ==
  LET next == Plus(view[e].local, 1)
  IN  /\ Uses(p, e) /\ view[e].reserved
      /\ \/ ~HeaderValid(e) /\ Report(p, e)
         \/ /\ HeaderValid(e)
            /\ header' = [header EXCEPT ![e] = next]
            /\ view' = [view EXCEPT ![e].local = next, ![e].reserved = FALSE]
            /\ UNCHANGED <<process, area, ring, holds, data, thread, faulty>>

(* WAIT_ONE, of a shared or a copied ring. *)
Block(p, e) ==
  LET result == Readiness(ring, e)
  IN  /\ thread[p][e].pc = "block"
      /\ thread' = [thread EXCEPT ![p][e] =
           IF result = "sleep" THEN [@ EXCEPT !.pc = "asleep"] ELSE After(Now, @, e, result)]
      /\ UNCHANGED <<process, area, ring, holds, header, data, view, faulty>>

(* A wait that times out, or is ended by a signal or a cancellation.       *)
EndWait(p, e) ==
  /\ thread[p][e].pc = "asleep"
  /\ Returns(p, e, "none")

----------------------------------------------------------------------------
(* Reads and writes of a pipe.                                             *)

Start(p, e, length) ==
  /\ Alive(p) /\ ~Shared /\ <<p, e>> \in holds /\ thread[p][e].pc = "idle"
  /\ thread' = [thread EXCEPT ![p][e] = [Idle EXCEPT !.pc = "try", !.want = length]]
  /\ UNCHANGED <<process, area, ring, holds, header, data, view, faulty>>

(* Nothing can be done: the call waits, or ends if it is not to wait.      *)
WouldBlock(p, e) == GoesOn(p, e, "block") \/ Returns(p, e, "none")

(* RING_READ_TRY or RING_WRITE_TRY moves n elements: both positions of a   *)
(* copied ring are the kernel's, and it writes the header.                 *)
Moves(p, e, n) ==
  LET position == Plus(ring.position[e], n)
      s == [Now EXCEPT !.thread[p][e] = Idle, !.ring.position[e] = position]
  IN  /\ Becomes(IF ring.references[Other(e)] = 0 THEN s ELSE Wake(s, Other(e), "ok"))
      /\ header' = [header EXCEPT ![e] = position]
      /\ UNCHANGED <<process, holds, view, faulty>>

(* read: what there is, up to the length; nothing at the end.              *)
Read(p) ==
  LET e == "consumer"
      n == AtMost(thread[p][e].want, Used(ring))
  IN  /\ thread[p][e].pc = "try"
      /\ \/ n > 0 /\ Moves(p, e, n) /\ UNCHANGED data
         \/ n = 0 /\ ring.references["producer"] = 0 /\ Returns(p, e, "dead")
         \/ n = 0 /\ ring.references["producer"] # 0 /\ WouldBlock(p, e)

(* write: as much as there is room for, or all if it is short. *)
Write(p) ==
  LET e == "producer"
      want == thread[p][e].want
      room == Room(ring, e)
      refused == room = 0 \/ (want <= AtomicMax /\ room < want)
      n == AtMost(want, room)
      at == ring.position[e]
  IN  /\ thread[p][e].pc = "try"
      /\ \/ ring.references["consumer"] = 0 /\ Returns(p, e, "dead")
         \/ ring.references["consumer"] # 0 /\ refused /\ WouldBlock(p, e)
         \/ /\ ring.references["consumer"] # 0 /\ ~refused
            /\ Moves(p, e, n)
            /\ data' = [k \in DOMAIN data |->
                 LET i == Ahead(k, at) % Capacity IN IF i < n THEN Plus(at, i) ELSE data[k]]

----------------------------------------------------------------------------
(* A process that does not keep to the library: it writes a position into  *)
(* the header, or tells the kernel one.  Bound: once for a ring, before an *)
(* element is read, while all have handles of the area and keep them; and  *)
(* it begins nothing more with that ring.                                  *)

MayFail ==
  /\ faulty = {} /\ area.handles = Processes
  /\ \A e \in Ends : view[e].at \notin {Nobody, view[Other(e)].at}
  /\ header["consumer"] = 0

NearBy(position) == {Plus(position, n) : n \in {Capacity + 1, Wrap - 1}}

Damage(p) ==
  /\ Alive(p) /\ Shared /\ ring.state # "free" /\ p \in area.mapped /\ MayFail
  /\ \E e \in Ends : \E position \in NearBy(header[e]) :
        header' = [header EXCEPT ![e] = position]
  /\ faulty' = {p}
  /\ UNCHANGED <<process, area, ring, holds, data, view, thread>>

Misreport(p, e) ==
  /\ Alive(p) /\ Shared /\ <<p, e>> \in holds /\ MayFail
  /\ \E position \in NearBy(ring.position[e]) : Becomes(Notify(Now, e, position)[1])
  /\ faulty' = {p}
  /\ UNCHANGED <<process, holds, header, data, view>>

----------------------------------------------------------------------------
Library(p, e) ==
  \/ Attach(p, e) \/ Begin(p, e, "notify") \/ Begin(p, e, "wait")
  \/ Ask(p, e) \/ Recheck(p, e)
  \/ Reserve(p, e) \/ Commit(p, e)

Next ==
  \E p \in Processes :
    \/ \E e \in Ends :
         \/ CloseEnd(p, e)
         \/ Library(p, e)
         \/ Block(p, e) \/ EndWait(p, e)
         \/ Misreport(p, e)
    \/ \E q \in Processes : Fork(p, q) \/ \E e \in Ends : Give(p, q, e)
    \/ Create(p) \/ CloseArea(p) \/ Exit(p) \/ Reap(p)
    \/ \E length \in ReadLengths : Start(p, "consumer", length)
    \/ \E length \in WriteLengths : Start(p, "producer", length)
    \/ Read(p) \/ Write(p) \/ Damage(p)

Spec == Init /\ [][Next]_vars

----------------------------------------------------------------------------
(* Properties.                                                             *)

Live == ring.state # "free"

(* What the ends say is behind what they have done: from the position the  *)
(* kernel has of the consumer, the positions follow one another round the  *)
(* ring as they should, and every slot between the ends' positions has the *)
(* element that was written for it, so that the consumer reads each        *)
(* element once, in order, and none is overwritten before it is read       *)
(* (bulk_ring.c, reserve and commit against refresh; ring.c, copy_range).  *)
InOrder ==
  Live /\ faulty = {} =>
    LET from(position) == Ahead(position, ring.position["consumer"])
        known == IF Attached("consumer") THEN view["consumer"].peer ELSE header["consumer"]
    IN  /\ from(header["consumer"]) <= from(known)
        /\ from(known) <= from(ring.position["producer"])
        /\ from(ring.position["producer"]) <= from(header["producer"])
        /\ from(header["producer"]) <= Capacity
        /\ \A n \in 0 .. Ahead(header["producer"], header["consumer"]) - 1 :
             LET position == Plus(header["consumer"], n) IN data[Slot(position)] = position

(* Whatever another process writes into the header or tells the kernel,    *)
(* what an end that keeps to the library believes stays within the ring,   *)
(* and so does what the kernel believes; and no ring and no end fails for  *)
(* corruption while all keep to it (ring.c:617, bulk_ring.c header_valid). *)
FaultsContained ==
  /\ TypeOK
  /\ Used(ring) <= Capacity
  /\ \A e \in Ends : Attached(e) /\ ~view[e].failed /\ view[e].at \notin faulty =>
       IF e = "producer" THEN Ahead(view[e].local, view[e].peer) <= Capacity
       ELSE Ahead(view[e].peer, view[e].local) <= Capacity
  /\ faulty = {} =>
       \A e \in Ends : ring.terminal[e] # "failed" /\ ~view[e].failed

(* A thread sleeps at an end only if the ring is open and there is nothing *)
(* for it: a consumer while no element the kernel knows of is left, a      *)
(* producer while the ring is full, and either only while the other end is *)
(* there to wake it; whatever happened between the last look at the ring   *)
(* and the wait (ring.c, kernel_ring_prepare_wait and the wakes).          *)
NoStrandedEnd ==
  \A p \in Processes, e \in Ends : thread[p][e].pc = "asleep" =>
    /\ ring.state = "open" /\ ring.references[Other(e)] # 0
    /\ Room(ring, e) = 0

(* A reader is told that the producer is gone only when it is and all it   *)
(* published has been read, or if the ring's owner died; a writer, only if *)
(* nobody is left to read (ring.c, kernel_ring_prepare_wait, copy_peek).   *)
EndOfStream ==
  \A p \in Processes, e \in Ends :
    thread[p][e].dead /\ ring.state = "open" =>
      /\ ring.references[Other(e)] = 0
      /\ e = "consumer" => Room(ring, e) = 0

(* The area outlives its handles while a ring in it does, and a view's     *)
(* process has it mapped; it goes with the last of both.  The ring counts  *)
(* the handles of its ends, and is never freed under a waiting thread      *)
(* (ring.c maybe_free, release_child; area.c close_area).                  *)
BackingHeld ==
  /\ Live => area.state = "live" /\ area.children = 1
  /\ ~Live => area.children = 0 /\ holds = {}
  /\ area.state = "live" <=> Live \/ area.handles # {}
  /\ \A e \in Ends :
       ring.references[e] = Cardinality({p \in Processes : <<p, e>> \in holds})
  /\ \A e \in Ends : view[e].at # Nobody =>
       <<view[e].at, e>> \in holds /\ view[e].at \in area.mapped
  /\ ~ring.corrupt

=============================================================================
