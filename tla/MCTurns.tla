------------------------------- MODULE MCTurns -------------------------------
(***************************************************************************)
(* The scheduler under a timer that never stops, for its liveness.         *)
(*                                                                         *)
(* The supervisor timer is armed for the end of the running thread's       *)
(* quantum and for the earliest deadline whenever one of them exists       *)
(* (scheduler_timer_rearm in process.c), so an interrupt with the quantum  *)
(* spent and the clock advanced comes again and again.  In the workloads   *)
(* in Timed, beat turns over at each of them, which names these steps for  *)
(* the fairness condition; in the others it stands still.                  *)
(***************************************************************************)
EXTENDS MCScheduling

CONSTANT Timed

VARIABLE beat

TurnsInit == Init /\ beat = FALSE

Timer == \E d \in 1..Load.maxWait : Tick(d, TRUE, NoThread)

TurnsNext ==
  \/ load \in Timed /\ Timer /\ beat' = ~beat
  \/ Next /\ UNCHANGED beat

(* Timer is enabled in every state of a timed workload in which no check   *)
(* has failed and no teardown is due.                                      *)
TurnsSpec ==
  /\ TurnsInit /\ [][TurnsNext]_<<vars, beat>>
  /\ WF_beat(load \in Timed /\ beat' = ~beat)

(* Threads of one priority share the processor: a ready thread that none   *)
(* outranks runs, or stops being such a thread                             *)
(* (scheduler_mark_quantum_expired, schedule_pending).                     *)
Top(t) ==
  /\ load \in Timed /\ thread[t].state = "READY" /\ ~thread[t].suspended
  /\ \A u \in Threads :
       thread[u].state \in {"READY", "RUNNING"} /\ ~thread[u].suspended =>
         thread[u].effective <= thread[t].effective
TakesTurns == \A t \in Threads : Top(t) ~> ~Top(t)

(* A wait with a deadline ends, whatever the threads it depends on do      *)
(* (expire_deadlines_fast).                                                *)
Expiring(t) == load \in Timed /\ thread[t].deadline # 0
WaitsEnd == \A t \in Threads : Expiring(t) ~> thread[t].state # "BLOCKED"

=============================================================================
