--------------------------- MODULE MCSyncObjects ---------------------------
(***************************************************************************)
(* Small instances of the synchronization objects for TLC.  A behaviour    *)
(* has one of the workloads below: units handed out among three threads,   *)
(* objects that come and go with their handles and their processes, timers *)
(* waited for with deadlines, and a heap of six timers.                    *)
(***************************************************************************)
EXTENDS SyncObjects, TLC

CONSTANTS a, b, c, t1, t2, u, v, Loads

MCProcessOf == t1 :> a @@ t2 :> a @@ u :> b @@ v :> c

Object(type, count, maximum) == [type |-> type, count |-> count, maximum |-> maximum]
Semaphore == Object("SEMAPHORE", 0, 2)
Auto == Object("EVENT_AUTO", 0, 1)
Manual == Object("EVENT_MANUAL", 0, 1)
Timer == Object("TIMER", 0, 1)

Use(calls, running, boot, creates, slots, tableSize, waits, releases, delays) ==
  [calls |-> calls, running |-> running, boot |-> boot, creates |-> creates,
   slots |-> slots, tableSize |-> tableSize, waits |-> waits,
   releases |-> releases, delays |-> delays]

AllLoads == [
  Units |-> Use({"Wait", "Signal", "Reset", "CancelWait", "Tick"}, {a, b},
                <<Semaphore, Auto>>, {}, 2, 2,
                {<<1>>, <<2>>, <<1, 1>>, <<1, 2>>, <<2, 1>>}, {1, 2}, {1}),
  Lives |-> Use({"Create", "Close", "Duplicate", "Fork", "Exit", "Wait"}, {b},
                <<Semaphore>>, {Auto}, 2, 2, {<<2, 1>>}, {1}, {}),
  Timers |-> Use({"TimerSet", "TimerCancel", "Reset", "Signal", "Close", "Exit", "Wait"}, {a},
                 <<Timer, Manual, Timer>>, {}, 3, 3, {<<1>>, <<2, 1, 3>>}, {1}, {1, 2}),
  Heap |-> Use({"TimerSet", "TimerCancel"}, {c},
               [o \in 1..6 |-> Timer], {}, 6, 6, {}, {1}, {1, 2})]

MCWorkload == [name \in Loads |-> AllLoads[name]]

=============================================================================
