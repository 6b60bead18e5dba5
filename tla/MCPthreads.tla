----------------------------- MODULE MCPthreads -----------------------------
(***************************************************************************)
(* The POSIX mutex and condition variable on small sets of threads.        *)
(***************************************************************************)
EXTENDS Pthreads, TLC

(* The threads run the same program, and nothing compares their IDs. *)
Symmetry == Permutations(Threads)

(* What a state's future depends on: the result of a call is read right    *)
(* after it, and the sequence up to FUTEX_WAIT.                            *)
View ==
  <<program, word, record, sleeping, pc, owner, IF Recursive THEN depth ELSE 0, held, waits, rwlock, ran, unmet,
    [t \in Threads |-> IF Live(t) /\ pc[t] \notin {"asked", "slept"} THEN "" ELSE status[t]],
    [t \in Threads |-> IF pc[t] = "sleepy" \/ waits[t] THEN seen[t] ELSE 0]>>

=============================================================================
