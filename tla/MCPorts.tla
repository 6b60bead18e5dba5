------------------------------ MODULE MCPorts ------------------------------
(***************************************************************************)
(* Ports and handle tables with two processes: one with two threads that   *)
(* runs from the start, and one that is forked or launched.                *)
(***************************************************************************)
EXTENDS Ports, TLC

CONSTANTS a, b, t1, t2, u1

MCProcessOf == (t1 :> a) @@ (t2 :> a) @@ (u1 :> b)

(* The masks may name rights that the handle does not have. *)
Forwardable == {{"signal", "transfer", "administer"}}
SendOnly == {{"signal", "wait"}}

(* With one thread in each process. *)
MCSingle == (t1 :> a) @@ (u1 :> b)

(* The threads of the first process run the same program. *)
Symmetry == Permutations({t1, t2})

=============================================================================
