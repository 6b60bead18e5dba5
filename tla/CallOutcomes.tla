---------------------------- MODULE CallOutcomes ----------------------------
(***************************************************************************)
(* What PORT_CALL promises its callers, whatever happens to the reply      *)
(* capabilities: a call that was sent stays answerable as long as its      *)
(* caller waits, and using up or dropping the right to answer it ends it.  *)
(* A call may also end because its caller leaves; the right to answer it   *)
(* is then worth nothing, but still has to be disposed of.                 *)
(***************************************************************************)
EXTENDS Naturals

CONSTANT Calls     \* the calls that may ever be made

VARIABLES
  begun,    \* calls that were made
  open,     \* calls whose caller waits
  rights    \* calls that somebody can still answer or drop

Init == begun = {} /\ open = {} /\ rights = {}

(* The request is sent, and a right to answer it with it. *)
Begin(i) ==
  /\ i \notin begun
  /\ begun' = begun \cup {i}
  /\ open' = open \cup {i}
  /\ rights' = rights \cup {i}

(* The request is refused, and nothing happened. *)
Refuse(i) ==
  /\ i \notin begun
  /\ begun' = begun \cup {i}
  /\ UNCHANGED <<open, rights>>

(* The rights in used are used up or dropped, which ends their calls, and  *)
(* the callers of the calls in left leave.                                 *)
Settle(used, left) ==
  /\ used \subseteq rights /\ left \subseteq open
  /\ rights' = rights \ used
  /\ open' = open \ (used \cup left)
  /\ UNCHANGED begun

Next ==
  \/ \E i \in Calls : Begin(i) \/ Refuse(i)
  \/ \E used, left \in SUBSET Calls : Settle(used, left)

Spec == Init /\ [][Next]_<<begun, open, rights>>

=============================================================================
