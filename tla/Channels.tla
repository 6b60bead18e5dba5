------------------------------ MODULE Channels ------------------------------
(***************************************************************************)
(* What a message port of the Axiom kernel promises, without records,      *)
(* links, counts and tables: a channel carries messages in the order they  *)
(* were sent, each to be taken once, until nobody can send any more, and   *)
(* then until it is empty; or until its receiver goes, and then the rest   *)
(* is dropped.  Module Ports implements it.                                *)
(***************************************************************************)
EXTENDS Integers, Sequences

CONSTANTS PortSlots, Messages

VARIABLE channel    \* channel[p]: its state and its messages, oldest first

Unused == [state |-> "free", queue |-> <<>>]

Init == channel = [p \in PortSlots |-> Unused]

Open(c, d) ==
  /\ c = Unused
  /\ d = [state |-> "open", queue |-> <<>>]

Put(c, d) ==
  /\ c.state = "open" /\ d.state = "open"
  /\ Len(d.queue) = Len(c.queue) + 1
  /\ SubSeq(d.queue, 1, Len(c.queue)) = c.queue
  /\ d.queue[Len(d.queue)] \in Messages

Take(c, d) ==
  /\ c.state \in {"open", "peer_closed"} /\ d.state = c.state
  /\ c.queue # <<>> /\ d.queue = Tail(c.queue)

(* The last sender is gone; what was sent can still be taken. *)
HangUp(c, d) ==
  /\ c.state = "open" /\ d.state = "peer_closed"
  /\ d.queue = c.queue

(* The receiver is gone; the channel stays closed while it has names. *)
Shut(c, d) ==
  /\ c.state \in {"open", "peer_closed"}
  /\ d = [state |-> "closing", queue |-> <<>>] \/ d = Unused

Free(c, d) == c.state = "closing" /\ d = Unused

(* One call may change several channels, each in one of these ways. *)
Next ==
  \A p \in PortSlots :
    LET c == channel[p]
        d == channel'[p]
    IN c = d \/ Open(c, d) \/ Put(c, d) \/ Take(c, d) \/ HangUp(c, d) \/ Shut(c, d) \/ Free(c, d)

Spec == Init /\ [][Next]_channel

=============================================================================
