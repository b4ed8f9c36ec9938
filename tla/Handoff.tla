------------------------------- MODULE Handoff -------------------------------
(***************************************************************************)
(* What the semaphores and the segment of SharedSlot promise: a channel of *)
(* capacity one.  Messages are received whole, in the order in which they  *)
(* were sent and at most once; none is skipped as long as the reader       *)
(* stays.                                                                  *)
(***************************************************************************)
EXTENDS Sequences

CONSTANTS
  Items,     \* what can be sent
  MayLose    \* may the reader go away with a message in its hands?

VARIABLES sent, chan, received

Init == sent = << >> /\ chan = << >> /\ received = << >>

Put(m) ==
  /\ chan = << >>
  /\ sent' = Append(sent, m)
  /\ chan' = <<m>>
  /\ UNCHANGED received

Get ==
  /\ chan # << >>
  /\ received' = Append(received, Head(chan))
  /\ chan' = << >>
  /\ UNCHANGED sent

Lose ==
  /\ MayLose /\ chan # << >>
  /\ chan' = << >>
  /\ UNCHANGED <<sent, received>>

Next == (\E m \in Items : Put(m)) \/ Get \/ Lose

Spec == Init /\ [][Next]_<<sent, chan, received>>
=============================================================================
