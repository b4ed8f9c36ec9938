------------------------------ MODULE Replicas -------------------------------
(***************************************************************************)
(* What matching engine and book publisher promise together: two copies    *)
(* that go through the same sequence of states.  Either may lead; the      *)
(* other one follows it state by state.  Both can be started afresh.       *)
(***************************************************************************)
EXTENDS Sequences, SequencesExt

VARIABLES one, two    \* the states each copy has come to, in order

Init == one = << >> /\ two = << >>

\* Copy a comes to its next state: any, if it leads; else the one b was in.
Advance(a, b) ==
  /\ a' # << >> /\ a' = Append(a, Last(a'))
  /\ Len(a) < Len(b) => Last(a') = b[Len(a')]
  /\ UNCHANGED b

Afresh == one' = << >> /\ two' = << >>

Next == Advance(one, two) \/ Advance(two, one) \/ Afresh

Spec == Init /\ [][Next]_<<one, two>>
=============================================================================
