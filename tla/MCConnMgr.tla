------------------------------ MODULE MCConnMgr ------------------------------
(***************************************************************************)
(* Model-checking instances of ConnMgr: what happens in them, and that the *)
(* bots are interchangeable.                                               *)
(***************************************************************************)
EXTENDS ConnMgr, TLC

Mode(messages, amends, leaves, stops) ==
  [messages |-> messages, amends |-> amends, leaves |-> leaves, stops |-> stops]

\* Bots that stay and amend their orders, and bots that leave; in either case
\* every process may end at any step.
MCModes == {Mode(2, TRUE, FALSE, TRUE), Mode(1, FALSE, TRUE, TRUE)}

OnlyAmends == {Mode(2, TRUE, FALSE, FALSE)}

OnlyLeaves == {Mode(1, FALSE, TRUE, FALSE)}

BotSymmetry == Permutations(Clients)
=============================================================================
