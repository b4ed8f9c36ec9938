----------------------------- MODULE MCTradeBot -----------------------------
(***************************************************************************)
(* Model-checking instances of TradeBot: a bot at a rate and one with a    *)
(* count, a bot whose count fills every queue and buffer, a bot at a rate  *)
(* that does so, and rates that the timer refuses.                         *)
(***************************************************************************)
EXTENDS TradeBot, TLC

CONSTANTS b1, b2

\* Bots only send new orders, and run on.
MCModes ==
  {[messages |-> MaxMessages, amends |-> FALSE, leaves |-> FALSE, stops |-> FALSE]}

Start(r1, c1, r2, c2) == b1 :> [r |-> r1, c |-> c1] @@ b2 :> [r |-> r2, c |-> c2]

MCCommandLines ==
  {Start(1000, 2, 0, 1), Start(1000, 3, 0, 0), Start(0, 7, 0, 0),
   Start(1, 7, 2000000, 7)}
=============================================================================
