------------------------------ MODULE OrderBook ------------------------------
(***************************************************************************)
(* The order book of one instrument: classes OrderList and OrderBook of    *)
(* src/orderbookview.h, as operators on values.                            *)
(*                                                                         *)
(* The code keeps each side of a book as a list of price levels, each of   *)
(* them a list of orders.  Here a side is the concatenation of its levels: *)
(* one sequence of orders, the next to execute first.  A level is a        *)
(* maximal run of orders of equal type and price, so the nested lists can  *)
(* be read back from the sequence, and every search of the code is a       *)
(* search for the first order that is not ahead of a given one.            *)
(***************************************************************************)
EXTENDS Integers, Sequences, FiniteSets, SequencesExt, FiniteSetsExt

CONSTANTS
  Ids,        \* order ids
  Symbols,    \* instruments
  Prices,     \* limit prices, in ticks
  NoPrice     \* what the price field of a market order holds: garbage

ASSUME PriceAssumption == Prices \subseteq Nat /\ NoPrice \notin Prices

Sides == {"BUY", "SELL"}

\* struct Order, without the account and user names that nothing tests.
Order ==
  [order_id   : Ids,
   order_type : {"MARKET", "LIMIT"},
   buysell    : Sides,
   symbol     : Symbols,
   price      : Prices \cup {NoPrice},
   quantity   : Nat,
   timestamp  : Nat]

\* The orders clients can send: a limit order names its price, a market
\* order leaves the field alone.
WellFormed(o) == o.order_type = "LIMIT" <=> o.price \in Prices

EmptyBook == [side \in Sides |-> << >>]
-----------------------------------------------------------------------------
(* Priority *)

IsMarket(o) == o.order_type = "MARKET"

\* p's price level stands before o's level: market orders first, then the
\* better price, which is the higher one for buyers and the lower for sellers.
BetterLevel(p, o) ==
  /\ ~IsMarket(o)
  /\ \/ IsMarket(p)
     \/ IF o.buysell = "BUY" THEN p.price > o.price ELSE p.price < o.price

SameLevel(p, o) ==
  /\ p.order_type = o.order_type
  /\ IsMarket(o) \/ p.price = o.price

\* p keeps its place when o of the same side is inserted: it is at a better
\* level, or at o's level and not younger.
Ahead(p, o) ==
  BetterLevel(p, o) \/ (SameLevel(p, o) /\ p.timestamp <= o.timestamp)

\* The first position of s outside P, or the one past the end.
FirstOutside(s, P) == Min((1 .. Len(s) + 1) \ P)
-----------------------------------------------------------------------------
(* One side *)

\* Mutant: push_back instead of the search.
PlaceLast(s, o) == Len(s) + 1

\* Where AddOrder puts o: before the first order that o may overtake.
Place(s, o) == FirstOutside(s, {i \in 1 .. Len(s) : Ahead(s[i], o)})

AddOrder(s, o) == InsertAt(s, Place(s, o), o)

Holds(s, id) == \E i \in 1 .. Len(s) : s[i].order_id = id

PositionOf(s, id) == FirstOutside(s, {i \in 1 .. Len(s) : s[i].order_id # id})

\* The first order with this id leaves; nothing happens when there is none.
RemoveOrder(s, id) == IF Holds(s, id) THEN RemoveAt(s, PositionOf(s, id)) ELSE s

\* pop_front of the first level, done only when that level is of market orders.
PopMarketLevel(s) ==
  SubSeq(s, FirstOutside(s, {i \in 1 .. Len(s) : IsMarket(s[i])}), Len(s))
-----------------------------------------------------------------------------
(* Matching.  b is a book: its head orders are the only ones that trade. *)

HeadBuy(b)  == Head(b["BUY"])
HeadSell(b) == Head(b["SELL"])

EmptySide(b, side) == b[side] = << >>

\* Neither book is empty and the heads are not two limit orders whose prices
\* miss each other.
Crosses(b) ==
  /\ ~EmptySide(b, "BUY") /\ ~EmptySide(b, "SELL")
  /\ ~IsMarket(HeadBuy(b)) /\ ~IsMarket(HeadSell(b))
       => HeadBuy(b).price >= HeadSell(b).price

\* Mutant: max for min.
LargerQuantity(b) ==
  IF HeadBuy(b).quantity > HeadSell(b).quantity
  THEN HeadBuy(b).quantity ELSE HeadSell(b).quantity

TradeQuantity(b) ==
  IF HeadBuy(b).quantity < HeadSell(b).quantity
  THEN HeadBuy(b).quantity ELSE HeadSell(b).quantity

\* Mutant: the case of a market order among the sellers is missing.
PriceByAge(b) ==
  LET A == HeadSell(b)
      B == HeadBuy(b)
  IN  IF IsMarket(B) THEN A.price
      ELSE IF A.timestamp < B.timestamp THEN A.price ELSE B.price

\* The resting side of two limit orders sets the price; of two equally old
\* ones the buyer does.  A market order takes the other order's price, which is
\* garbage when that is a market order too.
TradePrice(b) ==
  LET A == HeadSell(b)
      B == HeadBuy(b)
  IN  IF IsMarket(A) THEN B.price
      ELSE IF IsMarket(B) THEN A.price
      ELSE IF A.timestamp < B.timestamp THEN A.price ELSE B.price

\* Mutant: the quantity traded is not taken off.
Unreduced(o, q) == o

\* What an order is left with after trading q.
Rest(o, q) == [o EXCEPT !.quantity = o.quantity - q]

\* The head leaves its side and its remainder, if any, is added again: at the
\* end of the orders of its level that are as old as it.
Executed(s, q) ==
  IF Rest(Head(s), q).quantity > 0
  THEN AddOrder(Tail(s), Rest(Head(s), q))
  ELSE Tail(s)

\* What Match leaves of one side.
MatchedSide(b, side) ==
  LET other == IF side = "BUY" THEN "SELL" ELSE "BUY"
  IN  IF Crosses(b) THEN Executed(b[side], TradeQuantity(b))
      ELSE IF EmptySide(b, other) THEN PopMarketLevel(b[side])
      ELSE b[side]

MatchedBook(b) == [side \in Sides |-> MatchedSide(b, side)]

\* sellbook.empty() and buybook.empty(): Match then reads, and may pop, the
\* front of an empty list.
Drained(b) == EmptySide(b, "BUY") /\ EmptySide(b, "SELL")
=============================================================================
