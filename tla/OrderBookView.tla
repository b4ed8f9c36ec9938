---------------------------- MODULE OrderBookView ----------------------------
(***************************************************************************)
(* Class OrderBookView of src/orderbookview.h: the books of all symbols    *)
(* and the map from order ids to the orders that may still be cancelled or *)
(* modified.  The matching engine and the book publisher each derive from  *)
(* it; both extend this module and add what their virtual functions do.    *)
(*                                                                         *)
(* Each operator below is the part of a Process or Update call that        *)
(* changes mybooks and myorders; the derived machines conjoin it with      *)
(* their acks, database writes and publications.                           *)
(***************************************************************************)
EXTENDS OrderBook

CONSTANTS
  None,             \* no such thing: the value of myorders for an id that is no key
  JunkQuantities    \* what overwriting a quantity with text can leave in it

ASSUME JunkAssumption ==
  /\ JunkQuantities \subseteq Nat \ {0}
  /\ None \notin Order \cup Symbols

VARIABLES
  mybooks,   \* symbol |-> book; std::map creates a missing book when asked
  myorders   \* order id |-> Order, or None

viewVars == <<mybooks, myorders>>

ViewTypeOK ==
  /\ mybooks \in [Symbols -> [Sides -> Seq(Order)]]
  /\ myorders \in [Ids -> Order \cup {None}]

ViewInit ==
  /\ mybooks = [s \in Symbols |-> EmptyBook]
  /\ myorders = [id \in Ids |-> None]

Known(id) == myorders[id] # None

\* Would RemoveOrder find the order that myorders has under id?
Resting(id) ==
  Known(id) /\ Holds(mybooks[myorders[id].symbol][myorders[id].buysell], id)

BooksWith(books, o) ==
  [books EXCEPT ![o.symbol][o.buysell] = AddOrder(@, o)]

BooksWithout(books, o) ==
  [books EXCEPT ![o.symbol][o.buysell] = RemoveOrder(@, o.order_id)]
-----------------------------------------------------------------------------
(* Process, up to the call of Update *)

\* Process(Order): only limit orders can be cancelled or modified later.
Accept(o) ==
  /\ mybooks' = BooksWith(mybooks, o)
  /\ myorders' = IF IsMarket(o) THEN myorders
                 ELSE [myorders EXCEPT ![o.order_id] = o]

\* Process(Modify) on a resting order.  nstrcpy writes REASON_SIZE bytes to the
\* PRICE_SIZE bytes of the price: the text runs over the quantity just assigned
\* and q, which is none of the client's making, is what rests from now on.
Modified(id, price, q) ==
  [myorders[id] EXCEPT !.price = price, !.quantity = q]

\* Mutant: the order is changed where it stands, its place is not.
ReplaceInPlace(id, price, q) ==
  LET o    == Modified(id, price, q)
      side == mybooks[o.symbol][o.buysell]
  IN  /\ mybooks' = [mybooks EXCEPT ![o.symbol][o.buysell] =
                       [i \in DOMAIN side |->
                          IF side[i].order_id = id THEN o ELSE side[i]]]
      /\ myorders' = [myorders EXCEPT ![id] = o]

\* Mutant: myorders keeps the order as it was.
ReplaceInBook(id, price, q) ==
  /\ mybooks' = BooksWith(BooksWithout(mybooks, myorders[id]),
                          Modified(id, price, q))
  /\ UNCHANGED myorders

Replace(id, price, q) ==
  LET o == Modified(id, price, q)
  IN  /\ mybooks' = BooksWith(BooksWithout(mybooks, myorders[id]), o)
      /\ myorders' = [myorders EXCEPT ![id] = o]

\* Mutant: the order is forgotten but stays in the book.
Forget(id) ==
  /\ UNCHANGED mybooks
  /\ myorders' = [myorders EXCEPT ![id] = None]

\* Process(Cancel) on a resting order.
Withdraw(id) ==
  /\ mybooks' = BooksWithout(mybooks, myorders[id])
  /\ myorders' = [myorders EXCEPT ![id] = None]
-----------------------------------------------------------------------------
(* Update: one call of Match and what the loop does with its result *)

Trades(sym) == Crosses(mybooks[sym]) /\ TradeQuantity(mybooks[sym]) > 0

\* The ReportingMessage of a match: both orders as they are after it.
ReportOf(sym) ==
  LET b == mybooks[sym]
      q == TradeQuantity(b)
  IN  [symbol   |-> sym,
       price    |-> TradePrice(b),
       quantity |-> q,
       orderA   |-> Rest(HeadSell(b), q),
       orderB   |-> Rest(HeadBuy(b), q)]

Report ==
  [symbol : Symbols, price : Prices \cup {NoPrice}, quantity : Nat,
   orderA : Order, orderB : Order]

Match(sym) == mybooks' = [mybooks EXCEPT ![sym] = MatchedBook(@)]

\* Both ids leave myorders; a remainder of either order is entered again, the
\* remainder of a market order included.
Kept(orders, o) ==
  IF o.quantity > 0 THEN [orders EXCEPT ![o.order_id] = o] ELSE orders

UpdateOrders(rp) ==
  LET erased == [myorders EXCEPT ![rp.orderA.order_id] = None,
                                 ![rp.orderB.order_id] = None]
  IN  myorders' = Kept(Kept(erased, rp.orderA), rp.orderB)
=============================================================================
