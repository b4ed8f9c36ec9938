------------------------------- MODULE BookPub -------------------------------
(***************************************************************************)
(* The book publisher process: src/bookpub.cpp, the class BookPubOBV of    *)
(* src/bookpub.h and OrderBook::TopBook.  It keeps an order book view of   *)
(* its own, loads t1 into it, lets the matching engine go on, and then     *)
(* processes every message that the connection manager copies for it as    *)
(* the engine does: without answers, trades or database writes, but with a *)
(* multicast BookMessage whenever a book may have changed.                 *)
(*                                                                         *)
(* The program counter stops before each row, at the semaphore and before  *)
(* each call of Match.  The module has the process's steps; Exchange puts  *)
(* it beside the engine.                                                   *)
(***************************************************************************)
EXTENDS OrderBookView

CONSTANT Depth    \* price levels in a BookMessage: 5 in the code

VARIABLES
  ppc,     \* where the process is
  psym,    \* the symbol whose book Update is to match, or None
  ptodo,   \* the rows of t1 that the load has not processed
  loaded,  \* is the load behind it?
  semid5,  \* the semaphore that the matching engine waits for
  up,      \* are the segment and semid4 there?
  seen,    \* log: the messages processed since the process started
  shown    \* log: symbol |-> the last BookMessage since then, or None

pubVars == <<viewVars, ppc, psym, ptodo, loaded, semid5, up, seen, shown>>

PubInit ==
  /\ ViewInit
  /\ ppc = "down" /\ psym = None /\ ptodo = << >> /\ loaded = FALSE
  /\ semid5 = 0 /\ up = FALSE
  /\ seen = << >> /\ shown = [s \in Symbols |-> None]
-----------------------------------------------------------------------------
(* TopBook *)

\* Mutant: every order is a level of its own.
OrderNo(s, i) == i

\* The price level that the ith order of side s belongs to, counted from the
\* front: orderlists are the maximal runs of one type and price.
LevelNo(s, i) == Cardinality({j \in 1 .. i : j = 1 \/ ~SameLevel(s[j - 1], s[j])})

Level(s, k) == {i \in 1 .. Len(s) : LevelNo(s, i) = k}

\* Mutant: the quantity of the front order.
FrontQuantity(s, k) == s[Min(Level(s, k))].quantity

\* OrderList::Quantity
LevelQuantity(s, k) == MapThenSumSet(LAMBDA i : s[i].quantity, Level(s, k))

\* A line of a BookMessage; lines beyond the last level have no price.
BookData(s, k) ==
  IF Level(s, k) = {} THEN [price |-> None, quantity |-> 0]
  ELSE [price |-> s[Min(Level(s, k))].price, quantity |-> LevelQuantity(s, k)]

TopBook(b) ==
  [bid   |-> [k \in 1 .. Depth |-> BookData(b["BUY"], k)],
   offer |-> [k \in 1 .. Depth |-> BookData(b["SELL"], k)]]

BookLine == [price : Prices \cup {NoPrice, None}, quantity : Nat]
BookMessage == [bid : [1 .. Depth -> BookLine], offer : [1 .. Depth -> BookLine]]

PubTypeOK ==
  /\ ViewTypeOK
  /\ ppc \in {"load", "idle", "match", "again", "down"}
  /\ psym \in Symbols \cup {None}
  /\ ptodo \in Seq(Order)
  /\ {loaded, up} \subseteq BOOLEAN
  /\ semid5 \in Nat
  /\ shown \in [Symbols -> BookMessage \cup {None}]

\* CommunicateBookMsg of the book as the step leaves it.
CommunicateBookMsg(s) == shown' = [shown EXCEPT ![s] = TopBook(mybooks'[s])]

\* A message about order o; market orders cause none.
Announce(o) ==
  IF IsMarket(o) THEN UNCHANGED shown ELSE CommunicateBookMsg(o.symbol)
-----------------------------------------------------------------------------
(* Start *)

\* The process creates what is not there and reads t1.
Start(rows) ==
  /\ ppc = "down"
  /\ ppc' = "load" /\ ptodo' = rows /\ loaded' = FALSE
  /\ up' = TRUE /\ seen' = << >> /\ shown' = [s \in Symbols |-> None]
  /\ UNCHANGED <<viewVars, psym, semid5>>

LoadRow ==
  /\ ppc = "load" /\ ptodo # << >>
  /\ Accept(Head(ptodo))
  /\ Announce(Head(ptodo))
  /\ ptodo' = Tail(ptodo)
  /\ psym' = Head(ptodo).symbol
  /\ ppc' = "match"
  /\ UNCHANGED <<loaded, semid5, up, seen>>

\* Mutant: the engine is let go before the rows are read.
RaiseEarly ==
  /\ ppc = "load" /\ ~loaded
  /\ semid5' = semid5 + 1
  /\ loaded' = TRUE
  /\ ppc' = "idle"
  /\ UNCHANGED <<viewVars, psym, ptodo, up, seen, shown>>

\* The rows are processed: semop on semid5, and the loop begins.
LoadDone ==
  /\ ppc = "load" /\ ptodo = << >>
  /\ semid5' = semid5 + 1
  /\ loaded' = TRUE
  /\ ppc' = "idle"
  /\ UNCHANGED <<viewVars, psym, ptodo, up, seen, shown>>
-----------------------------------------------------------------------------
(* Process *)

\* semop on semid4 returns and message r is copied; s is the symbol to Update.
Take(r, s) ==
  /\ ppc = "idle" /\ up
  /\ seen' = Append(seen, r)
  /\ psym' = s
  /\ ppc' = IF s = None THEN "idle" ELSE "match"
  /\ UNCHANGED <<ptodo, loaded, semid5, up>>

\* An order that AddOrder refuses is announced all the same.
ProcessNew(r) ==
  /\ r.type = "NEW"
  /\ Take(r, r.order.symbol)
  /\ IF r.filled THEN Accept(r.order) ELSE UNCHANGED viewVars
  /\ Announce(r.order)

\* Unknown ids end Process at once; an order that has left the book does not.
ProcessKnown(r) ==
  IF Known(r.order_id)
  THEN Take(r, myorders[r.order_id].symbol) /\ Announce(myorders[r.order_id])
  ELSE Take(r, None) /\ UNCHANGED shown

\* What the price overruns is the message's own: JunkQuantities is what it
\* leaves, in this process as in the engine.
ProcessModify(r) ==
  /\ r.type = "MODIFY"
  /\ IF Resting(r.order_id)
     THEN \E q \in JunkQuantities : Replace(r.order_id, r.price, q)
     ELSE UNCHANGED viewVars
  /\ ProcessKnown(r)

ProcessCancel(r) ==
  /\ r.type = "CANCEL"
  /\ IF Resting(r.order_id) THEN Withdraw(r.order_id) ELSE UNCHANGED viewVars
  /\ ProcessKnown(r)

Process(r) == ProcessNew(r) \/ ProcessModify(r) \/ ProcessCancel(r)
-----------------------------------------------------------------------------
(* Update.  A message follows each Match but the first. *)

AfterMatch ==
  IF ppc = "again" THEN CommunicateBookMsg(psym) ELSE UNCHANGED shown

MatchTrades ==
  /\ ppc \in {"match", "again"} /\ Trades(psym)
  /\ Match(psym)
  /\ UpdateOrders(ReportOf(psym))
  /\ AfterMatch
  /\ ppc' = "again"
  /\ UNCHANGED <<psym, ptodo, loaded, semid5, up, seen>>

\* Mutant: the message is made before the last Match, not after it.
MatchEndsUnshown ==
  /\ ppc \in {"match", "again"} /\ ~Trades(psym)
  /\ Match(psym)
  /\ ppc' = IF loaded THEN "idle" ELSE "load"
  /\ psym' = None
  /\ UNCHANGED <<myorders, ptodo, loaded, semid5, up, seen, shown>>

\* The loop ends; semid4 is released, or the next row is loaded.
MatchEnds ==
  /\ ppc \in {"match", "again"} /\ ~Trades(psym)
  /\ Match(psym)
  /\ AfterMatch
  /\ ppc' = IF loaded THEN "idle" ELSE "load"
  /\ psym' = None
  /\ UNCHANGED <<myorders, ptodo, loaded, semid5, up, seen>>
-----------------------------------------------------------------------------
(* End *)

Exit ==
  /\ mybooks' = [s \in Symbols |-> EmptyBook]
  /\ myorders' = [id \in Ids |-> None]
  /\ ppc' = "down" /\ psym' = None /\ ptodo' = << >> /\ loaded' = FALSE
  /\ UNCHANGED <<semid5, seen>>

\* SIGINT.  intHandler removes the segment and the semaphores and returns: the
\* message in hand is still processed.
Interrupt ==
  /\ loaded /\ up
  /\ up' = FALSE
  /\ UNCHANGED <<viewVars, ppc, psym, ptodo, loaded, semid5, seen, shown>>

\* The next semop fails, and main returns.
TakeFails ==
  /\ ppc = "idle" /\ ~up
  /\ Exit
  /\ UNCHANGED <<up, shown>>

\* SIGINT before the handler is installed.
InterruptLoad ==
  /\ ppc # "down" /\ ~loaded
  /\ Exit
  /\ UNCHANGED <<up, shown>>

\* Match with both sides empty, as in the engine.
DieDrained ==
  /\ ppc \in {"match", "again"} /\ Drained(mybooks[psym])
  /\ Exit
  /\ UNCHANGED <<up, shown>>

\* The overrun of the price reaches the stack, as in the engine.
DieInModify(r) ==
  /\ ppc = "idle" /\ up
  /\ r.type = "MODIFY" /\ Resting(r.order_id)
  /\ Exit
  /\ UNCHANGED <<up, shown>>

\* Steps the process takes by itself.
PubProgress == LoadRow \/ LoadDone \/ MatchTrades \/ MatchEnds \/ TakeFails
=============================================================================
