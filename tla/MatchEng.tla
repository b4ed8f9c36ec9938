------------------------------- MODULE MatchEng ------------------------------
(***************************************************************************)
(* The matching engine process: src/matcheng.cpp, the class MatchEngOBV of *)
(* src/matcheng.h and the database writes that OrderBook::AddOrder,        *)
(* RemoveOrder and Match make while writetodatabase is 1.                  *)
(*                                                                         *)
(* The process is one thread.  Its program counter stops where it calls    *)
(* out: between rows of the load, at the semaphore it waits for, at        *)
(* msgrcv, before each message to another process and before each call of  *)
(* Match, the loop of Update.  SIGINT, or the death that undefined         *)
(* behaviour brings, can come between and inside these steps; the database *)
(* is what survives it.                                                    *)
(***************************************************************************)
EXTENDS OrderBookView, Database

CONSTANTS
  Timestamps,        \* creation times that clients stamp on orders
  Quantities,        \* quantities that clients ask for
  RequestTypes,      \* which requests clients send: "NEW", "MODIFY",
                     \* "CANCEL", "MALFORMED" (an order with unfilled fields)
  UniqueIds,         \* do clients name each order differently?
  StopsOnlyWhenIdle, \* is SIGINT only sent when the process waits?
  MaxRequests,       \* bound: requests read in one behaviour
  MaxRestarts        \* bound: restarts in one behaviour

ASSUME MatchEngAssumption ==
  /\ Timestamps \subseteq Nat
  /\ Quantities \subseteq Nat
  /\ RequestTypes \subseteq {"NEW", "MALFORMED", "MODIFY", "CANCEL"}
  /\ UniqueIds \in BOOLEAN
  /\ StopsOnlyWhenIdle \in BOOLEAN
  /\ MaxRequests \in Nat
  /\ MaxRestarts \in Nat

VARIABLES
  pc,              \* where the process is
  sym,             \* the symbol whose book Update is to match, or None
  ack,             \* the message being sent to the connection manager, or None
  rp,              \* the match being communicated, or None
  todo,            \* the rows of t1 that the load has not processed
  writetodatabase, \* 0 until the book publisher is ready
  db,              \* OrderBook.db, which outlives the process
  \* logs of what the process read and sent, over all its lives
  requests,        \* read from the connection manager
  acks,            \* sent to the connection manager
  trades,          \* communicated to the trade publisher
  reports,         \* communicated to the reporting engine
  restarts         \* how often the process was started again

memVars == <<viewVars, pc, sym, ack, rp, todo, writetodatabase>>
logVars == <<requests, acks, trades, reports, restarts>>
vars == <<memVars, db, logVars>>

Locations ==
  {"load", "wait", "idle", "ack", "match", "trade", "report", "down"}

Ack ==
  [type : {"NEW_ORDER_ACK", "NEW_ORDER_NAK", "MODIFY_ACK", "MODIFY_NAK",
           "CANCEL_ACK", "CANCEL_NAK"},
   order_id : Ids, quantity : Nat]

\* What the connection manager queues.  filled: is the symbol field filled up
\* with spaces, as messages.h asks?
NewRequest ==
  [type : {"NEW"}, order : {o \in Order : WellFormed(o)}, filled : BOOLEAN]
ModifyRequest ==
  [type : {"MODIFY"}, order_id : Ids, price : Prices, quantity : Nat]
CancelRequest == [type : {"CANCEL"}, order_id : Ids]

Request == NewRequest \cup ModifyRequest \cup CancelRequest

TypeOK ==
  /\ ViewTypeOK
  /\ pc \in Locations
  /\ sym \in Symbols \cup {None}
  /\ ack \in Ack \cup {None}
  /\ rp \in Report \cup {None}
  /\ todo \in Seq(Order)
  /\ writetodatabase \in {0, 1}
  /\ db \in DB
  /\ requests \in Seq(Request)
  /\ acks \in Seq(Ack)
  /\ trades \in Seq(Report)
  /\ reports \in Seq(Report)
  /\ restarts \in Nat

Init ==
  /\ ViewInit
  /\ pc = "load" /\ sym = None /\ ack = None /\ rp = None
  /\ todo = << >> /\ writetodatabase = 0
  /\ db = EmptyDB
  /\ requests = << >> /\ acks = << >> /\ trades = << >> /\ reports = << >>
  /\ restarts = 0
-----------------------------------------------------------------------------
(* Loading t1 *)

\* The next row is processed like a new order, without ack or database write.
LoadRow ==
  /\ pc = "load" /\ todo # << >>
  /\ Accept(Head(todo))
  /\ todo' = Tail(todo)
  /\ sym' = Head(todo).symbol
  /\ pc' = "match"
  /\ UNCHANGED <<ack, rp, writetodatabase, db, logVars>>

LoadDone ==
  /\ pc = "load" /\ todo = << >>
  /\ pc' = "wait"
  /\ UNCHANGED <<viewVars, sym, ack, rp, todo, writetodatabase, db, logVars>>

\* Mutant: the book publisher raises semid5 for the first engine only.
ReadyOnce ==
  /\ pc = "wait" /\ restarts = 0
  /\ pc' = "idle"
  /\ writetodatabase' = 1
  /\ UNCHANGED <<viewVars, sym, ack, rp, todo, db, logVars>>

\* The book publisher has loaded t1 too and raises semid5.
Ready ==
  /\ pc = "wait"
  /\ pc' = "idle"
  /\ writetodatabase' = 1
  /\ UNCHANGED <<viewVars, sym, ack, rp, todo, db, logVars>>
-----------------------------------------------------------------------------
(* Process *)

\* msgrcv returns request r; s is the symbol to Update, if any.
Receive(r, s, type, id, quantity) ==
  /\ pc = "idle"
  /\ Len(requests) < MaxRequests
  /\ requests' = Append(requests, r)
  /\ sym' = s
  /\ ack' = [type |-> type, order_id |-> id, quantity |-> quantity]
  /\ pc' = "ack"
  /\ UNCHANGED <<rp, todo, writetodatabase, acks, trades, reports, restarts>>

AcceptOrder(o) ==
  /\ Receive([type |-> "NEW", order |-> o, filled |-> TRUE],
             o.symbol, "NEW_ORDER_ACK", o.order_id, 0)
  /\ Accept(o)
  /\ db' = AddRow(db, o)

\* AddOrder finds that the order's symbol is not the book's.
RejectOrder(o) ==
  /\ Receive([type |-> "NEW", order |-> o, filled |-> FALSE],
             o.symbol, "NEW_ORDER_NAK", o.order_id, 0)
  /\ UNCHANGED <<viewVars, db>>

Modification(id, price, quantity) ==
  [type |-> "MODIFY", order_id |-> id, price |-> price, quantity |-> quantity]

\* An id that is not in myorders is answered by MODIFY_ACK.
ModifyUnknown(id, price, quantity) ==
  /\ ~Known(id)
  /\ Receive(Modification(id, price, quantity), None, "MODIFY_ACK", id, 0)
  /\ UNCHANGED <<viewVars, db>>

ModifyGone(id, price, quantity) ==
  /\ Known(id) /\ ~Resting(id)
  /\ Receive(Modification(id, price, quantity), myorders[id].symbol,
             "MODIFY_NAK", id, 0)
  /\ UNCHANGED <<viewVars, db>>

\* Mutant: the book is not updated after a modification.
ModifyWithoutUpdate(id, price, quantity) ==
  /\ Resting(id)
  /\ Receive(Modification(id, price, quantity), None, "MODIFY_ACK", id, quantity)
  /\ \E q \in JunkQuantities :
        /\ Replace(id, price, q)
        /\ db' = AddRow(DeleteRow(db, id), Modified(id, price, q))

\* The ack carries the quantity asked for, the book the one that the copy of
\* the price left behind.
ModifyOrder(id, price, quantity) ==
  /\ Resting(id)
  /\ Receive(Modification(id, price, quantity), myorders[id].symbol,
             "MODIFY_ACK", id, quantity)
  /\ \E q \in JunkQuantities :
        /\ Replace(id, price, q)
        /\ db' = AddRow(DeleteRow(db, id), Modified(id, price, q))

CancelUnknown(id) ==
  /\ ~Resting(id)
  /\ Receive([type |-> "CANCEL", order_id |-> id],
             IF Known(id) THEN myorders[id].symbol ELSE None,
             "CANCEL_NAK", id, 0)
  /\ UNCHANGED <<viewVars, db>>

\* Mutant: the row of the cancelled order stays in t1.
CancelInBook(id) ==
  /\ Resting(id)
  /\ Receive([type |-> "CANCEL", order_id |-> id], myorders[id].symbol,
             "CANCEL_ACK", id, myorders[id].quantity)
  /\ Withdraw(id)
  /\ UNCHANGED db

CancelOrder(id) ==
  /\ Resting(id)
  /\ Receive([type |-> "CANCEL", order_id |-> id], myorders[id].symbol,
             "CANCEL_ACK", id, myorders[id].quantity)
  /\ Withdraw(id)
  /\ db' = DeleteRow(db, id)

\* CommunicateAck, after which the handler updates the books it touched.
CommunicateAck ==
  /\ pc = "ack"
  /\ acks' = Append(acks, ack)
  /\ ack' = None
  /\ pc' = IF sym = None THEN "idle" ELSE "match"
  /\ UNCHANGED <<viewVars, sym, rp, todo, writetodatabase, db,
                 requests, trades, reports, restarts>>
-----------------------------------------------------------------------------
(* Update *)

\* The database before Match and after each of its writes: both head orders
\* are deleted, then what is left of them is inserted again.
Reinserted(d, o) == IF o.quantity > 0 THEN AddRow(d, o) ELSE d

\* Mutant: only the seller's row is deleted.
MatchWritesOne(s) ==
  LET r  == ReportOf(s)
      d1 == DeleteRow(db, r.orderA.order_id)
      d2 == Reinserted(d1, r.orderA)
      d3 == Reinserted(d2, r.orderB)
  IN  <<db, d1, d1, d2, d3>>

MatchWrites(s) ==
  LET r  == ReportOf(s)
      d1 == DeleteRow(db, r.orderA.order_id)
      d2 == DeleteRow(d1, r.orderB.order_id)
      d3 == Reinserted(d2, r.orderA)
      d4 == Reinserted(d3, r.orderB)
  IN  <<db, d1, d2, d3, d4>>

WriteMatch ==
  db' = IF writetodatabase = 1 /\ Crosses(mybooks[sym])
        THEN MatchWrites(sym)[5] ELSE db

MatchTrades ==
  /\ pc = "match" /\ Trades(sym)
  /\ Match(sym)
  /\ rp' = ReportOf(sym)
  /\ UpdateOrders(ReportOf(sym))
  /\ WriteMatch
  /\ pc' = "trade"
  /\ UNCHANGED <<sym, ack, todo, writetodatabase, logVars>>

\* Mutant: the loop runs while the quantity is not negative.
MatchEndsNever ==
  /\ pc = "match" /\ ~Trades(sym)
  /\ Match(sym)
  /\ WriteMatch
  /\ UNCHANGED <<pc, sym, myorders, ack, rp, todo, writetodatabase, logVars>>

\* Match returns quantity 0 and the loop of Update ends.
MatchEnds ==
  /\ pc = "match" /\ ~Trades(sym)
  /\ Match(sym)
  /\ WriteMatch
  /\ sym' = None
  /\ pc' = IF writetodatabase = 1 THEN "idle" ELSE "load"
  /\ UNCHANGED <<myorders, ack, rp, todo, writetodatabase, logVars>>

CommunicateTrade ==
  /\ pc = "trade"
  /\ trades' = Append(trades, rp)
  /\ pc' = "report"
  /\ UNCHANGED <<viewVars, sym, ack, rp, todo, writetodatabase, db,
                 requests, acks, reports, restarts>>

CommunicateReportingMsg ==
  /\ pc = "report"
  /\ reports' = Append(reports, rp)
  /\ rp' = None
  /\ pc' = "match"
  /\ UNCHANGED <<viewVars, sym, ack, todo, writetodatabase, db,
                 requests, acks, trades, restarts>>
-----------------------------------------------------------------------------
(* The end of the process, and its next start *)

\* The process ends: what it had in memory is gone.
Exit ==
  /\ mybooks' = [s \in Symbols |-> EmptyBook]
  /\ myorders' = [id \in Ids |-> None]
  /\ pc' = "down" /\ sym' = None /\ ack' = None /\ rp' = None
  /\ todo' = << >> /\ writetodatabase' = 0

\* SIGINT: intHandler leaves the database as it is.
Stop ==
  /\ pc # "down"
  /\ StopsOnlyWhenIdle => pc = "idle"
  /\ Exit
  /\ UNCHANGED <<db, logVars>>

\* SIGINT between two database writes of Match.
StopInMatch ==
  /\ pc = "match" /\ writetodatabase = 1 /\ Crosses(mybooks[sym])
  /\ ~StopsOnlyWhenIdle
  /\ \E k \in 2 .. 5 : db' = MatchWrites(sym)[k]
  /\ Exit
  /\ UNCHANGED logVars

\* Match reads the front of an empty list and, going by what it finds there,
\* may pop it, which kills the process.
DieDrained ==
  /\ pc = "match" /\ Drained(mybooks[sym])
  /\ Exit
  /\ UNCHANGED <<db, logVars>>

\* The copy of the price also runs over the stack behind the order: the
\* process may die once the old row is deleted.
DieInModify(id, price, quantity) ==
  /\ pc = "idle" /\ Len(requests) < MaxRequests
  /\ Resting(id)
  /\ requests' = Append(requests, Modification(id, price, quantity))
  /\ db' = DeleteRow(db, id)
  /\ Exit
  /\ UNCHANGED <<acks, trades, reports, restarts>>

\* Mutant: the rows come back last first.
RestartReversed ==
  /\ pc = "down" /\ restarts < MaxRestarts
  /\ pc' = "load"
  /\ todo' = Reverse(db.t1)
  /\ restarts' = restarts + 1
  /\ UNCHANGED <<viewVars, sym, ack, rp, writetodatabase, db,
                 requests, acks, trades, reports>>

Restart ==
  /\ pc = "down" /\ restarts < MaxRestarts
  /\ pc' = "load"
  /\ todo' = db.t1
  /\ restarts' = restarts + 1
  /\ UNCHANGED <<viewVars, sym, ack, rp, writetodatabase, db,
                 requests, acks, trades, reports>>
-----------------------------------------------------------------------------
(* The orders that clients send, and the specification *)

NewOrders ==
  {o \in [order_id  : Ids, order_type : {"MARKET", "LIMIT"}, buysell : Sides,
          symbol    : Symbols, price : Prices \cup {NoPrice},
          quantity  : Quantities, timestamp : Timestamps] : WellFormed(o)}

Named(id) ==
  \E i \in 1 .. Len(requests) :
     requests[i].type = "NEW" /\ requests[i].order.order_id = id

ProcessNew ==
  \E o \in NewOrders :
     /\ UniqueIds => ~Named(o.order_id)
     /\ \/ "NEW" \in RequestTypes /\ AcceptOrder(o)
        \/ "MALFORMED" \in RequestTypes /\ RejectOrder(o)

ProcessModify ==
  /\ "MODIFY" \in RequestTypes
  /\ \E id \in Ids, price \in Prices, quantity \in Quantities :
        \/ ModifyUnknown(id, price, quantity)
        \/ ModifyGone(id, price, quantity)
        \/ ModifyOrder(id, price, quantity)
        \/ DieInModify(id, price, quantity)

ProcessCancel ==
  /\ "CANCEL" \in RequestTypes
  /\ \E id \in Ids : CancelUnknown(id) \/ CancelOrder(id)

\* Steps the process takes by itself once a request or a row is being handled.
Progress ==
  \/ LoadRow \/ LoadDone
  \/ CommunicateAck
  \/ MatchTrades \/ MatchEnds \/ CommunicateTrade \/ CommunicateReportingMsg

Next ==
  \/ Progress \/ Ready
  \/ ProcessNew \/ ProcessModify \/ ProcessCancel
  \/ Stop \/ StopInMatch \/ DieDrained \/ Restart

Spec == Init /\ [][Next]_vars
-----------------------------------------------------------------------------
(* Properties *)

\* The process is at none of the steps of a handler.
AtRest == pc \in {"load", "wait", "idle"}

AllOrders(s, side) == {mybooks[s][side][i] : i \in 1 .. Len(mybooks[s][side])}

InBooks == UNION {AllOrders(s, side) : s \in Symbols, side \in Sides}

\* What the trade publisher was told that the order traded.
Traded(id) ==
  MapThenSumSet(LAMBDA i : trades[i].quantity,
                {i \in 1 .. Len(trades) :
                   id \in {trades[i].orderA.order_id, trades[i].orderB.order_id}})

Modifies(id) ==
  \E i \in 1 .. Len(requests) :
     requests[i].type = "MODIFY" /\ requests[i].order_id = id

Acked(type, id) ==
  \E i \in 1 .. Len(acks) : acks[i].type = type /\ acks[i].order_id = id

\* Was an order of quantity 0 accepted?  A match with it trades nothing, which
\* ends Update's loop while other orders could still trade.
ZeroOrdered ==
  \E i \in 1 .. Len(requests) :
     requests[i].type = "NEW" /\ requests[i].filled /\ requests[i].order.quantity = 0

\* Every side is in price-time priority whatever is added, executed in part
\* or modified: the searches of AddOrder rely on it.
PriceTimePriority ==
  \A s \in Symbols, side \in Sides :
     LET q == mybooks[s][side]
     IN  \A i, j \in 1 .. Len(q) : i < j => Ahead(q[i], q[j])

\* Between requests no market order rests, nor two orders that could trade:
\* Update calls Match until nothing is left to match, unless someone ordered
\* nothing.
Uncrossed ==
  AtRest /\ ~ZeroOrdered =>
    \A s \in Symbols :
       /\ \A side \in Sides : \A o \in AllOrders(s, side) : ~IsMarket(o)
       /\ \A b \in AllOrders(s, "BUY"), a \in AllOrders(s, "SELL") :
             b.price < a.price

\* Between requests myorders knows every resting order as it rests, with the
\* quantity it has left: a cancel finds it, and a modify starts from it.
\* (Positive quantities: no market order rests.)
Cancelable ==
  AtRest => \A o \in InBooks : myorders[o.order_id] = o

\* Something changes hands in every trade, at a price no worse for a limit order
\* than its limit.  The price can be the garbage in a market order's price field
\* only when two market orders meet, and they do only after an order of quantity
\* 0: behind it Update leaves a market order in the book (src/orderbookview.h:609).
TradesWithinLimits ==
  \A i \in 1 .. Len(trades) :
     LET t == trades[i]
     IN  /\ t.quantity > 0
         /\ \/ t.price \in Prices
            \/ IsMarket(t.orderA) /\ IsMarket(t.orderB) /\ ZeroOrdered
         /\ ~IsMarket(t.orderA) => t.price >= t.orderA.price
         /\ ~IsMarket(t.orderB) => t.price <= t.orderB.price

\* What an order traded and what rests of it add up to what was ordered, over
\* partial fills and over restarts that load it again; what has stopped
\* resting never traded more.  (Orders that no modify names.)
Conservation ==
  pc # "trade" =>
    \A i \in 1 .. Len(requests) :
       LET o == requests[i].order
       IN  requests[i].type = "NEW" /\ ~Modifies(o.order_id) =>
             /\ Traded(o.order_id) <= o.quantity
             /\ \A r \in InBooks : r.order_id = o.order_id =>
                   r.quantity + Traded(o.order_id) = o.quantity

\* Once the load is done, a limit order in t1 rests in the book, unchanged:
\* a restart brings back no limit order that was cancelled or has traded.
LimitRowsRest ==
  AtRest /\ pc # "load" =>
    \A i \in 1 .. Len(db.t1) : ~IsMarket(db.t1[i]) => db.t1[i] \in InBooks

\* Processing the rows of t1 makes no trade: clients and the trade publisher
\* see nothing twice when the engine comes back.
LoadNeverTrades == writetodatabase = 0 => rp = None

\* An order that was acknowledged is in t2, whatever happened since.
AckedIsDurable ==
  \A id \in Ids : Acked("NEW_ORDER_ACK", id) => InT2(db, id)

\* After a CANCEL_ACK the order never trades, restarts included.
CancelIsFinal ==
  [][\A id \in Ids :
       Acked("CANCEL_ACK", id) /\ trades' # trades =>
         id \notin {Last(trades').orderA.order_id, Last(trades').orderB.order_id}]_vars
-----------------------------------------------------------------------------
(* What the repository says and the code does not do *)

\* src/database.sh:4, of t1: "Reflects State of the Order Book at any given
\* time".  Between requests the rows are the orders that rest.
T1ReflectsBook == pc = "idle" => InBooks \subseteq ToSet(db.t1)

\* src/database.sh:4, of t1: "orders will be deleted when filled".
FilledOrdersDeleted ==
  AtRest =>
    \A i \in 1 .. Len(db.t1) : Traded(db.t1[i].order_id) < db.t1[i].quantity
=============================================================================
