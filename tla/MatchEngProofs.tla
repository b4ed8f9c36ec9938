---------------------------- MODULE MatchEngProofs ---------------------------
(***************************************************************************)
(* Proofs about MatchEng, for any ids, symbols, prices, quantities and     *)
(* times, any number of requests and restarts, and SIGINT at any moment.   *)
(***************************************************************************)
EXTENDS MatchEng, OrderBookProofs

\* When clients never ask for nothing, no order of quantity zero comes up.
Least == IF 0 \in Quantities THEN 0 ELSE 1

\* Books in priority order, and nothing but proper orders anywhere else.
DataIn(least) ==
  /\ mybooks \in [Symbols -> Books(least)]
  /\ myorders \in [Ids -> ProperOrders(least) \cup {None}]
  /\ todo \in Seq(ProperOrders(least))
  /\ db \in ProperDB(least)

DataInv == DataIn(Least)

\* What each step finds where an earlier one left it.
ControlInv ==
  /\ pc = "ack" => ack \in Ack
  /\ pc \in {"match", "trade", "report"} => sym \in Symbols
  /\ pc \in {"trade", "report"} => rp \in Report
  /\ AtRest \/ pc = "down" => sym = None

\* What TypeOK says of the variables that DataInv leaves out.
RestTypeOK ==
  /\ pc \in Locations
  /\ sym \in Symbols \cup {None}
  /\ ack \in Ack \cup {None}
  /\ rp \in Report \cup {None}
  /\ writetodatabase \in {0, 1}
  /\ requests \in Seq(Request)
  /\ acks \in Seq(Ack)
  /\ trades \in Seq(Report)
  /\ reports \in Seq(Report)
  /\ restarts \in Nat

IInv == DataInv /\ ControlInv /\ RestTypeOK

LEMMA LeastType == Least \in {0, 1} /\ (0 \notin Quantities => Least = 1)
  BY DEF Least

LEMMA NoneIsNone == None \notin Order /\ None \notin Symbols
  BY JunkAssumption

LEMMA NewOrdersProper ==
  ASSUME NEW o \in NewOrders
  PROVE  o \in ProperOrders(Least) /\ o \in Order /\ WellFormed(o)
<1>1. /\ o \in [order_id : Ids, order_type : {"MARKET", "LIMIT"},
                buysell : Sides, symbol : Symbols, price : Prices \cup {NoPrice},
                quantity : Quantities, timestamp : Timestamps]
      /\ WellFormed(o)
  BY DEF NewOrders
<1>2. o \in Order /\ o.quantity \in Quantities
  BY <1>1, MatchEngAssumption DEF Order
<1>3. o.quantity >= Least
  <2>1. o.quantity \in Nat
    BY <1>2 DEF Order
  <2>2. CASE 0 \in Quantities
    BY <2>1, <2>2 DEF Least
  <2>3. CASE 0 \notin Quantities
    BY <1>2, <2>1, <2>3 DEF Least
  <2>4. QED
    BY <2>2, <2>3
<1>4. QED
  BY <1>1, <1>2, <1>3 DEF ProperOrders, WellFormed

\* A book that is in Books is what TypeOK asks of one.
LEMMA BooksTyped ==
  ASSUME NEW books \in [Symbols -> Books(Least)]
  PROVE  books \in [Symbols -> [Sides -> Seq(Order)]]
  BY DEF Books

LEMMA OrdersTyped ==
  ASSUME NEW orders \in [Ids -> ProperOrders(Least) \cup {None}]
  PROVE  orders \in [Ids -> Order \cup {None}]
  BY SideOrdersAreOrders

LEMMA TypesFollow == IInv => TypeOK
<1> SUFFICES ASSUME IInv PROVE TypeOK
  OBVIOUS
<1>1. ViewTypeOK
  BY BooksTyped, OrdersTyped DEF IInv, DataInv, DataIn, ViewTypeOK
<1>2. todo \in Seq(Order)
  BY SeqMonotonic, SideOrdersAreOrders DEF IInv, DataInv, DataIn
<1>3. db \in DB
  BY DEF IInv, DataInv, DataIn, ProperDB
<1>4. QED
  BY <1>1, <1>2, <1>3 DEF IInv, RestTypeOK, TypeOK

LEMMA EmptyBookProper ==
  /\ \A least \in {0, 1} : EmptyBook \in Books(least)
  /\ Quiet(EmptyBook) /\ OneSided(EmptyBook)
<1>1. \A side \in Sides : EmptyBook[side] = << >>
  BY DEF EmptyBook
<1>2. EmptyBook \in [Sides -> Seq(Order)]
  BY DEF EmptyBook
<1>3. ASSUME NEW least \in {0, 1}, NEW side \in Sides
      PROVE  EmptyBook[side] \in Seq(SideOrders(side, least)) /\ Sorted(EmptyBook[side])
  <2>1. \A S : << >> \in Seq(S)
    OBVIOUS
  <2>2. Sorted(<< >>)
    BY DEF Sorted
  <2>3. QED
    BY <1>1, <2>1, <2>2
<1>4. \A least \in {0, 1} : EmptyBook \in Books(least)
  BY <1>2, <1>3 DEF Books
<1>5. \A side \in Sides : NoMarket(EmptyBook[side])
  BY <1>1 DEF NoMarket
<1>6. EmptyBook["BUY"] = << >>
  BY <1>1 DEF Sides
<1>7. QED
  BY <1>4, <1>5, <1>6 DEF Quiet, OneSided, Sides

LEMMA InitData == Init => \A least \in {0, 1} : DataIn(least)
<1> SUFFICES ASSUME Init, NEW least \in {0, 1} PROVE DataIn(least)
  OBVIOUS
<1>1. EmptyDB \in DB
  BY DEF EmptyDB, DB
<1>2. EmptyDB.t1 = << >>
  BY DEF EmptyDB
<1>3. << >> \in Seq(ProperOrders(least))
  OBVIOUS
<1>4. EmptyDB \in ProperDB(least)
  BY <1>1, <1>2, <1>3 DEF ProperDB
<1>5. QED
  BY <1>3, <1>4, EmptyBookProper DEF Init, ViewInit, DataIn

LEMMA InitIInv == Init => IInv
<1> SUFFICES ASSUME Init PROVE IInv
  OBVIOUS
<1>1. DataInv
  BY InitData, LeastType DEF DataInv
<1>2. ControlInv
  BY DEF Init, ControlInv, AtRest
<1>3. RestTypeOK
  BY DEF Init, RestTypeOK, Locations
<1>4. QED
  BY <1>1, <1>2, <1>3 DEF IInv
-----------------------------------------------------------------------------
(* The pieces the actions are made of *)

LEMMA AcceptData ==
  ASSUME NEW least \in {0, 1}, DataIn(least), NEW o \in ProperOrders(least), Accept(o)
  PROVE  /\ mybooks' \in [Symbols -> Books(least)]
         /\ myorders' \in [Ids -> ProperOrders(least) \cup {None}]
         /\ \A s \in Symbols \ {o.symbol} : mybooks'[s] = mybooks[s]
         /\ Quiet(mybooks[o.symbol]) => OneSided(mybooks'[o.symbol])
<1>1. o.order_id \in Ids
  BY DEF ProperOrders, Order
<1>2. mybooks' = BooksWith(mybooks, o) /\ mybooks \in [Symbols -> Books(least)]
  BY DEF Accept, DataIn
<1>3. myorders' \in [Ids -> ProperOrders(least) \cup {None}]
  BY <1>1 DEF Accept, DataIn
<1>4. QED
  BY <1>2, <1>3, BooksWithOrder

LEMMA ReplaceData ==
  ASSUME NEW least \in {0, 1}, DataIn(least), NEW id \in Ids, Known(id), NEW price \in Prices,
         NEW q \in JunkQuantities, Replace(id, price, q)
  PROVE  /\ mybooks' \in [Symbols -> Books(least)]
         /\ myorders' \in [Ids -> ProperOrders(least) \cup {None}]
         /\ \A s \in Symbols \ {myorders[id].symbol} :
               Quiet(mybooks[s]) => Quiet(mybooks'[s])
         /\ Quiet(mybooks[myorders[id].symbol]) =>
               OneSided(mybooks'[myorders[id].symbol])
         /\ Modified(id, price, q) \in ProperOrders(least)
<1> DEFINE old == myorders[id]
           new == Modified(id, price, q)
           books == BooksWithout(mybooks, old)
<1>1. old \in ProperOrders(least) /\ old.symbol \in Symbols
  BY DEF Known, DataIn, ProperOrders, Order
<1>2. new \in ProperOrders(least) /\ new.symbol = old.symbol
  BY <1>1, ModifiedProper
<1>3. /\ books \in [Symbols -> Books(least)]
      /\ \A s \in Symbols : Quiet(mybooks[s]) => Quiet(books[s])
  BY <1>1, BooksWithoutOrder DEF DataIn
<1>4. mybooks' = BooksWith(books, new) /\ myorders' = [myorders EXCEPT ![id] = new]
  BY DEF Replace
<1> HIDE DEF new, books
<1>5. /\ mybooks' \in [Symbols -> Books(least)]
      /\ \A s \in Symbols \ {new.symbol} : mybooks'[s] = books[s]
      /\ Quiet(books[new.symbol]) => OneSided(mybooks'[new.symbol])
  BY <1>2, <1>3, <1>4, BooksWithOrder
<1>6. myorders' \in [Ids -> ProperOrders(least) \cup {None}]
  BY <1>2, <1>4 DEF DataIn
<1>7. QED
  BY <1>1, <1>2, <1>3, <1>5, <1>6 DEF new

LEMMA WithdrawData ==
  ASSUME NEW least \in {0, 1}, DataIn(least), NEW id \in Ids, Known(id), Withdraw(id)
  PROVE  /\ mybooks' \in [Symbols -> Books(least)]
         /\ myorders' \in [Ids -> ProperOrders(least) \cup {None}]
         /\ \A s \in Symbols : Quiet(mybooks[s]) => Quiet(mybooks'[s])
<1>1. myorders[id] \in ProperOrders(least)
  BY DEF Known, DataIn
<1>2. mybooks' = BooksWithout(mybooks, myorders[id])
      /\ myorders' = [myorders EXCEPT ![id] = None]
  BY DEF Withdraw
<1>3. myorders' \in [Ids -> ProperOrders(least) \cup {None}]
  BY <1>2 DEF DataIn
<1>4. QED
  BY <1>1, <1>2, <1>3, BooksWithoutOrder DEF DataIn

LEMMA MatchData ==
  ASSUME NEW least \in {0, 1}, DataIn(least), NEW s \in Symbols, Match(s)
  PROVE  /\ mybooks' \in [Symbols -> Books(least)]
         /\ \A x \in Symbols \ {s} : mybooks'[x] = mybooks[x]
         /\ mybooks'[s] = MatchedBook(mybooks[s])
         /\ OneSided(mybooks[s]) => OneSided(mybooks'[s])
         /\ least = 1 /\ ~Trades(s) => Quiet(mybooks'[s])
<1>1. mybooks[s] \in Books(least) /\ mybooks \in [Symbols -> Books(least)]
  BY DEF DataIn
<1>2. /\ MatchedBook(mybooks[s]) \in Books(least)
      /\ OneSided(mybooks[s]) => OneSided(MatchedBook(mybooks[s]))
  BY <1>1, MatchedBookSorted
<1>3. mybooks' = [mybooks EXCEPT ![s] = MatchedBook(mybooks[s])]
  BY DEF Match
<1>4. least = 1 /\ ~Trades(s) => Quiet(MatchedBook(mybooks[s]))
  BY <1>1, MatchedBookQuiet DEF Trades
<1>5. QED
  BY <1>1, <1>2, <1>3, <1>4

\* Every stage of the database within Match is a proper one.
LEMMA MatchWritesProper ==
  ASSUME NEW least \in {0, 1}, DataIn(least), NEW s \in Symbols,
         Crosses(mybooks[s]), NEW k \in 1 .. 5
  PROVE  MatchWrites(s)[k] \in ProperDB(least)
<1> DEFINE r  == ReportOf(s)
           d1 == DeleteRow(db, r.orderA.order_id)
           d2 == DeleteRow(d1, r.orderB.order_id)
           d3 == Reinserted(d2, r.orderA)
           d4 == Reinserted(d3, r.orderB)
<1>1. /\ r.orderA.quantity > 0 => r.orderA \in ProperOrders(least)
      /\ r.orderB.quantity > 0 => r.orderB \in ProperOrders(least)
  BY ReportTyped DEF DataIn
<1>2. db \in ProperDB(least)
  BY DEF DataIn
<1>3. d1 \in ProperDB(least)
  BY <1>2, DeleteRowProper
<1> HIDE DEF d1
<1>4. d2 \in ProperDB(least)
  BY <1>3, DeleteRowProper
<1> HIDE DEF r, d2
<1>5. d3 \in ProperDB(least)
  BY <1>1, <1>4, AddRowProper DEF Reinserted
<1> HIDE DEF d3
<1>6. d4 \in ProperDB(least)
  BY <1>1, <1>5, AddRowProper DEF Reinserted
<1> HIDE DEF d4
<1>7. MatchWrites(s) = <<db, d1, d2, d3, d4>>
  BY DEF MatchWrites, r, d1, d2, d3, d4
<1>8. QED
  BY <1>2, <1>3, <1>4, <1>5, <1>6, <1>7

LEMMA WriteMatchData ==
  ASSUME NEW least \in {0, 1}, DataIn(least), sym \in Symbols, WriteMatch
  PROVE  db' \in ProperDB(least)
  BY MatchWritesProper DEF WriteMatch, DataIn

LEMMA UpdateOrdersData ==
  ASSUME NEW least \in {0, 1}, DataIn(least), NEW s \in Symbols, Crosses(mybooks[s]),
         UpdateOrders(ReportOf(s))
  PROVE  myorders' \in [Ids -> ProperOrders(least) \cup {None}]
<1> DEFINE r == ReportOf(s)
           T == ProperOrders(least) \cup {None}
           e == [myorders EXCEPT ![r.orderA.order_id] = None,
                                 ![r.orderB.order_id] = None]
           f == Kept(e, r.orderA)
<1>1. /\ r.orderA.quantity > 0 => r.orderA \in ProperOrders(least)
      /\ r.orderB.quantity > 0 => r.orderB \in ProperOrders(least)
  BY ReportTyped DEF DataIn
<1>2. e \in [Ids -> T]
  BY DEF DataIn
<1>3. myorders' = Kept(Kept(e, r.orderA), r.orderB)
  BY DEF UpdateOrders
<1> HIDE DEF r, e, T
<1>4. f \in [Ids -> T]
  BY <1>1, <1>2 DEF Kept, T
<1> HIDE DEF f
<1>5. Kept(f, r.orderB) \in [Ids -> T]
  BY <1>1, <1>4 DEF Kept, T
<1>6. QED
  BY <1>3, <1>5 DEF f, T

LEMMA ExitData ==
  ASSUME NEW least \in {0, 1}, Exit
  PROVE  /\ mybooks' = [s \in Symbols |-> EmptyBook]
         /\ mybooks' \in [Symbols -> Books(least)]
         /\ myorders' \in [Ids -> ProperOrders(least) \cup {None}]
         /\ todo' \in Seq(ProperOrders(least))
  BY EmptyBookProper DEF Exit
-----------------------------------------------------------------------------
(* The steps *)

\* A request read: everything but the books and the database.
LEMMA ReceiveTyped ==
  ASSUME IInv, NEW r \in Request, NEW s \in Symbols \cup {None},
         NEW type \in {"NEW_ORDER_ACK", "NEW_ORDER_NAK", "MODIFY_ACK",
                       "MODIFY_NAK", "CANCEL_ACK", "CANCEL_NAK"},
         NEW id \in Ids, NEW quantity \in Nat,
         Receive(r, s, type, id, quantity)
  PROVE  ControlInv' /\ RestTypeOK' /\ todo' = todo /\ sym' = s
<1>1. [type |-> type, order_id |-> id, quantity |-> quantity] \in Ack
  BY DEF Ack
<1>2. pc' = "ack" /\ ack' \in Ack /\ sym' = s
  BY <1>1 DEF Receive
<1>3. requests' \in Seq(Request)
  BY DEF Receive, IInv, RestTypeOK
<1>4. RestTypeOK'
  BY <1>2, <1>3 DEF Receive, IInv, RestTypeOK, Locations
<1>5. ControlInv'
  BY <1>2 DEF ControlInv, AtRest
<1>6. QED
  BY <1>2, <1>4, <1>5 DEF Receive

LEMMA RequestsTyped ==
  /\ \A o \in Order : WellFormed(o) => \A f \in BOOLEAN :
        [type |-> "NEW", order |-> o, filled |-> f] \in Request
  /\ \A id \in Ids, price \in Prices, q \in Nat :
        Modification(id, price, q) \in Request
  /\ \A id \in Ids : [type |-> "CANCEL", order_id |-> id] \in Request
<1>1. ASSUME NEW o \in Order, WellFormed(o), NEW f \in BOOLEAN
      PROVE  [type |-> "NEW", order |-> o, filled |-> f] \in NewRequest
  <2>1. o \in {x \in Order : WellFormed(x)}
    BY <1>1
  <2>2. QED
    BY <2>1 DEF NewRequest
<1>2. ASSUME NEW id \in Ids, NEW price \in Prices, NEW q \in Nat
      PROVE  Modification(id, price, q) \in ModifyRequest
  BY DEF Modification, ModifyRequest
<1>3. ASSUME NEW id \in Ids
      PROVE  [type |-> "CANCEL", order_id |-> id] \in CancelRequest
  BY DEF CancelRequest
<1>4. QED
  BY <1>1, <1>2, <1>3 DEF Request

LEMMA KnownOrder ==
  ASSUME IInv, NEW id \in Ids, Known(id)
  PROVE  /\ myorders[id] \in ProperOrders(Least)
         /\ myorders[id].symbol \in Symbols /\ myorders[id].quantity \in Nat
<1>1. myorders[id] \in ProperOrders(Least)
  BY DEF IInv, DataInv, DataIn, Known
<1>2. QED
  BY <1>1 DEF ProperOrders, Order

\* Every action keeps books, orders and rows proper: the steps of the process ...
LEMMA ProgressData ==
  ASSUME NEW least \in {0, 1}, DataIn(least), ControlInv, Progress \/ Ready
  PROVE  DataIn(least)'
<1>1. CASE LoadRow
  <2>1. Head(todo) \in ProperOrders(least) /\ Tail(todo) \in Seq(ProperOrders(least))
    BY <1>1, HeadTailProperties DEF LoadRow, DataIn
  <2>2. QED
    BY <1>1, <2>1, AcceptData DEF LoadRow, DataIn
<1>2. CASE LoadDone \/ Ready \/ CommunicateAck \/ CommunicateTrade \/ CommunicateReportingMsg
  BY <1>2 DEF LoadDone, Ready, CommunicateAck, CommunicateTrade, CommunicateReportingMsg,
              viewVars, DataIn
<1>3. CASE MatchTrades
  <2>1. sym \in Symbols /\ Crosses(mybooks[sym])
    BY <1>3 DEF MatchTrades, Trades, ControlInv
  <2>2. QED
    BY <1>3, <2>1, MatchData, UpdateOrdersData, WriteMatchData DEF MatchTrades, DataIn
<1>4. CASE MatchEnds
  <2>1. sym \in Symbols
    BY <1>4 DEF MatchEnds, ControlInv
  <2>2. QED
    BY <1>4, <2>1, MatchData, WriteMatchData DEF MatchEnds, DataIn
<1>5. QED
  BY <1>1, <1>2, <1>3, <1>4 DEF Progress

\* ... the requests ...
LEMMA RequestData ==
  ASSUME NEW least \in {0, 1}, DataIn(least), ProcessNew \/ ProcessModify \/ ProcessCancel,
         \A o \in NewOrders : AcceptOrder(o) => o \in ProperOrders(least)
  PROVE  DataIn(least)'
<1>1. CASE ProcessNew
  <2>1. PICK o \in NewOrders : AcceptOrder(o) \/ RejectOrder(o)
    BY <1>1 DEF ProcessNew
  <2>2. CASE AcceptOrder(o)
    <3>1. Accept(o) /\ db' = AddRow(db, o) /\ todo' = todo /\ o \in ProperOrders(least)
      BY <2>2 DEF AcceptOrder, Receive
    <3>2. QED
      BY <3>1, AcceptData, AddRowProper DEF DataIn
  <2>3. CASE RejectOrder(o)
    BY <2>3 DEF RejectOrder, Receive, DataIn, viewVars
  <2>4. QED
    BY <2>1, <2>2, <2>3
<1>2. CASE ProcessModify
  <2>1. PICK id \in Ids, price \in Prices, quantity \in Quantities :
           \/ ModifyUnknown(id, price, quantity)
           \/ ModifyGone(id, price, quantity)
           \/ ModifyOrder(id, price, quantity)
           \/ DieInModify(id, price, quantity)
    BY <1>2 DEF ProcessModify
  <2>2. CASE ModifyUnknown(id, price, quantity) \/ ModifyGone(id, price, quantity)
    BY <2>2 DEF ModifyUnknown, ModifyGone, Receive, DataIn, viewVars
  <2>3. CASE ModifyOrder(id, price, quantity)
    <3>1. /\ Known(id) /\ todo' = todo
          /\ \E q \in JunkQuantities :
                /\ Replace(id, price, q)
                /\ db' = AddRow(DeleteRow(db, id), Modified(id, price, q))
      BY <2>3 DEF ModifyOrder, Resting, Receive
    <3>2. PICK q \in JunkQuantities :
             /\ Replace(id, price, q)
             /\ db' = AddRow(DeleteRow(db, id), Modified(id, price, q))
      BY <3>1
    <3>3. /\ mybooks' \in [Symbols -> Books(least)]
          /\ myorders' \in [Ids -> ProperOrders(least) \cup {None}]
          /\ Modified(id, price, q) \in ProperOrders(least)
      BY <3>1, <3>2, ReplaceData
    <3>4. DeleteRow(db, id) \in ProperDB(least)
      BY DeleteRowProper DEF DataIn
    <3>5. db' \in ProperDB(least)
      BY <3>2, <3>3, <3>4, AddRowProper
    <3>6. QED
      BY <3>1, <3>3, <3>5 DEF DataIn
  <2>4. CASE DieInModify(id, price, quantity)
    <3>1. Exit /\ db' = DeleteRow(db, id)
      BY <2>4 DEF DieInModify
    <3>2. QED
      BY <3>1, ExitData, DeleteRowProper DEF DataIn
  <2>5. QED
    BY <2>1, <2>2, <2>3, <2>4
<1>3. CASE ProcessCancel
  <2>1. PICK id \in Ids : CancelUnknown(id) \/ CancelOrder(id)
    BY <1>3 DEF ProcessCancel
  <2>2. CASE CancelUnknown(id)
    BY <2>2 DEF CancelUnknown, Receive, DataIn, viewVars
  <2>3. CASE CancelOrder(id)
    <3>1. Known(id) /\ Withdraw(id) /\ db' = DeleteRow(db, id) /\ todo' = todo
      BY <2>3 DEF CancelOrder, Resting, Receive
    <3>2. QED
      BY <3>1, WithdrawData, DeleteRowProper DEF DataIn
  <2>4. QED
    BY <2>1, <2>2, <2>3
<1>4. QED
  BY <1>1, <1>2, <1>3

\* ... and the end of the process and its next start.
LEMMA LifeData ==
  ASSUME NEW least \in {0, 1}, DataIn(least), ControlInv,
         Stop \/ StopInMatch \/ DieDrained \/ Restart
  PROVE  DataIn(least)'
<1>1. CASE Stop \/ DieDrained
  <2>1. Exit /\ db' = db
    BY <1>1 DEF Stop, DieDrained
  <2>2. QED
    BY <2>1, ExitData DEF DataIn
<1>2. CASE StopInMatch
  <2>1. Exit /\ sym \in Symbols /\ Crosses(mybooks[sym])
    BY <1>2 DEF StopInMatch, ControlInv
  <2>2. db' \in ProperDB(least)
    BY <1>2, <2>1, MatchWritesProper DEF StopInMatch
  <2>3. QED
    BY <2>1, <2>2, ExitData DEF DataIn
<1>3. CASE Restart
  BY <1>3 DEF Restart, DataIn, viewVars, ProperDB
<1>4. QED
  BY <1>1, <1>2, <1>3

LEMMA DataStep ==
  ASSUME NEW least \in {0, 1}, DataIn(least), ControlInv, [Next]_vars,
         \A o \in NewOrders : AcceptOrder(o) => o \in ProperOrders(least)
  PROVE  DataIn(least)'
<1>1. CASE UNCHANGED vars
  BY <1>1 DEF vars, memVars, viewVars, DataIn
<1>2. CASE ProcessNew \/ ProcessModify \/ ProcessCancel
  BY <1>2, RequestData
<1>3. QED
  BY <1>1, <1>2, ProgressData, LifeData DEF Next

\* Every action keeps the rest of the invariant: the steps of the process ...
LEMMA ProgressStep ==
  ASSUME IInv, Progress \/ Ready
  PROVE  ControlInv' /\ RestTypeOK'
<1> USE DEF IInv
<1>1. CASE LoadRow
  <2>1. Head(todo) \in ProperOrders(Least)
    BY <1>1, HeadTailProperties DEF LoadRow, DataInv, DataIn
  <2>2. Head(todo).symbol \in Symbols
    BY <2>1 DEF ProperOrders, Order
  <2>3. QED
    BY <1>1, <2>2 DEF LoadRow, ControlInv, AtRest, RestTypeOK, logVars, Locations
<1>2. CASE LoadDone
  BY <1>2 DEF LoadDone, viewVars, logVars, ControlInv, AtRest, RestTypeOK, Locations
<1>3. CASE Ready
  BY <1>3 DEF Ready, viewVars, logVars, ControlInv, AtRest, RestTypeOK, Locations
<1>4. CASE CommunicateAck
  <2>1. ack \in Ack /\ acks' \in Seq(Ack)
    BY <1>4 DEF CommunicateAck, ControlInv, RestTypeOK
  <2>2. QED
    BY <1>4, <2>1, NoneIsNone
    DEF CommunicateAck, viewVars, ControlInv, AtRest, RestTypeOK, Locations
<1>5. CASE MatchTrades
  <2>1. sym \in Symbols /\ Crosses(mybooks[sym]) /\ ReportOf(sym) \in Report
    BY <1>5, LeastType, ReportTyped DEF MatchTrades, Trades, ControlInv, DataInv, DataIn
  <2>2. QED
    BY <1>5, <2>1
    DEF MatchTrades, ControlInv, AtRest, RestTypeOK, logVars, Locations
<1>6. CASE MatchEnds
  BY <1>6 DEF MatchEnds, ControlInv, AtRest, RestTypeOK, logVars, Locations
<1>7. CASE CommunicateTrade
  <2>1. trades' \in Seq(Report)
    BY <1>7 DEF CommunicateTrade, ControlInv, RestTypeOK
  <2>2. QED
    BY <1>7, <2>1
    DEF CommunicateTrade, viewVars, ControlInv, AtRest, RestTypeOK, Locations
<1>8. CASE CommunicateReportingMsg
  <2>1. reports' \in Seq(Report)
    BY <1>8 DEF CommunicateReportingMsg, ControlInv, RestTypeOK
  <2>2. QED
    BY <1>8, <2>1
    DEF CommunicateReportingMsg, viewVars, ControlInv, AtRest, RestTypeOK, Locations
<1>9. QED
  BY <1>1, <1>2, <1>3, <1>4, <1>5, <1>6, <1>7, <1>8 DEF Progress

\* ... the requests ...
LEMMA ProcessNewStep ==
  ASSUME IInv, ProcessNew
  PROVE  ControlInv' /\ RestTypeOK'
<1>1. PICK o \in NewOrders : AcceptOrder(o) \/ RejectOrder(o)
  BY DEF ProcessNew
<1>2. /\ o \in Order /\ WellFormed(o)
      /\ o.symbol \in Symbols /\ o.order_id \in Ids
  BY NewOrdersProper DEF Order
<1>3. \A f \in BOOLEAN : [type |-> "NEW", order |-> o, filled |-> f] \in Request
  BY <1>2, RequestsTyped
<1>4. CASE AcceptOrder(o)
  <2>1. Receive([type |-> "NEW", order |-> o, filled |-> TRUE],
                o.symbol, "NEW_ORDER_ACK", o.order_id, 0)
    BY <1>4 DEF AcceptOrder
  <2>2. QED
    BY <1>2, <1>3, <2>1, ReceiveTyped
<1>5. CASE RejectOrder(o)
  <2>1. Receive([type |-> "NEW", order |-> o, filled |-> FALSE],
                o.symbol, "NEW_ORDER_NAK", o.order_id, 0)
    BY <1>5 DEF RejectOrder
  <2>2. QED
    BY <1>2, <1>3, <2>1, ReceiveTyped
<1>6. QED
  BY <1>1, <1>4, <1>5

LEMMA ProcessModifyStep ==
  ASSUME IInv, ProcessModify
  PROVE  ControlInv' /\ RestTypeOK'
<1>1. PICK id \in Ids, price \in Prices, quantity \in Quantities :
         \/ ModifyUnknown(id, price, quantity)
         \/ ModifyGone(id, price, quantity)
         \/ ModifyOrder(id, price, quantity)
         \/ DieInModify(id, price, quantity)
  BY DEF ProcessModify
<1>2. quantity \in Nat /\ Modification(id, price, quantity) \in Request
  BY MatchEngAssumption, RequestsTyped
<1>3. CASE ModifyUnknown(id, price, quantity)
  <2>1. Receive(Modification(id, price, quantity), None, "MODIFY_ACK", id, 0)
    BY <1>3 DEF ModifyUnknown
  <2>2. QED
    BY <1>2, <2>1, ReceiveTyped
<1>4. CASE ModifyGone(id, price, quantity)
  <2>1. Known(id)
        /\ Receive(Modification(id, price, quantity), myorders[id].symbol,
                   "MODIFY_NAK", id, 0)
    BY <1>4 DEF ModifyGone
  <2>2. QED
    BY <1>2, <2>1, KnownOrder, ReceiveTyped
<1>5. CASE ModifyOrder(id, price, quantity)
  <2>1. Known(id)
        /\ Receive(Modification(id, price, quantity), myorders[id].symbol,
                   "MODIFY_ACK", id, quantity)
    BY <1>5 DEF ModifyOrder, Resting
  <2>2. QED
    BY <1>2, <2>1, KnownOrder, ReceiveTyped
<1>6. CASE DieInModify(id, price, quantity)
  <2>1. requests' \in Seq(Request)
    BY <1>2, <1>6 DEF DieInModify, IInv, RestTypeOK
  <2>2. QED
    BY <1>6, <2>1
    DEF DieInModify, Exit, IInv, ControlInv, AtRest, RestTypeOK, Locations
<1>7. QED
  BY <1>1, <1>3, <1>4, <1>5, <1>6

LEMMA ProcessCancelStep ==
  ASSUME IInv, ProcessCancel
  PROVE  ControlInv' /\ RestTypeOK'
<1>1. PICK id \in Ids : CancelUnknown(id) \/ CancelOrder(id)
  BY DEF ProcessCancel
<1>2. [type |-> "CANCEL", order_id |-> id] \in Request
  BY RequestsTyped
<1>3. CASE CancelUnknown(id)
  <2> DEFINE s == IF Known(id) THEN myorders[id].symbol ELSE None
  <2>1. Receive([type |-> "CANCEL", order_id |-> id], s, "CANCEL_NAK", id, 0)
    BY <1>3 DEF CancelUnknown
  <2>2. s \in Symbols \cup {None}
    BY KnownOrder
  <2> HIDE DEF s
  <2>3. QED
    BY <1>2, <2>1, <2>2, ReceiveTyped
<1>4. CASE CancelOrder(id)
  <2>1. /\ Known(id)
        /\ Receive([type |-> "CANCEL", order_id |-> id], myorders[id].symbol,
                   "CANCEL_ACK", id, myorders[id].quantity)
    BY <1>4 DEF CancelOrder, Resting
  <2>2. QED
    BY <1>2, <2>1, KnownOrder, ReceiveTyped
<1>5. QED
  BY <1>1, <1>3, <1>4

\* ... and the end of the process and its next start.
LEMMA LifeStep ==
  ASSUME IInv, Stop \/ StopInMatch \/ DieDrained \/ Restart
  PROVE  ControlInv' /\ RestTypeOK'
<1>1. CASE Stop \/ StopInMatch \/ DieDrained
  BY <1>1 DEF Stop, StopInMatch, DieDrained, Exit, IInv, ControlInv, AtRest, RestTypeOK,
              Locations, logVars
<1>2. CASE Restart
  <2>1. restarts' \in Nat
    BY <1>2 DEF Restart, IInv, RestTypeOK
  <2>2. sym' = None
    BY <1>2 DEF Restart, IInv, ControlInv, AtRest
  <2>3. QED
    BY <1>2, <2>1, <2>2 DEF Restart, IInv, ControlInv, AtRest, RestTypeOK, Locations
<1>3. QED
  BY <1>1, <1>2

LEMMA InvStep ==
  ASSUME IInv, [Next]_vars
  PROVE  IInv'
<1>1. DataInv'
  <2>1. \A o \in NewOrders : o \in ProperOrders(Least)
    BY NewOrdersProper
  <2>2. DataIn(Least)'
    BY <2>1, DataStep, LeastType DEF IInv, DataInv
  <2>3. QED
    BY <2>2 DEF DataInv, DataIn, Least
<1>2. ControlInv' /\ RestTypeOK'
  <2>1. CASE UNCHANGED vars
    BY <2>1 DEF vars, memVars, viewVars, logVars, IInv, ControlInv, AtRest, RestTypeOK
  <2>2. QED
    BY <2>1, ProgressStep, ProcessNewStep, ProcessModifyStep,
       ProcessCancelStep, LifeStep DEF Next
<1>3. QED
  BY <1>1, <1>2 DEF IInv

LEMMA Inductive == Spec => []IInv
<1>1. IInv /\ [Next]_vars => IInv'
  BY InvStep
<1>2. QED
  BY InitIInv, <1>1, PTL DEF Spec

\* Whatever clients send and whenever the process is stopped, every variable,
\* the books, the tables and the messages, keeps to its type.
THEOREM TypeCorrect == Spec => []TypeOK
  BY Inductive, TypesFollow, PTL

\* AddOrder's search finds every side sorted, and leaves it so: no addition,
\* partial fill, modification or load puts an order before a better one.
THEOREM PriorityKept == Spec => []PriceTimePriority
<1>1. IInv => PriceTimePriority
  BY DEF IInv, DataInv, DataIn, Books, Sorted, PriceTimePriority
<1>2. QED
  BY Inductive, <1>1, PTL
-----------------------------------------------------------------------------
(* What rests, and what trades, as long as nobody orders nothing *)

\* Only the book that a handler is at work on is not quiet, and even there
\* market orders are on one side.
SidesInv ==
  \A s \in Symbols : OneSided(mybooks[s]) /\ (s # sym => Quiet(mybooks[s]))

\* Until an order of quantity 0 is accepted, everything has a positive quantity,
\* so that the loop of Update ends only when nothing is left to trade.
QuietInv ==
  /\ Least = 1 => ~ZeroOrdered
  /\ ~ZeroOrdered => DataIn(1) /\ SidesInv

GoodTrade(t) ==
  /\ t.quantity > 0
  /\ t.price \in Prices \/ (IsMarket(t.orderA) /\ IsMarket(t.orderB))
  /\ ~IsMarket(t.orderA) => t.price >= t.orderA.price
  /\ ~IsMarket(t.orderB) => t.price <= t.orderB.price

TradeInv ==
  /\ pc = "trade" => GoodTrade(rp) /\ (ZeroOrdered \/ rp.price \in Prices)
  /\ \A i \in 1 .. Len(trades) :
        GoodTrade(trades[i]) /\ (ZeroOrdered \/ trades[i].price \in Prices)

LEMMA QuietIsOneSided == ASSUME NEW b, Quiet(b) PROVE OneSided(b)
  BY DEF Quiet, OneSided, Sides

\* The handlers start when every book is quiet.
LEMMA SidesAtRest ==
  ASSUME IInv, SidesInv, AtRest
  PROVE  \A s \in Symbols : Quiet(mybooks[s])
  BY NoneIsNone DEF IInv, ControlInv, SidesInv

LEMMA RestingQuiet ==
  ASSUME IInv, QuietInv, Least = 1, AtRest
  PROVE  \A s \in Symbols : Quiet(mybooks[s])
  BY SidesAtRest DEF QuietInv

LEMMA SameBooksQuiet ==
  ASSUME SidesInv, mybooks' = mybooks, sym' = sym
  PROVE  SidesInv'
  BY DEF SidesInv

LEMMA StartQuiet ==
  ASSUME \A s \in Symbols : Quiet(mybooks[s]), mybooks' = mybooks
  PROVE  SidesInv'
  BY QuietIsOneSided DEF SidesInv

LEMMA ExitQuiet == ASSUME Exit PROVE SidesInv'
  BY EmptyBookProper DEF SidesInv, Exit

\* The requests read stay, and what was asked for in a new one is in Quantities.
LEMMA RequestsGrow ==
  ASSUME IInv, [Next]_vars
  PROVE  \/ requests' = requests
         \/ \E r \in Request :
               /\ requests' = Append(requests, r)
               /\ r.type = "NEW" => r.order.quantity \in Quantities
<1>1. CASE ProcessNew
  <2>1. PICK o \in NewOrders : AcceptOrder(o) \/ RejectOrder(o)
    BY <1>1 DEF ProcessNew
  <2>2. PICK f \in BOOLEAN :
           requests' = Append(requests, [type |-> "NEW", order |-> o, filled |-> f])
    BY <2>1 DEF AcceptOrder, RejectOrder, Receive
  <2>3. o.quantity \in Quantities /\ o \in Order /\ WellFormed(o)
    BY NewOrdersProper DEF NewOrders
  <2>4. [type |-> "NEW", order |-> o, filled |-> f] \in Request
    BY <2>3, RequestsTyped
  <2>5. QED
    BY <2>2, <2>3, <2>4
<1>2. CASE ProcessModify
  <2>1. PICK id \in Ids, price \in Prices, quantity \in Quantities :
           requests' = Append(requests, Modification(id, price, quantity))
    BY <1>2 DEF ProcessModify, ModifyUnknown, ModifyGone, ModifyOrder, DieInModify, Receive
  <2>2. Modification(id, price, quantity) \in Request
    BY MatchEngAssumption, RequestsTyped
  <2>3. Modification(id, price, quantity).type # "NEW"
    BY DEF Modification
  <2>4. QED
    BY <2>1, <2>2, <2>3
<1>3. CASE ProcessCancel
  <2>1. PICK id \in Ids : requests' = Append(requests, [type |-> "CANCEL", order_id |-> id])
    BY <1>3 DEF ProcessCancel, CancelUnknown, CancelOrder, Receive
  <2>2. QED
    BY <2>1, RequestsTyped
<1>4. CASE Progress \/ Ready \/ Stop \/ StopInMatch \/ DieDrained \/ Restart \/ UNCHANGED vars
  BY <1>4 DEF Progress, LoadRow, LoadDone, CommunicateAck, MatchTrades, MatchEnds,
              CommunicateTrade, CommunicateReportingMsg, Ready, Stop, StopInMatch, DieDrained,
              Restart, vars, logVars
<1>5. QED
  BY <1>1, <1>2, <1>3, <1>4 DEF Next

\* An order of quantity 0 stays among the requests, and comes only from clients
\* that ask for nothing.
LEMMA ZeroStep ==
  ASSUME IInv, [Next]_vars
  PROVE  /\ ZeroOrdered => ZeroOrdered'
         /\ Least = 1 /\ ~ZeroOrdered => ~ZeroOrdered'
         /\ \A o \in NewOrders : AcceptOrder(o) /\ o.quantity = 0 => ZeroOrdered'
<1>1. requests \in Seq(Request) /\ Len(requests) \in Nat
  BY LenProperties DEF IInv, RestTypeOK
<1>2. requests' = requests => (ZeroOrdered' <=> ZeroOrdered)
  BY DEF ZeroOrdered
<1>3. ASSUME NEW r \in Request, requests' = Append(requests, r)
      PROVE  /\ Len(requests') = Len(requests) + 1
             /\ requests'[Len(requests) + 1] = r
             /\ \A i \in 1 .. Len(requests) : requests'[i] = requests[i]
  BY <1>1, <1>3, AppendProperties
<1>4. ZeroOrdered => ZeroOrdered'
  <2>1. ASSUME NEW r \in Request, requests' = Append(requests, r), ZeroOrdered
        PROVE  ZeroOrdered'
    <3>1. PICK i \in 1 .. Len(requests) :
             requests[i].type = "NEW" /\ requests[i].filled /\ requests[i].order.quantity = 0
      BY <2>1 DEF ZeroOrdered
    <3>2. i \in 1 .. Len(requests') /\ requests'[i] = requests[i]
      BY <1>1, <1>3, <2>1
    <3>3. QED
      BY <3>1, <3>2 DEF ZeroOrdered
  <2>2. QED
    BY <1>2, <2>1, RequestsGrow
<1>5. ASSUME Least = 1, ~ZeroOrdered PROVE ~ZeroOrdered'
  <2>1. 0 \notin Quantities
    BY <1>5 DEF Least
  <2>2. ASSUME NEW r \in Request, requests' = Append(requests, r),
               r.type = "NEW" => r.order.quantity \in Quantities
        PROVE  ~ZeroOrdered'
    <3>1. ASSUME NEW i \in 1 .. Len(requests')
          PROVE  ~(requests'[i].type = "NEW" /\ requests'[i].filled
                     /\ requests'[i].order.quantity = 0)
      <4>1. i \in 1 .. Len(requests) \/ i = Len(requests) + 1
        BY <1>1, <1>3, <2>2
      <4>2. QED
        BY <1>3, <1>5, <2>1, <2>2, <4>1 DEF ZeroOrdered
    <3>2. QED
      BY <3>1 DEF ZeroOrdered
  <2>3. QED
    BY <1>2, <1>5, <2>2, RequestsGrow
<1>6. ASSUME NEW o \in NewOrders, AcceptOrder(o), o.quantity = 0 PROVE ZeroOrdered'
  <2> DEFINE r == [type |-> "NEW", order |-> o, filled |-> TRUE]
  <2>1. r \in Request /\ requests' = Append(requests, r)
    BY <1>6, NewOrdersProper, RequestsTyped DEF AcceptOrder, Receive
  <2>2. r.type = "NEW" /\ r.filled /\ r.order.quantity = 0
    BY <1>6
  <2> HIDE DEF r
  <2>3. Len(requests) + 1 \in 1 .. Len(requests') /\ requests'[Len(requests) + 1] = r
    BY <1>1, <1>3, <2>1
  <2>4. QED
    BY <2>2, <2>3 DEF ZeroOrdered
<1>7. QED
  BY <1>4, <1>5, <1>6

LEMMA AskedProper ==
  ASSUME IInv, [Next]_vars, ~ZeroOrdered', NEW o \in NewOrders, AcceptOrder(o)
  PROVE  o \in ProperOrders(1)
<1>1. o \in ProperOrders(Least) /\ o \in Order /\ o.quantity # 0
  BY NewOrdersProper, ZeroStep
<1>2. o.quantity \in Nat /\ o.quantity >= 1
  BY <1>1 DEF Order
<1>3. QED
  BY <1>1, <1>2 DEF ProperOrders

LEMMA SidesStep ==
  ASSUME IInv, DataIn(1), SidesInv, [Next]_vars, ~ZeroOrdered'
  PROVE  SidesInv'
<1>1. AtRest => \A s \in Symbols : Quiet(mybooks[s])
  BY SidesAtRest
<1>2. CASE LoadRow
  <2>1. Head(todo) \in ProperOrders(1) /\ Accept(Head(todo))
        /\ sym' = Head(todo).symbol /\ AtRest
    BY <1>2, HeadTailProperties DEF LoadRow, DataIn, AtRest
  <2>2. QED
    BY <1>1, <2>1, AcceptData, QuietIsOneSided DEF SidesInv, ProperOrders, Order
<1>3. CASE MatchTrades
  <2>1. sym \in Symbols /\ Match(sym) /\ sym' = sym
    BY <1>3 DEF MatchTrades, IInv, ControlInv
  <2>2. QED
    BY <2>1, MatchData DEF SidesInv
<1>4. CASE MatchEnds
  <2>1. sym \in Symbols /\ Match(sym) /\ ~Trades(sym)
    BY <1>4 DEF MatchEnds, IInv, ControlInv
  <2>2. QED
    BY <2>1, MatchData, QuietIsOneSided DEF SidesInv
<1>5. CASE LoadDone \/ Ready \/ CommunicateAck \/ CommunicateTrade
           \/ CommunicateReportingMsg \/ Restart \/ UNCHANGED vars
  <2>1. mybooks' = mybooks /\ sym' = sym
    BY <1>5 DEF LoadDone, Ready, CommunicateAck, CommunicateTrade,
                CommunicateReportingMsg, Restart, vars, memVars, viewVars
  <2>2. QED
    BY <2>1, SameBooksQuiet
<1>6. CASE ProcessNew
  <2>1. PICK o \in NewOrders : AcceptOrder(o) \/ RejectOrder(o)
    BY <1>6 DEF ProcessNew
  <2>2. o \in Order /\ WellFormed(o) /\ sym' = o.symbol /\ AtRest
    BY <2>1, NewOrdersProper DEF AcceptOrder, RejectOrder, Receive, AtRest
  <2>3. CASE AcceptOrder(o)
    <3>1. Accept(o) /\ o.symbol \in Symbols
      BY <2>2, <2>3 DEF AcceptOrder, Order
    <3>2. o \in ProperOrders(1)
      BY <2>3, AskedProper
    <3>3. QED
      BY <1>1, <2>2, <3>1, <3>2, AcceptData, QuietIsOneSided DEF SidesInv
  <2>4. CASE RejectOrder(o)
    BY <1>1, <2>2, <2>4, StartQuiet DEF RejectOrder, viewVars
  <2>5. QED
    BY <2>1, <2>3, <2>4
<1>7. CASE ProcessModify
  <2>1. PICK id \in Ids, price \in Prices, quantity \in Quantities :
           \/ ModifyUnknown(id, price, quantity)
           \/ ModifyGone(id, price, quantity)
           \/ ModifyOrder(id, price, quantity)
           \/ DieInModify(id, price, quantity)
    BY <1>7 DEF ProcessModify
  <2>2. CASE ModifyUnknown(id, price, quantity) \/ ModifyGone(id, price, quantity)
    <3>1. mybooks' = mybooks /\ AtRest
      BY <2>2 DEF ModifyUnknown, ModifyGone, Receive, AtRest, viewVars
    <3>2. QED
      BY <1>1, <3>1, StartQuiet
  <2>3. CASE ModifyOrder(id, price, quantity)
    <3>1. Known(id) /\ sym' = myorders[id].symbol /\ AtRest
          /\ \E q \in JunkQuantities : Replace(id, price, q)
      BY <2>3 DEF ModifyOrder, Resting, Receive, AtRest
    <3>2. myorders[id].symbol \in Symbols
      BY <3>1, KnownOrder
    <3>3. QED
      BY <1>1, <3>1, <3>2, ReplaceData, QuietIsOneSided DEF SidesInv
  <2>4. CASE DieInModify(id, price, quantity)
    BY <2>4, ExitQuiet DEF DieInModify
  <2>5. QED
    BY <2>1, <2>2, <2>3, <2>4
<1>8. CASE ProcessCancel
  <2>1. PICK id \in Ids : CancelUnknown(id) \/ CancelOrder(id)
    BY <1>8 DEF ProcessCancel
  <2>2. CASE CancelUnknown(id)
    <3>1. mybooks' = mybooks /\ AtRest
      BY <2>2 DEF CancelUnknown, Receive, AtRest, viewVars
    <3>2. QED
      BY <1>1, <3>1, StartQuiet
  <2>3. CASE CancelOrder(id)
    <3>1. Known(id) /\ Withdraw(id) /\ AtRest
      BY <2>3 DEF CancelOrder, Resting, Receive, AtRest
    <3>2. QED
      BY <1>1, <3>1, WithdrawData, QuietIsOneSided DEF SidesInv
  <2>4. QED
    BY <2>1, <2>2, <2>3
<1>9. CASE Stop \/ StopInMatch \/ DieDrained
  BY <1>9, ExitQuiet DEF Stop, StopInMatch, DieDrained
<1>10. QED
  BY <1>2, <1>3, <1>4, <1>5, <1>6, <1>7, <1>8, <1>9 DEF Next, Progress

LEMMA QuietStep ==
  ASSUME IInv, QuietInv, [Next]_vars
  PROVE  QuietInv'
<1>1. Least = 1 => ~ZeroOrdered'
  BY ZeroStep DEF QuietInv
<1>2. ASSUME ~ZeroOrdered' PROVE DataIn(1)' /\ SidesInv'
  <2>1. DataIn(1) /\ SidesInv
    BY <1>2, ZeroStep DEF QuietInv
  <2>2. \A o \in NewOrders : AcceptOrder(o) => o \in ProperOrders(1)
    BY <1>2, AskedProper
  <2>3. ControlInv
    BY DEF IInv
  <2>4. QED
    BY <1>2, <2>1, <2>2, <2>3, DataStep, SidesStep
<1>3. QED
  BY <1>1, <1>2 DEF QuietInv, Least

\* A match that trades something is a good trade: market orders are on one side
\* of the book, or someone ordered nothing.
LEMMA MatchGood ==
  ASSUME IInv, QuietInv, NEW s \in Symbols, Trades(s)
  PROVE  GoodTrade(ReportOf(s)) /\ (ZeroOrdered \/ ReportOf(s).price \in Prices)
<1> DEFINE b == mybooks[s]
           q == TradeQuantity(b)
           A == Rest(HeadSell(b), q)
           B == Rest(HeadBuy(b), q)
<1>1. b \in Books(Least) /\ Crosses(b) /\ q > 0 /\ Least \in {0, 1}
  BY LeastType DEF IInv, DataInv, DataIn, Trades
<1>2. /\ HeadBuy(b) \in SideOrders("BUY", Least) /\ q \in 0 .. HeadBuy(b).quantity
      /\ HeadSell(b) \in SideOrders("SELL", Least) /\ q \in 0 .. HeadSell(b).quantity
  BY <1>1, Heads
<1>3. /\ TradePrice(b) \in Prices \/ (IsMarket(HeadSell(b)) /\ IsMarket(HeadBuy(b)))
      /\ ~IsMarket(HeadSell(b)) => TradePrice(b) >= HeadSell(b).price
      /\ ~IsMarket(HeadBuy(b)) => TradePrice(b) <= HeadBuy(b).price
  BY <1>1, TradePriceWithinLimits
<1> HIDE DEF q
<1>4. A.order_type = HeadSell(b).order_type /\ A.price = HeadSell(b).price
  BY <1>1, <1>2, RestProper DEF Sides
<1>5. B.order_type = HeadBuy(b).order_type /\ B.price = HeadBuy(b).price
  BY <1>1, <1>2, RestProper DEF Sides
<1>6. IsMarket(HeadSell(b)) /\ IsMarket(HeadBuy(b)) => ZeroOrdered
  <2>1. ~ZeroOrdered => OneSided(b)
    BY DEF QuietInv, SidesInv
  <2>2. OneSided(b) => ~IsMarket(HeadSell(b)) \/ ~IsMarket(HeadBuy(b))
    BY <1>1, TradePriceWithinLimits
  <2>3. QED
    BY <2>1, <2>2
<1>7. ReportOf(s) = [symbol |-> s, price |-> TradePrice(b), quantity |-> q,
                     orderA |-> A, orderB |-> B]
  BY DEF ReportOf, q
<1> HIDE DEF A, B
<1>8. /\ ReportOf(s).quantity = q /\ ReportOf(s).price = TradePrice(b)
      /\ ReportOf(s).orderA = A /\ ReportOf(s).orderB = B
  BY <1>7
<1>9. QED
  BY <1>1, <1>3, <1>4, <1>5, <1>6, <1>8 DEF GoodTrade, IsMarket

LEMMA TradeStep ==
  ASSUME IInv, QuietInv, TradeInv, [Next]_vars
  PROVE  TradeInv'
<1> DEFINE Fair(t) == GoodTrade(t) /\ (ZeroOrdered' \/ t.price \in Prices)
<1>1. ZeroOrdered => ZeroOrdered'
  BY ZeroStep
<1>2. /\ pc = "trade" => Fair(rp)
      /\ \A i \in 1 .. Len(trades) : Fair(trades[i])
  BY <1>1 DEF TradeInv
<1> SUFFICES /\ pc' = "trade" => Fair(rp')
             /\ \A i \in 1 .. Len(trades') : Fair(trades'[i])
  BY DEF TradeInv
<1>3. CASE MatchTrades
  <2>1. sym \in Symbols /\ Trades(sym) /\ trades' = trades /\ rp' = ReportOf(sym)
    BY <1>3 DEF MatchTrades, IInv, ControlInv, logVars
  <2>2. Fair(ReportOf(sym))
    BY <1>1, <2>1, MatchGood
  <2>3. QED
    BY <1>2, <2>1, <2>2
<1> HIDE DEF Fair
<1>4. CASE CommunicateTrade
  <2>1. pc = "trade" /\ pc' = "report" /\ trades' = Append(trades, rp)
    BY <1>4 DEF CommunicateTrade
  <2>2. rp \in Report /\ trades \in Seq(Report)
    BY <2>1 DEF IInv, ControlInv, RestTypeOK
  <2>3. /\ Len(trades') = Len(trades) + 1 /\ Len(trades) \in Nat
        /\ trades'[Len(trades) + 1] = rp
        /\ \A i \in 1 .. Len(trades) : trades'[i] = trades[i]
    BY <2>1, <2>2, AppendProperties, LenProperties
  <2>4. ASSUME NEW i \in 1 .. Len(trades') PROVE Fair(trades'[i])
    <3>1. i = Len(trades) + 1 \/ i \in 1 .. Len(trades)
      BY <2>3
    <3>2. QED
      BY <1>2, <2>1, <2>3, <3>1
  <2>5. QED
    BY <2>1, <2>4
<1>5. CASE LoadRow \/ LoadDone \/ Ready \/ CommunicateAck \/ MatchEnds
           \/ CommunicateReportingMsg \/ Restart \/ UNCHANGED vars
  <2>1. trades' = trades /\ (pc' # "trade" \/ (pc' = pc /\ rp' = rp))
    BY <1>5 DEF LoadRow, LoadDone, Ready, CommunicateAck, MatchEnds,
                CommunicateReportingMsg, Restart, vars, memVars, logVars
  <2>2. QED
    BY <1>2, <2>1
<1>6. CASE ProcessNew \/ ProcessModify \/ ProcessCancel \/ Stop \/ StopInMatch \/ DieDrained
  <2>1. trades' = trades /\ pc' # "trade"
    BY <1>6 DEF ProcessNew, AcceptOrder, RejectOrder, ProcessModify, ModifyUnknown, ModifyGone,
                ModifyOrder, DieInModify, ProcessCancel, CancelUnknown, CancelOrder, Receive,
                Stop, StopInMatch, DieDrained, Exit, logVars
  <2>2. QED
    BY <1>2, <2>1
<1>7. QED
  BY <1>3, <1>4, <1>5, <1>6 DEF Next, Progress

LEMMA QuietInductive == Spec => [](IInv /\ QuietInv /\ TradeInv)
<1>1. Init => QuietInv /\ TradeInv
  <2> SUFFICES ASSUME Init PROVE QuietInv /\ TradeInv
    OBVIOUS
  <2>1. Len(requests) = 0 /\ Len(trades) = 0 /\ pc = "load"
    BY LenProperties, EmptySeq DEF Init
  <2>2. ~ZeroOrdered /\ TradeInv
    BY <2>1 DEF ZeroOrdered, TradeInv
  <2>3. DataIn(1) /\ SidesInv
    BY InitData, EmptyBookProper DEF Init, ViewInit, SidesInv
  <2>4. QED
    BY <2>2, <2>3 DEF QuietInv
<1>2. IInv /\ QuietInv /\ TradeInv /\ [Next]_vars => (QuietInv /\ TradeInv)'
  BY QuietStep, TradeStep
<1>3. QED
  BY Inductive, <1>1, <1>2, PTL DEF Spec

\* Between requests no market order rests and no two resting orders could
\* trade: the loop of Update does not stop early, as long as nobody orders
\* nothing.
THEOREM NothingLeftCrossed == Spec => []Uncrossed
<1>1. IInv /\ QuietInv => Uncrossed
  <2> SUFFICES ASSUME IInv, QuietInv, AtRest, ~ZeroOrdered, NEW s \in Symbols
               PROVE  /\ \A side \in Sides : \A o \in AllOrders(s, side) : ~IsMarket(o)
                      /\ \A b \in AllOrders(s, "BUY"), a \in AllOrders(s, "SELL") :
                            b.price < a.price
    BY DEF Uncrossed
  <2>1. Quiet(mybooks[s])
    BY SidesAtRest DEF QuietInv
  <2>2. QED
    BY <2>1 DEF Quiet, NoMarket, AllOrders
<1>2. QED
  BY QuietInductive, <1>1, PTL

\* Every trade that is communicated is of something and within the limits of
\* both orders, whatever quantities clients ask for; and its price is a price
\* unless someone had ordered nothing and two market orders met.
THEOREM TradesKeepLimits == Spec => []TradesWithinLimits
<1>1. TradeInv => TradesWithinLimits
  BY DEF TradeInv, GoodTrade, TradesWithinLimits
<1>2. QED
  BY QuietInductive, <1>1, PTL
-----------------------------------------------------------------------------
(* Durability *)

\* An acknowledged order, or one whose acknowledgement is on its way, is in t2;
\* nothing is in t1 only, so that the trigger's insertion can fail for an order
\* only if t2 has it already.
DurableInv ==
  /\ InBoth(db)
  /\ pc = "ack" /\ ack.type = "NEW_ORDER_ACK" => InT2(db, ack.order_id)
  /\ \A id \in Ids : Acked("NEW_ORDER_ACK", id) => InT2(db, id)

LEMMA LaterInT2 ==
  ASSUME NEW d, NEW e, Later(e, d), NEW id, InT2(d, id)
  PROVE  InT2(e, id)
  BY DEF Later, InT2

\* A match writes a later database, whichever of its writes is the last.
LEMMA MatchWritesLater ==
  ASSUME IInv, InBoth(db), NEW s \in Symbols, Crosses(mybooks[s]),
         NEW k \in 1 .. 5
  PROVE  Later(MatchWrites(s)[k], db)
<1> DEFINE r  == ReportOf(s)
           d1 == DeleteRow(db, r.orderA.order_id)
           d2 == DeleteRow(d1, r.orderB.order_id)
           d3 == Reinserted(d2, r.orderA)
           d4 == Reinserted(d3, r.orderB)
<1>1. /\ r.orderA.quantity > 0 => r.orderA \in ProperOrders(Least)
      /\ r.orderB.quantity > 0 => r.orderB \in ProperOrders(Least)
  BY LeastType, ReportTyped DEF IInv, DataInv, DataIn
<1>2. db \in ProperDB(Least) /\ Later(db, db)
  BY DEF IInv, DataInv, DataIn, Later
<1>3. d1 \in ProperDB(Least) /\ Later(d1, db)
  BY <1>2, LeastType, DeleteRowProper, DeleteRowLater
<1> HIDE DEF d1
<1>4. d2 \in ProperDB(Least) /\ Later(d2, d1)
  BY <1>3, LeastType, DeleteRowProper, DeleteRowLater DEF Later
<1> HIDE DEF r, d2
<1>5. d3 \in ProperDB(Least) /\ Later(d3, d2)
  BY <1>1, <1>4, LeastType, AddRowProper, AddRowLater DEF Reinserted, Later
<1> HIDE DEF d3
<1>6. Later(d4, d3)
  BY <1>1, <1>5, LeastType, AddRowLater DEF Reinserted, Later
<1> HIDE DEF d4
<1>7. MatchWrites(s) = <<db, d1, d2, d3, d4>>
  BY DEF MatchWrites, r, d1, d2, d3, d4
<1>8. Later(d2, db) /\ Later(d3, db) /\ Later(d4, db)
  BY <1>3, <1>4, <1>5, <1>6 DEF Later
<1>9. QED
  BY <1>2, <1>3, <1>7, <1>8

LEMMA DurableStep ==
  ASSUME IInv, DurableInv, [Next]_vars
  PROVE  DurableInv'
<1>1. ASSUME Later(db', db), acks' = acks,
             \/ pc' # "ack"
             \/ ack' = ack /\ pc' = pc
             \/ ack'.type # "NEW_ORDER_ACK"
             \/ InT2(db', ack'.order_id)
      PROVE  DurableInv'
  <2>1. InBoth(db')
    BY <1>1 DEF Later
  <2>2. pc' = "ack" /\ ack'.type = "NEW_ORDER_ACK" => InT2(db', ack'.order_id)
    BY <1>1, LaterInT2 DEF DurableInv
  <2>3. ASSUME NEW id \in Ids, Acked("NEW_ORDER_ACK", id)' PROVE InT2(db', id)
    <3>1. Acked("NEW_ORDER_ACK", id)
      BY <1>1, <2>3 DEF Acked
    <3>2. QED
      BY <1>1, <3>1, LaterInT2 DEF DurableInv
  <2>4. QED
    BY <2>1, <2>2, <2>3 DEF DurableInv, InBoth, InT1, InT2
<1>2. Later(db, db)
  BY DEF DurableInv, Later
<1>3. CASE CommunicateAck
  <2>1. db' = db /\ pc' # "ack" /\ pc = "ack" /\ acks' = Append(acks, ack)
    BY <1>3 DEF CommunicateAck
  <2>2. ack \in Ack /\ acks \in Seq(Ack)
    BY <2>1 DEF IInv, ControlInv, RestTypeOK
  <2>3. /\ Len(acks') = Len(acks) + 1 /\ Len(acks) \in Nat
        /\ acks'[Len(acks) + 1] = ack
        /\ \A i \in 1 .. Len(acks) : acks'[i] = acks[i]
    BY <2>1, <2>2, AppendProperties, LenProperties
  <2>4. ASSUME NEW id \in Ids, Acked("NEW_ORDER_ACK", id)' PROVE InT2(db, id)
    <3>1. PICK i \in 1 .. Len(acks') :
             acks'[i].type = "NEW_ORDER_ACK" /\ acks'[i].order_id = id
      BY <2>4 DEF Acked
    <3>2. CASE i = Len(acks) + 1
      BY <2>1, <2>3, <3>1, <3>2 DEF DurableInv
    <3>3. CASE i \in 1 .. Len(acks)
      BY <2>3, <3>1, <3>3 DEF DurableInv, Acked
    <3>4. QED
      BY <2>3, <3>1, <3>2, <3>3
  <2>5. QED
    BY <2>1, <2>4 DEF DurableInv, InBoth, InT1, InT2
<1>4. CASE LoadRow \/ LoadDone \/ Ready \/ CommunicateTrade
           \/ CommunicateReportingMsg \/ Restart \/ UNCHANGED vars
  <2>1. CASE UNCHANGED vars
    <3>1. db' = db /\ acks' = acks /\ ack' = ack /\ pc' = pc
      BY <2>1 DEF vars, memVars, logVars
    <3>2. QED
      BY <1>1, <1>2, <3>1
  <2>2. CASE ~(UNCHANGED vars)
    <3>1. db' = db /\ acks' = acks /\ pc' # "ack"
      BY <1>4, <2>2 DEF LoadRow, LoadDone, Ready, CommunicateTrade,
                        CommunicateReportingMsg, Restart, logVars
    <3>2. QED
      BY <1>1, <1>2, <3>1
  <2>3. QED
    BY <2>1, <2>2
<1>5. CASE MatchTrades \/ MatchEnds
  <2>1. sym \in Symbols /\ WriteMatch /\ acks' = acks /\ pc' # "ack"
    BY <1>5 DEF MatchTrades, MatchEnds, IInv, ControlInv, logVars
  <2>2. Later(db', db)
    BY <1>2, <2>1, MatchWritesLater DEF WriteMatch, DurableInv
  <2>3. QED
    BY <1>1, <2>1, <2>2
<1>6. CASE ProcessNew
  <2>1. PICK o \in NewOrders : AcceptOrder(o) \/ RejectOrder(o)
    BY <1>6 DEF ProcessNew
  <2>2. o \in ProperOrders(Least) /\ db \in ProperDB(Least)
    BY NewOrdersProper DEF IInv, DataInv, DataIn
  <2>3. CASE AcceptOrder(o)
    <3>1. acks' = acks /\ ack'.order_id = o.order_id /\ db' = AddRow(db, o)
      BY <2>3 DEF AcceptOrder, Receive
    <3>2. Later(db', db) /\ InT2(db', o.order_id)
      BY <2>2, <3>1, LeastType, AddRowLater DEF DurableInv
    <3>3. QED
      BY <1>1, <3>1, <3>2
  <2>4. CASE RejectOrder(o)
    <3>1. acks' = acks /\ ack'.type = "NEW_ORDER_NAK" /\ db' = db
      BY <2>4 DEF RejectOrder, Receive
    <3>2. QED
      BY <1>1, <1>2, <3>1
  <2>5. QED
    BY <2>1, <2>3, <2>4
<1>7. CASE ProcessModify
  <2>1. PICK id \in Ids, price \in Prices, quantity \in Quantities :
           \/ ModifyUnknown(id, price, quantity)
           \/ ModifyGone(id, price, quantity)
           \/ ModifyOrder(id, price, quantity)
           \/ DieInModify(id, price, quantity)
    BY <1>7 DEF ProcessModify
  <2>2. CASE ModifyUnknown(id, price, quantity) \/ ModifyGone(id, price, quantity)
    <3>1. acks' = acks /\ ack'.type # "NEW_ORDER_ACK" /\ db' = db
      BY <2>2 DEF ModifyUnknown, ModifyGone, Receive
    <3>2. QED
      BY <1>1, <1>2, <3>1
  <2>3. CASE ModifyOrder(id, price, quantity)
    <3>1. /\ acks' = acks /\ ack'.type # "NEW_ORDER_ACK" /\ Known(id)
          /\ \E q \in JunkQuantities :
                /\ Replace(id, price, q)
                /\ db' = AddRow(DeleteRow(db, id), Modified(id, price, q))
      BY <2>3 DEF ModifyOrder, Resting, Receive
    <3>2. PICK q \in JunkQuantities :
             /\ Modified(id, price, q) \in ProperOrders(Least)
             /\ db' = AddRow(DeleteRow(db, id), Modified(id, price, q))
      BY <3>1, LeastType, ReplaceData DEF IInv, DataInv
    <3>3. /\ DeleteRow(db, id) \in ProperDB(Least)
          /\ Later(DeleteRow(db, id), db)
      BY LeastType, DeleteRowProper, DeleteRowLater DEF IInv, DataInv, DataIn, DurableInv
    <3>4. Later(db', DeleteRow(db, id))
      BY <3>2, <3>3, LeastType, AddRowLater DEF Later
    <3>5. Later(db', db)
      BY <3>3, <3>4 DEF Later
    <3>6. QED
      BY <1>1, <3>1, <3>5
  <2>4. CASE DieInModify(id, price, quantity)
    <3>1. acks' = acks /\ pc' # "ack" /\ db' = DeleteRow(db, id)
      BY <2>4 DEF DieInModify, Exit
    <3>2. Later(db', db)
      BY <3>1, LeastType, DeleteRowLater DEF IInv, DataInv, DataIn, DurableInv
    <3>3. QED
      BY <1>1, <3>1, <3>2
  <2>5. QED
    BY <2>1, <2>2, <2>3, <2>4
<1>8. CASE ProcessCancel
  <2>1. PICK id \in Ids : CancelUnknown(id) \/ CancelOrder(id)
    BY <1>8 DEF ProcessCancel
  <2>2. CASE CancelUnknown(id)
    <3>1. acks' = acks /\ ack'.type # "NEW_ORDER_ACK" /\ db' = db
      BY <2>2 DEF CancelUnknown, Receive
    <3>2. QED
      BY <1>1, <1>2, <3>1
  <2>3. CASE CancelOrder(id)
    <3>1. acks' = acks /\ ack'.type # "NEW_ORDER_ACK" /\ db' = DeleteRow(db, id)
      BY <2>3 DEF CancelOrder, Receive
    <3>2. Later(db', db)
      BY <3>1, LeastType, DeleteRowLater DEF IInv, DataInv, DataIn, DurableInv
    <3>3. QED
      BY <1>1, <3>1, <3>2
  <2>4. QED
    BY <2>1, <2>2, <2>3
<1>9. CASE Stop \/ DieDrained
  <2>1. db' = db /\ acks' = acks /\ pc' # "ack"
    BY <1>9 DEF Stop, DieDrained, Exit, logVars
  <2>2. QED
    BY <1>1, <1>2, <2>1
<1>10. CASE StopInMatch
  <2>1. sym \in Symbols /\ Crosses(mybooks[sym]) /\ acks' = acks /\ pc' # "ack"
    BY <1>10 DEF StopInMatch, Exit, logVars, IInv, ControlInv
  <2>2. Later(db', db)
    BY <1>10, <2>1, MatchWritesLater DEF StopInMatch, DurableInv
  <2>3. QED
    BY <1>1, <2>1, <2>2
<1>11. QED
  BY <1>3, <1>4, <1>5, <1>6, <1>7, <1>8, <1>9, <1>10 DEF Next, Progress

\* The row is in the database before the acknowledgement leaves, and no write,
\* conflict, SIGINT or restart takes it out of t2 again.
THEOREM AcksAreDurable == Spec => []AckedIsDurable
<1>1. Init => DurableInv
  BY DEF Init, EmptyDB, DurableInv, InBoth, InT1, Holds, Acked
<1>2. IInv /\ DurableInv /\ [Next]_vars => DurableInv'
  BY DurableStep
<1>3. DurableInv => AckedIsDurable
  BY DEF DurableInv, AckedIsDurable
<1>4. QED
  BY Inductive, <1>1, <1>2, <1>3, PTL DEF Spec
=============================================================================
