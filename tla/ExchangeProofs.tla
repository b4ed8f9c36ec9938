--------------------------- MODULE ExchangeProofs ----------------------------
(***************************************************************************)
(* Proofs about Exchange: matching engine and book publisher go through    *)
(* the same books (SameBooks), whatever requests come, whoever is ahead,   *)
(* and wherever either ends; clients are shown books that are not crossed, *)
(* each price on one line and the better ones first (PublishedUncrossed,   *)
(* LevelsOrdered), and in the end the engine's books (ClientsSeeTheBook).  *)
(* Both keep to their types without any of the hypotheses (ExTypeOK).      *)
(*                                                                         *)
(* What a request or the rows of t1 leave behind is the end of a path of   *)
(* steps, each of which the view before it determines.  Both processes     *)
(* walk such paths at their own pace; from the same view and the same      *)
(* request they come to the same end.                                      *)
(***************************************************************************)
EXTENDS Exchange, MatchEngProofs

-----------------------------------------------------------------------------
(* What one step makes of rows still to be loaded, symbol and view *)

State(rows, s, books, orders) ==
  [todo |-> rows, sym |-> s, books |-> books, orders |-> orders]

Entered(orders, o) == IF IsMarket(o) THEN orders ELSE [orders EXCEPT ![o.order_id] = o]

TradesIn(book) == Crosses(book) /\ TradeQuantity(book) > 0

Matched(books, s) == [books EXCEPT ![s] = MatchedBook(@)]

\* What the loop of Update makes of the map of orders.
Updated(orders, book) ==
  LET q == TradeQuantity(book)
      A == Rest(HeadSell(book), q)
      B == Rest(HeadBuy(book), q)
  IN  Kept(Kept([orders EXCEPT ![A.order_id] = None, ![B.order_id] = None], A), B)

\* The next step: a row is loaded, or Match is called.
Continue(x) ==
  IF x.sym = None
  THEN State(Tail(x.todo), Head(x.todo).symbol, BooksWith(x.books, Head(x.todo)),
             Entered(x.orders, Head(x.todo)))
  ELSE IF TradesIn(x.books[x.sym])
       THEN State(x.todo, x.sym, Matched(x.books, x.sym),
                  Updated(x.orders, x.books[x.sym]))
       ELSE State(x.todo, None, Matched(x.books, x.sym), x.orders)

Done(x) == x.sym = None /\ x.todo = << >>

\* Steps lead from x to y: U is what lies between, and y is in every part of it
\* that has x and, of all but y, the next.
Path(x, y) ==
  \E U : /\ x \in U /\ y \in U
         /\ \A z \in U : z = y \/ (~Done(z) /\ Continue(z) \in U)
         /\ \A S \in SUBSET U :
               x \in S /\ (\A z \in S : z = y \/ Continue(z) \in S) => y \in S

LEMMA PathHere == ASSUME NEW x PROVE Path(x, x)
<1>1. /\ x \in {x}
      /\ \A z \in {x} : z = x \/ (~Done(z) /\ Continue(z) \in {x})
      /\ \A S \in SUBSET {x} :
            x \in S /\ (\A z \in S : z = x \/ Continue(z) \in S) => x \in S
  OBVIOUS
<1>2. QED
  BY <1>1 DEF Path

LEMMA PathOn ==
  ASSUME NEW x, NEW y, Path(x, y), ~Done(y)
  PROVE  Path(x, Continue(y))
<1>1. PICK U : /\ x \in U /\ y \in U
               /\ \A z \in U : z = y \/ (~Done(z) /\ Continue(z) \in U)
               /\ \A S \in SUBSET U :
                     x \in S /\ (\A z \in S : z = y \/ Continue(z) \in S) => y \in S
  BY DEF Path
<1> DEFINE w == Continue(y)
           V == U \cup {w}
<1>2. x \in V /\ w \in V
  BY <1>1
<1>3. ASSUME NEW z \in V PROVE z = w \/ (~Done(z) /\ Continue(z) \in V)
  BY <1>1, <1>3
<1>4. ASSUME NEW S \in SUBSET V, x \in S, \A z \in S : z = w \/ Continue(z) \in S
      PROVE  w \in S
  <2>1. SUFFICES ASSUME w \notin S PROVE FALSE
    OBVIOUS
  <2>2. S \in SUBSET U /\ (\A z \in S : z = y \/ Continue(z) \in S)
    BY <1>4, <2>1
  <2>3. y \in S
    BY <1>1, <1>4, <2>2
  <2>4. y = w \/ Continue(y) \in S
    BY <1>4, <2>3
  <2>5. QED
    BY <2>1, <2>3, <2>4
<1>5. QED
  BY <1>2, <1>3, <1>4 DEF Path

\* Two paths from one place that both come to an end come to the same one.
LEMMA OneEnd ==
  ASSUME NEW x, NEW y, NEW z, Path(x, y), Path(x, z), Done(y), Done(z)
  PROVE  y = z
<1>1. PICK U : /\ x \in U /\ y \in U
               /\ \A w \in U : w = y \/ (~Done(w) /\ Continue(w) \in U)
  BY DEF Path
<1>2. PICK V : /\ x \in V /\ z \in V
               /\ \A w \in V : w = z \/ (~Done(w) /\ Continue(w) \in V)
               /\ \A S \in SUBSET V :
                     x \in S /\ (\A w \in S : w = z \/ Continue(w) \in S) => z \in S
  BY DEF Path
<1> DEFINE S == U \cap V
<1>3. S \in SUBSET V /\ x \in S
  BY <1>1, <1>2
<1>4. ASSUME NEW w \in S PROVE w = z \/ Continue(w) \in S
  <2>1. CASE Done(w)
    BY <1>2, <2>1
  <2>2. CASE ~Done(w)
    BY <1>1, <1>2, <2>2
  <2>3. QED
    BY <2>1, <2>2
<1>5. z \in S
  BY <1>2, <1>3, <1>4
<1>6. QED
  BY <1>1, <1>5
-----------------------------------------------------------------------------
(* The steps of the two processes *)

EState == State(todo, sym, mybooks, myorders)
PState == State(ptodo, psym, pubbooks, puborders)

LEMMA EngineLoads ==
  ASSUME IInv, LoadRow
  PROVE  EState' = Continue(EState) /\ ~Done(EState) /\ sym' # None
<1>1. sym = None /\ todo # << >>
  BY DEF LoadRow, IInv, ControlInv, AtRest
<1>2. Head(todo).symbol # None
  <2>1. todo \in Seq(Order)
    BY TypesFollow DEF TypeOK
  <2>2. Head(todo) \in Order
    BY <1>1, <2>1
  <2>3. QED
    BY <2>2, NoneIsNone DEF Order
<1>3. QED
  BY <1>1, <1>2 DEF LoadRow, Accept, EState, Continue, Done, State, Entered

LEMMA EngineTrades ==
  ASSUME IInv, MatchTrades
  PROVE  EState' = Continue(EState) /\ ~Done(EState) /\ sym' # None
<1>1. sym # None
  BY NoneIsNone DEF MatchTrades, IInv, ControlInv
<1>2. myorders' = Updated(myorders, mybooks[sym])
  BY DEF MatchTrades, UpdateOrders, ReportOf, Updated
<1>3. TradesIn(mybooks[sym]) /\ mybooks' = Matched(mybooks, sym)
  BY DEF MatchTrades, Match, Trades, TradesIn, Matched
<1>4. QED
  BY <1>1, <1>2, <1>3 DEF MatchTrades, EState, Continue, Done, State

LEMMA EngineEndsMatch ==
  ASSUME IInv, MatchEnds
  PROVE  EState' = Continue(EState) /\ ~Done(EState) /\ sym' = None
<1>1. sym # None
  BY NoneIsNone DEF MatchEnds, IInv, ControlInv
<1>2. QED
  BY <1>1 DEF MatchEnds, Match, Trades, EState, Continue, Done, State, TradesIn, Matched

\* The publisher's operators on books are the engine's.
LEMMA SameAdd == ASSUME NEW s, NEW o PROVE P!AddOrder(s, o) = AddOrder(s, o)
  BY DEF P!AddOrder, P!Place, P!FirstOutside, P!Ahead, P!BetterLevel, P!SameLevel,
         P!IsMarket, P!InsertAt, P!Min,
         AddOrder, Place, FirstOutside, Ahead, BetterLevel, SameLevel, IsMarket,
         InsertAt, Min

LEMMA SameHolds == ASSUME NEW s, NEW id PROVE P!Holds(s, id) <=> Holds(s, id)
  BY DEF P!Holds, Holds

LEMMA SameRemove ==
  ASSUME NEW s, NEW id PROVE P!RemoveOrder(s, id) = RemoveOrder(s, id)
  BY DEF P!RemoveOrder, P!PositionOf, P!FirstOutside, P!Holds, P!RemoveAt, P!Min,
         RemoveOrder, PositionOf, FirstOutside, Holds, RemoveAt, Min

LEMMA SameBooksWith ==
  ASSUME NEW b, NEW o
  PROVE  P!BooksWith(b, o) = BooksWith(b, o) /\ P!BooksWithout(b, o) = BooksWithout(b, o)
  BY SameAdd, SameRemove
  DEF P!BooksWith, P!BooksWithout, BooksWith, BooksWithout

LEMMA SameCrosses ==
  ASSUME NEW b
  PROVE  /\ P!Crosses(b) <=> Crosses(b)
         /\ P!TradeQuantity(b) = TradeQuantity(b)
         /\ P!HeadBuy(b) = HeadBuy(b) /\ P!HeadSell(b) = HeadSell(b)
  BY DEF P!Crosses, P!EmptySide, P!IsMarket, P!HeadBuy, P!HeadSell, P!TradeQuantity,
         Crosses, EmptySide, IsMarket, HeadBuy, HeadSell, TradeQuantity

LEMMA SameRest == ASSUME NEW o, NEW q PROVE P!Rest(o, q) = Rest(o, q)
  BY DEF P!Rest, Rest

LEMMA SameMatched == ASSUME NEW b PROVE P!MatchedBook(b) = MatchedBook(b)
<1>1. \A s, q : P!Executed(s, q) = Executed(s, q)
  BY SameAdd, SameRest DEF P!Executed, Executed
<1>2. \A s : P!PopMarketLevel(s) = PopMarketLevel(s)
  BY DEF P!PopMarketLevel, P!FirstOutside, P!IsMarket, P!Min,
         PopMarketLevel, FirstOutside, IsMarket, Min
<1>3. \A side : P!MatchedSide(b, side) = MatchedSide(b, side)
  BY <1>1, <1>2, SameCrosses DEF P!MatchedSide, P!EmptySide, MatchedSide, EmptySide
<1>4. QED
  BY <1>3 DEF P!MatchedBook, P!Sides, MatchedBook, Sides

LEMMA SameKept == ASSUME NEW m, NEW o PROVE P!Kept(m, o) = Kept(m, o)
  BY DEF P!Kept, Kept

LEMMA SameUpdate ==
  ASSUME NEW s, P!UpdateOrders(P!ReportOf(s))
  PROVE  puborders' = Updated(puborders, pubbooks[s])
<1> DEFINE b == pubbooks[s]
           q == TradeQuantity(b)
           A == Rest(HeadSell(b), q)
           B == Rest(HeadBuy(b), q)
           erased == [puborders EXCEPT ![A.order_id] = None, ![B.order_id] = None]
<1>1. P!ReportOf(s).orderA = A /\ P!ReportOf(s).orderB = B
  BY SameCrosses, SameRest DEF P!ReportOf
<1>2. puborders' = P!Kept(P!Kept(erased, A), B)
  BY <1>1 DEF P!UpdateOrders
<1>3. QED
  BY <1>2, SameKept DEF Updated

LEMMA PublisherLoads ==
  ASSUME P!LoadRow, psym = None, ptodo \in Seq(Order)
  PROVE  PState' = Continue(PState) /\ ~Done(PState) /\ psym' # None
<1>1. Head(ptodo).symbol # None /\ ptodo # << >>
  <2>1. ptodo # << >>
    BY DEF P!LoadRow
  <2>2. Head(ptodo) \in Order
    BY <2>1
  <2>3. QED
    BY <2>1, <2>2, NoneIsNone DEF Order
<1>2. /\ pubbooks' = BooksWith(pubbooks, Head(ptodo))
      /\ puborders' = Entered(puborders, Head(ptodo))
  BY SameBooksWith DEF P!LoadRow, P!Accept, P!IsMarket, IsMarket, Entered
<1>3. QED
  BY <1>1, <1>2 DEF P!LoadRow, PState, Continue, Done, State

LEMMA PublisherTrades ==
  ASSUME P!MatchTrades, psym # None
  PROVE  PState' = Continue(PState) /\ ~Done(PState) /\ psym' # None
<1>1. TradesIn(pubbooks[psym])
  BY SameCrosses DEF P!MatchTrades, P!Trades, TradesIn
<1>2. pubbooks' = Matched(pubbooks, psym)
  BY SameMatched DEF P!MatchTrades, P!Match, Matched
<1>3. puborders' = Updated(puborders, pubbooks[psym])
  BY SameUpdate DEF P!MatchTrades
<1>4. QED
  BY <1>1, <1>2, <1>3 DEF P!MatchTrades, PState, Continue, Done, State

LEMMA PublisherEndsMatch ==
  ASSUME P!MatchEnds, psym # None
  PROVE  PState' = Continue(PState) /\ ~Done(PState) /\ psym' = None
<1>1. ~TradesIn(pubbooks[psym])
  BY SameCrosses DEF P!MatchEnds, P!Trades, TradesIn
<1>2. pubbooks' = Matched(pubbooks, psym) /\ puborders' = puborders
  BY SameMatched DEF P!MatchEnds, P!Match, Matched
<1>3. QED
  BY <1>1, <1>2 DEF P!MatchEnds, PState, Continue, Done, State
-----------------------------------------------------------------------------
(* What a request makes of a view *)

\* The quantity that the overrun leaves is the same in both processes.
OneJunk == \E q : JunkQuantities = {q}
Junk == CHOOSE q \in JunkQuantities : TRUE

SymbolOf(orders, id) == IF orders[id] # None THEN orders[id].symbol ELSE None

Rests(books, orders, id) ==
  orders[id] # None /\ Holds(books[orders[id].symbol][orders[id].buysell], id)

Changed(o, price, q) == [o EXCEPT !.price = price, !.quantity = q]
Amended(o, price) == Changed(o, price, Junk)

AfterNew(r, books, orders) ==
  IF r.filled THEN State(<< >>, r.order.symbol, BooksWith(books, r.order),
                         Entered(orders, r.order))
  ELSE State(<< >>, r.order.symbol, books, orders)

AfterModify(r, books, orders) ==
  LET o == Amended(orders[r.order_id], r.price)
  IN  State(<< >>, SymbolOf(orders, r.order_id),
            BooksWith(BooksWithout(books, orders[r.order_id]), o),
            [orders EXCEPT ![r.order_id] = o])

AfterCancel(r, books, orders) ==
  State(<< >>, SymbolOf(orders, r.order_id), BooksWithout(books, orders[r.order_id]),
        [orders EXCEPT ![r.order_id] = None])

AfterRequest(r, view) ==
  IF r.type = "NEW" THEN AfterNew(r, view[1], view[2])
  ELSE IF ~Rests(view[1], view[2], r.order_id)
       THEN State(<< >>, SymbolOf(view[2], r.order_id), view[1], view[2])
       ELSE IF r.type = "MODIFY" THEN AfterModify(r, view[1], view[2])
       ELSE AfterCancel(r, view[1], view[2])

EView == <<mybooks, myorders>>
PView == <<pubbooks, puborders>>

\* The engine reads a request and does as AfterRequest says.
Reads(r) ==
  /\ pc = "idle" /\ pc' = "ack"
  /\ requests' = Append(requests, r)
  /\ State(<< >>, sym', mybooks', myorders') = AfterRequest(r, EView)
  /\ UNCHANGED <<todo, writetodatabase>>

LEMMA ReadNew ==
  ASSUME ProcessNew
  PROVE  \E r : Reads(r)
<1>1. PICK o : AcceptOrder(o) \/ RejectOrder(o)
  BY DEF ProcessNew
<1>2. CASE AcceptOrder(o)
  <2> DEFINE r == [type |-> "NEW", order |-> o, filled |-> TRUE]
  <2>1. AfterRequest(r, EView) = State(<< >>, o.symbol, BooksWith(mybooks, o),
                                       Entered(myorders, o))
    BY DEF AfterRequest, AfterNew, EView
  <2>2. Reads(r)
    BY <1>2, <2>1 DEF AcceptOrder, Receive, Accept, Entered, Reads
  <2>3. QED
    BY <2>2
<1>3. CASE RejectOrder(o)
  <2> DEFINE r == [type |-> "NEW", order |-> o, filled |-> FALSE]
  <2>1. AfterRequest(r, EView) = State(<< >>, o.symbol, mybooks, myorders)
    BY DEF AfterRequest, AfterNew, EView
  <2>2. Reads(r)
    BY <1>3, <2>1 DEF RejectOrder, Receive, viewVars, Reads
  <2>3. QED
    BY <2>2
<1>4. QED
  BY <1>1, <1>2, <1>3

LEMMA JunkIsOne == ASSUME OneJunk PROVE \A q \in JunkQuantities : q = Junk
  BY DEF OneJunk, Junk

LEMMA RestingRests == \A id : Resting(id) <=> Rests(mybooks, myorders, id)
  BY DEF Resting, Known, Rests

LEMMA ReadModify ==
  ASSUME OneJunk, ProcessModify, pc' # "down"
  PROVE  \E r : Reads(r)
<1>1. PICK id, price, quantity :
           \/ ModifyUnknown(id, price, quantity) \/ ModifyGone(id, price, quantity)
           \/ ModifyOrder(id, price, quantity) \/ DieInModify(id, price, quantity)
  BY DEF ProcessModify
<1> DEFINE r == Modification(id, price, quantity)
<1>2. r.type = "MODIFY" /\ r.order_id = id /\ r.price = price
  BY DEF Modification
<1>3. CASE ModifyUnknown(id, price, quantity)
  <2>1. AfterRequest(r, EView) = State(<< >>, None, mybooks, myorders)
    BY <1>2, <1>3 DEF AfterRequest, EView, Rests, SymbolOf, ModifyUnknown, Known
  <2>2. Reads(r)
    BY <1>3, <2>1 DEF ModifyUnknown, Receive, viewVars, Reads
  <2>3. QED
    BY <2>2
<1>4. CASE ModifyGone(id, price, quantity)
  <2>1. AfterRequest(r, EView) = State(<< >>, myorders[id].symbol, mybooks, myorders)
    BY <1>2, <1>4, RestingRests
    DEF AfterRequest, EView, SymbolOf, ModifyGone, Known
  <2>2. Reads(r)
    BY <1>4, <2>1 DEF ModifyGone, Receive, viewVars, Reads
  <2>3. QED
    BY <2>2
<1>5. CASE ModifyOrder(id, price, quantity)
  <2> DEFINE o == Amended(myorders[id], price)
  <2>1. Rests(mybooks, myorders, id) /\ myorders[id] # None
    BY <1>5, RestingRests DEF ModifyOrder, Rests
  <2>2. AfterRequest(r, EView) =
          State(<< >>, myorders[id].symbol,
                BooksWith(BooksWithout(mybooks, myorders[id]), o),
                [myorders EXCEPT ![id] = o])
    BY <1>2, <2>1 DEF AfterRequest, AfterModify, EView, SymbolOf
  <2>3. PICK q \in JunkQuantities : Replace(id, price, q)
    BY <1>5 DEF ModifyOrder
  <2>4. Modified(id, price, q) = o
    BY <2>3, JunkIsOne DEF Modified, Amended, Changed
  <2>5. /\ mybooks' = BooksWith(BooksWithout(mybooks, myorders[id]), o)
        /\ myorders' = [myorders EXCEPT ![id] = o]
    BY <2>3, <2>4 DEF Replace
  <2> HIDE DEF o
  <2>6. Reads(r)
    BY <1>5, <2>2, <2>5 DEF ModifyOrder, Receive, Reads
  <2>7. QED
    BY <2>6
<1>6. CASE DieInModify(id, price, quantity)
  BY <1>6 DEF DieInModify, Exit
<1>7. QED
  BY <1>1, <1>3, <1>4, <1>5, <1>6

LEMMA ReadCancel ==
  ASSUME ProcessCancel
  PROVE  \E r : Reads(r)
<1>1. PICK id : CancelUnknown(id) \/ CancelOrder(id)
  BY DEF ProcessCancel
<1> DEFINE r == [type |-> "CANCEL", order_id |-> id]
<1>2. CASE CancelUnknown(id)
  <2>1. AfterRequest(r, EView) =
          State(<< >>, SymbolOf(myorders, id), mybooks, myorders)
    BY <1>2, RestingRests DEF AfterRequest, EView, CancelUnknown
  <2>2. Reads(r)
    BY <1>2, <2>1 DEF CancelUnknown, Receive, viewVars, Reads, Known, SymbolOf
  <2>3. QED
    BY <2>2
<1>3. CASE CancelOrder(id)
  <2>1. Rests(mybooks, myorders, id) /\ myorders[id] # None
    BY <1>3, RestingRests DEF CancelOrder, Rests
  <2>2. AfterRequest(r, EView) =
          State(<< >>, myorders[id].symbol, BooksWithout(mybooks, myorders[id]),
                [myorders EXCEPT ![id] = None])
    BY <2>1 DEF AfterRequest, AfterCancel, EView, SymbolOf
  <2>3. Reads(r)
    BY <1>3, <2>2 DEF CancelOrder, Receive, Withdraw, Reads
  <2>4. QED
    BY <2>3
<1>4. QED
  BY <1>1, <1>2, <1>3

\* The same of the publisher.
Takes(r) ==
  /\ ppc = "idle"
  /\ ppc' = IF psym' = None THEN "idle" ELSE "match"
  /\ seen' = Append(seen, r)
  /\ State(<< >>, psym', pubbooks', puborders') = AfterRequest(r, PView)
  /\ UNCHANGED <<ptodo, loaded, semid5>>

LEMMA TakeRequest ==
  ASSUME NEW r, P!Process(r), r.type = "MODIFY" => OneJunk
  PROVE  Takes(r)
<1> DEFINE id == r.order_id
<1>1. CASE P!ProcessNew(r)
  <2>1. /\ r.type = "NEW"
        /\ psym' = r.order.symbol
        /\ pubbooks' = IF r.filled THEN BooksWith(pubbooks, r.order) ELSE pubbooks
        /\ puborders' = IF r.filled THEN Entered(puborders, r.order) ELSE puborders
    BY <1>1, SameBooksWith
    DEF P!ProcessNew, P!Take, P!Accept, P!viewVars, P!IsMarket, IsMarket, Entered
  <2>2. State(<< >>, psym', pubbooks', puborders') = AfterRequest(r, PView)
    BY <2>1 DEF AfterRequest, AfterNew, PView
  <2>3. QED
    BY <1>1, <2>2 DEF P!ProcessNew, P!Take, Takes
<1>2. ASSUME P!ProcessKnown(r)
      PROVE  /\ psym' = SymbolOf(puborders, id)
             /\ ppc = "idle" /\ ppc' = IF psym' = None THEN "idle" ELSE "match"
             /\ seen' = Append(seen, r) /\ UNCHANGED <<ptodo, loaded, semid5>>
  BY <1>2 DEF P!ProcessKnown, P!Known, P!Take, SymbolOf
<1>3. P!Resting(id) <=> Rests(pubbooks, puborders, id)
  BY SameHolds DEF P!Resting, P!Known, Rests
<1>4. CASE P!ProcessModify(r)
  <2>1. P!ProcessKnown(r) /\ r.type = "MODIFY"
    BY <1>4 DEF P!ProcessModify
  <2>2. CASE ~Rests(pubbooks, puborders, id)
    <3>1. pubbooks' = pubbooks /\ puborders' = puborders
      BY <1>3, <1>4, <2>2 DEF P!ProcessModify, P!viewVars
    <3>2. AfterRequest(r, PView) =
            State(<< >>, SymbolOf(puborders, id), pubbooks, puborders)
      BY <2>1, <2>2 DEF AfterRequest, PView
    <3>3. QED
      BY <1>2, <2>1, <3>1, <3>2 DEF Takes
  <2>3. CASE Rests(pubbooks, puborders, id)
    <3> DEFINE o == Amended(puborders[id], r.price)
    <3>1. PICK q \in JunkQuantities : P!Replace(id, r.price, q)
      BY <1>3, <1>4, <2>3 DEF P!ProcessModify
    <3>2. P!Modified(id, r.price, q) = o
      BY <2>1, <3>1, JunkIsOne DEF P!Modified, Amended, Changed
    <3>3. /\ pubbooks' = BooksWith(BooksWithout(pubbooks, puborders[id]), o)
          /\ puborders' = [puborders EXCEPT ![id] = o]
      BY <3>1, <3>2, SameBooksWith DEF P!Replace
    <3>4. AfterRequest(r, PView) =
            State(<< >>, SymbolOf(puborders, id),
                  BooksWith(BooksWithout(pubbooks, puborders[id]), o),
                  [puborders EXCEPT ![id] = o])
      BY <2>1, <2>3 DEF AfterRequest, AfterModify, PView
    <3> HIDE DEF o
    <3>5. QED
      BY <1>2, <2>1, <3>3, <3>4 DEF Takes
  <2>4. QED
    BY <2>2, <2>3
<1>5. CASE P!ProcessCancel(r)
  <2>1. P!ProcessKnown(r) /\ r.type = "CANCEL"
    BY <1>5 DEF P!ProcessCancel
  <2>2. CASE ~Rests(pubbooks, puborders, id)
    <3>1. pubbooks' = pubbooks /\ puborders' = puborders
      BY <1>3, <1>5, <2>2 DEF P!ProcessCancel, P!viewVars
    <3>2. AfterRequest(r, PView) =
            State(<< >>, SymbolOf(puborders, id), pubbooks, puborders)
      BY <2>1, <2>2 DEF AfterRequest, PView
    <3>3. QED
      BY <1>2, <2>1, <3>1, <3>2 DEF Takes
  <2>3. CASE Rests(pubbooks, puborders, id)
    <3>1. /\ pubbooks' = BooksWithout(pubbooks, puborders[id])
          /\ puborders' = [puborders EXCEPT ![id] = None]
      BY <1>3, <1>5, <2>3, SameBooksWith DEF P!ProcessCancel, P!Withdraw
    <3>2. AfterRequest(r, PView) =
            State(<< >>, SymbolOf(puborders, id),
                  BooksWithout(pubbooks, puborders[id]),
                  [puborders EXCEPT ![id] = None])
      BY <2>1, <2>3 DEF AfterRequest, AfterCancel, PView
    <3>3. QED
      BY <1>2, <2>1, <3>1, <3>2 DEF Takes
  <2>4. QED
    BY <2>2, <2>3
<1>6. QED
  BY <1>1, <1>4, <1>5 DEF P!Process
-----------------------------------------------------------------------------
(* The invariant *)

\* How many requests of this life the engine has read; its kth one.
ReadCount == Len(requests) - base
ReadAt(k) == requests[base + k]

EmptyBooks == [s \in Symbols |-> EmptyBook]
NoOrders == [id \in Ids |-> None]

\* Where a load of t1 begins, and a view between two requests.
Begin == State(db.t1, None, EmptyBooks, NoOrders)
RestState(view) == State(<< >>, None, view[1], view[2])

IsSequence(s) == \E S : s \in Seq(S)

IsPair(view) == view = <<view[1], view[2]>>

HistTypes ==
  /\ IsSequence(mehist) /\ IsSequence(bphist) /\ IsSequence(seen)
  /\ \A k \in 1 .. Len(mehist) : IsPair(mehist[k])
  /\ \A k \in 1 .. Len(bphist) : IsPair(bphist[k])
  /\ base \in Nat /\ base <= Len(requests)
  /\ semid5 \in Nat

Busy == {"ack", "match", "trade", "report"}

\* Where the engine is says how much it has recorded, and what leads to its view.
EngineInv ==
  /\ pc \in {"down", "load", "wait"} => writetodatabase = 0
  /\ pc \in {"idle", "ack"} => writetodatabase = 1
  /\ pc = "down" => EView = <<EmptyBooks, NoOrders>>
  /\ writetodatabase = 1 => todo = << >> /\ mehist # << >>
  /\ pc = "load" \/ (pc \in Busy /\ writetodatabase = 0) => mehist = << >>
  /\ pc \in {"wait", "idle"} => /\ todo = << >> /\ Len(mehist) = ReadCount + 1
                                /\ EView = mehist[Len(mehist)]
  /\ pc \in Busy /\ writetodatabase = 1 =>
       /\ Len(mehist) = ReadCount
       /\ Path(AfterRequest(ReadAt(ReadCount), mehist[Len(mehist)]), EState)
  /\ Len(mehist) <= ReadCount + 1

PublisherInv ==
  /\ ppc \in {"load", "idle", "match", "again", "down"}
  /\ ppc = "down" => psym = None /\ PView = <<EmptyBooks, NoOrders>>
  /\ ppc = "load" => psym = None /\ ~loaded
  /\ ppc \in {"match", "again"} => psym # None
  /\ ppc # "down" /\ ~loaded => ptodo \in Seq(Order) /\ seen = << >> /\ bphist = << >>
  /\ ppc # "down" /\ loaded => ptodo = << >> /\ bphist # << >>
  /\ ppc = "idle" => /\ loaded /\ psym = None /\ Len(bphist) = Len(seen) + 1
                     /\ PView = bphist[Len(bphist)]
  /\ ppc \in {"match", "again"} /\ loaded =>
       /\ Len(bphist) = Len(seen)
       /\ Path(AfterRequest(seen[Len(seen)], bphist[Len(bphist)]), PState)
  /\ bphist # << >> => Len(bphist) <= Len(seen) + 1

\* The engine handles requests only after the publisher's load.
MeetInv ==
  /\ writetodatabase = 1 => bphist # << >>
  /\ bphist = << >> => ReadCount = 0
  /\ pc # "down" /\ writetodatabase = 0 =>
       ReadCount = 0 /\ (semid5 = 0 <=> bphist = << >>)

\* Both loads begin with the same rows, which nobody writes meanwhile.
FirstInv ==
  /\ pc # "down" /\ mehist = << >> => Path(Begin, EState)
  /\ ppc # "down" /\ ~loaded => Path(Begin, PState)
  /\ mehist # << >> /\ bphist = << >> => Path(Begin, RestState(mehist[1]))
  /\ mehist = << >> /\ bphist # << >> => Path(Begin, RestState(bphist[1]))

\* Each view recorded is what its request makes of the one before.
HistInv ==
  /\ \A k \in 1 .. Len(mehist) - 1 :
        Path(AfterRequest(ReadAt(k), mehist[k]), RestState(mehist[k + 1]))
  /\ \A k \in 1 .. Len(bphist) - 1 :
        Path(AfterRequest(seen[k], bphist[k]), RestState(bphist[k + 1]))

AgreeInv ==
  /\ bphist # << >> =>
       \A k \in 1 .. Len(seen) : k <= ReadCount => ReadAt(k) = seen[k]
  /\ \A k \in 1 .. Len(mehist) : k <= Len(bphist) => mehist[k] = bphist[k]

ReplicaInv ==
  HistTypes /\ EngineInv /\ PublisherInv /\ MeetInv /\ FirstInv /\ HistInv /\ AgreeInv

\* What Append makes of a sequence, whatever it holds.
LEMMA Appended ==
  ASSUME NEW s, IsSequence(s), NEW e
  PROVE  /\ IsSequence(Append(s, e)) /\ Append(s, e) # << >>
         /\ Len(s) \in Nat /\ Len(Append(s, e)) = Len(s) + 1
         /\ Append(s, e)[Len(s) + 1] = e
         /\ \A i \in 1 .. Len(s) : Append(s, e)[i] = s[i]
<1>1. PICK S : s \in Seq(S)
  BY DEF IsSequence
<1>2. s \in Seq(S \cup {e})
  BY <1>1
<1>3. Append(s, e) \in Seq(S \cup {e})
  BY <1>2
<1>4. QED
  BY <1>2, <1>3 DEF IsSequence

LEMMA EmptyOrNot ==
  ASSUME NEW s, IsSequence(s)
  PROVE  Len(s) \in Nat /\ (Len(s) = 0 <=> s = << >>)
<1>1. PICK S : s \in Seq(S)
  BY DEF IsSequence
<1>2. QED
  BY <1>1

LEMMA EmptyIsSequence == IsSequence(<< >>) /\ Len(<< >>) = 0
<1>1. << >> \in Seq({})
  OBVIOUS
<1>2. QED
  BY <1>1 DEF IsSequence

LEMMA ReplicasBegin == ExInit => ReplicaInv
<1> SUFFICES ASSUME ExInit PROVE ReplicaInv
  OBVIOUS
<1>1. /\ mehist = << >> /\ bphist = << >> /\ seen = << >> /\ base = 0
      /\ requests = << >> /\ todo = << >> /\ db.t1 = << >> /\ semid5 = 0
      /\ pc = "load" /\ writetodatabase = 0 /\ sym = None
      /\ mybooks = EmptyBooks /\ myorders = NoOrders
      /\ pubbooks = EmptyBooks /\ puborders = NoOrders
      /\ ppc = "down" /\ psym = None /\ loaded = FALSE
  BY DEF ExInit, Init, ViewInit, EmptyDB, P!PubInit, P!ViewInit, P!EmptyBook, P!Sides,
         EmptyBook, Sides, EmptyBooks, NoOrders
<1>2. ReadCount = 0 /\ Len(<< >>) = 0
  BY <1>1, EmptyIsSequence DEF ReadCount
<1>3. HistTypes
  BY <1>1, <1>2, EmptyIsSequence DEF HistTypes
<1>4. EngineInv
  BY <1>1, <1>2 DEF EngineInv, Busy
<1>5. PublisherInv
  BY <1>1 DEF PublisherInv, PView
<1>6. MeetInv
  BY <1>1, <1>2 DEF MeetInv
<1>7. EState = Begin
  BY <1>1 DEF EState, Begin
<1>8. FirstInv
  BY <1>1, <1>7, PathHere DEF FirstInv
<1>9. HistInv /\ AgreeInv
  BY <1>1, <1>2 DEF HistInv, AgreeInv
<1>10. QED
  BY <1>3, <1>4, <1>5, <1>6, <1>8, <1>9 DEF ReplicaInv
-----------------------------------------------------------------------------
(* The engine's own steps *)

\* Any step of a load or of a handler but the first.
EngineWorks ==
  /\ pc \in Busy \cup {"load"}
  /\ pc' \in {"load", "wait", "idle", "match", "trade", "report"}
  /\ EState' = EState \/ (~Done(EState) /\ EState' = Continue(EState))
  /\ pc' \in {"wait", "idle"} => Done(EState')
  /\ pc' \in {"load", "wait"} => writetodatabase = 0
  /\ pc' = "idle" => writetodatabase = 1
  /\ UNCHANGED <<requests, writetodatabase>>
  /\ writetodatabase = 0 => db' = db

LEMMA ProgressWorks ==
  ASSUME IInv, EngineInv, Progress
  PROVE  EngineWorks
<1>1. writetodatabase \in {0, 1}
  BY DEF IInv, RestTypeOK
<1>2. CASE LoadRow
  BY <1>2, EngineLoads DEF LoadRow, EngineWorks, EngineInv, logVars
<1>3. CASE LoadDone
  <2>1. sym = None
    BY <1>3 DEF LoadDone, IInv, ControlInv, AtRest
  <2>2. Done(EState) /\ EState' = EState
    BY <1>3, <2>1 DEF LoadDone, EState, State, Done, viewVars
  <2>3. QED
    BY <1>3, <2>2 DEF LoadDone, EngineWorks, EngineInv, logVars
<1>4. CASE CommunicateAck
  <2>1. writetodatabase = 1 /\ todo = << >>
    BY <1>4 DEF CommunicateAck, EngineInv
  <2>2. EState' = EState /\ (sym = None => Done(EState))
    BY <1>4, <2>1 DEF CommunicateAck, EState, State, Done, viewVars
  <2>3. QED
    BY <1>4, <2>1, <2>2 DEF CommunicateAck, EngineWorks, Busy
<1>5. CASE MatchTrades
  BY <1>5, EngineTrades DEF MatchTrades, WriteMatch, EngineWorks, Busy, logVars
<1>6. CASE MatchEnds
  <2>1. EState' = Continue(EState) /\ ~Done(EState) /\ sym' = None
    BY <1>6, EngineEndsMatch
  <2>2. writetodatabase = 1 => Done(EState')
    BY <1>6, <2>1 DEF EngineInv, MatchEnds, EState, State, Done
  <2>3. QED
    BY <1>1, <1>6, <2>1, <2>2 DEF MatchEnds, WriteMatch, EngineWorks, Busy, logVars
<1>7. CASE CommunicateTrade \/ CommunicateReportingMsg
  BY <1>7 DEF CommunicateTrade, CommunicateReportingMsg, EngineWorks, Busy, EState,
              viewVars
<1>8. QED
  BY <1>2, <1>3, <1>4, <1>5, <1>6, <1>7 DEF Progress
-----------------------------------------------------------------------------
\* Two views at rest at the end of paths from one place are the same.
LEMMA SameRestingView ==
  ASSUME NEW x, NEW v, NEW w, IsPair(v), IsPair(w),
         Path(x, RestState(v)), Path(x, RestState(w))
  PROVE  v = w
<1>1. Done(RestState(v)) /\ Done(RestState(w))
  BY DEF Done, RestState, State
<1>2. RestState(v) = RestState(w)
  BY <1>1, OneEnd
<1>3. v[1] = w[1] /\ v[2] = w[2]
  BY <1>2 DEF RestState, State
<1>4. QED
  BY <1>3 DEF IsPair

LEMMA Counts ==
  ASSUME IInv, HistTypes
  PROVE  /\ Len(requests) \in Nat /\ ReadCount \in Nat
         /\ Len(mehist) \in Nat /\ (Len(mehist) = 0 <=> mehist = << >>)
         /\ Len(bphist) \in Nat /\ (Len(bphist) = 0 <=> bphist = << >>)
         /\ Len(seen) \in Nat /\ (Len(seen) = 0 <=> seen = << >>)
<1>1. requests \in Seq(Request)
  BY DEF IInv, RestTypeOK
<1>2. Len(requests) \in Nat
  BY <1>1
<1>3. QED
  BY <1>2, EmptyOrNot DEF HistTypes, ReadCount

\* The engine has come to rest with a view: if the publisher was there before,
\* it is the view that it had.
LEMMA EngineComesToRest ==
  ASSUME IInv, ReplicaInv, NEW v, IsPair(v), mehist' = Append(mehist, v),
         mehist = << >> => Path(Begin, RestState(v)),
         mehist # << >> => /\ Len(mehist) = ReadCount
                           /\ Path(AfterRequest(ReadAt(ReadCount), mehist[Len(mehist)]),
                                   RestState(v)),
         UNCHANGED <<bphist, seen, requests, base, semid5>>
  PROVE  HistTypes' /\ HistInv' /\ AgreeInv'
<1> DEFINE n == Len(mehist)
<1>1. /\ HistTypes /\ HistInv /\ AgreeInv /\ FirstInv /\ PublisherInv
      /\ n \in Nat /\ Len(bphist) \in Nat /\ Len(seen) \in Nat /\ ReadCount \in Nat
      /\ (n = 0 <=> mehist = << >>) /\ (Len(bphist) = 0 <=> bphist = << >>)
  BY Counts DEF ReplicaInv
<1>2. /\ IsSequence(mehist') /\ Len(mehist') = n + 1 /\ mehist'[n + 1] = v
      /\ \A i \in 1 .. n : mehist'[i] = mehist[i]
  BY <1>1, Appended DEF HistTypes
<1> HIDE DEF n
<1>3. ReadCount' = ReadCount /\ \A k : requests'[base' + k] = ReadAt(k)
  BY DEF ReadCount, ReadAt
<1>4. HistTypes'
  <2>1. \A k \in 1 .. n + 1 : k = n + 1 \/ k \in 1 .. n
    BY <1>1
  <2>2. \A k \in 1 .. Len(mehist') : IsPair(mehist'[k])
    BY <1>1, <1>2, <2>1 DEF HistTypes, n
  <2>3. QED
    BY <1>1, <1>2, <2>2 DEF HistTypes
<1>5. ASSUME NEW k \in 1 .. n
      PROVE  Path(AfterRequest(ReadAt(k), mehist'[k]), RestState(mehist'[k + 1]))
  <2>1. CASE k = n
    BY <1>1, <1>2, <2>1 DEF n
  <2>2. CASE k # n
    <3>1. k \in 1 .. n - 1 /\ k + 1 \in 1 .. n
      BY <1>1, <2>2
    <3>2. QED
      BY <1>1, <1>2, <3>1 DEF HistInv, n
  <2>3. QED
    BY <2>1, <2>2
<1>6. HistInv'
  <2>1. \A k \in 1 .. Len(mehist') - 1 :
           Path(AfterRequest(requests'[base' + k], mehist'[k]), RestState(mehist'[k + 1]))
    BY <1>1, <1>2, <1>3, <1>5
  <2>2. QED
    BY <1>1, <2>1 DEF HistInv, ReadAt
<1>7. ASSUME n + 1 <= Len(bphist) PROVE v = bphist[n + 1]
  <2>1. n + 1 \in 1 .. Len(bphist) /\ IsPair(bphist[n + 1])
    BY <1>1, <1>7 DEF HistTypes
  <2>2. CASE n = 0
    BY <1>1, <2>1, <2>2, SameRestingView DEF FirstInv
  <2>3. CASE n # 0
    <3>1. n \in 1 .. Len(bphist) - 1 /\ n \in 1 .. Len(seen) /\ n = ReadCount
      BY <1>1, <1>7, <2>3 DEF PublisherInv, n
    <3>2. ReadAt(n) = seen[n] /\ mehist[n] = bphist[n]
      <4>1. bphist # << >> /\ n \in 1 .. Len(mehist) /\ n <= Len(bphist)
        BY <1>1, <1>7, <2>3 DEF n
      <4>2. QED
        BY <1>1, <3>1, <4>1 DEF AgreeInv
    <3>3. Path(AfterRequest(seen[n], bphist[n]), RestState(bphist[n + 1]))
      BY <1>1, <3>1 DEF HistInv
    <3>4. Path(AfterRequest(seen[n], bphist[n]), RestState(v))
      BY <1>1, <2>3, <3>1, <3>2 DEF n
    <3>5. QED
      BY <2>1, <3>3, <3>4, SameRestingView
  <2>4. QED
    BY <2>2, <2>3
<1>8. AgreeInv'
  <2>1. ASSUME NEW k \in 1 .. Len(mehist'), k <= Len(bphist)
        PROVE  mehist'[k] = bphist[k]
    <3>1. CASE k = n + 1
      BY <1>2, <1>7, <2>1, <3>1
    <3>2. CASE k # n + 1
      <4>1. k \in 1 .. n
        BY <1>1, <1>2, <2>1, <3>2
      <4>2. QED
        BY <1>1, <1>2, <2>1, <4>1 DEF AgreeInv, n
    <3>3. QED
      BY <3>1, <3>2
  <2>2. QED
    BY <1>1, <1>3, <2>1 DEF AgreeInv, ReadAt
<1>9. QED
  BY <1>4, <1>6, <1>8
-----------------------------------------------------------------------------
LEMMA WorksOnPath ==
  ASSUME EngineWorks, NEW x, Path(x, EState)
  PROVE  Path(x, EState')
<1>1. CASE EState' = EState
  BY <1>1
<1>2. CASE ~Done(EState) /\ EState' = Continue(EState)
  BY <1>2, PathOn
<1>3. QED
  BY <1>1, <1>2 DEF EngineWorks

LEMMA WorkKeeps ==
  ASSUME IInv, ReplicaInv, EngineWorks, EngineRecords,
         UNCHANGED <<pubOwn, semid5, base, bphist>>
  PROVE  ReplicaInv'
<1>1. /\ HistTypes /\ EngineInv /\ PublisherInv /\ MeetInv /\ FirstInv /\ HistInv /\ AgreeInv
      /\ writetodatabase \in {0, 1}
      /\ Len(mehist) \in Nat /\ ReadCount \in Nat /\ (Len(mehist) = 0 <=> mehist = << >>)
  BY Counts DEF ReplicaInv, IInv, RestTypeOK
<1>2. /\ requests' = requests /\ base' = base /\ writetodatabase' = writetodatabase
      /\ ReadCount' = ReadCount /\ (\A k : requests'[base' + k] = ReadAt(k))
      /\ bphist' = bphist /\ seen' = seen /\ semid5' = semid5
  BY DEF EngineWorks, pubOwn, ReadCount, ReadAt
<1>3. PublisherInv'
  BY <1>1 DEF PublisherInv, pubOwn, PState, PView
<1>4. MeetInv'
  BY <1>1, <1>2 DEF MeetInv, EngineWorks, Busy
<1>5. CASE pc' \notin {"wait", "idle"}
  <2>1. mehist' = mehist /\ pc' \in {"load", "match", "trade", "report"}
    BY <1>5 DEF EngineRecords, EngineWorks
  <2>2. HistTypes' /\ HistInv' /\ AgreeInv'
    BY <1>1, <1>2, <2>1 DEF HistTypes, HistInv, AgreeInv, ReadAt, pubOwn
  <2>3. CASE writetodatabase = 0
    <3>1. mehist = << >> /\ Path(Begin, EState) /\ pc # "ack" /\ db' = db
      BY <1>1, <2>3 DEF EngineInv, EngineWorks, FirstInv, Busy
    <3>2. Path(Begin, EState') /\ Begin' = Begin
      BY <3>1, WorksOnPath DEF Begin
    <3>3. EngineInv'
      BY <1>1, <1>2, <2>1, <2>3, <3>1 DEF EngineInv, EngineWorks, Busy
    <3>4. FirstInv'
      BY <1>1, <1>2, <2>1, <3>1, <3>2 DEF FirstInv, pubOwn, PState
    <3>5. QED
      BY <1>3, <1>4, <2>2, <3>3, <3>4 DEF ReplicaInv
  <2>4. CASE writetodatabase = 1
    <3>1. /\ mehist # << >> /\ bphist # << >> /\ pc \in Busy
          /\ Len(mehist) = ReadCount
          /\ Path(AfterRequest(ReadAt(ReadCount), mehist[Len(mehist)]), EState)
      BY <1>1, <2>4 DEF EngineInv, MeetInv, EngineWorks, Busy
    <3>2. Path(AfterRequest(ReadAt(ReadCount), mehist[Len(mehist)]), EState')
      BY <3>1, WorksOnPath
    <3>3. todo' = << >>
      BY <1>1, <2>4 DEF EngineInv, EngineWorks, EState, State, Continue
    <3>4. EngineInv'
      BY <1>1, <1>2, <2>1, <2>4, <3>1, <3>2, <3>3 DEF EngineInv, EngineWorks, ReadAt
    <3>5. FirstInv'
      BY <1>1, <1>2, <2>1, <3>1 DEF FirstInv, PublisherInv, pubOwn
    <3>6. QED
      BY <1>3, <1>4, <2>2, <3>4, <3>5 DEF ReplicaInv
  <2>5. QED
    BY <1>1, <2>3, <2>4
<1>6. CASE pc' \in {"wait", "idle"}
  <2>1. mehist' = Append(mehist, EView')
    BY <1>6 DEF EngineRecords, EngineWorks, Busy, EView
  <2>2. IsPair(EView')
    BY DEF IsPair, EView
  <2>3. EState' = RestState(EView') /\ todo' = << >>
    BY <1>6 DEF EngineWorks, Done, EState, State, RestState, EView
  <2>4. /\ Len(mehist') = Len(mehist) + 1 /\ mehist' # << >>
        /\ mehist'[Len(mehist) + 1] = EView'
        /\ \A i \in 1 .. Len(mehist) : mehist'[i] = mehist[i]
    BY <1>1, <2>1, Appended DEF HistTypes
  <2>5. CASE writetodatabase = 0
    <3>1. mehist = << >> /\ Path(Begin, EState) /\ pc' = "wait" /\ db' = db /\ ReadCount = 0
      BY <1>1, <1>6, <2>5 DEF EngineInv, EngineWorks, FirstInv, MeetInv, Busy
    <3>2. Path(Begin, RestState(EView')) /\ Begin' = Begin
      BY <2>3, <3>1, WorksOnPath DEF Begin
    <3>3. HistTypes' /\ HistInv' /\ AgreeInv'
      BY <1>2, <2>1, <2>2, <3>1, <3>2, EngineComesToRest
    <3>4. EngineInv'
      BY <1>1, <1>2, <2>3, <2>4, <2>5, <3>1 DEF EngineInv, EngineWorks, Busy
    <3>5. FirstInv'
      BY <1>1, <1>2, <2>4, <3>1, <3>2 DEF FirstInv, pubOwn, PState
    <3>6. QED
      BY <1>3, <1>4, <3>3, <3>4, <3>5 DEF ReplicaInv
  <2>6. CASE writetodatabase = 1
    <3>1. /\ mehist # << >> /\ bphist # << >> /\ pc \in Busy /\ pc' = "idle"
          /\ Len(mehist) = ReadCount
          /\ Path(AfterRequest(ReadAt(ReadCount), mehist[Len(mehist)]), EState)
      BY <1>1, <1>6, <2>6 DEF EngineInv, MeetInv, EngineWorks, Busy
    <3>2. Path(AfterRequest(ReadAt(ReadCount), mehist[Len(mehist)]), RestState(EView'))
      BY <2>3, <3>1, WorksOnPath
    <3>3. HistTypes' /\ HistInv' /\ AgreeInv'
      BY <1>2, <2>1, <2>2, <3>1, <3>2, EngineComesToRest
    <3>4. EngineInv'
      BY <1>1, <1>2, <2>3, <2>4, <2>6, <3>1 DEF EngineInv, EngineWorks, Busy
    <3>5. FirstInv'
      BY <1>1, <1>2, <2>4, <3>1 DEF FirstInv, PublisherInv, pubOwn
    <3>6. QED
      BY <1>3, <1>4, <3>3, <3>4, <3>5 DEF ReplicaInv
  <2>7. QED
    BY <1>1, <2>5, <2>6
<1>7. QED
  BY <1>5, <1>6

\* The engine reads a request.
LEMMA ReadKeeps ==
  ASSUME IInv, IInv', ReplicaInv, NEW r, Reads(r), InTurn, EngineRecords,
         UNCHANGED <<pubOwn, semid5, base, bphist>>
  PROVE  ReplicaInv'
<1>1. /\ HistTypes /\ EngineInv /\ PublisherInv /\ MeetInv /\ FirstInv /\ HistInv /\ AgreeInv
      /\ writetodatabase = 1 /\ pc = "idle" /\ pc' = "ack" /\ todo' = << >>
      /\ mehist # << >> /\ bphist # << >> /\ EView = mehist[Len(mehist)]
      /\ Len(mehist) = ReadCount + 1
  BY DEF ReplicaInv, Reads, EngineInv, MeetInv
<1>2. /\ bphist' = bphist /\ seen' = seen /\ semid5' = semid5 /\ base' = base
      /\ mehist' = mehist /\ writetodatabase' = 1
  BY <1>1 DEF EngineRecords, pubOwn, Reads
<1>3. /\ Len(requests) \in Nat /\ base \in Nat /\ base <= Len(requests)
      /\ Len(mehist) \in Nat /\ ReadCount \in Nat
      /\ requests' = Append(requests, r)
  BY <1>1, Counts DEF HistTypes, Reads
<1>4. /\ Len(requests') = Len(requests) + 1 /\ requests'[Len(requests) + 1] = r
      /\ \A i \in 1 .. Len(requests) : requests'[i] = requests[i]
      /\ Last(requests') = r /\ requests' # requests
  <2>1. IsSequence(requests)
    BY DEF IInv, RestTypeOK, IsSequence
  <2>2. QED
    BY <1>3, <2>1, Appended DEF Last
<1>5. ReadCount' = ReadCount + 1 /\ requests'[base' + (ReadCount + 1)] = r
  BY <1>2, <1>3, <1>4 DEF ReadCount
<1>6. ASSUME NEW k \in 1 .. ReadCount PROVE requests'[base' + k] = ReadAt(k)
  <2>1. base + k \in 1 .. Len(requests)
    BY <1>3 DEF ReadCount
  <2>2. QED
    BY <1>2, <1>4, <2>1 DEF ReadAt
<1>7. HistTypes'
  BY <1>1, <1>2, <1>3, <1>4 DEF HistTypes
<1>8. EState' = AfterRequest(r, EView)
  BY <1>1 DEF Reads, EState
<1>9. EngineInv'
  <2>1. Path(AfterRequest(requests'[base' + ReadCount'], mehist'[Len(mehist')]), EState')
    BY <1>1, <1>2, <1>5, <1>8, PathHere
  <2>2. QED
    BY <1>1, <1>2, <1>5, <2>1 DEF EngineInv, Busy, ReadAt
<1>10. PublisherInv'
  BY <1>1 DEF PublisherInv, pubOwn, PState, PView
<1>11. MeetInv'
  BY <1>1, <1>2, <1>5 DEF MeetInv
<1>12. FirstInv'
  BY <1>1, <1>2 DEF FirstInv, PublisherInv, pubOwn
<1>13. HistInv'
  <2>1. \A k \in 1 .. Len(mehist) - 1 : k \in 1 .. ReadCount
    BY <1>1, <1>3
  <2>2. QED
    BY <1>1, <1>2, <1>6, <2>1 DEF HistInv, ReadAt
<1>14. AgreeInv'
  <2>1. ASSUME NEW k \in 1 .. Len(seen), k <= ReadCount + 1
        PROVE  requests'[base' + k] = seen[k]
    <3>1. CASE k = ReadCount + 1
      <4>1. Len(Read) = ReadCount
        BY <1>3 DEF Read, ReadCount, IInv, RestTypeOK
      <4>2. Len(Read) < Len(seen)
        BY <1>3, <3>1, <4>1
      <4>3. r = seen[ReadCount + 1]
        BY <1>4, <4>1, <4>2 DEF InTurn
      <4>4. QED
        BY <1>5, <3>1, <4>3
    <3>2. CASE k # ReadCount + 1
      <4>1. k \in 1 .. ReadCount
        BY <1>3, <2>1, <3>2
      <4>2. QED
        BY <1>1, <1>6, <4>1 DEF AgreeInv
    <3>3. QED
      BY <3>1, <3>2
  <2>2. QED
    BY <1>1, <1>2, <1>5, <2>1 DEF AgreeInv, ReadAt
<1>15. QED
  BY <1>7, <1>9, <1>10, <1>11, <1>12, <1>13, <1>14 DEF ReplicaInv
-----------------------------------------------------------------------------
\* The engine ends; a request may have been read just before.
LEMMA ExitKeeps ==
  ASSUME IInv, IInv', ReplicaInv, Exit, pc # "down",
         \/ requests' = requests /\ (writetodatabase = 0 => db' = db)
         \/ pc = "idle" /\ \E r : requests' = Append(requests, r),
         InTurn \/ requests' = requests,
         UNCHANGED <<pubOwn, semid5, base, mehist, bphist>>
  PROVE  ReplicaInv'
<1>1. /\ HistTypes /\ EngineInv /\ PublisherInv /\ MeetInv /\ FirstInv /\ HistInv /\ AgreeInv
      /\ mehist' = mehist /\ bphist' = bphist /\ seen' = seen /\ semid5' = semid5
      /\ base' = base
      /\ pc' = "down" /\ writetodatabase' = 0
  BY DEF ReplicaInv, Exit, pubOwn
<1>2. /\ Len(requests) \in Nat /\ base \in Nat /\ base <= Len(requests)
      /\ Len(mehist) \in Nat /\ ReadCount \in Nat
  BY <1>1, Counts DEF HistTypes
<1>3. IsSequence(requests)
  BY DEF IInv, RestTypeOK, IsSequence
<1>4. /\ Len(requests) <= Len(requests') /\ Len(requests') \in Nat
      /\ Len(requests') <= Len(requests) + 1
      /\ \A i \in 1 .. Len(requests) : requests'[i] = requests[i]
  BY <1>2, <1>3, Appended
<1>5. /\ ReadCount <= ReadCount' /\ ReadCount' <= ReadCount + 1 /\ ReadCount' \in Nat
      /\ bphist = << >> => ReadCount' = ReadCount
  <2>1. bphist = << >> => requests' = requests
    BY <1>1 DEF MeetInv, EngineInv
  <2>2. QED
    BY <1>1, <1>2, <1>4, <2>1 DEF ReadCount
<1>6. ASSUME NEW k \in 1 .. ReadCount PROVE requests'[base' + k] = ReadAt(k)
  <2>1. base + k \in 1 .. Len(requests)
    BY <1>2 DEF ReadCount
  <2>2. QED
    BY <1>1, <1>4, <2>1 DEF ReadAt
<1>7. HistTypes'
  BY <1>1, <1>2, <1>4 DEF HistTypes
<1>8. EngineInv'
  BY <1>1, <1>2, <1>5 DEF EngineInv, Exit, EView, EmptyBooks, NoOrders, Busy
<1>9. PublisherInv'
  BY <1>1 DEF PublisherInv, pubOwn, PState, PView
<1>10. MeetInv'
  BY <1>1, <1>5 DEF MeetInv
<1>11. FirstInv'
  <2>1. CASE writetodatabase = 0
    <3>1. db' = db /\ Begin' = Begin
      BY <1>1, <2>1 DEF EngineInv, Begin
    <3>2. QED
      BY <1>1, <3>1 DEF FirstInv, pubOwn, PState
  <2>2. CASE writetodatabase = 1
    BY <1>1, <2>2 DEF FirstInv, EngineInv, MeetInv, PublisherInv, pubOwn
  <2>3. QED
    BY <2>1, <2>2 DEF IInv, RestTypeOK
<1>12. HistInv'
  <2>1. \A k \in 1 .. Len(mehist) - 1 : k \in 1 .. ReadCount
    BY <1>1, <1>2 DEF EngineInv
  <2>2. QED
    BY <1>1, <1>6, <2>1 DEF HistInv, ReadAt
<1>13. AgreeInv'
  <2>1. ASSUME bphist # << >>, NEW k \in 1 .. Len(seen), k <= ReadCount'
        PROVE  requests'[base' + k] = seen[k]
    <3>1. CASE k <= ReadCount
      <4>1. k \in 1 .. ReadCount
        BY <1>2, <3>1
      <4>2. QED
        BY <1>1, <1>6, <2>1, <4>1 DEF AgreeInv
    <3>2. CASE ~(k <= ReadCount)
      <4>1. k = ReadCount + 1 /\ ReadCount' = ReadCount + 1
        BY <1>2, <1>5, <2>1, <3>2
      <4>2. requests' # requests
        BY <1>1, <4>1, <1>2 DEF ReadCount
      <4>3. Len(Read) = ReadCount /\ Len(Read) < Len(seen)
        <5>1. Len(Read) = ReadCount
          BY <1>2 DEF Read, ReadCount, IInv, RestTypeOK
        <5>2. Len(seen) \in Nat
          BY <1>1, Counts
        <5>3. QED
          BY <1>2, <4>1, <5>1, <5>2
      <4>4. Last(requests') = seen[ReadCount + 1]
        BY <4>2, <4>3 DEF InTurn
      <4>5. base' + k = Len(requests')
        BY <1>1, <1>2, <1>4, <4>1 DEF ReadCount
      <4>6. QED
        BY <4>1, <4>4, <4>5 DEF Last
    <3>3. QED
      BY <3>1, <3>2
  <2>2. QED
    BY <1>1, <2>1 DEF AgreeInv, ReadAt
<1>14. QED
  BY <1>7, <1>8, <1>9, <1>10, <1>11, <1>12, <1>13 DEF ReplicaInv

LEMMA EngineReadyKeeps ==
  ASSUME IInv, ReplicaInv, EngineReady
  PROVE  ReplicaInv'
<1>1. /\ HistTypes /\ EngineInv /\ PublisherInv /\ MeetInv /\ FirstInv /\ HistInv /\ AgreeInv
      /\ mehist' = mehist /\ bphist' = bphist /\ seen' = seen
      /\ base' = base /\ requests' = requests /\ db' = db
      /\ pc = "wait" /\ pc' = "idle" /\ writetodatabase' = 1
      /\ EView' = EView /\ EState' = EState
      /\ semid5 # 0 /\ semid5' = semid5 - 1 /\ UNCHANGED todo
  BY DEF ReplicaInv, EngineReady, Ready, pubOwn, logVars, viewVars, EView, EState
<1>2. ReadCount' = ReadCount /\ Begin' = Begin /\ (\A k : requests'[base' + k] = ReadAt(k))
  BY <1>1 DEF ReadCount, Begin, ReadAt
<1>3. bphist # << >> /\ mehist # << >>
  <2>1. Len(mehist) = ReadCount + 1 /\ Len(mehist) # 0
    BY <1>1, Counts DEF EngineInv
  <2>2. QED
    BY <1>1, <2>1, Counts DEF MeetInv, EngineInv
<1>4. HistTypes'
  <2>1. semid5' \in Nat
    BY <1>1 DEF EngineReady, HistTypes
  <2>2. QED
    BY <1>1, <2>1 DEF HistTypes
<1>5. EngineInv'
  BY <1>1, <1>2, <1>3 DEF EngineInv, Busy
<1>6. PublisherInv' 
  BY <1>1 DEF PublisherInv, EngineReady, pubOwn, PState, PView
<1>7. MeetInv' /\ FirstInv'
  BY <1>1, <1>3 DEF MeetInv, FirstInv, PublisherInv, EngineReady, pubOwn
<1>8. HistInv' /\ AgreeInv'
  BY <1>1, <1>2 DEF HistInv, AgreeInv, ReadAt
<1>9. QED
  BY <1>4, <1>5, <1>6, <1>7, <1>8 DEF ReplicaInv

LEMMA EngineRestartKeeps ==
  ASSUME IInv, ReplicaInv, EngineRestart
  PROVE  ReplicaInv'
<1>1. /\ HistTypes /\ EngineInv /\ PublisherInv /\ MeetInv /\ FirstInv /\ HistInv /\ AgreeInv
      /\ mehist' = << >> /\ bphist' = << >> /\ seen' = seen
      /\ base' = Len(requests) /\ requests' = requests /\ db' = db
      /\ pc = "down" /\ pc' = "load" /\ writetodatabase' = writetodatabase
      /\ semid5' = 0 /\ todo' = db.t1 /\ ppc = "down"
      /\ mybooks' = mybooks /\ myorders' = myorders /\ sym' = sym
  BY DEF ReplicaInv, EngineRestart, Restart, pubOwn, viewVars
<1>2. Len(requests) \in Nat
  BY <1>1, Counts
<1>3. ReadCount' = 0
  BY <1>1, <1>2 DEF ReadCount
<1>4. EState' = Begin'
  BY <1>1 DEF EState, Begin, EngineInv, EView, IInv, ControlInv, EmptyBooks, NoOrders
<1>5. Path(Begin', EState')
  BY <1>4, PathHere
<1>6. HistTypes'
  BY <1>1, <1>2, EmptyIsSequence DEF HistTypes
<1>7. EngineInv'
  BY <1>1, <1>3, EmptyIsSequence DEF EngineInv, Busy
<1>8. PublisherInv'
  BY <1>1 DEF PublisherInv, EngineRestart, pubOwn, PState, PView
<1>9. MeetInv' /\ FirstInv'
  BY <1>1, <1>3, <1>5 DEF MeetInv, FirstInv, EngineInv, EngineRestart, pubOwn
<1>10. HistInv' /\ AgreeInv'
  BY <1>1, EmptyIsSequence DEF HistInv, AgreeInv
<1>11. QED
  BY <1>6, <1>7, <1>8, <1>9, <1>10 DEF ReplicaInv
-----------------------------------------------------------------------------
(* The publisher's steps *)

\* As EngineComesToRest; the request it was about may just have been taken.
LEMMA PublisherComesToRest ==
  ASSUME IInv, ReplicaInv, NEW v, IsPair(v), bphist' = Append(bphist, v),
         bphist = << >> => Path(Begin, RestState(v)),
         bphist # << >> => /\ Len(bphist) = Len(seen')
                           /\ Path(AfterRequest(seen'[Len(seen')], bphist[Len(bphist)]),
                                   RestState(v)),
         IsSequence(seen'), Len(seen) <= Len(seen'),
         \A i \in 1 .. Len(seen) : seen'[i] = seen[i],
         \A k \in 1 .. Len(seen') : k <= ReadCount => ReadAt(k) = seen'[k],
         semid5' \in Nat,
         UNCHANGED <<mehist, requests, base>>
  PROVE  HistTypes' /\ HistInv' /\ AgreeInv'
<1> DEFINE n == Len(bphist)
<1>1. /\ HistTypes /\ HistInv /\ AgreeInv /\ FirstInv /\ EngineInv /\ PublisherInv
      /\ n \in Nat /\ Len(mehist) \in Nat /\ Len(seen) \in Nat /\ ReadCount \in Nat
      /\ (n = 0 <=> bphist = << >>) /\ (Len(mehist) = 0 <=> mehist = << >>)
      /\ Len(seen') \in Nat
  BY Counts, EmptyOrNot DEF ReplicaInv
<1>2. /\ IsSequence(bphist') /\ Len(bphist') = n + 1 /\ bphist'[n + 1] = v
      /\ bphist' # << >>
      /\ \A i \in 1 .. n : bphist'[i] = bphist[i]
  BY <1>1, Appended DEF HistTypes
<1> HIDE DEF n
<1>3. ReadCount' = ReadCount /\ \A k : requests'[base' + k] = ReadAt(k)
  BY DEF ReadCount, ReadAt
<1>4. HistTypes'
  <2>1. \A k \in 1 .. n + 1 : k = n + 1 \/ k \in 1 .. n
    BY <1>1
  <2>2. \A k \in 1 .. Len(bphist') : IsPair(bphist'[k])
    BY <1>1, <1>2, <2>1 DEF HistTypes, n
  <2>3. QED
    BY <1>1, <1>2, <2>2 DEF HistTypes
<1>5. ASSUME NEW k \in 1 .. n
      PROVE  Path(AfterRequest(seen'[k], bphist'[k]), RestState(bphist'[k + 1]))
  <2>1. CASE k = n
    BY <1>1, <1>2, <2>1 DEF n
  <2>2. CASE k # n
    <3>1. k \in 1 .. n - 1 /\ k + 1 \in 1 .. n /\ k \in 1 .. Len(seen)
      BY <1>1, <2>2 DEF PublisherInv, n
    <3>2. QED
      BY <1>1, <1>2, <3>1 DEF HistInv, n
  <2>3. QED
    BY <2>1, <2>2
<1>6. HistInv'
  <2>1. \A k \in 1 .. Len(bphist') - 1 :
           Path(AfterRequest(seen'[k], bphist'[k]), RestState(bphist'[k + 1]))
    BY <1>1, <1>2, <1>5
  <2>2. QED
    BY <1>1, <1>3, <2>1 DEF HistInv, ReadAt
<1>7. ASSUME n + 1 <= Len(mehist) PROVE v = mehist[n + 1]
  <2>1. n + 1 \in 1 .. Len(mehist) /\ IsPair(mehist[n + 1])
    BY <1>1, <1>7 DEF HistTypes
  <2>2. CASE n = 0
    BY <1>1, <2>1, <2>2, SameRestingView DEF FirstInv
  <2>3. CASE n # 0
    <3>1. /\ n \in 1 .. Len(mehist) - 1 /\ n \in 1 .. Len(seen') /\ n <= ReadCount
          /\ n = Len(seen')
      BY <1>1, <1>7, <2>3 DEF EngineInv, n
    <3>2. ReadAt(n) = seen'[n] /\ mehist[n] = bphist[n]
      <4>1. bphist # << >> /\ n \in 1 .. Len(mehist) /\ n <= Len(bphist)
        BY <1>1, <1>7, <2>3 DEF n
      <4>2. QED
        BY <1>1, <3>1, <4>1 DEF AgreeInv
    <3>3. Path(AfterRequest(ReadAt(n), mehist[n]), RestState(mehist[n + 1]))
      BY <1>1, <3>1 DEF HistInv
    <3>4. Path(AfterRequest(ReadAt(n), mehist[n]), RestState(v))
      BY <1>1, <2>3, <3>1, <3>2 DEF n
    <3>5. QED
      BY <2>1, <3>3, <3>4, SameRestingView
  <2>4. QED
    BY <2>2, <2>3
<1>8. AgreeInv'
  <2>1. ASSUME NEW k \in 1 .. Len(mehist), k <= Len(bphist')
        PROVE  mehist[k] = bphist'[k]
    <3>1. CASE k = n + 1
      BY <1>2, <1>7, <2>1, <3>1
    <3>2. CASE k # n + 1
      <4>1. k \in 1 .. n
        BY <1>1, <1>2, <2>1, <3>2
      <4>2. QED
        BY <1>1, <1>2, <2>1, <4>1 DEF AgreeInv, n
    <3>3. QED
      BY <3>1, <3>2
  <2>2. QED
    BY <1>1, <1>3, <2>1 DEF AgreeInv, ReadAt
<1>9. QED
  BY <1>4, <1>6, <1>8

\* Any step of the publisher's load or of a handler but the first.
PublisherWorks ==
  /\ ppc \in {"load", "match", "again"}
  /\ PState' = PState \/ (~Done(PState) /\ PState' = Continue(PState))
  /\ \/ ~loaded' /\ ppc' \in {"load", "match", "again"}
     \/ loaded /\ loaded' /\ ppc' \in {"idle", "match", "again"} /\ semid5' = semid5
     \/ ~loaded /\ loaded' /\ ppc' = "idle" /\ semid5' = semid5 + 1
  /\ ~loaded' => ~loaded /\ semid5' = semid5
  /\ ppc' \in {"match", "again"} => psym' # None
  /\ ppc' = "load" => psym' = None
  /\ ppc' = "idle" => Done(PState')
  /\ UNCHANGED seen

LEMMA PubProgressWorks ==
  ASSUME IInv, PublisherInv, P!PubProgress, ~P!TakeFails
  PROVE  PublisherWorks
<1>1. CASE P!LoadRow
  <2>1. ~loaded /\ ppc = "load" /\ psym = None /\ ptodo \in Seq(Order)
    BY <1>1 DEF P!LoadRow, PublisherInv
  <2>2. QED
    BY <1>1, <2>1, PublisherLoads DEF P!LoadRow, PublisherWorks
<1>2. CASE P!LoadDone
  <2>1. ~loaded /\ ppc = "load" /\ psym = None
    BY <1>2 DEF P!LoadDone, PublisherInv
  <2>2. Done(PState) /\ PState' = PState
    BY <1>2, <2>1 DEF P!LoadDone, PState, State, Done, P!viewVars
  <2>3. QED
    BY <1>2, <2>1, <2>2 DEF P!LoadDone, PublisherWorks
<1>3. CASE P!MatchTrades
  <2>1. psym # None
    BY <1>3 DEF P!MatchTrades, PublisherInv
  <2>2. QED
    BY <1>3, <2>1, PublisherTrades DEF P!MatchTrades, PublisherWorks
<1>4. CASE P!MatchEnds
  <2>1. psym # None /\ (loaded => ptodo = << >>)
    BY <1>4 DEF P!MatchEnds, PublisherInv
  <2>2. PState' = Continue(PState) /\ ~Done(PState) /\ psym' = None
    BY <1>4, <2>1, PublisherEndsMatch
  <2>3. loaded => Done(PState')
    BY <1>4, <2>1, <2>2 DEF P!MatchEnds, PState, State, Done
  <2>4. QED
    BY <1>4, <2>1, <2>2, <2>3 DEF P!MatchEnds, PublisherWorks
<1>5. QED
  BY <1>1, <1>2, <1>3, <1>4 DEF P!PubProgress

LEMMA PublisherOnPath ==
  ASSUME PublisherWorks, NEW x, Path(x, PState)
  PROVE  Path(x, PState')
<1>1. CASE PState' = PState
  BY <1>1
<1>2. CASE ~Done(PState) /\ PState' = Continue(PState)
  BY <1>2, PathOn
<1>3. QED
  BY <1>1, <1>2 DEF PublisherWorks

\* The engine's part of the invariant when the publisher has a step.
LEMMA EngineAside ==
  ASSUME EngineInv, UNCHANGED <<vars, base, mehist>>
  PROVE  EngineInv'
  BY DEF EngineInv, vars, memVars, logVars, viewVars, EView, EState, ReadCount, ReadAt

LEMMA PublisherWorkKeeps ==
  ASSUME IInv, ReplicaInv, PublisherWorks, PubRecords, UNCHANGED <<vars, base, mehist>>
  PROVE  ReplicaInv'
<1>1. /\ HistTypes /\ EngineInv /\ PublisherInv /\ MeetInv /\ FirstInv /\ HistInv /\ AgreeInv
      /\ Len(bphist) \in Nat /\ Len(seen) \in Nat /\ ReadCount \in Nat
      /\ (Len(bphist) = 0 <=> bphist = << >>)
  BY Counts DEF ReplicaInv
<1>2. /\ requests' = requests /\ base' = base /\ mehist' = mehist /\ db' = db /\ seen' = seen
      /\ pc' = pc /\ writetodatabase' = writetodatabase /\ EState' = EState
      /\ ReadCount' = ReadCount /\ (\A k : requests'[base' + k] = ReadAt(k))
      /\ Begin' = Begin
  BY DEF PublisherWorks, vars, memVars, logVars, viewVars, ReadCount, ReadAt, EState, Begin
<1>3. EngineInv'
  BY <1>1, EngineAside
<1>4. CASE ppc' # "idle"
  <2>1. bphist' = bphist /\ ppc' \in {"load", "match", "again"}
        /\ (loaded' <=> loaded) /\ semid5' = semid5
    BY <1>4 DEF PubRecords, PublisherWorks
  <2>2. HistTypes' /\ HistInv' /\ AgreeInv' /\ MeetInv'
    BY <1>1, <1>2, <2>1 DEF HistTypes, HistInv, AgreeInv, MeetInv, ReadAt
  <2>3. CASE ~loaded
    <3>1. /\ bphist = << >> /\ seen = << >> /\ Path(Begin, PState)
          /\ ptodo \in Seq(Order) /\ ppc # "down"
      BY <1>1, <2>3 DEF PublisherInv, FirstInv, PublisherWorks
    <3>2. ptodo' \in Seq(Order)
      <4>1. ptodo' = ptodo \/ (ptodo # << >> /\ ptodo' = Tail(ptodo))
        BY DEF PublisherWorks, PState, State, Continue, Done
      <4>2. QED
        BY <3>1, <4>1
    <3>3. Path(Begin, PState')
      BY <3>1, PublisherOnPath
    <3>4. PublisherInv'
      BY <1>2, <2>1, <2>3, <3>1, <3>2 DEF PublisherInv, PublisherWorks
    <3>5. FirstInv'
      BY <1>1, <1>2, <2>1, <3>1, <3>3 DEF FirstInv
    <3>6. QED
      BY <1>3, <2>2, <3>4, <3>5 DEF ReplicaInv
  <2>4. CASE loaded
    <3>1. /\ ppc \in {"match", "again"} /\ ptodo = << >> /\ bphist # << >>
          /\ Len(bphist) = Len(seen)
          /\ Path(AfterRequest(seen[Len(seen)], bphist[Len(bphist)]), PState)
      BY <1>1, <2>4 DEF PublisherInv, PublisherWorks
    <3>2. Path(AfterRequest(seen[Len(seen)], bphist[Len(bphist)]), PState')
      BY <3>1, PublisherOnPath
    <3>3. ptodo' = << >> /\ ppc' # "load"
      BY <1>1, <2>1, <2>4, <3>1
      DEF PublisherInv, PublisherWorks, PState, State, Continue
    <3>4. PublisherInv'
      BY <1>1, <1>2, <2>1, <2>4, <3>1, <3>2, <3>3 DEF PublisherInv, PublisherWorks
    <3>5. FirstInv'
      BY <1>1, <1>2, <2>1, <2>4 DEF FirstInv
    <3>6. QED
      BY <1>3, <2>2, <3>4, <3>5 DEF ReplicaInv
  <2>5. QED
    BY <2>3, <2>4
<1>5. CASE ppc' = "idle"
  <2>1. bphist' = Append(bphist, PView') /\ IsPair(PView') /\ loaded'
    BY <1>5 DEF PubRecords, PublisherWorks, PView, IsPair
  <2>2. PState' = RestState(PView') /\ ptodo' = << >> /\ psym' = None
    BY <1>5 DEF PublisherWorks, Done, PState, State, RestState, PView
  <2>3. /\ Len(bphist') = Len(bphist) + 1 /\ bphist' # << >>
        /\ bphist'[Len(bphist) + 1] = PView'
        /\ \A i \in 1 .. Len(bphist) : bphist'[i] = bphist[i]
    BY <1>1, <2>1, Appended DEF HistTypes
  <2>4. CASE ~loaded
    <3>1. /\ bphist = << >> /\ seen = << >> /\ Path(Begin, PState)
          /\ semid5' = semid5 + 1 /\ ppc # "down"
      BY <1>1, <1>5, <2>1, <2>4 DEF PublisherInv, FirstInv, PublisherWorks
    <3>2. Path(Begin, RestState(PView'))
      BY <2>2, <3>1, PublisherOnPath
    <3>3. /\ IsSequence(seen') /\ Len(seen') = 0 /\ Len(seen) <= Len(seen')
          /\ (\A i \in 1 .. Len(seen) : seen'[i] = seen[i])
          /\ (\A k \in 1 .. Len(seen') : k <= ReadCount => ReadAt(k) = seen'[k])
      BY <1>2, <3>1, EmptyIsSequence
    <3>4. semid5' \in Nat /\ semid5' # 0
      BY <1>1, <3>1 DEF HistTypes
    <3>5. HistTypes' /\ HistInv' /\ AgreeInv'
      BY <1>2, <2>1, <3>1, <3>2, <3>3, <3>4, PublisherComesToRest
    <3>6. PublisherInv'
      BY <1>1, <1>2, <1>5, <2>1, <2>2, <2>3, <3>1, <3>3 DEF PublisherInv
    <3>7. MeetInv'
      BY <1>1, <1>2, <2>3, <3>1, <3>4 DEF MeetInv
    <3>8. FirstInv'
      BY <1>1, <1>2, <1>5, <2>1, <2>3, <3>1, <3>2 DEF FirstInv
    <3>9. QED
      BY <1>3, <3>5, <3>6, <3>7, <3>8 DEF ReplicaInv
  <2>5. CASE loaded
    <3>1. /\ ppc \in {"match", "again"} /\ bphist # << >> /\ semid5' = semid5
          /\ Len(bphist) = Len(seen)
          /\ Path(AfterRequest(seen[Len(seen)], bphist[Len(bphist)]), PState)
      BY <1>1, <2>1, <2>5 DEF PublisherInv, PublisherWorks
    <3>2. Path(AfterRequest(seen[Len(seen)], bphist[Len(bphist)]), RestState(PView'))
      BY <2>2, <3>1, PublisherOnPath
    <3>3. /\ IsSequence(seen') /\ Len(seen) <= Len(seen')
          /\ (\A i \in 1 .. Len(seen) : seen'[i] = seen[i])
          /\ (\A k \in 1 .. Len(seen') : k <= ReadCount => ReadAt(k) = seen'[k])
          /\ semid5' \in Nat
      BY <1>1, <1>2, <3>1 DEF HistTypes, AgreeInv
    <3>4. HistTypes' /\ HistInv' /\ AgreeInv'
      BY <1>2, <2>1, <3>1, <3>2, <3>3, PublisherComesToRest
    <3>5. PublisherInv'
      BY <1>1, <1>2, <1>5, <2>1, <2>2, <2>3, <3>1 DEF PublisherInv
    <3>6. MeetInv'
      BY <1>1, <1>2, <2>3, <3>1 DEF MeetInv
    <3>7. FirstInv'
      BY <1>1, <1>2, <1>5, <2>1, <2>3, <3>1 DEF FirstInv
    <3>8. QED
      BY <1>3, <3>4, <3>5, <3>6, <3>7 DEF ReplicaInv
  <2>6. QED
    BY <2>4, <2>5
<1>6. QED
  BY <1>4, <1>5
-----------------------------------------------------------------------------
\* What the publisher takes is what the engine has read at that place, if it
\* has read so far.
LEMMA TakenInTurn ==
  ASSUME IInv, HistTypes, NEW r \in NextMessages
  PROVE  Len(seen) + 1 <= ReadCount => ReadAt(Len(seen) + 1) = r
<1> DEFINE n == Len(seen) + 1
<1>1. /\ Len(requests) \in Nat /\ base \in Nat /\ base <= Len(requests)
      /\ ReadCount \in Nat /\ Len(seen) \in Nat /\ requests \in Seq(Request)
  BY Counts DEF HistTypes, IInv, RestTypeOK
<1>2. Len(Read) = ReadCount
  BY <1>1 DEF Read, ReadCount
<1>3. ASSUME n <= ReadCount PROVE Read[n] = ReadAt(n)
  <2>1. n \in 1 .. Len(requests) - base
    BY <1>1, <1>3 DEF ReadCount
  <2> HIDE DEF n
  <2>2. Read[n] = requests[base + 1 + n - 1]
    BY <1>1, <2>1 DEF Read
  <2>3. base + 1 + n - 1 = base + n
    BY <1>1, <2>1
  <2>4. QED
    BY <2>2, <2>3 DEF ReadAt
<1>4. ASSUME n <= ReadCount PROVE r = Read[n]
  <2>1. Len(seen) < Len(Read)
    BY <1>1, <1>2, <1>4
  <2>2. QED
    BY <2>1 DEF NextMessages
<1>5. QED
  BY <1>3, <1>4

LEMMA TakeKeeps ==
  ASSUME IInv, ReplicaInv, NEW r \in NextMessages, Takes(r), PubRecords,
         UNCHANGED <<vars, base, mehist>>
  PROVE  ReplicaInv'
<1>1. /\ HistTypes /\ EngineInv /\ PublisherInv /\ MeetInv /\ FirstInv /\ HistInv /\ AgreeInv
      /\ Len(bphist) \in Nat /\ Len(seen) \in Nat /\ ReadCount \in Nat
      /\ (Len(bphist) = 0 <=> bphist = << >>)
  BY Counts DEF ReplicaInv
<1>2. /\ requests' = requests /\ base' = base /\ mehist' = mehist /\ db' = db
      /\ pc' = pc /\ writetodatabase' = writetodatabase /\ EState' = EState
      /\ ReadCount' = ReadCount /\ (\A k : requests'[base' + k] = ReadAt(k))
      /\ Begin' = Begin
  BY DEF vars, memVars, logVars, viewVars, ReadCount, ReadAt, EState, Begin
<1>3. EngineInv'
  BY <1>1, EngineAside
<1>4. /\ ppc = "idle" /\ loaded /\ psym = None /\ bphist # << >> /\ ptodo' = << >>
      /\ Len(bphist) = Len(seen) + 1 /\ PView = bphist[Len(bphist)]
      /\ loaded' = loaded /\ semid5' = semid5 /\ seen' = Append(seen, r)
      /\ ppc' = IF psym' = None THEN "idle" ELSE "match"
  BY <1>1 DEF Takes, PublisherInv
<1>5. /\ IsSequence(seen') /\ Len(seen') = Len(seen) + 1 /\ seen'[Len(seen) + 1] = r
      /\ seen' # seen
      /\ \A i \in 1 .. Len(seen) : seen'[i] = seen[i]
  BY <1>1, <1>4, Appended DEF HistTypes
<1>6. ASSUME NEW k \in 1 .. Len(seen'), k <= ReadCount PROVE ReadAt(k) = seen'[k]
  <2>1. CASE k = Len(seen) + 1
    BY <1>1, <1>5, <1>6, <2>1, TakenInTurn
  <2>2. CASE k # Len(seen) + 1
    <3>1. k \in 1 .. Len(seen)
      BY <1>1, <1>5, <2>2
    <3>2. QED
      BY <1>1, <1>4, <1>5, <1>6, <3>1 DEF AgreeInv
  <2>3. QED
    BY <2>1, <2>2
<1>7. State(<< >>, psym', pubbooks', puborders') =
        AfterRequest(seen'[Len(seen')], bphist[Len(bphist)])
  BY <1>4, <1>5 DEF Takes
<1>8. PState' = AfterRequest(seen'[Len(seen')], bphist[Len(bphist)])
  BY <1>4, <1>7 DEF PState
<1>9. CASE psym' # None
  <2>1. bphist' = bphist /\ ppc' = "match"
    BY <1>4, <1>9 DEF PubRecords
  <2>2. HistTypes'
    BY <1>1, <1>2, <1>4, <1>5, <2>1 DEF HistTypes
  <2>3. HistInv'
    <3>1. \A k \in 1 .. Len(bphist) - 1 : k \in 1 .. Len(seen)
      BY <1>1, <1>4
    <3>2. QED
      BY <1>1, <1>2, <1>5, <2>1, <3>1 DEF HistInv, ReadAt
  <2>4. AgreeInv'
    BY <1>1, <1>2, <1>6, <2>1 DEF AgreeInv, ReadAt
  <2>5. PublisherInv'
    <3>1. Path(AfterRequest(seen'[Len(seen')], bphist'[Len(bphist')]), PState')
      BY <1>8, <2>1, PathHere
    <3>2. QED
      BY <1>1, <1>4, <1>5, <1>9, <2>1, <3>1 DEF PublisherInv
  <2>6. MeetInv' /\ FirstInv'
    BY <1>1, <1>2, <1>4, <2>1 DEF MeetInv, FirstInv
  <2>7. QED
    BY <1>3, <2>2, <2>3, <2>4, <2>5, <2>6 DEF ReplicaInv
<1>10. CASE psym' = None
  <2>1. bphist' = Append(bphist, PView') /\ IsPair(PView') /\ ppc' = "idle"
    BY <1>4, <1>5, <1>10 DEF PubRecords, PView, IsPair
  <2>2. /\ Len(bphist') = Len(bphist) + 1 /\ bphist' # << >>
        /\ bphist'[Len(bphist) + 1] = PView'
        /\ \A i \in 1 .. Len(bphist) : bphist'[i] = bphist[i]
    BY <1>1, <2>1, Appended DEF HistTypes
  <2>3. RestState(PView') = AfterRequest(seen'[Len(seen')], bphist[Len(bphist)])
    BY <1>7, <1>10 DEF RestState, PView
  <2>4. Path(AfterRequest(seen'[Len(seen')], bphist[Len(bphist)]), RestState(PView'))
    BY <2>3, PathHere
  <2>5. HistTypes' /\ HistInv' /\ AgreeInv'
    <3>1. Len(seen) <= Len(seen') /\ Len(bphist) = Len(seen') /\ semid5' \in Nat
      BY <1>1, <1>4, <1>5 DEF HistTypes
    <3>2. QED
      BY <1>2, <1>4, <1>5, <1>6, <2>1, <2>4, <3>1, PublisherComesToRest
  <2>6. PublisherInv'
    BY <1>1, <1>4, <1>5, <1>10, <2>1, <2>2 DEF PublisherInv
  <2>7. MeetInv' /\ FirstInv'
    BY <1>1, <1>2, <1>4, <2>1, <2>2 DEF MeetInv, FirstInv
  <2>8. QED
    BY <1>3, <2>5, <2>6, <2>7 DEF ReplicaInv
<1>11. QED
  BY <1>9, <1>10

\* The publisher ends, or is about to.
LEMMA PubExitKeeps ==
  ASSUME IInv, ReplicaInv,
         P!Exit \/ UNCHANGED <<pubbooks, puborders, ppc, psym, ptodo, loaded, semid5, seen>>,
         UNCHANGED <<vars, base, mehist, bphist>>
  PROVE  ReplicaInv'
<1>1. /\ HistTypes /\ EngineInv /\ PublisherInv /\ MeetInv /\ FirstInv /\ HistInv /\ AgreeInv
      /\ semid5' = semid5 /\ seen' = seen /\ bphist' = bphist
  BY DEF ReplicaInv, P!Exit
<1>2. /\ requests' = requests /\ base' = base /\ mehist' = mehist
      /\ pc' = pc /\ writetodatabase' = writetodatabase /\ EState' = EState
      /\ ReadCount' = ReadCount /\ (\A k : requests'[base' + k] = ReadAt(k))
      /\ Begin' = Begin
  BY DEF vars, memVars, logVars, viewVars, ReadCount, ReadAt, EState, Begin
<1>3. EngineInv'
  BY <1>1, EngineAside
<1>4. HistTypes' /\ MeetInv' /\ HistInv' /\ AgreeInv'
  BY <1>1, <1>2 DEF HistTypes, MeetInv, HistInv, AgreeInv, ReadAt
<1>5. CASE P!Exit
  <2>1. PView' = <<EmptyBooks, NoOrders>> /\ ppc' = "down" /\ psym' = None
    BY <1>5 DEF P!Exit, PView, EmptyBooks, NoOrders, P!EmptyBook, P!Sides,
       EmptyBook, Sides
  <2>2. PublisherInv' /\ FirstInv'
    BY <1>1, <1>2, <2>1 DEF PublisherInv, FirstInv
  <2>3. QED
    BY <1>3, <1>4, <2>2 DEF ReplicaInv
<1>6. CASE UNCHANGED <<pubbooks, puborders, ppc, psym, ptodo, loaded, semid5, seen>>
  <2>1. PView' = PView /\ PState' = PState
    BY <1>6 DEF PView, PState
  <2>2. PublisherInv' /\ FirstInv'
    BY <1>1, <1>2, <1>6, <2>1 DEF PublisherInv, FirstInv
  <2>3. QED
    BY <1>3, <1>4, <2>2 DEF ReplicaInv
<1>7. QED
  BY <1>5, <1>6

LEMMA PubStartKeeps ==
  ASSUME IInv, ReplicaInv, PubStart
  PROVE  ReplicaInv'
<1>1. /\ HistTypes /\ EngineInv /\ PublisherInv /\ MeetInv /\ FirstInv /\ HistInv /\ AgreeInv
      /\ pc \in {"load", "wait"} /\ ppc = "down" /\ ppc' = "load" /\ loaded' = FALSE
      /\ ptodo' = db.t1 /\ seen' = << >> /\ bphist' = bphist /\ semid5' = semid5
      /\ psym' = None /\ PView' = PView /\ semid5 = 0
  BY DEF ReplicaInv, PubStart, P!Start, P!viewVars, PView, PublisherInv
<1>2. /\ requests' = requests /\ base' = base /\ mehist' = mehist /\ db' = db
      /\ pc' = pc /\ writetodatabase' = writetodatabase /\ EState' = EState
      /\ ReadCount' = ReadCount /\ (\A k : requests'[base' + k] = ReadAt(k))
      /\ Begin' = Begin
  BY DEF PubStart, vars, memVars, logVars, viewVars, ReadCount, ReadAt, EState, Begin
<1>3. bphist = << >> /\ Len(bphist) = 0
  BY <1>1, EmptyIsSequence DEF MeetInv, EngineInv
<1>4. db.t1 \in Seq(Order)
  BY TypesFollow DEF TypeOK, DB
<1>5. PState' = Begin
  BY <1>1 DEF PState, PView, Begin, PublisherInv
<1>6. HistTypes'
  BY <1>1, <1>2, EmptyIsSequence DEF HistTypes
<1>7. EngineInv'
  BY <1>1, EngineAside DEF PubStart
<1>8. PublisherInv'
  BY <1>1, <1>3, <1>4 DEF PublisherInv
<1>9. MeetInv' /\ FirstInv'
  BY <1>1, <1>2, <1>3, <1>5, PathHere DEF MeetInv, FirstInv
<1>10. HistInv' /\ AgreeInv'
  BY <1>1, <1>2, <1>3 DEF HistInv, AgreeInv, ReadAt
<1>11. QED
  BY <1>6, <1>7, <1>8, <1>9, <1>10 DEF ReplicaInv
-----------------------------------------------------------------------------
(* Every step *)

LEMMA Unmoved == ASSUME IInv, UNCHANGED vars PROVE IInv'
  BY DEF vars, memVars, viewVars, logVars, IInv, DataInv, DataIn, ControlInv, AtRest, RestTypeOK

\* The engine as it is here: its wait may fail.
LEMMA EngineTyped ==
  ASSUME IInv, [ExNext]_exVars
  PROVE  IInv'
<1>1. CASE Engine
  BY <1>1, InvStep DEF Engine, Next
<1>2. CASE EngineReady \/ EngineRestart
  BY <1>2, InvStep DEF EngineReady, EngineRestart, Next
<1>3. CASE EngineNotReady
  <2>1. Exit /\ db' = db /\ UNCHANGED logVars
    BY <1>3 DEF EngineNotReady
  <2>2. DataInv'
    BY <2>1, ExitData, LeastType DEF IInv, DataInv, DataIn
  <2>3. ControlInv' /\ RestTypeOK'
    BY <2>1 DEF Exit, IInv, ControlInv, AtRest, RestTypeOK, Locations, logVars
  <2>4. QED
    BY <2>2, <2>3 DEF IInv
<1>4. CASE PubStart \/ PubWorks \/ PubHandles \/ PubEnds \/ UNCHANGED exVars
  BY <1>4, Unmoved DEF PubStart, PubWorks, PubHandles, PubEnds, exVars
<1>5. QED
  BY <1>1, <1>2, <1>3, <1>4 DEF ExNext

LEMMA EngineKeeps ==
  ASSUME OneJunk, IInv, IInv', ReplicaInv, Engine
  PROVE  ReplicaInv'
<1>1. InTurn /\ EngineRecords /\ UNCHANGED <<pubOwn, semid5, base, bphist>>
  BY DEF Engine
<1>2. CASE Progress
  <2>1. EngineWorks
    BY <1>2, ProgressWorks DEF ReplicaInv
  <2>2. QED
    BY <1>1, <2>1, WorkKeeps
<1>3. CASE (ProcessNew \/ ProcessModify \/ ProcessCancel) /\ pc' # "down"
  <2>1. PICK r : Reads(r)
    BY <1>3, ReadNew, ReadModify, ReadCancel
  <2>2. QED
    BY <1>1, <2>1, ReadKeeps
<1>4. ASSUME pc' = "down" PROVE mehist' = mehist
  BY <1>1, <1>4 DEF EngineRecords
<1>5. CASE ProcessModify /\ pc' = "down"
  <2>1. PICK id, price, quantity :
           \/ ModifyUnknown(id, price, quantity) \/ ModifyGone(id, price, quantity)
           \/ ModifyOrder(id, price, quantity) \/ DieInModify(id, price, quantity)
    BY <1>5 DEF ProcessModify
  <2>2. DieInModify(id, price, quantity)
    BY <1>5, <2>1 DEF ModifyUnknown, ModifyGone, ModifyOrder, Receive
  <2>3. /\ Exit /\ pc = "idle"
        /\ requests' = Append(requests, Modification(id, price, quantity))
    BY <2>2 DEF DieInModify
  <2>4. QED
    BY <1>1, <1>4, <1>5, <2>3, ExitKeeps
<1>6. CASE Stop \/ StopInMatch \/ DieDrained
  <2>1. /\ Exit /\ pc # "down" /\ requests' = requests
        /\ writetodatabase = 0 => db' = db
    BY <1>6 DEF Stop, StopInMatch, DieDrained, logVars
  <2>2. pc' = "down"
    BY <2>1 DEF Exit
  <2>3. QED
    BY <1>1, <1>4, <2>1, <2>2, ExitKeeps
<1>7. (ProcessNew \/ ProcessCancel) => pc' # "down"
  BY DEF ProcessNew, ProcessCancel, AcceptOrder, RejectOrder, CancelUnknown,
         CancelOrder, Receive
<1>8. QED
  BY <1>2, <1>3, <1>5, <1>6, <1>7 DEF Engine

LEMMA PublisherKeeps ==
  ASSUME OneJunk, IInv, ReplicaInv, PubWorks \/ PubHandles \/ PubEnds
  PROVE  ReplicaInv'
<1>1. CASE PubWorks
  <2>1. PubRecords /\ UNCHANGED <<vars, base, mehist>> /\ P!PubProgress
    BY <1>1 DEF PubWorks
  <2>2. CASE P!TakeFails
    <3>1. P!Exit /\ ppc' = "down"
      BY <2>2 DEF P!TakeFails, P!Exit
    <3>2. bphist' = bphist
      BY <2>1, <3>1 DEF PubRecords
    <3>3. QED
      BY <2>1, <3>1, <3>2, PubExitKeeps
  <2>3. CASE ~P!TakeFails
    <3>1. PublisherWorks
      BY <2>1, <2>3, PubProgressWorks DEF ReplicaInv
    <3>2. QED
      BY <2>1, <3>1, PublisherWorkKeeps
  <2>4. QED
    BY <2>2, <2>3
<1>2. CASE PubHandles
  <2>1. PICK r \in NextMessages : P!Process(r)
    BY <1>2 DEF PubHandles
  <2>2. Takes(r)
    BY <2>1, TakeRequest
  <2>3. QED
    BY <1>2, <2>2, TakeKeeps DEF PubHandles
<1>3. CASE PubEnds
  <2>1. UNCHANGED <<vars, base, mehist, bphist>>
    BY <1>3 DEF PubEnds
  <2>2. P!Exit \/ UNCHANGED <<pubbooks, puborders, ppc, psym, ptodo, loaded, semid5, seen>>
    BY <1>3 DEF PubEnds, P!Interrupt, P!InterruptLoad, P!DieDrained, P!DieInModify,
       P!viewVars
  <2>3. QED
    BY <2>1, <2>2, PubExitKeeps
<1>4. QED
  BY <1>1, <1>2, <1>3

LEMMA ReplicasKept ==
  ASSUME OneJunk, IInv, ReplicaInv, [ExNext]_exVars
  PROVE  ReplicaInv'
<1>1. IInv'
  BY EngineTyped
<1>2. CASE UNCHANGED exVars
  BY <1>2, PubExitKeeps DEF exVars, pubOwn
<1>3. CASE EngineNotReady
  <2>1. /\ Exit /\ pc # "down" /\ requests' = requests /\ db' = db
        /\ UNCHANGED <<pubOwn, semid5, base, mehist, bphist>>
    BY <1>3 DEF EngineNotReady, logVars
  <2>2. QED
    BY <1>1, <2>1, ExitKeeps
<1>4. QED
  BY <1>1, <1>2, <1>3, EngineKeeps, EngineReadyKeeps, EngineRestartKeeps,
     PubStartKeeps, PublisherKeeps DEF ExNext
-----------------------------------------------------------------------------
(* Exchange implements Replicas *)

LEMMA EngineAdvances ==
  ASSUME HistTypes, AgreeInv', NEW v, mehist' = Append(mehist, v), bphist' = bphist
  PROVE  R!Advance(mehist, bphist)
<1>1. /\ mehist' # << >> /\ Len(mehist) \in Nat /\ Len(mehist') = Len(mehist) + 1
      /\ mehist'[Len(mehist')] = v
  BY Appended DEF HistTypes
<1>2. Last(mehist') = v
  BY <1>1 DEF Last
<1>3. Len(bphist) \in Nat
  BY EmptyOrNot DEF HistTypes
<1>4. ASSUME Len(mehist) < Len(bphist) PROVE v = bphist[Len(mehist')]
  <2>1. Len(mehist') \in 1 .. Len(mehist') /\ Len(mehist') <= Len(bphist')
    BY <1>1, <1>3, <1>4
  <2>2. QED
    BY <1>1, <2>1 DEF AgreeInv
<1>5. QED
  BY <1>1, <1>2, <1>4 DEF R!Advance, R!Last, Last

LEMMA PublisherAdvances ==
  ASSUME HistTypes, AgreeInv', NEW v, bphist' = Append(bphist, v), mehist' = mehist
  PROVE  R!Advance(bphist, mehist)
<1>1. /\ bphist' # << >> /\ Len(bphist) \in Nat /\ Len(bphist') = Len(bphist) + 1
      /\ bphist'[Len(bphist')] = v
  BY Appended DEF HistTypes
<1>2. Last(bphist') = v
  BY <1>1 DEF Last
<1>3. Len(mehist) \in Nat
  BY EmptyOrNot DEF HistTypes
<1>4. ASSUME Len(bphist) < Len(mehist) PROVE v = mehist[Len(bphist')]
  <2>1. Len(bphist') \in 1 .. Len(mehist') /\ Len(bphist') <= Len(bphist')
    BY <1>1, <1>3, <1>4
  <2>2. QED
    BY <1>1, <2>1 DEF AgreeInv
<1>5. QED
  BY <1>1, <1>2, <1>4 DEF R!Advance, R!Last, Last

LEMMA ReplicaStep ==
  ASSUME ReplicaInv, ReplicaInv', [ExNext]_exVars
  PROVE  [R!Next]_<<mehist, bphist>>
<1>1. HistTypes /\ AgreeInv'
  BY DEF ReplicaInv
<1>2. CASE Engine
  <2>1. bphist' = bphist /\ EngineRecords
    BY <1>2 DEF Engine
  <2>2. CASE mehist' = mehist
    BY <2>1, <2>2
  <2>3. CASE mehist' = Append(mehist, <<mybooks', myorders'>>)
    BY <1>1, <2>1, <2>3, EngineAdvances DEF R!Next
  <2>4. QED
    BY <2>1, <2>2, <2>3 DEF EngineRecords
<1>3. CASE PubWorks \/ PubHandles
  <2>1. mehist' = mehist /\ PubRecords
    BY <1>3 DEF PubWorks, PubHandles
  <2>2. CASE bphist' = bphist
    BY <2>1, <2>2
  <2>3. CASE bphist' = Append(bphist, <<pubbooks', puborders'>>)
    BY <1>1, <2>1, <2>3, PublisherAdvances DEF R!Next
  <2>4. QED
    BY <2>1, <2>2, <2>3 DEF PubRecords
<1>4. CASE EngineRestart
  BY <1>4 DEF EngineRestart, R!Next, R!Afresh
<1>5. CASE EngineReady \/ EngineNotReady \/ PubStart \/ PubEnds \/ UNCHANGED exVars
  BY <1>5 DEF EngineReady, EngineNotReady, PubStart, PubEnds, exVars
<1>6. QED
  BY <1>2, <1>3, <1>4, <1>5 DEF ExNext

\* Beside the publisher too, what the engine does keeps every variable of it
\* to its type and every side of its books sorted.
LEMMA ExInductive == ExSpec => []IInv
<1>1. ExInit => IInv
  BY InitIInv DEF ExInit
<1>2. IInv /\ [ExNext]_exVars => IInv'
  BY EngineTyped
<1>3. QED
  BY <1>1, <1>2, PTL DEF ExSpec

\* Engine and publisher go through the same books: each request, and the load
\* of t1 before the first, leaves both with the same view, whichever of them
\* comes to it first, whoever names which order, and wherever either of them
\* ends, provided that what a modification's price overruns the quantity with
\* is the same in both; it is, since the bytes are the message's own.
THEOREM ReplicasAgree ==
  ASSUME OneJunk
  PROVE  ExSpec => SameBooks
<1>1. ExInit => ReplicaInv
  BY ReplicasBegin
<1>2. IInv /\ ReplicaInv /\ [ExNext]_exVars => ReplicaInv'
  BY ReplicasKept
<1>3. ReplicaInv /\ ReplicaInv' /\ [ExNext]_exVars => [R!Next]_<<mehist, bphist>>
  BY ReplicaStep
<1>4. ExInit => R!Init
  BY DEF ExInit, R!Init
<1>5. QED
  BY ExInductive, <1>1, <1>2, <1>3, <1>4, PTL DEF ExSpec, SameBooks, R!Spec
-----------------------------------------------------------------------------
(* What one step leaves in order *)

\* Rows, books and map of orders are in order, and but for the book at work
\* quiet.
GoodState(x) ==
  /\ x.todo \in Seq(ProperOrders(Least))
  /\ x.sym \in Symbols \cup {None}
  /\ x.books \in [Symbols -> Books(Least)]
  /\ x.orders \in [Ids -> ProperOrders(Least) \cup {None}]
  /\ Least = 1 => \A s \in Symbols :
                     OneSided(x.books[s]) /\ (s # x.sym => Quiet(x.books[s]))

ProperRequest(r) ==
  /\ r.type \in {"NEW", "MODIFY", "CANCEL"}
  /\ r.type = "NEW" => r.order \in ProperOrders(Least) /\ WellFormed(r.order)
  /\ r.type # "NEW" => r.order_id \in Ids
  /\ r.type = "MODIFY" => r.price \in Prices

LEMMA GoodFrom ==
  ASSUME NEW rows \in Seq(ProperOrders(Least)), NEW s \in Symbols \cup {None},
         NEW books \in [Symbols -> Books(Least)],
         NEW orders \in [Ids -> ProperOrders(Least) \cup {None}],
         Least = 1 => \A z \in Symbols :
                         OneSided(books[z]) /\ (z # s => Quiet(books[z]))
  PROVE  GoodState(State(rows, s, books, orders))
  BY DEF GoodState, State

\* What UpdateOrders enters again: a head with what it has left.
LEMMA RemainderIn ==
  ASSUME NEW b \in Books(Least), Crosses(b), NEW side \in Sides,
         Rest(Head(b[side]), TradeQuantity(b)).quantity > 0
  PROVE  /\ b[side] # << >> /\ Head(b[side]) \in SideOrders(side, Least)
         /\ Rest(Head(b[side]), TradeQuantity(b)) \in SideOrders(side, Least)
         /\ Rest(Head(b[side]), TradeQuantity(b)).order_id = Head(b[side]).order_id
         /\ Rest(Head(b[side]), TradeQuantity(b)).order_type = Head(b[side]).order_type
         /\ Rest(Head(b[side]), TradeQuantity(b)).price = Head(b[side]).price
<1>1. /\ b[side] # << >> /\ Head(b[side]) \in SideOrders(side, Least)
      /\ TradeQuantity(b) \in 0 .. Head(b[side]).quantity
  <2>1. CASE side = "BUY"
    BY <2>1, LeastType, Heads DEF HeadBuy
  <2>2. CASE side = "SELL"
    BY <2>2, LeastType, Heads DEF HeadSell
  <2>3. QED
    BY <2>1, <2>2 DEF Sides
<1>2. QED
  BY <1>1, LeastType, RestProper

LEMMA UpdatedIn ==
  ASSUME NEW b \in Books(Least), Crosses(b), NEW T,
         NEW orders \in [Ids -> T \cup {None}],
         \A side \in Sides : Rest(Head(b[side]), TradeQuantity(b)).quantity > 0 =>
                               Rest(Head(b[side]), TradeQuantity(b)) \in T
  PROVE  /\ Updated(orders, b) \in [Ids -> T \cup {None}]
         /\ (\A id \in Ids : orders[id] # None => orders[id].order_id = id) =>
              \A id \in Ids : Updated(orders, b)[id] # None =>
                                Updated(orders, b)[id].order_id = id
<1> DEFINE A == Rest(HeadSell(b), TradeQuantity(b))
           B == Rest(HeadBuy(b), TradeQuantity(b))
           e == [orders EXCEPT ![A.order_id] = None, ![B.order_id] = None]
           f == Kept(e, A)
           Keyed(m) == \A id \in Ids : m[id] # None => m[id].order_id = id
<1>1. (A.quantity > 0 => A \in T) /\ (B.quantity > 0 => B \in T)
  BY DEF HeadBuy, HeadSell, Sides
<1>2. Updated(orders, b) = Kept(f, B)
  BY DEF Updated
<1> HIDE DEF A, B
<1>3. e \in [Ids -> T \cup {None}] /\ (Keyed(orders) => Keyed(e))
  OBVIOUS
<1> HIDE DEF e
<1>4. f \in [Ids -> T \cup {None}] /\ (Keyed(e) => Keyed(f))
  BY <1>1, <1>3 DEF Kept
<1> HIDE DEF f
<1>5. Kept(f, B) \in [Ids -> T \cup {None}] /\ (Keyed(f) => Keyed(Kept(f, B)))
  BY <1>1, <1>4 DEF Kept
<1>6. QED
  BY <1>2, <1>3, <1>4, <1>5

\* A quiet view with one order more is good, while its book is at work.
LEMMA PlacedGood ==
  ASSUME NEW rows \in Seq(ProperOrders(Least)),
         NEW books \in [Symbols -> Books(Least)],
         Least = 1 => \A s \in Symbols : Quiet(books[s]),
         NEW o \in ProperOrders(Least),
         NEW orders \in [Ids -> ProperOrders(Least) \cup {None}]
  PROVE  GoodState(State(rows, o.symbol, BooksWith(books, o), orders))
<1>1. /\ BooksWith(books, o) \in [Symbols -> Books(Least)]
      /\ \A s \in Symbols \ {o.symbol} : BooksWith(books, o)[s] = books[s]
      /\ Quiet(books[o.symbol]) => OneSided(BooksWith(books, o)[o.symbol])
  BY LeastType, BooksWithOrder
<1>2. o.symbol \in Symbols
  BY DEF ProperOrders, Order
<1>3. Least = 1 => \A s \in Symbols :
         /\ OneSided(BooksWith(books, o)[s])
         /\ s # o.symbol => Quiet(BooksWith(books, o)[s])
  BY <1>1, <1>2, QuietIsOneSided
<1>4. QED
  BY <1>1, <1>2, <1>3, GoodFrom

LEMMA ContinueGood ==
  ASSUME NEW x, GoodState(x), ~Done(x)
  PROVE  GoodState(Continue(x))
<1> DEFINE o == Head(x.todo)
           b == x.books[x.sym]
<1>1. CASE x.sym = None
  <2>1. x.todo # << >> /\ x.todo \in Seq(ProperOrders(Least))
    BY <1>1 DEF Done, GoodState
  <2>2. o \in ProperOrders(Least) /\ Tail(x.todo) \in Seq(ProperOrders(Least))
    BY <2>1, HeadTailProperties
  <2>3. o.symbol \in Symbols /\ o.order_id \in Ids
    BY <2>2 DEF ProperOrders, Order
  <2>4. Least = 1 => \A s \in Symbols : Quiet(x.books[s])
    BY <1>1, NoneIsNone DEF GoodState
  <2>5. Entered(x.orders, o) \in [Ids -> ProperOrders(Least) \cup {None}]
    BY <2>2, <2>3 DEF GoodState, Entered
  <2>6. Continue(x) = State(Tail(x.todo), o.symbol, BooksWith(x.books, o),
                            Entered(x.orders, o))
    BY <1>1 DEF Continue
  <2>7. x.books \in [Symbols -> Books(Least)]
    BY DEF GoodState
  <2> HIDE DEF o
  <2>8. QED
    BY <2>2, <2>4, <2>5, <2>6, <2>7, PlacedGood
<1>2. CASE x.sym # None
  <2>1. x.sym \in Symbols /\ b \in Books(Least)
    BY <1>2 DEF GoodState
  <2>2. /\ MatchedBook(b) \in Books(Least)
        /\ OneSided(b) => OneSided(MatchedBook(b))
    BY <2>1, LeastType, MatchedBookSorted
  <2>3. /\ Matched(x.books, x.sym) \in [Symbols -> Books(Least)]
        /\ Matched(x.books, x.sym)[x.sym] = MatchedBook(b)
        /\ \A s \in Symbols \ {x.sym} : Matched(x.books, x.sym)[s] = x.books[s]
    BY <2>1, <2>2 DEF GoodState, Matched
  <2>4. CASE TradesIn(b)
    <3>1. Crosses(b)
      BY <2>4 DEF TradesIn
    <3>2. Updated(x.orders, b) \in [Ids -> ProperOrders(Least) \cup {None}]
      BY <2>1, <3>1, RemainderIn, UpdatedIn DEF GoodState, SideOrders
    <3>3. Continue(x) = State(x.todo, x.sym, Matched(x.books, x.sym), Updated(x.orders, b))
      BY <1>2, <2>4 DEF Continue
    <3>4. Least = 1 => \A s \in Symbols :
             /\ OneSided(Matched(x.books, x.sym)[s])
             /\ s # x.sym => Quiet(Matched(x.books, x.sym)[s])
      BY <2>1, <2>2, <2>3 DEF GoodState
    <3>5. QED
      BY <2>1, <2>3, <3>2, <3>3, <3>4, GoodFrom DEF GoodState
  <2>5. CASE ~TradesIn(b)
    <3>1. Least = 1 => Quiet(MatchedBook(b))
      BY <2>1, <2>5, MatchedBookQuiet DEF TradesIn
    <3>2. Continue(x) = State(x.todo, None, Matched(x.books, x.sym), x.orders)
      BY <1>2, <2>5 DEF Continue
    <3>3. Least = 1 => \A s \in Symbols :
             OneSided(Matched(x.books, x.sym)[s]) /\ Quiet(Matched(x.books, x.sym)[s])
      BY <2>1, <2>3, <3>1, QuietIsOneSided DEF GoodState
    <3>4. /\ x.todo \in Seq(ProperOrders(Least)) /\ None \in Symbols \cup {None}
          /\ x.orders \in [Ids -> ProperOrders(Least) \cup {None}]
      BY DEF GoodState
    <3>5. GoodState(State(x.todo, None, Matched(x.books, x.sym), x.orders))
      BY <2>3, <3>3, <3>4, GoodFrom
    <3>6. QED
      BY <3>2, <3>5
  <2>6. QED
    BY <2>4, <2>5
<1>3. QED
  BY <1>1, <1>2

\* A modification leaves an order of its side, with the quantity it was left.
LEMMA ReplacedProper ==
  ASSUME NEW o \in ProperOrders(Least), NEW price \in Prices, NEW q \in JunkQuantities
  PROVE  /\ Changed(o, price, q) \in ProperOrders(Least)
         /\ Changed(o, price, q).symbol = o.symbol
         /\ Changed(o, price, q).order_id = o.order_id
         /\ Changed(o, price, q).order_type = o.order_type
         /\ Changed(o, price, q).price = price
<1> DEFINE a == Changed(o, price, q)
<1>1. q \in Nat /\ q >= Least /\ o \in Order
  BY LeastType, JunkAssumption DEF ProperOrders
<1>2. a = [order_id |-> o.order_id, order_type |-> o.order_type,
           buysell |-> o.buysell, symbol |-> o.symbol, price |-> price,
           quantity |-> q, timestamp |-> o.timestamp]
  BY <1>1, ExceptPriceQuantity DEF Changed
<1> HIDE DEF a
<1>3. a \in Order
  BY <1>1, <1>2 DEF Order
<1>4. /\ a.price = price /\ a.quantity = q /\ a.symbol = o.symbol
      /\ a.order_id = o.order_id /\ a.order_type = o.order_type
  BY <1>2
<1>5. QED
  BY <1>1, <1>3, <1>4 DEF ProperOrders, a

LEMMA AmendedProper ==
  ASSUME OneJunk, NEW o \in ProperOrders(Least), NEW price \in Prices
  PROVE  /\ Amended(o, price) \in ProperOrders(Least)
         /\ Amended(o, price).symbol = o.symbol
         /\ Amended(o, price).order_id = o.order_id
         /\ Amended(o, price).order_type = o.order_type
         /\ Amended(o, price).price = price
<1>1. Junk \in JunkQuantities
  BY DEF OneJunk, Junk
<1>2. QED
  BY <1>1, ReplacedProper DEF Amended

LEMMA RequestGood ==
  ASSUME NEW r, ProperRequest(r), r.type = "MODIFY" => OneJunk, NEW books, NEW orders,
         GoodState(State(<< >>, None, books, orders))
  PROVE  GoodState(AfterRequest(r, <<books, orders>>))
<1> DEFINE id == r.order_id
           old == orders[id]
           T == ProperOrders(Least) \cup {None}
<1>1. /\ books \in [Symbols -> Books(Least)] /\ orders \in [Ids -> T]
      /\ Least = 1 => \A s \in Symbols : Quiet(books[s]) /\ OneSided(books[s])
      /\ << >> \in Seq(ProperOrders(Least))
  BY NoneIsNone, QuietIsOneSided DEF GoodState, State
<1>2. ASSUME NEW s \in Symbols \cup {None}
      PROVE  GoodState(State(<< >>, s, books, orders))
  BY <1>1, <1>2, GoodFrom
<1>3. CASE r.type = "NEW"
  <2>1. r.order \in ProperOrders(Least) /\ r.order.symbol \in Symbols /\ r.order.order_id \in Ids
    BY <1>3 DEF ProperRequest, ProperOrders, Order
  <2>2. Entered(orders, r.order) \in [Ids -> T]
    BY <1>1, <2>1 DEF Entered
  <2>3. GoodState(State(<< >>, r.order.symbol, BooksWith(books, r.order),
                        Entered(orders, r.order)))
    BY <1>1, <2>1, <2>2, PlacedGood
  <2>4. AfterRequest(r, <<books, orders>>) = AfterNew(r, books, orders)
    BY <1>3 DEF AfterRequest
  <2>5. QED
    BY <1>2, <2>1, <2>3, <2>4 DEF AfterNew
<1>4. CASE r.type # "NEW" /\ ~Rests(books, orders, id)
  <2>1. AfterRequest(r, <<books, orders>>) = State(<< >>, SymbolOf(orders, id), books, orders)
    BY <1>4 DEF AfterRequest
  <2>2. SymbolOf(orders, id) \in Symbols \cup {None}
    BY <1>1, <1>4 DEF ProperRequest, SymbolOf, ProperOrders, Order
  <2>3. QED
    BY <1>2, <2>1, <2>2
<1>5. CASE r.type # "NEW" /\ Rests(books, orders, id)
  <2>1. old \in ProperOrders(Least) /\ id \in Ids /\ old.symbol \in Symbols
    BY <1>1, <1>5 DEF ProperRequest, Rests, ProperOrders, Order
  <2>2. SymbolOf(orders, id) = old.symbol
    BY <1>5 DEF SymbolOf, Rests
  <2>3. /\ BooksWithout(books, old) \in [Symbols -> Books(Least)]
        /\ \A s \in Symbols : Quiet(books[s]) => Quiet(BooksWithout(books, old)[s])
    BY <1>1, <2>1, LeastType, BooksWithoutOrder
  <2> DEFINE less == BooksWithout(books, old)
  <2>4. less \in [Symbols -> Books(Least)] /\ (Least = 1 => \A s \in Symbols : Quiet(less[s]))
    BY <1>1, <2>3
  <2>5. CASE r.type = "MODIFY"
    <3> DEFINE new == Amended(old, r.price)
               orders2 == [orders EXCEPT ![id] = new]
    <3>1. new \in ProperOrders(Least) /\ new.symbol = old.symbol
      BY <2>1, <2>5, AmendedProper DEF ProperRequest
    <3>2. orders2 \in [Ids -> ProperOrders(Least) \cup {None}]
      BY <1>1, <2>1, <3>1
    <3>3. AfterRequest(r, <<books, orders>>) =
            State(<< >>, new.symbol, BooksWith(less, new), orders2)
      BY <1>5, <2>2, <2>5, <3>1 DEF AfterRequest, AfterModify
    <3> HIDE DEF new, less, orders2
    <3>4. GoodState(State(<< >>, new.symbol, BooksWith(less, new), orders2))
      BY <1>1, <2>4, <3>1, <3>2, PlacedGood
    <3>5. QED
      BY <3>3, <3>4
  <2>6. CASE r.type # "MODIFY"
    <3> DEFINE orders2 == [orders EXCEPT ![id] = None]
               s0 == old.symbol
    <3>1. orders2 \in [Ids -> ProperOrders(Least) \cup {None}]
      BY <1>1
    <3>2. AfterRequest(r, <<books, orders>>) = State(<< >>, s0, less, orders2)
      BY <1>5, <2>2, <2>6 DEF AfterRequest, AfterCancel
    <3>3. s0 \in Symbols \cup {None}
      BY <2>1
    <3> HIDE DEF less, orders2, s0
    <3>4. Least = 1 => \A z \in Symbols :
             OneSided(less[z]) /\ (z # s0 => Quiet(less[z]))
      BY <2>4, QuietIsOneSided
    <3>5. GoodState(State(<< >>, s0, less, orders2))
      BY <1>1, <2>4, <3>1, <3>3, <3>4, GoodFrom
    <3>6. QED
      BY <3>2, <3>5
  <2>7. QED
    BY <2>5, <2>6
<1>6. QED
  BY <1>3, <1>4, <1>5
-----------------------------------------------------------------------------
(* Which ids are of market orders *)

Kind(o) == <<o.order_id, IsMarket(o)>>

NewIn(s, n) == {i \in 1 .. n : s[i].type = "NEW"}
Kinds(s, n) == {Kind(s[i].order) : i \in NewIn(s, n)}

KindOrders(K) == {o \in ProperOrders(Least) : Kind(o) \in K /\ WellFormed(o)}

\* No id is of a market order and of a limit order.
Decided(K) == \A id : ~(<<id, TRUE>> \in K /\ <<id, FALSE>> \in K)

\* Every order of a state is of a kind in K, and the map has orders by id.
KindState(x, K) ==
  /\ x.todo \in Seq(KindOrders(K))
  /\ \A s \in Symbols, side \in Sides : x.books[s][side] \in Seq(KindOrders(K))
  /\ x.orders \in [Ids -> KindOrders(K) \cup {None}]
  /\ \A id \in Ids : x.orders[id] # None => x.orders[id].order_id = id

LEMMA AddOrderIn ==
  ASSUME NEW S, NEW s \in Seq(S), NEW o \in S
  PROVE  AddOrder(s, o) \in Seq(S)
<1> DEFINE F == {i \in 1 .. Len(s) : Ahead(s[i], o)}
<1>1. F \in SUBSET (1 .. Len(s)) /\ Place(s, o) = FirstOutside(s, F)
  BY DEF Place
<1> HIDE DEF F
<1>2. Place(s, o) \in 1 .. Len(s) + 1
  BY <1>1, FirstOutsideFinds
<1>3. QED
  BY <1>2, InsertAtElements DEF AddOrder

\* What Match leaves of a side is its orders, and the head's remainder.
LEMMA MatchedIn ==
  ASSUME NEW b \in Books(Least), NEW side \in Sides, NEW S, b[side] \in Seq(S),
         Crosses(b) /\ Rest(Head(b[side]), TradeQuantity(b)).quantity > 0 =>
           Rest(Head(b[side]), TradeQuantity(b)) \in S
  PROVE  MatchedBook(b)[side] \in Seq(S)
<1>1. MatchedBook(b)[side] = MatchedSide(b, side) /\ Sorted(b[side])
  BY DEF MatchedBook, Books
<1>2. CASE Crosses(b)
  <2>1. b[side] # << >>
    BY <1>2, LeastType, Heads DEF Sides
  <2>2. Tail(b[side]) \in Seq(S)
    BY <2>1, HeadTailProperties
  <2>3. MatchedSide(b, side) = Executed(b[side], TradeQuantity(b))
    BY <1>2 DEF MatchedSide
  <2>4. QED
    BY <1>1, <1>2, <2>2, <2>3, AddOrderIn DEF Executed
<1>3. CASE ~Crosses(b)
  <2>1. MatchedSide(b, side) \in {PopMarketLevel(b[side]), b[side]}
    BY <1>3 DEF MatchedSide
  <2>2. PopMarketLevel(b[side]) \in Seq(S)
    BY <1>1, PopMarketLevelSorted
  <2>3. QED
    BY <1>1, <2>1, <2>2
<1>4. QED
  BY <1>2, <1>3

LEMMA SideWith ==
  ASSUME NEW books \in [Symbols -> Books(Least)], NEW o \in ProperOrders(Least),
         NEW s \in Symbols, NEW side \in Sides
  PROVE  BooksWith(books, o)[s][side] =
           IF s = o.symbol /\ side = o.buysell THEN AddOrder(books[s][side], o)
           ELSE books[s][side]
<1>1. o.symbol \in Symbols /\ o.buysell \in Sides
  BY DEF ProperOrders, Order
<1>2. \A z \in Symbols : books[z] \in [Sides -> Seq(Order)]
  BY DEF Books
<1>3. QED
  BY <1>1, <1>2 DEF BooksWith

LEMMA SideWithout ==
  ASSUME NEW books \in [Symbols -> Books(Least)], NEW o \in ProperOrders(Least),
         NEW s \in Symbols, NEW side \in Sides
  PROVE  BooksWithout(books, o)[s][side] =
           IF s = o.symbol /\ side = o.buysell THEN RemoveOrder(books[s][side], o.order_id)
           ELSE books[s][side]
<1>1. o.symbol \in Symbols /\ o.buysell \in Sides
  BY DEF ProperOrders, Order
<1>2. \A z \in Symbols : books[z] \in [Sides -> Seq(Order)]
  BY DEF Books
<1>3. QED
  BY <1>1, <1>2 DEF BooksWithout

LEMMA KindFrom ==
  ASSUME NEW K, NEW rows \in Seq(KindOrders(K)), NEW s, NEW books,
         \A z \in Symbols, side \in Sides : books[z][side] \in Seq(KindOrders(K)),
         NEW orders \in [Ids -> KindOrders(K) \cup {None}],
         \A id \in Ids : orders[id] # None => orders[id].order_id = id
  PROVE  KindState(State(rows, s, books, orders), K)
  BY DEF KindState, State

LEMMA KindWith ==
  ASSUME NEW K, NEW books \in [Symbols -> Books(Least)], NEW o \in KindOrders(K),
         \A s \in Symbols, side \in Sides : books[s][side] \in Seq(KindOrders(K))
  PROVE  \A s \in Symbols, side \in Sides :
            BooksWith(books, o)[s][side] \in Seq(KindOrders(K))
<1>1. o \in ProperOrders(Least)
  BY DEF KindOrders
<1>2. QED
  BY <1>1, SideWith, AddOrderIn

LEMMA KindWithout ==
  ASSUME NEW K, NEW books \in [Symbols -> Books(Least)], NEW o \in ProperOrders(Least),
         \A s \in Symbols, side \in Sides : books[s][side] \in Seq(KindOrders(K))
  PROVE  \A s \in Symbols, side \in Sides :
            BooksWithout(books, o)[s][side] \in Seq(KindOrders(K))
  BY SideWithout, RemoveOrderElements

LEMMA KindEntered ==
  ASSUME NEW K, NEW orders \in [Ids -> KindOrders(K) \cup {None}],
         \A id \in Ids : orders[id] # None => orders[id].order_id = id,
         NEW o \in KindOrders(K)
  PROVE  /\ Entered(orders, o) \in [Ids -> KindOrders(K) \cup {None}]
         /\ \A id \in Ids : Entered(orders, o)[id] # None =>
                              Entered(orders, o)[id].order_id = id
<1>1. o.order_id \in Ids
  BY DEF KindOrders, ProperOrders, Order
<1>2. QED
  BY <1>1 DEF Entered

\* A remainder is of its order's kind.
LEMMA KindRemainder ==
  ASSUME NEW K, NEW b \in Books(Least), Crosses(b), NEW side \in Sides,
         b[side] \in Seq(KindOrders(K)),
         Rest(Head(b[side]), TradeQuantity(b)).quantity > 0
  PROVE  Rest(Head(b[side]), TradeQuantity(b)) \in KindOrders(K)
<1> DEFINE h == Head(b[side])
           m == Rest(h, TradeQuantity(b))
<1>1. /\ b[side] # << >> /\ m \in SideOrders(side, Least)
      /\ m.order_id = h.order_id /\ m.order_type = h.order_type /\ m.price = h.price
  BY RemainderIn
<1>2. h \in KindOrders(K)
  BY <1>1, HeadTailProperties
<1> HIDE DEF m, h
<1>3. Kind(m) = Kind(h) /\ (WellFormed(m) <=> WellFormed(h))
  BY <1>1 DEF Kind, IsMarket, WellFormed
<1>4. QED
  BY <1>1, <1>2, <1>3 DEF KindOrders, SideOrders, m, h

LEMMA ContinueKinds ==
  ASSUME NEW K, NEW x, GoodState(x), KindState(x, K), ~Done(x)
  PROVE  KindState(Continue(x), K)
<1> DEFINE o == Head(x.todo)
           b == x.books[x.sym]
<1>1. /\ x.books \in [Symbols -> Books(Least)] /\ x.sym \in Symbols \cup {None}
      /\ x.todo \in Seq(KindOrders(K)) /\ x.orders \in [Ids -> KindOrders(K) \cup {None}]
      /\ \A s \in Symbols, side \in Sides : x.books[s][side] \in Seq(KindOrders(K))
      /\ \A id \in Ids : x.orders[id] # None => x.orders[id].order_id = id
  BY DEF GoodState, KindState
<1>2. CASE x.sym = None
  <2>1. x.todo # << >>
    BY <1>2 DEF Done
  <2>2. o \in KindOrders(K) /\ Tail(x.todo) \in Seq(KindOrders(K))
    BY <1>1, <2>1, HeadTailProperties
  <2>3. Continue(x) = State(Tail(x.todo), o.symbol, BooksWith(x.books, o),
                            Entered(x.orders, o))
    BY <1>2 DEF Continue
  <2> HIDE DEF o
  <2>4. \A s \in Symbols, side \in Sides :
           BooksWith(x.books, o)[s][side] \in Seq(KindOrders(K))
    BY <1>1, <2>2, KindWith
  <2>5. /\ Entered(x.orders, o) \in [Ids -> KindOrders(K) \cup {None}]
        /\ \A id \in Ids : Entered(x.orders, o)[id] # None =>
                             Entered(x.orders, o)[id].order_id = id
    BY <1>1, <2>2, KindEntered
  <2> DEFINE rows == Tail(x.todo)
             books == BooksWith(x.books, o)
             orders == Entered(x.orders, o)
  <2>6. /\ rows \in Seq(KindOrders(K)) /\ orders \in [Ids -> KindOrders(K) \cup {None}]
        /\ \A s \in Symbols, side \in Sides : books[s][side] \in Seq(KindOrders(K))
        /\ \A id \in Ids : orders[id] # None => orders[id].order_id = id
    BY <2>2, <2>4, <2>5
  <2>7. Continue(x) = State(rows, o.symbol, books, orders)
    BY <2>3
  <2> HIDE DEF rows, books, orders
  <2>8. KindState(State(rows, o.symbol, books, orders), K)
    BY <2>6, KindFrom
  <2>9. QED
    BY <2>7, <2>8
<1>3. CASE x.sym # None
  <2>1. x.sym \in Symbols /\ b \in Books(Least)
        /\ \A side \in Sides : b[side] \in Seq(KindOrders(K))
    BY <1>1, <1>3
  <2> DEFINE c == Matched(x.books, x.sym)
             u == Updated(x.orders, b)
  <2>2. \A side \in Sides : MatchedBook(b)[side] \in Seq(KindOrders(K))
    BY <2>1, MatchedIn, KindRemainder
  <2>3. \A s \in Symbols, side \in Sides : c[s][side] \in Seq(KindOrders(K))
    BY <1>1, <2>1, <2>2 DEF Matched
  <2>4. CASE TradesIn(b)
    <3>1. Crosses(b)
      BY <2>4 DEF TradesIn
    <3>2. /\ u \in [Ids -> KindOrders(K) \cup {None}]
          /\ \A id \in Ids : u[id] # None => u[id].order_id = id
      <4> DEFINE T == KindOrders(K)
                 m == x.orders
      <4>1. \A side \in Sides : Rest(Head(b[side]), TradeQuantity(b)).quantity > 0 =>
                                  Rest(Head(b[side]), TradeQuantity(b)) \in T
        BY <2>1, <3>1, KindRemainder
      <4>2. m \in [Ids -> T \cup {None}] /\ \A id \in Ids : m[id] # None => m[id].order_id = id
        BY <1>1
      <4> HIDE DEF T, m, b
      <4>3. /\ Updated(m, b) \in [Ids -> T \cup {None}]
            /\ \A id \in Ids : Updated(m, b)[id] # None => Updated(m, b)[id].order_id = id
        BY <2>1, <3>1, <4>1, <4>2, UpdatedIn
      <4>4. QED
        BY <4>3 DEF m, T
    <3>3. Continue(x) = State(x.todo, x.sym, c, u)
      BY <1>3, <2>4 DEF Continue
    <3> HIDE DEF c, u
    <3>4. KindState(State(x.todo, x.sym, c, u), K)
      BY <1>1, <2>3, <3>2, KindFrom
    <3>5. QED
      BY <3>3, <3>4
  <2>5. CASE ~TradesIn(b)
    <3>1. Continue(x) = State(x.todo, None, c, x.orders)
      BY <1>3, <2>5 DEF Continue
    <3> HIDE DEF c
    <3>2. KindState(State(x.todo, None, c, x.orders), K)
      BY <1>1, <2>3, KindFrom
    <3>3. QED
      BY <3>1, <3>2
  <2>6. QED
    BY <2>4, <2>5
<1>4. QED
  BY <1>2, <1>3

\* In quiet books no id finds a market order: it would be of both kinds.
LEMMA RestingIsLimit ==
  ASSUME Least = 1, NEW K, Decided(K), NEW books, NEW orders,
         GoodState(State(<< >>, None, books, orders)),
         KindState(State(<< >>, None, books, orders), K),
         NEW id \in Ids, Rests(books, orders, id)
  PROVE  ~IsMarket(orders[id])
<1> DEFINE old == orders[id]
           side == books[old.symbol][old.buysell]
<1>1. /\ old \in KindOrders(K) /\ old.order_id = id
      /\ \A s \in Symbols, x \in Sides : books[s][x] \in Seq(KindOrders(K))
      /\ \A s \in Symbols : Quiet(books[s])
  BY NoneIsNone DEF KindState, GoodState, State, Rests
<1>2. old.symbol \in Symbols /\ old.buysell \in Sides
  BY <1>1 DEF KindOrders, ProperOrders, Order
<1>3. PICK i \in 1 .. Len(side) : side[i].order_id = id
  BY DEF Rests, Holds
<1>4. side \in Seq(KindOrders(K)) /\ NoMarket(side)
  BY <1>1, <1>2 DEF Quiet
<1>5. side[i] \in KindOrders(K) /\ ~IsMarket(side[i])
  BY <1>3, <1>4, ElementOfSeq DEF NoMarket
<1>6. <<id, FALSE>> \in K
  <2>1. IsMarket(side[i]) = FALSE
    BY <1>5 DEF IsMarket
  <2>2. Kind(side[i]) = <<id, FALSE>>
    BY <1>3, <2>1 DEF Kind
  <2>3. QED
    BY <1>5, <2>2 DEF KindOrders
<1>7. IsMarket(old) => <<id, TRUE>> \in K
  <2>1. SUFFICES ASSUME IsMarket(old) PROVE <<id, TRUE>> \in K
    OBVIOUS
  <2>2. Kind(old) = <<id, TRUE>>
    BY <1>1, <2>1 DEF Kind, IsMarket
  <2>3. QED
    BY <1>1, <2>2 DEF KindOrders
<1>8. QED
  BY <1>6, <1>7 DEF Decided
-----------------------------------------------------------------------------
(* What the publisher has *)

RequestInv == \A i \in 1 .. Len(requests) : ProperRequest(requests[i])

PubDataInv == GoodState(PState)

LEMMA RequestAppended ==
  ASSUME IInv, RequestInv, NEW r, ProperRequest(r), requests' = Append(requests, r)
  PROVE  RequestInv'
<1>1. IsSequence(requests)
  BY DEF IInv, RestTypeOK, IsSequence
<1>2. /\ Len(requests) \in Nat /\ Len(requests') = Len(requests) + 1
      /\ requests'[Len(requests) + 1] = r
      /\ \A i \in 1 .. Len(requests) : requests'[i] = requests[i]
  BY <1>1, Appended
<1>3. ASSUME NEW i \in 1 .. Len(requests') PROVE ProperRequest(requests'[i])
  <2>1. i \in 1 .. Len(requests) \/ i = Len(requests) + 1
    BY <1>2
  <2>2. QED
    BY <1>2, <2>1 DEF RequestInv
<1>4. QED
  BY <1>3 DEF RequestInv

LEMMA NewIsProper ==
  ASSUME NEW o \in NewOrders, NEW f
  PROVE  ProperRequest([type |-> "NEW", order |-> o, filled |-> f])
  BY NewOrdersProper DEF ProperRequest

LEMMA ModifyIsProper ==
  ASSUME NEW id \in Ids, NEW price \in Prices, NEW quantity
  PROVE  ProperRequest(Modification(id, price, quantity))
  BY DEF ProperRequest, Modification

LEMMA CancelIsProper ==
  ASSUME NEW id \in Ids PROVE ProperRequest([type |-> "CANCEL", order_id |-> id])
  BY DEF ProperRequest

LEMMA EngineRequests ==
  ASSUME IInv, RequestInv, Engine
  PROVE  RequestInv'
<1>1. CASE requests' = requests
  BY <1>1 DEF RequestInv
<1>2. CASE ProcessNew
  <2>1. PICK o \in NewOrders : AcceptOrder(o) \/ RejectOrder(o)
    BY <1>2 DEF ProcessNew
  <2>2. PICK f : requests' = Append(requests, [type |-> "NEW", order |-> o, filled |-> f])
    BY <2>1 DEF AcceptOrder, RejectOrder, Receive
  <2>3. QED
    BY <2>2, NewIsProper, RequestAppended
<1>3. CASE ProcessModify
  <2>1. PICK id \in Ids, price \in Prices, quantity \in Quantities :
           \/ ModifyUnknown(id, price, quantity) \/ ModifyGone(id, price, quantity)
           \/ ModifyOrder(id, price, quantity) \/ DieInModify(id, price, quantity)
    BY <1>3 DEF ProcessModify
  <2>2. requests' = Append(requests, Modification(id, price, quantity))
    BY <2>1 DEF ModifyUnknown, ModifyGone, ModifyOrder, DieInModify, Receive
  <2>3. QED
    BY <2>2, ModifyIsProper, RequestAppended
<1>4. CASE ProcessCancel
  <2>1. PICK id \in Ids : CancelUnknown(id) \/ CancelOrder(id)
    BY <1>4 DEF ProcessCancel
  <2>2. requests' = Append(requests, [type |-> "CANCEL", order_id |-> id])
    BY <2>1 DEF CancelUnknown, CancelOrder, Receive
  <2>3. QED
    BY <2>2, CancelIsProper, RequestAppended
<1>5. CASE Progress \/ Stop \/ StopInMatch \/ DieDrained
  <2>1. requests' = requests
    BY <1>5 DEF Progress, LoadRow, LoadDone, CommunicateAck, MatchTrades, MatchEnds,
       CommunicateTrade, CommunicateReportingMsg, Stop, StopInMatch, DieDrained, logVars
  <2>2. QED
    BY <1>1, <2>1
<1>6. QED
  BY <1>2, <1>3, <1>4, <1>5 DEF Engine

LEMMA RequestsKept ==
  ASSUME IInv, RequestInv, [ExNext]_exVars
  PROVE  RequestInv'
<1>1. CASE ~Engine
  <2>1. requests' = requests
    BY <1>1 DEF ExNext, EngineReady, Ready, EngineNotReady, EngineRestart, Restart,
       PubStart, PubWorks, PubHandles, PubEnds, exVars, vars, logVars
  <2>2. QED
    BY <2>1 DEF RequestInv
<1>2. QED
  BY <1>1, EngineRequests

LEMMA NextProper ==
  ASSUME IInv, HistTypes, RequestInv, NEW r \in NextMessages
  PROVE  ProperRequest(r)
<1>1. CASE Len(seen) < Len(Read)
  <2>1. /\ Len(requests) \in Nat /\ base \in Nat /\ base <= Len(requests)
        /\ ReadCount \in Nat /\ Len(seen) \in Nat /\ requests \in Seq(Request)
    BY Counts DEF HistTypes, IInv, RestTypeOK
  <2>2. Len(Read) = ReadCount
    BY <2>1 DEF Read, ReadCount
  <2>3. Len(seen) + 1 <= ReadCount /\ base + (Len(seen) + 1) \in 1 .. Len(requests)
    BY <1>1, <2>1, <2>2 DEF ReadCount
  <2>4. r = requests[base + (Len(seen) + 1)]
    BY <2>3, TakenInTurn DEF ReadAt
  <2>5. QED
    BY <2>3, <2>4 DEF RequestInv
<1>2. CASE r \in SendableNew
  <2>1. PICK o \in NewOrders : \E f : r = [type |-> "NEW", order |-> o, filled |-> f]
    BY <1>2 DEF SendableNew
  <2>2. QED
    BY <2>1, NewIsProper
<1>3. CASE r \in SendableModify
  <2>1. r.type = "MODIFY" /\ r.order_id \in Ids /\ r.price \in Prices
    BY <1>3 DEF SendableModify
  <2>2. QED
    BY <2>1 DEF ProperRequest
<1>4. CASE r \in SendableCancel
  <2>1. r.type = "CANCEL" /\ r.order_id \in Ids
    BY <1>4 DEF SendableCancel
  <2>2. QED
    BY <2>1 DEF ProperRequest
<1>5. QED
  BY <1>1, <1>2, <1>3, <1>4 DEF NextMessages

LEMMA EmptyBooksGood ==
  ASSUME NEW rows \in Seq(ProperOrders(Least))
  PROVE  GoodState(State(rows, None, EmptyBooks, NoOrders))
<1>1. EmptyBook \in Books(Least) /\ Quiet(EmptyBook)
  BY EmptyBookProper, LeastType
<1>2. /\ EmptyBooks \in [Symbols -> Books(Least)]
      /\ \A s \in Symbols : OneSided(EmptyBooks[s]) /\ Quiet(EmptyBooks[s])
  BY <1>1, QuietIsOneSided DEF EmptyBooks
<1>3. NoOrders \in [Ids -> ProperOrders(Least) \cup {None}]
  BY DEF NoOrders
<1>4. QED
  BY <1>2, <1>3, GoodFrom

\* At rest the publisher's state is its view.
LEMMA PubRests ==
  ASSUME PublisherInv, ppc = "idle"
  PROVE  PState = State(<< >>, None, pubbooks, puborders) /\ ptodo = << >>
  BY DEF PublisherInv, PState

LEMMA TakeGood ==
  ASSUME OneJunk, IInv, ReplicaInv, RequestInv, PubDataInv,
         NEW r \in NextMessages, P!Process(r)
  PROVE  /\ Takes(r) /\ ProperRequest(r)
         /\ PState' = AfterRequest(r, <<pubbooks, puborders>>)
         /\ GoodState(PState')
<1>1. Takes(r) /\ ProperRequest(r)
  BY TakeRequest, NextProper DEF ReplicaInv
<1>2. PublisherInv /\ ppc = "idle"
  BY <1>1 DEF ReplicaInv, Takes
<1>3. PState' = AfterRequest(r, <<pubbooks, puborders>>)
  BY <1>1, <1>2, PubRests DEF Takes, PState, PView
<1>4. GoodState(State(<< >>, None, pubbooks, puborders))
  BY <1>2, PubRests DEF PubDataInv
<1>5. QED
  BY <1>1, <1>3, <1>4, RequestGood

LEMMA PubDataKept ==
  ASSUME OneJunk, IInv, ReplicaInv, RequestInv, PubDataInv, [ExNext]_exVars
  PROVE  PubDataInv'
<1>1. CASE PState' = PState
  BY <1>1 DEF PubDataInv
<1>2. CASE P!Exit
  <2>1. PState' = State(<< >>, None, EmptyBooks, NoOrders)
    BY <1>2 DEF P!Exit, PState, EmptyBooks, NoOrders, P!EmptyBook, P!Sides, EmptyBook, Sides
  <2>2. << >> \in Seq(ProperOrders(Least))
    OBVIOUS
  <2>3. QED
    BY <2>1, <2>2, EmptyBooksGood DEF PubDataInv
<1>3. CASE PubStart
  <2>1. /\ ppc = "down" /\ ptodo' = db.t1 /\ psym' = psym
        /\ pubbooks' = pubbooks /\ puborders' = puborders
    BY <1>3 DEF PubStart, P!Start, P!viewVars
  <2>2. psym = None /\ PView = <<EmptyBooks, NoOrders>>
    BY <2>1 DEF ReplicaInv, PublisherInv
  <2>3. PState' = State(db.t1, None, EmptyBooks, NoOrders)
    BY <2>1, <2>2 DEF PState, PView
  <2>4. db.t1 \in Seq(ProperOrders(Least))
    BY DEF IInv, DataInv, DataIn, ProperDB
  <2>5. QED
    BY <2>3, <2>4, EmptyBooksGood DEF PubDataInv
<1>4. CASE PubWorks
  <2>1. CASE P!TakeFails
    BY <1>2, <2>1 DEF P!TakeFails
  <2>2. CASE ~P!TakeFails
    <3>1. PublisherWorks
      BY <1>4, <2>2, PubProgressWorks DEF PubWorks, ReplicaInv
    <3>2. CASE ~Done(PState) /\ PState' = Continue(PState)
      BY <3>2, ContinueGood DEF PubDataInv
    <3>3. QED
      BY <1>1, <3>1, <3>2 DEF PublisherWorks
  <2>3. QED
    BY <2>1, <2>2
<1>5. CASE PubHandles
  <2>1. PICK r \in NextMessages : P!Process(r)
    BY <1>5 DEF PubHandles
  <2>2. GoodState(PState')
    BY <2>1, TakeGood
  <2>3. QED
    BY <2>2 DEF PubDataInv
<1>6. CASE PubEnds
  <2>1. P!Exit \/ UNCHANGED <<pubbooks, puborders, ppc, psym, ptodo, loaded, semid5, seen>>
    BY <1>6 DEF PubEnds, P!Interrupt, P!InterruptLoad, P!DieDrained, P!DieInModify,
       P!viewVars
  <2>2. QED
    BY <1>1, <1>2, <2>1 DEF PState
<1>7. CASE Engine \/ EngineReady \/ EngineNotReady \/ EngineRestart \/ UNCHANGED exVars
  <2>1. UNCHANGED pubOwn
    BY <1>7 DEF Engine, EngineReady, EngineNotReady, EngineRestart, exVars
  <2>2. QED
    BY <1>1, <2>1 DEF pubOwn, PState
<1>8. QED
  BY <1>3, <1>4, <1>5, <1>6, <1>7 DEF ExNext
-----------------------------------------------------------------------------
(* What clients see is never crossed *)

LEMMA PopNothing ==
  ASSUME NEW S, NEW s \in Seq(S), NoMarket(s)
  PROVE  PopMarketLevel(s) = s
<1> DEFINE F == {i \in 1 .. Len(s) : IsMarket(s[i])}
           k == FirstOutside(s, F)
<1>1. F \in SUBSET (1 .. Len(s)) /\ F = {}
  BY DEF NoMarket
<1>2. PopMarketLevel(s) = SubSeq(s, k, Len(s))
  BY DEF PopMarketLevel
<1> HIDE DEF F
<1>3. k \in 1 .. Len(s) + 1 /\ \A i \in 1 .. k - 1 : i \in F
  BY <1>1, FirstOutsideFinds
<1> HIDE DEF k
<1>4. k = 1
  <2>1. k > 1 => k - 1 \in 1 .. k - 1
    BY <1>3
  <2>2. QED
    BY <1>1, <1>3, <2>1
<1>5. QED
  BY <1>2, <1>4

LEMMA AddOrderNoMarket ==
  ASSUME NEW S, NEW s \in Seq(S), NEW o \in S, NoMarket(s), ~IsMarket(o)
  PROVE  NoMarket(AddOrder(s, o))
<1> DEFINE F == {i \in 1 .. Len(s) : Ahead(s[i], o)}
           k == Place(s, o)
           t == AddOrder(s, o)
<1>1. F \in SUBSET (1 .. Len(s)) /\ k = FirstOutside(s, F) /\ t = InsertAt(s, k, o)
  BY DEF Place, AddOrder
<1> HIDE DEF F, t
<1>2. k \in 1 .. Len(s) + 1
  BY <1>1, FirstOutsideFinds
<1> HIDE DEF k
<1>3. /\ Len(t) = Len(s) + 1
      /\ \A j \in 1 .. Len(s) + 1 :
            t[j] = IF j < k THEN s[j] ELSE IF j = k THEN o ELSE s[j - 1]
  BY <1>1, <1>2, InsertAtElements
<1>4. ASSUME NEW j \in 1 .. Len(t) PROVE ~IsMarket(t[j])
  <2>1. CASE j < k
    <3>1. t[j] = s[j] /\ j \in 1 .. Len(s)
      BY <1>2, <1>3, <2>1
    <3>2. QED
      BY <3>1 DEF NoMarket
  <2>2. CASE j = k
    BY <1>3, <2>2
  <2>3. CASE j > k
    <3>1. t[j] = s[j - 1] /\ j - 1 \in 1 .. Len(s)
      BY <1>2, <1>3, <2>3
    <3>2. QED
      BY <3>1 DEF NoMarket
  <2>4. QED
    BY <1>2, <1>3, <2>1, <2>2, <2>3
<1>5. QED
  BY <1>4 DEF NoMarket, t

\* Match leaves a book alone that has neither market orders nor a trade in it.
LEMMA NothingToMatch ==
  ASSUME Least = 1, NEW b \in Books(Least), ~TradesIn(b),
         \A side \in Sides : NoMarket(b[side])
  PROVE  MatchedBook(b) = b
<1>1. ~Crosses(b)
  BY Heads DEF TradesIn
<1>2. b \in [Sides -> Seq(Order)]
  BY DEF Books
<1>3. ASSUME NEW side \in Sides PROVE MatchedSide(b, side) = b[side]
  <2>1. b[side] \in Seq(Order)
    BY <1>2
  <2>2. PopMarketLevel(b[side]) = b[side]
    BY <2>1, PopNothing
  <2>3. QED
    BY <1>1, <2>2 DEF MatchedSide
<1>4. QED
  BY <1>2, <1>3 DEF MatchedBook

Limits(b) == \A side \in Sides : NoMarket(b[side])

LEMMA LimitsWith ==
  ASSUME NEW books \in [Symbols -> Books(Least)], NEW o \in ProperOrders(Least),
         ~IsMarket(o), Limits(books[o.symbol])
  PROVE  Limits(BooksWith(books, o)[o.symbol])
<1>1. o.symbol \in Symbols
  BY DEF ProperOrders, Order
<1>2. ASSUME NEW side \in Sides PROVE NoMarket(BooksWith(books, o)[o.symbol][side])
  <2>1. books[o.symbol][side] \in Seq(Order \cup {o}) /\ NoMarket(books[o.symbol][side])
    <3>1. books[o.symbol][side] \in Seq(Order)
      BY <1>1 DEF Books
    <3>2. QED
      BY <3>1 DEF Limits
  <2>2. NoMarket(AddOrder(books[o.symbol][side], o))
    BY <2>1, AddOrderNoMarket
  <2>3. QED
    BY <1>1, <2>1, <2>2, SideWith
<1>3. QED
  BY <1>2 DEF Limits

\* The last message about s, if any, shows a book that Update has left.
Clean(s) == shown[s] = None \/ \E b \in Books(Least) : Quiet(b) /\ shown[s] = P!TopBook(b)

\* That is so unless Update is at work for s; before its first Match the message
\* may show the book as it is, if there is no market order in it.
CleanInv ==
  /\ shown = [s \in Symbols |-> shown[s]]
  /\ ppc # "down" =>
       \A s \in Symbols :
          \/ Clean(s)
          \/ s = psym /\ ppc = "again"
          \/ /\ s = psym /\ ppc = "match"
             /\ shown[s] = P!TopBook(pubbooks[s]) /\ Limits(pubbooks[s])

LEMMA SameMarket == \A o : P!IsMarket(o) <=> IsMarket(o)
  BY DEF P!IsMarket, IsMarket

LEMMA AnnouncedClean ==
  ASSUME CleanInv, ppc \in {"load", "idle"}, ppc' = "match",
         NEW o, o.symbol \in Symbols, psym' = o.symbol, P!Announce(o),
         IsMarket(o) \/ Limits(pubbooks'[o.symbol])
  PROVE  CleanInv'
<1>1. \A s \in Symbols : Clean(s)
  BY DEF CleanInv
<1>2. CASE IsMarket(o)
  <2>1. shown' = shown
    BY <1>2, SameMarket DEF P!Announce
  <2>2. QED
    BY <1>1, <2>1 DEF CleanInv, Clean
<1>3. CASE ~IsMarket(o)
  <2>1. shown' = [shown EXCEPT ![o.symbol] = P!TopBook(pubbooks'[o.symbol])]
    BY <1>3, SameMarket DEF P!Announce, P!CommunicateBookMsg
  <2>2. /\ shown' = [s \in Symbols |-> shown'[s]]
        /\ shown'[o.symbol] = P!TopBook(pubbooks'[o.symbol])
        /\ \A s \in Symbols : s # o.symbol => shown'[s] = shown[s]
    BY <2>1 DEF CleanInv
  <2>3. QED
    BY <1>1, <1>3, <2>2 DEF CleanInv, Clean
<1>4. QED
  BY <1>2, <1>3

\* What the books of a quiet view become by a request that has books to Update
\* announced.
LEMMA RequestLimits ==
  ASSUME OneJunk, Least = 1, NEW r, ProperRequest(r), NEW books, NEW orders,
         GoodState(State(<< >>, None, books, orders)),
         NEW o, o = IF r.type = "NEW" THEN r.order ELSE orders[r.order_id],
         r.type # "NEW" => o # None, ~IsMarket(o)
  PROVE  /\ o.symbol \in Symbols
         /\ Limits(AfterRequest(r, <<books, orders>>).books[o.symbol])
<1>1. /\ books \in [Symbols -> Books(Least)]
      /\ orders \in [Ids -> ProperOrders(Least) \cup {None}]
      /\ \A s \in Symbols : Quiet(books[s]) /\ Limits(books[s])
  BY NoneIsNone DEF GoodState, State, Limits, Quiet
<1>2. o \in ProperOrders(Least) /\ o.symbol \in Symbols
  BY <1>1 DEF ProperRequest, ProperOrders, Order
<1>3. CASE r.type = "NEW"
  <2>1. Limits(BooksWith(books, o)[o.symbol])
    BY <1>1, <1>2, LimitsWith
  <2>2. AfterRequest(r, <<books, orders>>).books \in {BooksWith(books, o), books}
    BY <1>3 DEF AfterRequest, AfterNew, State
  <2>3. QED
    BY <1>1, <1>2, <2>1, <2>2
<1>4. CASE r.type # "NEW" /\ ~Rests(books, orders, r.order_id)
  <2>1. AfterRequest(r, <<books, orders>>).books = books
    BY <1>4 DEF AfterRequest, State
  <2>2. QED
    BY <1>1, <1>2, <2>1
<1>5. CASE r.type # "NEW" /\ Rests(books, orders, r.order_id)
  <2> DEFINE less == BooksWithout(books, o)
             new == Amended(o, r.price)
  <2>1. /\ less \in [Symbols -> Books(Least)]
        /\ Limits(less[o.symbol])
    BY <1>1, <1>2, LeastType, BooksWithoutOrder DEF Limits, Quiet
  <2>2. CASE r.type = "MODIFY"
    <3>1. /\ new \in ProperOrders(Least) /\ new.symbol = o.symbol
          /\ ~IsMarket(new)
      BY <1>2, <2>2, AmendedProper DEF ProperRequest, IsMarket
    <3>2. AfterRequest(r, <<books, orders>>).books = BooksWith(less, new)
      BY <1>5, <2>2 DEF AfterRequest, AfterModify, State
    <3> HIDE DEF less, new
    <3>3. Limits(BooksWith(less, new)[new.symbol])
      BY <2>1, <3>1, LimitsWith
    <3>4. QED
      BY <1>2, <3>1, <3>2, <3>3
  <2>3. CASE r.type # "MODIFY"
    <3>1. AfterRequest(r, <<books, orders>>).books = less
      BY <1>5, <2>3 DEF AfterRequest, AfterCancel, State
    <3>2. QED
      BY <1>2, <2>1, <3>1
  <2>4. QED
    BY <2>2, <2>3
<1>6. QED
  BY <1>3, <1>4, <1>5

LEMMA TakeClean ==
  ASSUME OneJunk, Least = 1, IInv, ReplicaInv, RequestInv, PubDataInv, CleanInv,
         NEW r \in NextMessages, P!Process(r)
  PROVE  CleanInv'
<1> DEFINE o == IF r.type = "NEW" THEN r.order ELSE puborders[r.order_id]
<1>1. /\ ProperRequest(r) /\ ppc = "idle" /\ seen' = Append(seen, r)
      /\ ppc' = IF psym' = None THEN "idle" ELSE "match"
      /\ PState' = AfterRequest(r, <<pubbooks, puborders>>)
  BY TakeGood DEF Takes
<1>2. GoodState(State(<< >>, None, pubbooks, puborders))
  BY <1>1, PubRests DEF PubDataInv, ReplicaInv
<1>3. pubbooks' = AfterRequest(r, <<pubbooks, puborders>>).books
  <2>1. PState'.books = pubbooks'
    BY DEF PState, State
  <2>2. QED
    BY <1>1, <2>1
<1>4. CASE r.type # "NEW" /\ o = None
  <2>1. shown' = shown /\ psym' = None
    BY <1>4 DEF P!Process, P!ProcessNew, P!ProcessModify, P!ProcessCancel,
       P!ProcessKnown, P!Known, P!Take
  <2>2. \A s \in Symbols : Clean(s)
    BY <1>1 DEF CleanInv
  <2>3. QED
    BY <1>1, <2>1, <2>2 DEF CleanInv, Clean
<1>5. CASE r.type = "NEW" \/ o # None
  <2>1. P!Announce(o) /\ psym' = o.symbol
    BY <1>5 DEF P!Process, P!ProcessNew, P!ProcessModify, P!ProcessCancel,
       P!ProcessKnown, P!Known, P!Take
  <2>2. o \in ProperOrders(Least)
    BY <1>1, <1>2, <1>5 DEF ProperRequest, GoodState, State
  <2>3. o.symbol \in Symbols
    BY <2>2 DEF ProperOrders, Order
  <2>4. ppc' = "match"
    BY <1>1, <2>1, <2>3, NoneIsNone
  <2>5. IsMarket(o) \/ Limits(pubbooks'[o.symbol])
    BY <1>1, <1>2, <1>3, <1>5, RequestLimits
  <2> HIDE DEF o
  <2>6. QED
    BY <1>1, <2>1, <2>3, <2>4, <2>5, AnnouncedClean
<1>6. QED
  BY <1>4, <1>5

LEMMA LoadClean ==
  ASSUME Least = 1, PublisherInv, PubDataInv, CleanInv, P!LoadRow
  PROVE  CleanInv'
<1> DEFINE o == Head(ptodo)
<1>1. /\ ppc = "load" /\ ptodo # << >> /\ psym = None /\ ppc' = "match"
      /\ psym' = o.symbol /\ P!Announce(o) /\ P!Accept(o)
  BY DEF P!LoadRow, PublisherInv
<1>2. /\ ptodo \in Seq(ProperOrders(Least)) /\ pubbooks \in [Symbols -> Books(Least)]
      /\ \A s \in Symbols : Limits(pubbooks[s])
  BY <1>1, NoneIsNone DEF PubDataInv, GoodState, PState, State, Quiet, Limits
<1>3. o \in ProperOrders(Least)
  BY <1>1, <1>2
<1>4. o.symbol \in Symbols
  BY <1>3 DEF ProperOrders, Order
<1>5. pubbooks' = BooksWith(pubbooks, o)
  BY <1>1, SameBooksWith DEF P!Accept
<1> HIDE DEF o
<1>6. IsMarket(o) \/ Limits(pubbooks'[o.symbol])
  BY <1>2, <1>3, <1>4, <1>5, LimitsWith
<1>7. QED
  BY <1>1, <1>4, <1>6, AnnouncedClean

LEMMA MatchClean ==
  ASSUME Least = 1, PublisherInv, PubDataInv, CleanInv,
         P!MatchTrades \/ P!MatchEnds
  PROVE  CleanInv'
<1> DEFINE b == pubbooks[psym]
<1>1. /\ ppc \in {"match", "again"} /\ psym \in Symbols /\ P!AfterMatch
      /\ pubbooks' = Matched(pubbooks, psym)
      /\ b \in Books(Least) /\ pubbooks \in [Symbols -> Books(Least)]
  BY SameMatched DEF P!MatchTrades, P!MatchEnds, P!Match, Matched, PublisherInv,
     PubDataInv, GoodState, PState, State
<1>2. pubbooks'[psym] = MatchedBook(b)
  BY <1>1 DEF Matched
<1>3. /\ shown' = [s \in Symbols |-> shown'[s]]
      /\ ppc = "match" => shown' = shown
      /\ ppc = "again" => shown'[psym] = P!TopBook(MatchedBook(b))
      /\ \A s \in Symbols : s # psym => shown'[s] = shown[s]
  BY <1>1, <1>2 DEF P!AfterMatch, P!CommunicateBookMsg, CleanInv
<1>4. \A s \in Symbols : s # psym => Clean(s)
  BY <1>1 DEF CleanInv
<1>5. CASE P!MatchTrades
  <2>1. ppc' = "again" /\ psym' = psym
    BY <1>5 DEF P!MatchTrades
  <2>2. QED
    BY <1>3, <1>4, <2>1 DEF CleanInv, Clean
<1>6. CASE P!MatchEnds
  <2>1. ~TradesIn(b)
    BY <1>6, SameCrosses DEF P!MatchEnds, P!Trades, TradesIn
  <2>2. MatchedBook(b) \in Books(Least) /\ Quiet(MatchedBook(b))
    BY <1>1, <2>1, LeastType, MatchedBookSorted, MatchedBookQuiet DEF TradesIn
  <2>3. CASE ppc = "again"
    BY <1>3, <1>4, <2>2, <2>3 DEF CleanInv, Clean
  <2>4. CASE ppc = "match"
    <3>1. Clean(psym) \/ (shown[psym] = P!TopBook(b) /\ Limits(b))
      BY <1>1, <2>4 DEF CleanInv
    <3>2. Limits(b) => MatchedBook(b) = b
      BY <1>1, <2>1, NothingToMatch DEF Limits
    <3>3. Clean(psym)
      BY <1>1, <2>2, <3>1, <3>2 DEF Clean
    <3>4. QED
      BY <1>3, <1>4, <2>4, <3>3 DEF CleanInv, Clean
  <2>5. QED
    BY <1>1, <2>3, <2>4
<1>7. QED
  BY <1>5, <1>6

\* The steps that leave books and messages alone.
LEMMA AsideClean ==
  ASSUME CleanInv, UNCHANGED <<pubbooks, ppc, psym, shown>>
  PROVE  CleanInv'
  BY DEF CleanInv, Clean

LEMMA CleanKept ==
  ASSUME OneJunk, Least = 1, IInv, ReplicaInv, RequestInv, PubDataInv, CleanInv,
         [ExNext]_exVars
  PROVE  CleanInv'
<1>1. CASE P!Exit /\ shown' = shown
  BY <1>1 DEF P!Exit, CleanInv
<1>2. CASE PubStart
  <2>1. shown' = [s \in Symbols |-> None]
    BY <1>2 DEF PubStart, P!Start
  <2>2. QED
    BY <2>1 DEF CleanInv, Clean
<1>3. CASE PubWorks
  <2>1. CASE P!LoadDone
    <3>1. /\ shown' = shown /\ pubbooks' = pubbooks /\ psym' = psym
          /\ ppc = "load" /\ ppc' = "idle"
      BY <2>1 DEF P!LoadDone, P!viewVars
    <3>2. QED
      BY <3>1 DEF CleanInv, Clean
  <2>2. QED
    BY <1>1, <1>3, <2>1, LoadClean, MatchClean
    DEF PubWorks, P!PubProgress, P!TakeFails, ReplicaInv
<1>4. CASE PubHandles
  BY <1>4, TakeClean DEF PubHandles
<1>5. CASE PubEnds
  BY <1>1, <1>5, AsideClean
  DEF PubEnds, P!Interrupt, P!InterruptLoad, P!DieDrained, P!DieInModify, P!viewVars
<1>6. CASE Engine \/ EngineReady \/ EngineNotReady \/ EngineRestart \/ UNCHANGED exVars
  BY <1>6, AsideClean
  DEF Engine, EngineReady, EngineNotReady, EngineRestart, exVars, pubOwn
<1>7. QED
  BY <1>2, <1>3, <1>4, <1>5, <1>6 DEF ExNext

\* A line's price is that of an order, or there is none.
LEMMA LinePrice ==
  ASSUME NEW s, Len(s) \in Nat, NEW k
  PROVE  \/ P!BookData(s, k).price = None
         \/ \E i \in 1 .. Len(s) : P!BookData(s, k).price = s[i].price
<1>1. CASE P!Level(s, k) = {}
  BY <1>1 DEF P!BookData
<1>2. CASE P!Level(s, k) # {}
  <2> DEFINE L == P!Level(s, k)
  <2>1. L \in SUBSET (1 .. Len(s))
    BY DEF P!Level
  <2>2. L \in SUBSET Nat
    BY <2>1
  <2> HIDE DEF L
  <2>3. Min(L) \in L /\ P!Min(L) = Min(L)
    BY <1>2, <2>2, MinIsLeast DEF P!Min, Min, L
  <2>4. P!BookData(s, k).price = s[Min(L)].price
    BY <1>2, <2>3 DEF P!BookData, L
  <2>5. QED
    BY <2>1, <2>3, <2>4
<1>3. QED
  BY <1>1, <1>2

LEMMA TopPrices ==
  ASSUME NEW b \in Books(Least), Quiet(b)
  PROVE  LET bid == P!TopBook(b).bid[1].price
             offer == P!TopBook(b).offer[1].price
         IN  /\ NoPrice \notin {bid, offer}
             /\ None \notin {bid, offer} => bid < offer
<1> DEFINE B == b["BUY"]
           S == b["SELL"]
<1>1. /\ P!TopBook(b).bid[1].price = P!BookData(B, 1).price
      /\ P!TopBook(b).offer[1].price = P!BookData(S, 1).price
  BY DepthAssumption DEF P!TopBook
<1>2. /\ Len(B) \in Nat /\ Len(S) \in Nat
      /\ \A i \in 1 .. Len(B) : B[i].price \in Prices
      /\ \A i \in 1 .. Len(S) : S[i].price \in Prices
  <2>1. ASSUME NEW side \in Sides
        PROVE  /\ Len(b[side]) \in Nat
               /\ \A i \in 1 .. Len(b[side]) : b[side][i].price \in Prices
    <3>1. b[side] \in Seq(SideOrders(side, Least)) /\ NoMarket(b[side])
      BY DEF Books, Quiet
    <3>2. ASSUME NEW i \in 1 .. Len(b[side]) PROVE b[side][i].price \in Prices
      <4>1. b[side][i] \in SideOrders(side, Least) /\ ~IsMarket(b[side][i])
        BY <3>1, ElementOfSeq DEF NoMarket
      <4>2. QED
        BY <4>1, LeastType, OrderFields
    <3>3. QED
      BY <3>1, <3>2
  <2>2. QED
    BY <2>1 DEF Sides
<1>3. \A i \in 1 .. Len(B), j \in 1 .. Len(S) : B[i].price < S[j].price
  BY DEF Quiet
<1> HIDE DEF B, S
<1> DEFINE bid == P!BookData(B, 1).price
           offer == P!BookData(S, 1).price
<1>4. bid = None \/ \E i \in 1 .. Len(B) : bid = B[i].price
  BY <1>2, LinePrice
<1>5. offer = None \/ \E i \in 1 .. Len(S) : offer = S[i].price
  BY <1>2, LinePrice
<1> HIDE DEF bid, offer
<1>6. /\ NoPrice \notin {bid, offer}
      /\ None \notin {bid, offer} => bid < offer
  BY <1>2, <1>3, <1>4, <1>5, PriceAssumption, LineAssumption
<1>7. QED
  BY <1>1, <1>6 DEF bid, offer

\* With positive quantities the best bid that clients see is below the best
\* offer whenever the publisher waits for the next message, and neither is a
\* market order's, whoever names which order and wherever either process ends.
THEOREM ClientsSeeNoCross ==
  ASSUME OneJunk, 0 \notin Quantities
  PROVE  ExSpec => []PublishedUncrossed
<1>1. Least = 1
  BY LeastType
<1>2. ExInit => RequestInv /\ PubDataInv /\ CleanInv /\ ReplicaInv
  <2> SUFFICES ASSUME ExInit PROVE RequestInv /\ PubDataInv /\ CleanInv
    BY ReplicasBegin
  <2>1. /\ requests = << >> /\ ppc = "down" /\ shown = [s \in Symbols |-> None]
        /\ PState = State(<< >>, None, EmptyBooks, NoOrders)
    BY DEF ExInit, Init, P!PubInit, P!ViewInit, PState, EmptyBooks, NoOrders, P!EmptyBook,
       P!Sides, EmptyBook, Sides
  <2>2. << >> \in Seq(ProperOrders(Least)) /\ Len(<< >>) = 0
    BY EmptyIsSequence
  <2>3. PubDataInv
    BY <2>1, <2>2, EmptyBooksGood DEF PubDataInv
  <2>4. RequestInv /\ CleanInv
    BY <2>1, <2>2 DEF RequestInv, CleanInv
  <2>5. QED
    BY <2>3, <2>4
<1>3. IInv /\ ReplicaInv /\ RequestInv /\ PubDataInv /\ CleanInv /\ [ExNext]_exVars
        => ReplicaInv' /\ RequestInv' /\ PubDataInv' /\ CleanInv'
  BY <1>1, ReplicasKept, RequestsKept, PubDataKept, CleanKept
<1>4. ReplicaInv /\ CleanInv => PublishedUncrossed
  <2> SUFFICES ASSUME ReplicaInv, CleanInv, ppc = "idle",
                      NEW s \in Symbols, shown[s] # None
               PROVE  LET bid == shown[s].bid[1].price
                          offer == shown[s].offer[1].price
                      IN  /\ NoPrice \notin {bid, offer}
                          /\ None \notin {bid, offer} => bid < offer
    BY DEF PublishedUncrossed
  <2>1. PICK b \in Books(Least) : Quiet(b) /\ shown[s] = P!TopBook(b)
    BY DEF CleanInv, Clean
  <2>2. QED
    BY <2>1, TopPrices
<1>5. QED
  BY ExInductive, <1>2, <1>3, <1>4, PTL DEF ExSpec
-----------------------------------------------------------------------------
(* Kinds, with a request more *)

LEMMA KindsGrow ==
  ASSUME NEW s, IsSequence(s), NEW r
  PROVE  /\ Kinds(s, Len(s)) \subseteq Kinds(Append(s, r), Len(Append(s, r)))
         /\ r.type = "NEW" => Kind(r.order) \in Kinds(Append(s, r), Len(Append(s, r)))
         /\ \A n \in 0 .. Len(s) : Kinds(Append(s, r), n) = Kinds(s, n)
<1> DEFINE t == Append(s, r)
<1>1. /\ Len(s) \in Nat /\ Len(t) = Len(s) + 1 /\ t[Len(s) + 1] = r
      /\ \A i \in 1 .. Len(s) : t[i] = s[i]
  BY Appended
<1> HIDE DEF t
<1>2. Kinds(s, Len(s)) \subseteq Kinds(t, Len(t))
  BY <1>1 DEF Kinds, NewIn
<1>3. r.type = "NEW" => Kind(r.order) \in Kinds(t, Len(t))
  <2>1. Len(s) + 1 \in 1 .. Len(t)
    BY <1>1
  <2>2. QED
    BY <1>1, <2>1 DEF Kinds, NewIn
<1>4. ASSUME NEW n \in 0 .. Len(s) PROVE Kinds(t, n) = Kinds(s, n)
  BY <1>1 DEF Kinds, NewIn
<1>5. QED
  BY <1>2, <1>3, <1>4 DEF t

LEMMA KindOrdersGrow ==
  ASSUME NEW K, NEW L, K \subseteq L
  PROVE  /\ KindOrders(K) \subseteq KindOrders(L)
         /\ Seq(KindOrders(K)) \subseteq Seq(KindOrders(L))
<1>1. KindOrders(K) \subseteq KindOrders(L)
  BY DEF KindOrders
<1>2. QED
  BY <1>1, SeqMonotonic

LEMMA KindStateGrows ==
  ASSUME NEW K, NEW L, K \subseteq L, NEW x, KindState(x, K)
  PROVE  KindState(x, L)
  BY KindOrdersGrow DEF KindState

LEMMA EmptyKinds ==
  ASSUME NEW K, NEW rows \in Seq(KindOrders(K))
  PROVE  KindState(State(rows, None, EmptyBooks, NoOrders), K)
<1>1. \A z \in Symbols, side \in Sides : EmptyBooks[z][side] \in Seq(KindOrders(K))
  BY DEF EmptyBooks, EmptyBook
<1>2. NoOrders \in [Ids -> KindOrders(K) \cup {None}] /\ \A id \in Ids : NoOrders[id] = None
  BY DEF NoOrders
<1>3. QED
  BY <1>1, <1>2, KindFrom

\* An amended limit order is a limit order of that id.
LEMMA AmendedKind ==
  ASSUME OneJunk, NEW K, NEW o \in KindOrders(K), ~IsMarket(o), NEW price \in Prices
  PROVE  Amended(o, price) \in KindOrders(K)
<1> DEFINE a == Amended(o, price)
<1>1. o \in ProperOrders(Least) /\ Kind(o) \in K
  BY DEF KindOrders
<1>2. /\ a \in ProperOrders(Least) /\ a.order_id = o.order_id
      /\ a.order_type = o.order_type /\ a.price = price
  BY <1>1, AmendedProper
<1> HIDE DEF a
<1>3. o.order_type = "LIMIT"
  BY <1>1 DEF ProperOrders, Order, IsMarket
<1>4. Kind(a) = Kind(o) /\ WellFormed(a)
  BY <1>2, <1>3 DEF Kind, IsMarket, WellFormed
<1>5. QED
  BY <1>1, <1>2, <1>4 DEF KindOrders, a

LEMMA KindRequest ==
  ASSUME OneJunk, Least = 1, NEW K, Decided(K), NEW r, ProperRequest(r),
         r.type = "NEW" => Kind(r.order) \in K, NEW books, NEW orders,
         GoodState(State(<< >>, None, books, orders)),
         KindState(State(<< >>, None, books, orders), K)
  PROVE  KindState(AfterRequest(r, <<books, orders>>), K)
<1> DEFINE id == r.order_id
           old == orders[id]
<1>1. /\ books \in [Symbols -> Books(Least)]
      /\ \A s \in Symbols, side \in Sides : books[s][side] \in Seq(KindOrders(K))
      /\ orders \in [Ids -> KindOrders(K) \cup {None}]
      /\ \A i \in Ids : orders[i] # None => orders[i].order_id = i
      /\ << >> \in Seq(KindOrders(K))
  BY DEF GoodState, KindState, State
<1>2. ASSUME NEW s PROVE KindState(State(<< >>, s, books, orders), K)
  BY <1>1, KindFrom
<1>3. CASE r.type = "NEW"
  <2> DEFINE o == r.order
             more == BooksWith(books, o)
             orders2 == Entered(orders, o)
  <2>1. o \in KindOrders(K)
    BY <1>3 DEF ProperRequest, KindOrders
  <2> HIDE DEF o
  <2>2. \A s \in Symbols, side \in Sides : more[s][side] \in Seq(KindOrders(K))
    BY <1>1, <2>1, KindWith
  <2>3. /\ orders2 \in [Ids -> KindOrders(K) \cup {None}]
        /\ \A i \in Ids : orders2[i] # None => orders2[i].order_id = i
    BY <1>1, <2>1, KindEntered
  <2>4. AfterRequest(r, <<books, orders>>) \in
          {State(<< >>, o.symbol, more, orders2), State(<< >>, o.symbol, books, orders)}
    BY <1>3 DEF AfterRequest, AfterNew, o
  <2> HIDE DEF more, orders2
  <2>5. KindState(State(<< >>, o.symbol, more, orders2), K)
    BY <1>1, <2>2, <2>3, KindFrom
  <2>6. QED
    BY <1>2, <2>4, <2>5
<1>4. CASE r.type # "NEW" /\ ~Rests(books, orders, id)
  <2>1. AfterRequest(r, <<books, orders>>) = State(<< >>, SymbolOf(orders, id), books, orders)
    BY <1>4 DEF AfterRequest
  <2>2. QED
    BY <1>2, <2>1
<1>5. CASE r.type # "NEW" /\ Rests(books, orders, id)
  <2> DEFINE less == BooksWithout(books, old)
  <2>1. id \in Ids /\ old \in KindOrders(K) /\ old \in ProperOrders(Least) /\ old.order_id = id
    BY <1>1, <1>5 DEF ProperRequest, Rests, KindOrders
  <2>2. /\ \A s \in Symbols, side \in Sides : less[s][side] \in Seq(KindOrders(K))
        /\ less \in [Symbols -> Books(Least)]
    BY <1>1, <2>1, KindWithout, LeastType, BooksWithoutOrder
  <2>3. CASE r.type = "MODIFY"
    <3> DEFINE new == Amended(old, r.price)
               more == BooksWith(less, new)
               orders2 == [orders EXCEPT ![id] = new]
               s0 == SymbolOf(orders, id)
    <3>1. ~IsMarket(old)
      BY <1>5, <2>1, RestingIsLimit
    <3>2. new \in KindOrders(K) /\ new.order_id = id
      BY <2>1, <2>3, <3>1, AmendedKind, AmendedProper DEF ProperRequest
    <3>3. /\ orders2 \in [Ids -> KindOrders(K) \cup {None}]
          /\ \A i \in Ids : orders2[i] # None => orders2[i].order_id = i
      BY <1>1, <2>1, <3>2
    <3>4. AfterRequest(r, <<books, orders>>) = State(<< >>, s0, more, orders2)
      BY <1>5, <2>3 DEF AfterRequest, AfterModify
    <3> HIDE DEF new, less
    <3>5. \A s \in Symbols, side \in Sides : more[s][side] \in Seq(KindOrders(K))
      BY <2>2, <3>2, KindWith
    <3> HIDE DEF more, orders2, s0
    <3>6. KindState(State(<< >>, s0, more, orders2), K)
      BY <1>1, <3>3, <3>5, KindFrom
    <3>7. QED
      BY <3>4, <3>6
  <2>4. CASE r.type # "MODIFY"
    <3> DEFINE orders2 == [orders EXCEPT ![id] = None]
               s0 == SymbolOf(orders, id)
    <3>1. /\ orders2 \in [Ids -> KindOrders(K) \cup {None}]
          /\ \A i \in Ids : orders2[i] # None => orders2[i].order_id = i
      BY <1>1, <2>1
    <3>2. AfterRequest(r, <<books, orders>>) = State(<< >>, s0, less, orders2)
      BY <1>5, <2>4 DEF AfterRequest, AfterCancel
    <3> HIDE DEF less, orders2, s0
    <3>3. KindState(State(<< >>, s0, less, orders2), K)
      BY <1>1, <2>2, <3>1, KindFrom
    <3>4. QED
      BY <3>2, <3>3
  <2>5. QED
    BY <2>3, <2>4
<1>6. QED
  BY <1>3, <1>4, <1>5
-----------------------------------------------------------------------------
(* Whose ids are whose *)

Apart(s, n) ==
  \A i, j \in NewIn(s, n) : s[i].order.order_id = s[j].order.order_id => i = j

AllApart(s, n, t, m) ==
  \A i \in NewIn(s, n), k \in NewIn(t, m) : s[i].order.order_id # t[k].order.order_id

\* No two new orders have one id: none the engine has read, and none that the
\* publisher has taken or that belongs to an earlier life.
NameInv ==
  /\ Apart(requests, Len(requests))
  /\ ppc # "down" => /\ AllApart(requests, base, seen, Len(seen))
                     /\ Apart(seen, Len(seen))

EngineKinds == Kinds(requests, Len(requests))
PubKinds == Kinds(requests, base) \cup Kinds(seen, Len(seen))

LEMMA TwoKinds ==
  ASSUME NEW id, NEW o, NEW p, <<id, TRUE>> = Kind(o), <<id, FALSE>> = Kind(p)
  PROVE  o.order_id = p.order_id /\ o # p
<1>1. o.order_id = id /\ p.order_id = id
  BY DEF Kind
<1>2. IsMarket(o) = TRUE /\ IsMarket(p) = FALSE
  BY DEF Kind
<1>3. QED
  BY <1>1, <1>2

LEMMA ApartDecided ==
  ASSUME NEW s, NEW n, Apart(s, n)
  PROVE  Decided(Kinds(s, n))
<1>1. ASSUME NEW id, NEW i \in NewIn(s, n), NEW j \in NewIn(s, n),
             <<id, TRUE>> = Kind(s[i].order), <<id, FALSE>> = Kind(s[j].order)
      PROVE  FALSE
  <2>1. s[i].order.order_id = s[j].order.order_id /\ s[i].order # s[j].order
    BY <1>1, TwoKinds
  <2>2. i = j
    BY <2>1 DEF Apart
  <2>3. QED
    BY <2>1, <2>2
<1>2. ASSUME NEW id, <<id, TRUE>> \in Kinds(s, n), <<id, FALSE>> \in Kinds(s, n)
      PROVE  FALSE
  BY <1>1, <1>2 DEF Kinds
<1>3. QED
  BY <1>2 DEF Decided

LEMMA BothDecided ==
  ASSUME NEW s, NEW n, NEW t, NEW m,
         Decided(Kinds(s, n)), Decided(Kinds(t, m)), AllApart(s, n, t, m)
  PROVE  Decided(Kinds(s, n) \cup Kinds(t, m))
<1>1. ASSUME NEW id, NEW i \in NewIn(s, n), NEW k \in NewIn(t, m),
             NEW x \in BOOLEAN, NEW y \in BOOLEAN,
             <<id, x>> = Kind(s[i].order), <<id, y>> = Kind(t[k].order)
      PROVE  FALSE
  <2>1. s[i].order.order_id = t[k].order.order_id
    BY <1>1 DEF Kind
  <2>2. QED
    BY <2>1 DEF AllApart
<1>2. ASSUME NEW id, NEW x \in BOOLEAN, NEW y \in BOOLEAN,
             <<id, x>> \in Kinds(s, n), <<id, y>> \in Kinds(t, m)
      PROVE  FALSE
  BY <1>1, <1>2 DEF Kinds
<1>3. QED
  BY <1>2 DEF Decided

\* One request more keeps ids apart, if its own is new.
LEMMA ApartGrows ==
  ASSUME NEW s, IsSequence(s), Apart(s, Len(s)), NEW r,
         r.type = "NEW" => \A i \in NewIn(s, Len(s)) :
                              s[i].order.order_id # r.order.order_id
  PROVE  Apart(Append(s, r), Len(Append(s, r)))
<1> DEFINE t == Append(s, r)
<1>1. /\ Len(s) \in Nat /\ Len(t) = Len(s) + 1 /\ t[Len(s) + 1] = r
      /\ \A i \in 1 .. Len(s) : t[i] = s[i]
  BY Appended
<1> HIDE DEF t
<1>2. \A i \in NewIn(t, Len(t)) :
         \/ i \in NewIn(s, Len(s)) /\ t[i] = s[i]
         \/ i = Len(s) + 1 /\ r.type = "NEW" /\ t[i] = r
  BY <1>1 DEF NewIn
<1>3. ASSUME NEW i \in NewIn(t, Len(t)), NEW j \in NewIn(t, Len(t)),
             t[i].order.order_id = t[j].order.order_id
      PROVE  i = j
  <2>1. CASE i \in NewIn(s, Len(s)) /\ t[i] = s[i] /\ j \in NewIn(s, Len(s)) /\ t[j] = s[j]
    BY <1>3, <2>1 DEF Apart
  <2>2. QED
    BY <1>2, <1>3, <2>1
<1>4. QED
  BY <1>3 DEF Apart, t

LEMMA AllApartGrows ==
  ASSUME NEW s, NEW n, NEW t, IsSequence(t), AllApart(s, n, t, Len(t)), NEW r,
         r.type = "NEW" => \A i \in NewIn(s, n) : s[i].order.order_id # r.order.order_id
  PROVE  AllApart(s, n, Append(t, r), Len(Append(t, r)))
<1> DEFINE u == Append(t, r)
<1>1. /\ Len(t) \in Nat /\ Len(u) = Len(t) + 1 /\ u[Len(t) + 1] = r
      /\ \A i \in 1 .. Len(t) : u[i] = t[i]
  BY Appended
<1> HIDE DEF u
<1>2. \A i \in NewIn(u, Len(u)) :
         \/ i \in NewIn(t, Len(t)) /\ u[i] = t[i]
         \/ r.type = "NEW" /\ u[i] = r
  BY <1>1 DEF NewIn
<1>3. QED
  BY <1>2 DEF AllApart, u

\* What comes behind n changes nothing up to n.
LEMMA NewInStays ==
  ASSUME NEW s, IsSequence(s), NEW r, NEW n \in 0 .. Len(s), NEW t, NEW m,
         AllApart(s, n, t, m)
  PROVE  AllApart(Append(s, r), n, t, m)
<1> DEFINE u == Append(s, r)
<1>1. Len(s) \in Nat /\ \A i \in 1 .. Len(s) : u[i] = s[i]
  BY Appended
<1> HIDE DEF u
<1>2. \A i \in NewIn(u, n) : i \in NewIn(s, n) /\ u[i] = s[i]
  BY <1>1 DEF NewIn
<1>3. QED
  BY <1>2 DEF AllApart, u

LEMMA NamedApart ==
  ASSUME IInv, UniqueIds, NEW o, UniqueIds => ~Named(o.order_id)
  PROVE  \A i \in NewIn(requests, Len(requests)) :
            requests[i].order.order_id # o.order_id
  BY DEF Named, NewIn

LEMMA RequestsApart ==
  ASSUME IInv, UniqueIds, Apart(requests, Len(requests)), Engine
  PROVE  Apart(requests, Len(requests))'
<1>1. IsSequence(requests)
  BY DEF IInv, RestTypeOK, IsSequence
<1>2. ASSUME NEW r, requests' = Append(requests, r),
             r.type = "NEW" => \A i \in NewIn(requests, Len(requests)) :
                                  requests[i].order.order_id # r.order.order_id
      PROVE  Apart(requests', Len(requests'))
  BY <1>1, <1>2, ApartGrows
<1>3. CASE requests' = requests
  BY <1>3
<1>4. CASE ProcessNew
  <2>1. PICK o \in NewOrders :
           (AcceptOrder(o) \/ RejectOrder(o)) /\ (UniqueIds => ~Named(o.order_id))
    BY <1>4 DEF ProcessNew
  <2>2. PICK f : requests' = Append(requests, [type |-> "NEW", order |-> o, filled |-> f])
    BY <2>1 DEF AcceptOrder, RejectOrder, Receive
  <2>3. \A i \in NewIn(requests, Len(requests)) : requests[i].order.order_id # o.order_id
    BY <2>1, NamedApart
  <2>4. QED
    BY <1>2, <2>2, <2>3
<1>5. CASE ProcessModify
  <2>1. PICK id \in Ids, price \in Prices, quantity \in Quantities :
           \/ ModifyUnknown(id, price, quantity) \/ ModifyGone(id, price, quantity)
           \/ ModifyOrder(id, price, quantity) \/ DieInModify(id, price, quantity)
    BY <1>5 DEF ProcessModify
  <2>2. requests' = Append(requests, Modification(id, price, quantity))
    BY <2>1 DEF ModifyUnknown, ModifyGone, ModifyOrder, DieInModify, Receive
  <2>3. Modification(id, price, quantity).type = "MODIFY"
    BY DEF Modification
  <2>4. QED
    BY <1>2, <2>2, <2>3
<1>6. CASE ProcessCancel
  <2>1. PICK id \in Ids : CancelUnknown(id) \/ CancelOrder(id)
    BY <1>6 DEF ProcessCancel
  <2>2. requests' = Append(requests, [type |-> "CANCEL", order_id |-> id])
    BY <2>1 DEF CancelUnknown, CancelOrder, Receive
  <2>3. QED
    BY <1>2, <2>2
<1>7. CASE Progress \/ Stop \/ StopInMatch \/ DieDrained
  <2>1. requests' = requests
    BY <1>7 DEF Progress, LoadRow, LoadDone, CommunicateAck, MatchTrades, MatchEnds,
       CommunicateTrade, CommunicateReportingMsg, Stop, StopInMatch, DieDrained, logVars
  <2>2. QED
    BY <1>3, <2>1
<1>8. QED
  BY <1>4, <1>5, <1>6, <1>7 DEF Engine

\* The engine's log grows at its end, if at all.
LEMMA EngineAppends ==
  ASSUME Engine
  PROVE  requests' = requests \/ \E r : requests' = Append(requests, r)
<1>1. CASE Progress \/ Stop \/ StopInMatch \/ DieDrained
  BY <1>1 DEF Progress, LoadRow, LoadDone, CommunicateAck, MatchTrades, MatchEnds,
     CommunicateTrade, CommunicateReportingMsg, Stop, StopInMatch, DieDrained, logVars
<1>2. CASE ProcessNew \/ ProcessModify \/ ProcessCancel
  BY <1>2 DEF ProcessNew, ProcessModify, ProcessCancel, AcceptOrder, RejectOrder,
     ModifyUnknown, ModifyGone, ModifyOrder, DieInModify, CancelUnknown, CancelOrder,
     Receive
<1>3. QED
  BY <1>1, <1>2 DEF Engine

\* What the publisher takes next is named differently from what it has.
LEMMA TakenApart ==
  ASSUME IInv, ReplicaInv, UniqueIds, NameInv, ppc = "idle", NEW r \in NextMessages,
         r.type = "NEW"
  PROVE  /\ \A i \in NewIn(requests, base) :
               requests[i].order.order_id # r.order.order_id
         /\ \A k \in NewIn(seen, Len(seen)) :
               seen[k].order.order_id # r.order.order_id
<1> DEFINE n == Len(seen)
<1>1. /\ Len(requests) \in Nat /\ base \in Nat /\ base <= Len(requests)
      /\ ReadCount \in Nat /\ n \in Nat /\ bphist # << >>
      /\ Len(Read) = ReadCount
  <2>1. /\ Len(requests) \in Nat /\ base \in Nat /\ base <= Len(requests)
        /\ ReadCount \in Nat /\ n \in Nat /\ requests \in Seq(Request)
    BY Counts DEF ReplicaInv, HistTypes, IInv, RestTypeOK
  <2>2. bphist # << >>
    BY DEF ReplicaInv, PublisherInv
  <2>3. QED
    BY <2>1, <2>2 DEF Read, ReadCount
<1>2. CASE n < ReadCount
  <2> DEFINE m == base + (n + 1)
  <2>1. m \in 1 .. Len(requests) /\ m > base /\ r = requests[m]
    BY <1>1, <1>2, TakenInTurn DEF ReplicaInv, ReadCount, ReadAt
  <2>2. m \in NewIn(requests, Len(requests))
    BY <2>1 DEF NewIn
  <2>3. ASSUME NEW i \in NewIn(requests, Len(requests)), i # m
        PROVE  requests[i].order.order_id # r.order.order_id
    BY <2>1, <2>2, <2>3 DEF NameInv, Apart
  <2>4. \A i \in NewIn(requests, base) : i \in NewIn(requests, Len(requests)) /\ i # m
    BY <1>1, <2>1 DEF NewIn
  <2>5. ASSUME NEW k \in NewIn(seen, n)
        PROVE  seen[k].order.order_id # r.order.order_id
    <3>1. k \in 1 .. n /\ seen[k].type = "NEW"
      BY DEF NewIn
    <3>2. seen[k] = requests[base + k]
      BY <1>1, <1>2, <3>1 DEF ReplicaInv, AgreeInv, ReadAt
    <3>3. base + k \in 1 .. Len(requests) /\ base + k # m
      BY <1>1, <1>2, <3>1 DEF ReadCount
    <3>4. base + k \in NewIn(requests, Len(requests))
      BY <3>1, <3>2, <3>3 DEF NewIn
    <3>5. QED
      BY <2>3, <3>2, <3>3, <3>4
  <2>6. QED
    BY <2>3, <2>4, <2>5
<1>3. CASE ~(n < ReadCount)
  <2>1. r \in SendableNew
    BY <1>1, <1>3 DEF NextMessages, SendableModify, SendableCancel
  <2>2. PICK o \in NewOrders : \E f :
           /\ r = [type |-> "NEW", order |-> o, filled |-> f]
           /\ UniqueIds => /\ ~Named(o.order_id)
                           /\ \A i \in 1 .. Len(seen) : seen[i].type = "NEW" =>
                                 seen[i].order.order_id # o.order_id
    BY <2>1 DEF SendableNew
  <2>3. r.order = o
    BY <2>2
  <2>4. \A i \in NewIn(requests, Len(requests)) : requests[i].order.order_id # o.order_id
    BY <2>2, NamedApart
  <2>5. NewIn(requests, base) \subseteq NewIn(requests, Len(requests))
    BY <1>1 DEF NewIn
  <2>6. \A k \in NewIn(seen, Len(seen)) : seen[k].order.order_id # o.order_id
    BY <2>2 DEF NewIn
  <2>7. QED
    BY <2>3, <2>4, <2>5, <2>6
<1>4. QED
  BY <1>2, <1>3

LEMMA NamesKept ==
  ASSUME OneJunk, UniqueIds, IInv, ReplicaInv, NameInv, [ExNext]_exVars
  PROVE  NameInv'
<1>1. CASE Engine
  <2>1. Apart(requests, Len(requests))'
    BY <1>1, RequestsApart DEF NameInv
  <2>2. ppc' = ppc /\ base' = base /\ seen' = seen
    BY <1>1 DEF Engine, pubOwn
  <2>3. CASE requests' = requests
    BY <2>1, <2>2, <2>3 DEF NameInv
  <2>4. ASSUME NEW r, requests' = Append(requests, r) PROVE NameInv'
    <3>1. IsSequence(requests) /\ base \in 0 .. Len(requests)
      BY DEF IInv, RestTypeOK, IsSequence, ReplicaInv, HistTypes
    <3>2. AllApart(requests, base, seen, Len(seen)) =>
            AllApart(requests', base, seen, Len(seen))
      BY <2>4, <3>1, NewInStays
    <3>3. QED
      BY <2>1, <2>2, <3>2 DEF NameInv
  <2>5. QED
    BY <1>1, <2>3, <2>4, EngineAppends
<1>2. CASE EngineRestart
  BY <1>2 DEF EngineRestart, Restart, pubOwn, NameInv
<1>3. CASE PubStart
  <2>1. requests' = requests /\ seen' = << >>
    BY <1>3 DEF PubStart, P!Start, vars, logVars
  <2>2. NewIn(<< >>, Len(<< >>)) = {}
    BY EmptyIsSequence DEF NewIn
  <2>3. QED
    BY <2>1, <2>2 DEF NameInv, Apart, AllApart
<1>4. CASE PubHandles
  <2>1. PICK r \in NextMessages : P!Process(r)
    BY <1>4 DEF PubHandles
  <2>2. Takes(r)
    BY <2>1, TakeRequest
  <2>3. /\ requests' = requests /\ base' = base /\ ppc = "idle"
        /\ seen' = Append(seen, r)
    BY <1>4, <2>2 DEF PubHandles, vars, logVars, Takes
  <2>4. IsSequence(seen)
    BY DEF ReplicaInv, HistTypes
  <2>5. /\ Apart(seen, Len(seen)) /\ AllApart(requests, base, seen, Len(seen))
        /\ Apart(requests, Len(requests))
    BY <2>3 DEF NameInv
  <2>6. r.type = "NEW" =>
          /\ \A i \in NewIn(requests, base) :
               requests[i].order.order_id # r.order.order_id
          /\ \A k \in NewIn(seen, Len(seen)) :
               seen[k].order.order_id # r.order.order_id
    BY <2>3, TakenApart
  <2>7. Apart(seen', Len(seen'))
    BY <2>3, <2>4, <2>5, <2>6, ApartGrows
  <2>8. AllApart(requests, base, seen', Len(seen'))
    BY <2>3, <2>4, <2>5, <2>6, AllApartGrows
  <2>9. QED
    BY <2>3, <2>5, <2>7, <2>8 DEF NameInv
<1>5. CASE PubWorks \/ PubEnds
  <2>1. requests' = requests /\ base' = base /\ seen' = seen /\ (ppc = "down" => ppc' = "down")
    BY <1>5 DEF PubWorks, PubEnds, vars, logVars, P!PubProgress, P!LoadRow, P!LoadDone,
       P!MatchTrades, P!MatchEnds, P!TakeFails, P!Exit, P!Interrupt, P!InterruptLoad,
       P!DieDrained, P!DieInModify
  <2>2. QED
    BY <2>1 DEF NameInv
<1>6. CASE EngineReady \/ EngineNotReady \/ UNCHANGED exVars
  <2>1. requests' = requests /\ base' = base /\ seen' = seen /\ ppc' = ppc
    BY <1>6 DEF EngineReady, Ready, EngineNotReady, exVars, vars, logVars, pubOwn
  <2>2. QED
    BY <2>1 DEF NameInv
<1>7. QED
  BY <1>1, <1>2, <1>3, <1>4, <1>5, <1>6 DEF ExNext
-----------------------------------------------------------------------------
(* Orders are of the kinds that were sent *)

EngineDataInv == GoodState(EState)

DBIn(K) == {d \in ProperDB(Least) : d.t1 \in Seq(KindOrders(K))}

EngineKindInv == KindState(EState, EngineKinds) /\ db \in DBIn(EngineKinds)
PubKindInv == KindState(PState, PubKinds)

LEMMA EngineRests ==
  ASSUME IInv, EngineInv, pc = "idle"
  PROVE  EState = State(<< >>, None, mybooks, myorders)
  BY DEF IInv, ControlInv, AtRest, EngineInv, EState

LEMMA ReadsOn ==
  ASSUME IInv, EngineInv, NEW r, Reads(r)
  PROVE  EState' = AfterRequest(r, <<mybooks, myorders>>) /\ pc = "idle"
<1>1. todo' = << >>
  BY DEF Reads, EngineInv
<1>2. QED
  BY <1>1 DEF Reads, EState, EView

LEMMA ExitEmpties ==
  ASSUME Exit
  PROVE  EState' = State(<< >>, None, EmptyBooks, NoOrders)
  BY DEF Exit, EState, EmptyBooks, NoOrders

\* A step of the engine is one of a path, a request, or its end.
LEMMA EngineMoves ==
  ASSUME OneJunk, IInv, ReplicaInv, RequestInv, RequestInv', Engine
  PROVE  \/ EState' = EState
         \/ ~Done(EState) /\ EState' = Continue(EState)
         \/ EState' = State(<< >>, None, EmptyBooks, NoOrders)
         \/ \E r : /\ Reads(r) /\ ProperRequest(r)
                   /\ EState = State(<< >>, None, mybooks, myorders)
                   /\ EState' = AfterRequest(r, <<mybooks, myorders>>)
<1>1. CASE Progress
  BY <1>1, ProgressWorks DEF EngineWorks, ReplicaInv
<1>2. ASSUME NEW r, Reads(r) PROVE ProperRequest(r)
  <2>1. IsSequence(requests) /\ requests' = Append(requests, r)
    BY <1>2 DEF IInv, RestTypeOK, IsSequence, Reads
  <2>2. Len(requests) + 1 \in 1 .. Len(requests') /\ requests'[Len(requests) + 1] = r
    BY <2>1, Appended
  <2>3. QED
    BY <2>2 DEF RequestInv
<1>3. CASE (ProcessNew \/ ProcessModify \/ ProcessCancel) /\ pc' # "down"
  <2>1. PICK r : Reads(r)
    BY <1>3, ReadNew, ReadModify, ReadCancel
  <2>2. ProperRequest(r)
    BY <1>2, <2>1
  <2>3. /\ EState = State(<< >>, None, mybooks, myorders)
        /\ EState' = AfterRequest(r, <<mybooks, myorders>>)
    BY <2>1, ReadsOn, EngineRests DEF ReplicaInv
  <2>4. QED
    BY <2>1, <2>2, <2>3
<1>4. CASE ProcessModify /\ pc' = "down"
  BY <1>4, ExitEmpties
  DEF ProcessModify, ModifyUnknown, ModifyGone, ModifyOrder, DieInModify, Receive
<1>5. CASE Stop \/ StopInMatch \/ DieDrained
  BY <1>5, ExitEmpties DEF Stop, StopInMatch, DieDrained
<1>6. (ProcessNew \/ ProcessCancel) => pc' # "down"
  BY DEF ProcessNew, ProcessCancel, AcceptOrder, RejectOrder, CancelUnknown,
         CancelOrder, Receive
<1>7. QED
  BY <1>1, <1>3, <1>4, <1>5, <1>6 DEF Engine

\* What the rest of the steps does to the engine's state.
LEMMA EngineElse ==
  ASSUME IInv, ReplicaInv, [ExNext]_exVars, ~Engine
  PROVE  /\ requests' = requests /\ db' = db
         /\ \/ EState' = EState
            \/ EState' = State(<< >>, None, EmptyBooks, NoOrders)
            \/ EState' = State(db.t1, None, EmptyBooks, NoOrders)
<1>1. CASE EngineNotReady
  BY <1>1, ExitEmpties DEF EngineNotReady, logVars
<1>2. CASE EngineRestart
  <2>1. /\ pc = "down" /\ todo' = db.t1 /\ sym' = sym /\ mybooks' = mybooks
        /\ myorders' = myorders /\ requests' = requests /\ db' = db
    BY <1>2 DEF EngineRestart, Restart, viewVars
  <2>2. sym = None /\ EView = <<EmptyBooks, NoOrders>>
    BY <2>1 DEF IInv, ControlInv, ReplicaInv, EngineInv
  <2>3. QED
    BY <2>1, <2>2 DEF EState, EView
<1>3. CASE EngineReady
  BY <1>3 DEF EngineReady, Ready, viewVars, logVars, EState
<1>4. CASE PubStart \/ PubWorks \/ PubHandles \/ PubEnds \/ UNCHANGED exVars
  BY <1>4 DEF PubStart, PubWorks, PubHandles, PubEnds, exVars, vars, memVars, viewVars,
     logVars, EState
<1>5. QED
  BY <1>1, <1>2, <1>3, <1>4 DEF ExNext

LEMMA EngineDataKept ==
  ASSUME OneJunk, IInv, ReplicaInv, RequestInv, RequestInv', EngineDataInv,
         [ExNext]_exVars
  PROVE  EngineDataInv'
<1>1. CASE EState' = EState
  BY <1>1 DEF EngineDataInv
<1>2. ASSUME NEW rows \in Seq(ProperOrders(Least)),
             EState' = State(rows, None, EmptyBooks, NoOrders)
      PROVE  EngineDataInv'
  BY <1>2, EmptyBooksGood DEF EngineDataInv
<1>3. << >> \in Seq(ProperOrders(Least)) /\ db.t1 \in Seq(ProperOrders(Least))
  BY DEF IInv, DataInv, DataIn, ProperDB
<1>4. CASE ~Engine
  BY <1>1, <1>2, <1>3, <1>4, EngineElse
<1>5. CASE ~Done(EState) /\ EState' = Continue(EState)
  BY <1>5, ContinueGood DEF EngineDataInv
<1>6. ASSUME NEW r, ProperRequest(r), EState = State(<< >>, None, mybooks, myorders),
             EState' = AfterRequest(r, <<mybooks, myorders>>)
      PROVE  EngineDataInv'
  BY <1>6, RequestGood DEF EngineDataInv
<1>7. CASE Engine
  BY <1>1, <1>2, <1>3, <1>5, <1>6, <1>7, EngineMoves
<1>8. QED
  BY <1>4, <1>7

LEMMA AddRowIn ==
  ASSUME NEW K, NEW d \in DBIn(K), NEW o \in KindOrders(K)
  PROVE  AddRow(d, o) \in DBIn(K)
<1>1. d \in ProperDB(Least) /\ o \in ProperOrders(Least) /\ d.t1 \in Seq(KindOrders(K))
  BY DEF DBIn, KindOrders
<1>2. AddRow(d, o) \in ProperDB(Least)
  BY <1>1, LeastType, AddRowProper
<1>3. AddRow(d, o) = d \/ AddRow(d, o).t1 = Append(d.t1, o)
  BY DEF AddRow
<1>4. Append(d.t1, o) \in Seq(KindOrders(K))
  BY <1>1
<1>5. QED
  BY <1>1, <1>2, <1>3, <1>4 DEF DBIn

LEMMA DeleteRowIn ==
  ASSUME NEW K, NEW d \in DBIn(K), NEW id
  PROVE  DeleteRow(d, id) \in DBIn(K)
<1>1. d \in ProperDB(Least) /\ d \in DB /\ d.t1 \in Seq(KindOrders(K))
  BY DEF DBIn, ProperDB
<1>2. DeleteRow(d, id) \in ProperDB(Least)
  BY <1>1, LeastType, DeleteRowProper
<1>3. DeleteRow(d, id).t1 = RemoveOrder(d.t1, id)
  BY <1>1 DEF DeleteRow, DB
<1>4. RemoveOrder(d.t1, id) \in Seq(KindOrders(K))
  BY <1>1, RemoveOrderElements
<1>5. QED
  BY <1>2, <1>3, <1>4 DEF DBIn

LEMMA MatchWritesIn ==
  ASSUME NEW K, db \in DBIn(K), NEW s \in Symbols, mybooks[s] \in Books(Least),
         Crosses(mybooks[s]),
         \A side \in Sides : mybooks[s][side] \in Seq(KindOrders(K)),
         NEW k \in 1 .. 5
  PROVE  MatchWrites(s)[k] \in DBIn(K)
<1> DEFINE r  == ReportOf(s)
           b  == mybooks[s]
           d1 == DeleteRow(db, r.orderA.order_id)
           d2 == DeleteRow(d1, r.orderB.order_id)
           d3 == Reinserted(d2, r.orderA)
           d4 == Reinserted(d3, r.orderB)
<1>1. /\ r.orderA = Rest(Head(b["SELL"]), TradeQuantity(b))
      /\ r.orderB = Rest(Head(b["BUY"]), TradeQuantity(b))
  BY DEF ReportOf, HeadBuy, HeadSell
<1>2. /\ r.orderA.quantity > 0 => r.orderA \in KindOrders(K)
      /\ r.orderB.quantity > 0 => r.orderB \in KindOrders(K)
  <2>1. "BUY" \in Sides /\ "SELL" \in Sides
    BY DEF Sides
  <2> HIDE DEF r
  <2>2. QED
    BY <1>1, <2>1, KindRemainder
<1>3. d1 \in DBIn(K)
  BY DeleteRowIn
<1> HIDE DEF d1
<1>4. d2 \in DBIn(K)
  BY <1>3, DeleteRowIn
<1> HIDE DEF r, d2
<1>5. d3 \in DBIn(K)
  BY <1>2, <1>4, AddRowIn DEF Reinserted
<1> HIDE DEF d3
<1>6. d4 \in DBIn(K)
  BY <1>2, <1>5, AddRowIn DEF Reinserted
<1> HIDE DEF d4
<1>7. MatchWrites(s) = <<db, d1, d2, d3, d4>>
  BY DEF MatchWrites, r, d1, d2, d3, d4
<1>8. QED
  BY <1>3, <1>4, <1>5, <1>6, <1>7

LEMMA EngineKindsGrow ==
  ASSUME IInv, IInv', NameInv', requests' = requests \/ \E r : requests' = Append(requests, r)
  PROVE  /\ EngineKinds \subseteq Kinds(requests', Len(requests'))
         /\ Decided(Kinds(requests', Len(requests')))
         /\ \A r : requests' = Append(requests, r) /\ r.type = "NEW" =>
                     Kind(r.order) \in Kinds(requests', Len(requests'))
<1>1. IsSequence(requests)
  BY DEF IInv, RestTypeOK, IsSequence
<1>2. \A r : requests' = Append(requests, r) =>
        /\ EngineKinds \subseteq Kinds(requests', Len(requests'))
        /\ r.type = "NEW" => Kind(r.order) \in Kinds(requests', Len(requests'))
  BY <1>1, KindsGrow DEF EngineKinds
<1>3. requests' = requests => EngineKinds \subseteq Kinds(requests', Len(requests'))
  BY DEF EngineKinds
<1>4. Apart(requests', Len(requests'))
  BY DEF NameInv
<1>5. Decided(Kinds(requests', Len(requests')))
  BY <1>4, ApartDecided
<1>6. QED
  BY <1>2, <1>3, <1>5

\* The rows, too, are of the kinds sent.
LEMMA EngineRowsKept ==
  ASSUME OneJunk, Least = 1, IInv, ReplicaInv, EngineDataInv, NEW K, Decided(K),
         KindState(EState, K), db \in DBIn(K),
         \A r : requests' = Append(requests, r) /\ r.type = "NEW" => Kind(r.order) \in K,
         Engine
  PROVE  db' \in DBIn(K)
<1>1. /\ \A s \in Symbols, side \in Sides : mybooks[s][side] \in Seq(KindOrders(K))
      /\ mybooks \in [Symbols -> Books(Least)] /\ sym \in Symbols \cup {None}
      /\ myorders \in [Ids -> KindOrders(K) \cup {None}]
  BY DEF KindState, EState, State, IInv, DataInv, DataIn, RestTypeOK
<1>2. CASE db' = db
  BY <1>2
<1>3. ASSUME pc = "match", Crosses(mybooks[sym]), NEW k \in 1 .. 5, db' = MatchWrites(sym)[k]
      PROVE  db' \in DBIn(K)
  <2>1. sym \in Symbols
    BY <1>3 DEF IInv, ControlInv
  <2>2. QED
    BY <1>1, <1>3, <2>1, MatchWritesIn
<1>4. CASE Progress
  <2>1. CASE MatchTrades \/ MatchEnds
    BY <1>2, <1>3, <2>1 DEF MatchTrades, MatchEnds, WriteMatch
  <2>2. CASE ~(MatchTrades \/ MatchEnds)
    BY <1>2, <1>4, <2>2 DEF Progress, LoadRow, LoadDone, CommunicateAck,
       CommunicateTrade, CommunicateReportingMsg
  <2>3. QED
    BY <2>1, <2>2
<1>5. CASE ProcessNew
  <2>1. PICK o \in NewOrders : AcceptOrder(o) \/ RejectOrder(o)
    BY <1>5 DEF ProcessNew
  <2>2. CASE AcceptOrder(o)
    <3> DEFINE r == [type |-> "NEW", order |-> o, filled |-> TRUE]
    <3>1. /\ requests' = Append(requests, r) /\ r.type = "NEW" /\ r.order = o
          /\ db' = AddRow(db, o)
      BY <2>2 DEF AcceptOrder, Receive
    <3> HIDE DEF r
    <3>2. Kind(o) \in K
      BY <3>1
    <3>3. o \in KindOrders(K)
      BY <3>2, NewOrdersProper DEF KindOrders
    <3>4. QED
      BY <3>1, <3>3, AddRowIn
  <2>3. CASE RejectOrder(o)
    BY <1>2, <2>3 DEF RejectOrder
  <2>4. QED
    BY <2>1, <2>2, <2>3
<1>6. CASE ProcessModify
  <2>1. PICK id \in Ids, price \in Prices, quantity \in Quantities :
           \/ ModifyUnknown(id, price, quantity) \/ ModifyGone(id, price, quantity)
           \/ ModifyOrder(id, price, quantity) \/ DieInModify(id, price, quantity)
    BY <1>6 DEF ProcessModify
  <2>2. CASE ModifyOrder(id, price, quantity)
    <3>1. PICK q \in JunkQuantities : db' = AddRow(DeleteRow(db, id), Modified(id, price, q))
      BY <2>2 DEF ModifyOrder
    <3>2. Modified(id, price, q) = Amended(myorders[id], price)
      BY JunkIsOne DEF Modified, Amended, Changed
    <3>3. pc = "idle" /\ Rests(mybooks, myorders, id)
      BY <2>2, RestingRests DEF ModifyOrder, Receive
    <3>4. EState = State(<< >>, None, mybooks, myorders)
      BY <3>3, EngineRests DEF ReplicaInv
    <3>5. ~IsMarket(myorders[id])
      BY <3>3, <3>4, RestingIsLimit DEF EngineDataInv
    <3>6. myorders[id] \in KindOrders(K)
      BY <1>1, <3>3 DEF Rests
    <3>7. Amended(myorders[id], price) \in KindOrders(K)
      BY <3>5, <3>6, AmendedKind
    <3>8. DeleteRow(db, id) \in DBIn(K)
      BY DeleteRowIn
    <3>9. QED
      BY <3>1, <3>2, <3>7, <3>8, AddRowIn
  <2>3. CASE DieInModify(id, price, quantity)
    BY <2>3, DeleteRowIn DEF DieInModify
  <2>4. QED
    BY <1>2, <2>1, <2>2, <2>3 DEF ModifyUnknown, ModifyGone
<1>7. CASE ProcessCancel
  BY <1>2, <1>7, DeleteRowIn DEF ProcessCancel, CancelUnknown, CancelOrder
<1>8. CASE StopInMatch
  <2>1. PICK k \in 2 .. 5 : db' = MatchWrites(sym)[k]
    BY <1>8 DEF StopInMatch
  <2>2. k \in 1 .. 5
    OBVIOUS
  <2>3. QED
    BY <1>3, <1>8, <2>1, <2>2 DEF StopInMatch
<1>9. CASE Stop \/ DieDrained
  BY <1>2, <1>9 DEF Stop, DieDrained
<1>10. QED
  BY <1>4, <1>5, <1>6, <1>7, <1>8, <1>9 DEF Engine

LEMMA EngineKindKept ==
  ASSUME OneJunk, Least = 1, IInv, IInv', ReplicaInv, RequestInv, RequestInv',
         EngineDataInv, NameInv', EngineKindInv, [ExNext]_exVars
  PROVE  EngineKindInv'
<1> DEFINE K == Kinds(requests', Len(requests'))
<1>1. Engine \/ requests' = requests
  BY EngineElse
<1>2. /\ EngineKinds \subseteq K /\ Decided(K)
      /\ \A r : requests' = Append(requests, r) /\ r.type = "NEW" => Kind(r.order) \in K
  BY <1>1, EngineAppends, EngineKindsGrow
<1>3. EngineKindInv' <=> KindState(EState', K) /\ db' \in DBIn(K)
  BY DEF EngineKindInv, EngineKinds
<1> HIDE DEF K
<1>4. KindState(EState, K) /\ db \in DBIn(K)
  BY <1>2, KindStateGrows, KindOrdersGrow DEF EngineKindInv, DBIn
<1>5. CASE ~Engine
  <2>1. << >> \in Seq(KindOrders(K)) /\ db.t1 \in Seq(KindOrders(K)) /\ db' = db
    BY <1>4, <1>5, EngineElse DEF DBIn
  <2>2. KindState(EState', K)
    BY <1>4, <1>5, <2>1, EngineElse, EmptyKinds
  <2>3. QED
    BY <1>3, <1>4, <2>1, <2>2
<1>6. CASE Engine
  <2>1. db' \in DBIn(K)
    BY <1>2, <1>4, <1>6, EngineRowsKept
  <2>2. << >> \in Seq(KindOrders(K))
    OBVIOUS
  <2>3. CASE ~Done(EState) /\ EState' = Continue(EState)
    <3>1. KindState(Continue(EState), K)
      BY <1>4, <2>3, ContinueKinds DEF EngineDataInv
    <3>2. QED
      BY <1>3, <2>1, <2>3, <3>1
  <2>4. ASSUME NEW r, Reads(r), ProperRequest(r),
               EState = State(<< >>, None, mybooks, myorders),
               EState' = AfterRequest(r, <<mybooks, myorders>>)
        PROVE  KindState(EState', K)
    <3>1. r.type = "NEW" => Kind(r.order) \in K
      BY <1>2, <2>4 DEF Reads
    <3>2. QED
      BY <1>2, <1>4, <2>4, <3>1, KindRequest DEF EngineDataInv
  <2>5. QED
    BY <1>3, <1>4, <1>6, <2>1, <2>2, <2>3, <2>4, EngineMoves, EmptyKinds
<1>7. QED
  BY <1>5, <1>6

LEMMA PubKindKept ==
  ASSUME OneJunk, Least = 1, IInv, ReplicaInv, RequestInv, PubDataInv, NameInv, NameInv',
         EngineKindInv, PubKindInv, [ExNext]_exVars
  PROVE  PubKindInv'
<1> DEFINE K == Kinds(requests', base') \cup Kinds(seen', Len(seen'))
<1>1. PubKindInv' <=> KindState(PState', K)
  BY DEF PubKindInv, PubKinds
<1>2. << >> \in Seq(KindOrders(K))
  OBVIOUS
<1>3. /\ IsSequence(requests) /\ IsSequence(seen) /\ base \in 0 .. Len(requests)
      /\ Len(requests) \in Nat
  BY DEF IInv, RestTypeOK, IsSequence, ReplicaInv, HistTypes
<1>4. CASE PState' = State(<< >>, None, EmptyBooks, NoOrders)
  BY <1>1, <1>2, <1>4, EmptyKinds
<1>5. P!Exit => PState' = State(<< >>, None, EmptyBooks, NoOrders)
  BY DEF P!Exit, PState, EmptyBooks, NoOrders, P!EmptyBook, P!Sides, EmptyBook, Sides
<1>6. ASSUME requests' = requests, base' = base, seen' = seen PROVE K = PubKinds
  BY <1>6 DEF PubKinds
<1>7. CASE Engine
  <2>1. PState' = PState /\ base' = base /\ seen' = seen
    BY <1>7 DEF Engine, pubOwn, PState
  <2>2. Kinds(requests', base) = Kinds(requests, base)
    <3>1. ASSUME NEW r, requests' = Append(requests, r)
          PROVE  Kinds(requests', base) = Kinds(requests, base)
      <4>1. Kinds(Append(requests, r), base) = Kinds(requests, base)
        BY <1>3, KindsGrow
      <4>2. QED
        BY <3>1, <4>1
    <3>2. requests' = requests => Kinds(requests', base) = Kinds(requests, base)
      OBVIOUS
    <3>3. QED
      BY <1>7, <3>1, <3>2, EngineAppends
  <2>3. QED
    BY <1>1, <2>1, <2>2 DEF PubKindInv, PubKinds
<1>8. CASE EngineRestart
  <2>1. PState' = PState
    BY <1>8 DEF EngineRestart, pubOwn, PState
  <2>2. KindState(PState, PubKinds)
    BY DEF PubKindInv
  <2>3. Kinds(requests, base) \subseteq K /\ Kinds(seen, Len(seen)) \subseteq K
    BY <1>3, <1>8 DEF EngineRestart, Restart, pubOwn, Kinds, NewIn
  <2>4. PubKinds \subseteq K
    BY <2>3 DEF PubKinds
  <2>5. QED
    BY <1>1, <2>1, <2>2, <2>4, KindStateGrows
<1>9. CASE PubStart
  <2>1. /\ pc \in {"load", "wait"} /\ semid5 = 0
        /\ ppc = "down" /\ ptodo' = db.t1 /\ psym' = psym
        /\ pubbooks' = pubbooks /\ puborders' = puborders
        /\ requests' = requests /\ base' = base
    BY <1>9 DEF PubStart, P!Start, P!viewVars, vars, logVars
  <2>2. psym = None /\ PView = <<EmptyBooks, NoOrders>>
    BY <2>1 DEF ReplicaInv, PublisherInv
  <2>3. PState' = State(db.t1, None, EmptyBooks, NoOrders)
    BY <2>1, <2>2 DEF PState, PView
  <2>4. base = Len(requests)
    <3>1. ReadCount = 0
      BY <2>1 DEF ReplicaInv, MeetInv, EngineInv
    <3>2. QED
      BY <1>3, <3>1 DEF ReadCount
  <2>5. EngineKinds \subseteq K
    BY <2>1, <2>4 DEF EngineKinds
  <2>6. db.t1 \in Seq(KindOrders(K))
    BY <2>5, KindOrdersGrow DEF EngineKindInv, DBIn
  <2>7. QED
    BY <1>1, <2>3, <2>6, EmptyKinds
<1>10. CASE PubWorks
  <2>1. CASE P!TakeFails
    BY <1>4, <1>5, <2>1 DEF P!TakeFails
  <2>2. CASE ~P!TakeFails
    <3>1. PublisherWorks /\ requests' = requests /\ base' = base
      BY <1>10, <2>2, PubProgressWorks DEF PubWorks, ReplicaInv, vars, logVars
    <3>2. seen' = seen
      BY <3>1 DEF PublisherWorks
    <3>3. K = PubKinds
      BY <1>6, <3>1, <3>2
    <3>4. ~Done(PState) => KindState(Continue(PState), PubKinds)
      BY ContinueKinds DEF PubDataInv, PubKindInv
    <3>5. QED
      BY <1>1, <3>1, <3>3, <3>4 DEF PublisherWorks, PubKindInv
  <2>3. QED
    BY <2>1, <2>2
<1>11. CASE PubHandles
  <2>1. PICK r \in NextMessages : P!Process(r)
    BY <1>11 DEF PubHandles
  <2>2. /\ Takes(r) /\ ProperRequest(r)
        /\ PState' = AfterRequest(r, <<pubbooks, puborders>>)
    BY <2>1, TakeGood
  <2>3. /\ requests' = requests /\ base' = base /\ ppc = "idle" /\ ppc' # "down"
        /\ seen' = Append(seen, r)
    BY <1>11, <2>2 DEF PubHandles, vars, logVars, Takes
  <2>4. PubKinds \subseteq K /\ (r.type = "NEW" => Kind(r.order) \in K)
    BY <1>3, <2>3, KindsGrow DEF PubKinds
  <2>5. Decided(K)
    <3>1. /\ Apart(seen', Len(seen')) /\ AllApart(requests', base', seen', Len(seen'))
          /\ Apart(requests', Len(requests'))
      BY <2>3 DEF NameInv
    <3>2. Apart(requests', base')
      BY <1>3, <2>3, <3>1 DEF Apart, NewIn
    <3>3. QED
      BY <3>1, <3>2, ApartDecided, BothDecided
  <2>6. PState = State(<< >>, None, pubbooks, puborders)
    BY <2>3, PubRests DEF ReplicaInv
  <2> HIDE DEF K
  <2>7. KindState(PState, K)
    BY <2>4, KindStateGrows DEF PubKindInv
  <2>8. QED
    BY <1>1, <2>2, <2>4, <2>5, <2>6, <2>7, KindRequest DEF PubDataInv
<1>12. CASE PubEnds
  <2>1. /\ P!Exit \/ UNCHANGED <<pubbooks, puborders, psym, ptodo>>
        /\ requests' = requests /\ base' = base /\ seen' = seen
    BY <1>12 DEF PubEnds, P!Interrupt, P!InterruptLoad, P!DieDrained, P!DieInModify,
       P!viewVars, P!Exit, vars, logVars
  <2>2. CASE P!Exit
    BY <1>4, <1>5, <2>2
  <2>3. CASE UNCHANGED <<pubbooks, puborders, psym, ptodo>>
    BY <1>1, <1>6, <2>1, <2>3 DEF PubKindInv, PState
  <2>4. QED
    BY <2>1, <2>2, <2>3
<1>13. CASE EngineReady \/ EngineNotReady \/ UNCHANGED exVars
  <2>1. PState' = PState /\ requests' = requests /\ base' = base /\ seen' = seen
    BY <1>13 DEF EngineReady, Ready, EngineNotReady, exVars, vars, logVars, pubOwn, PState
  <2>2. QED
    BY <1>1, <1>6, <2>1 DEF PubKindInv
<1>14. QED
  BY <1>7, <1>8, <1>9, <1>10, <1>11, <1>12, <1>13 DEF ExNext
-----------------------------------------------------------------------------
(* Levels: the runs of a side *)

\* Where the levels of s begin, up to its ith order.
Starts(s, i) == {j \in 1 .. i : j = 1 \/ ~SameLevel(s[j - 1], s[j])}

\* The number of the ith order's level.
No(s, i) == Cardinality(Starts(s, i))

LEMMA SameCardinality == ASSUME NEW S PROVE P!Cardinality(S) = Cardinality(S)
  BY DEF P!Cardinality, Cardinality

LEMMA LevelByNo ==
  ASSUME NEW s, NEW k
  PROVE  P!Level(s, k) = {i \in 1 .. Len(s) : No(s, i) = k}
<1>1. ASSUME NEW i
      PROVE  {j \in 1 .. i : j = 1 \/ ~P!SameLevel(s[j - 1], s[j])} = Starts(s, i)
  BY DEF P!SameLevel, P!IsMarket, Starts, SameLevel, IsMarket
<1>2. ASSUME NEW i PROVE P!LevelNo(s, i) = No(s, i)
  BY <1>1, SameCardinality DEF P!LevelNo, No
<1>3. QED
  BY <1>2 DEF P!Level

LEMMA NoTyped ==
  ASSUME NEW s, NEW i \in Nat
  PROVE  IsFiniteSet(Starts(s, i)) /\ No(s, i) \in Nat
<1>1. IsFiniteSet(1 .. i) /\ Starts(s, i) \in SUBSET (1 .. i)
  BY FS_Interval DEF Starts
<1>2. IsFiniteSet(Starts(s, i))
  BY <1>1, FS_Subset
<1>3. QED
  BY <1>2, FS_CardinalityType DEF No

LEMMA NoGrows ==
  ASSUME NEW s, NEW a \in Nat, NEW b \in Nat, a <= b
  PROVE  No(s, a) <= No(s, b)
<1>1. Starts(s, a) \in SUBSET Starts(s, b)
  BY DEF Starts
<1>2. IsFiniteSet(Starts(s, b))
  BY NoTyped
<1>3. QED
  BY <1>1, <1>2, FS_Subset DEF No

\* In a run of one level nothing begins, and so every order has its number.
LEMMA NoStays ==
  ASSUME NEW s, NEW a \in Nat \ {0}, NEW b \in Nat, a <= b,
         \A j \in a + 1 .. b : SameLevel(s[j - 1], s[j])
  PROVE  No(s, b) = No(s, a)
<1>1. ASSUME NEW j PROVE j \in Starts(s, b) <=> j \in Starts(s, a)
  <2>1. CASE j \in 1 .. b /\ j > a
    <3>1. j \in a + 1 .. b /\ j # 1
      BY <2>1
    <3>2. SameLevel(s[j - 1], s[j])
      BY <3>1
    <3>3. j \notin 1 .. a
      BY <2>1
    <3>4. QED
      BY <3>1, <3>2, <3>3 DEF Starts
  <2>2. CASE ~(j \in 1 .. b /\ j > a)
    <3>1. j \in 1 .. b <=> j \in 1 .. a
      BY <2>2
    <3>2. QED
      BY <3>1 DEF Starts
  <2>3. QED
    BY <2>1, <2>2
<1>2. Starts(s, b) = Starts(s, a)
  BY <1>1
<1>3. QED
  BY <1>2 DEF No

\* Orders of one level stand together.
LEMMA OneRun ==
  ASSUME NEW side \in Sides, NEW least \in {0, 1},
         NEW s \in Seq(SideOrders(side, least)), Sorted(s),
         NEW a \in 1 .. Len(s), NEW b \in 1 .. Len(s), a <= b,
         SameLevel(s[a], s[b])
  PROVE  No(s, b) = No(s, a)
<1>1. \A i \in 1 .. Len(s) : s[i] \in SideOrders(side, least)
  BY ElementOfSeq
<1>2. ASSUME NEW j \in a + 1 .. b PROVE SameLevel(s[j - 1], s[j])
  <2>1. j \in 1 .. Len(s) /\ j - 1 \in 1 .. Len(s)
    OBVIOUS
  <2>2. /\ s[a] \in SideOrders(side, least) /\ s[b] \in SideOrders(side, least)
        /\ s[j - 1] \in SideOrders(side, least) /\ s[j] \in SideOrders(side, least)
    BY <1>1, <2>1
  <2>3. /\ Ahead(s[j - 1], s[j])
        /\ s[j - 1] = s[a] \/ Ahead(s[a], s[j - 1])
        /\ s[j] = s[b] \/ Ahead(s[j], s[b])
    <3>1. j - 1 < j /\ (j - 1 = a \/ a < j - 1) /\ (j = b \/ j < b)
      OBVIOUS
    <3>2. QED
      BY <2>1, <3>1 DEF Sorted
  <2> DEFINE o == s[a]
             p == s[b]
             x == s[j - 1]
             y == s[j]
  <2> HIDE DEF o, p, x, y
  <2>4. /\ o \in SideOrders(side, least) /\ p \in SideOrders(side, least)
        /\ x \in SideOrders(side, least) /\ y \in SideOrders(side, least)
        /\ Ahead(x, y) /\ (x = o \/ Ahead(o, x)) /\ (y = p \/ Ahead(y, p))
        /\ SameLevel(o, p)
    BY <2>2, <2>3 DEF o, p, x, y
  <2>5. SameLevel(x, y)
    BY <2>4, OrderFields DEF Sides, Ahead, BetterLevel, SameLevel, IsMarket
  <2>6. QED
    BY <2>5 DEF x, y
<1>3. QED
  BY <1>2, NoStays

\* Of two orders of different levels, the one that stands first is at the
\* better one.
LEMMA EarlierIsBetter ==
  ASSUME NEW side \in Sides, NEW least \in {0, 1},
         NEW s \in Seq(SideOrders(side, least)), Sorted(s),
         NEW a \in 1 .. Len(s), NEW b \in 1 .. Len(s), No(s, a) < No(s, b)
  PROVE  a < b /\ BetterLevel(s[a], s[b])
<1>1. No(s, a) \in Nat /\ No(s, b) \in Nat
  BY NoTyped
<1>2. a < b
  <2>1. b <= a => No(s, b) <= No(s, a)
    BY NoGrows
  <2>2. QED
    BY <1>1, <2>1
<1>3. ~SameLevel(s[a], s[b])
  BY <1>1, <1>2, OneRun
<1>4. QED
  BY <1>2, <1>3 DEF Sorted, Ahead
-----------------------------------------------------------------------------
(* The lines of a message *)

\* A line shows the first order of its level, if there is one.
LEMMA LineOfLevel ==
  ASSUME NEW s, Len(s) \in Nat, NEW k
  PROVE  \/ P!Level(s, k) = {} /\ P!BookData(s, k).price = None
         \/ \E i \in P!Level(s, k) : P!BookData(s, k).price = s[i].price
<1>1. CASE P!Level(s, k) = {}
  BY <1>1 DEF P!BookData
<1>2. CASE P!Level(s, k) # {}
  <2> DEFINE L == P!Level(s, k)
  <2>1. L \in SUBSET Nat
    BY DEF P!Level
  <2> HIDE DEF L
  <2>2. Min(L) \in L /\ P!Min(L) = Min(L)
    BY <1>2, <2>1, MinIsLeast DEF P!Min, Min, L
  <2>3. P!BookData(s, k).price = s[Min(L)].price
    BY <1>2, <2>2 DEF P!BookData, L
  <2>4. QED
    BY <2>2, <2>3 DEF L
<1>3. QED
  BY <1>1, <1>2

\* A book of orders that clients could send.
ClientBook(b) == \A side \in Sides : \A i \in 1 .. Len(b[side]) : WellFormed(b[side][i])

\* Levels show the better price first.
LEMMA LinesWorse ==
  ASSUME NEW b \in Books(Least), ClientBook(b), NEW side \in Sides,
         NEW k \in Nat, NEW m \in Nat, k < m,
         P!BookData(b[side], k).price \in Prices,
         P!BookData(b[side], m).price \in Prices
  PROVE  IF side = "BUY"
         THEN P!BookData(b[side], m).price < P!BookData(b[side], k).price
         ELSE P!BookData(b[side], m).price > P!BookData(b[side], k).price
<1> DEFINE s == b[side]
<1>1. /\ s \in Seq(SideOrders(side, Least)) /\ Sorted(s) /\ Least \in {0, 1}
      /\ \A i \in 1 .. Len(s) : WellFormed(s[i])
  BY LeastType DEF Books, ClientBook
<1> HIDE DEF s
<1>2. Len(s) \in Nat /\ None \notin Prices
  BY <1>1, LenProperties, LineAssumption
<1>3. PICK i \in P!Level(s, k) : P!BookData(s, k).price = s[i].price
  BY <1>2, LineOfLevel DEF s
<1>4. PICK j \in P!Level(s, m) : P!BookData(s, m).price = s[j].price
  BY <1>2, LineOfLevel DEF s
<1>5. /\ i \in 1 .. Len(s) /\ No(s, i) = k
      /\ j \in 1 .. Len(s) /\ No(s, j) = m
  BY <1>3, <1>4, LevelByNo
<1>6. BetterLevel(s[i], s[j])
  BY <1>1, <1>5, EarlierIsBetter
<1>7. /\ s[i] \in SideOrders(side, Least) /\ s[j] \in SideOrders(side, Least)
      /\ WellFormed(s[i]) /\ WellFormed(s[j])
      /\ s[i].price \in Prices /\ s[j].price \in Prices
  BY <1>1, <1>3, <1>4, <1>5, ElementOfSeq DEF s
<1>8. ~IsMarket(s[i]) /\ s[j].buysell = side
  BY <1>7 DEF WellFormed, IsMarket, SideOrders
<1>9. QED
  BY <1>3, <1>4, <1>6, <1>8 DEF BetterLevel, s

\* Every message shows a book of orders that clients could send.
MsgInv ==
  \A s \in Symbols :
     shown[s] = None \/ \E b \in Books(Least) : ClientBook(b) /\ shown[s] = P!TopBook(b)

LEMMA OfClients ==
  ASSUME NEW x, NEW K, GoodState(x), KindState(x, K), NEW s \in Symbols
  PROVE  x.books[s] \in Books(Least) /\ ClientBook(x.books[s])
<1>1. x.books[s] \in Books(Least)
  BY DEF GoodState
<1>2. ASSUME NEW side \in Sides, NEW i \in 1 .. Len(x.books[s][side])
      PROVE  WellFormed(x.books[s][side][i])
  <2>1. x.books[s][side] \in Seq(KindOrders(K))
    BY DEF KindState
  <2>2. x.books[s][side][i] \in KindOrders(K)
    BY <2>1, ElementOfSeq
  <2>3. QED
    BY <2>2 DEF KindOrders
<1>3. QED
  BY <1>1, <1>2 DEF ClientBook

\* What a step makes of the messages: one is new at most, and it shows a book as
\* the step leaves it.
LEMMA MessageMade ==
  ASSUME [ExNext]_exVars
  PROVE  \/ shown' = shown
         \/ shown' = [s \in Symbols |-> None]
         \/ \E s : P!CommunicateBookMsg(s)
<1>1. ASSUME NEW o, P!Announce(o)
      PROVE  shown' = shown \/ \E s : P!CommunicateBookMsg(s)
  BY <1>1 DEF P!Announce
<1>2. CASE PubStart
  BY <1>2 DEF PubStart, P!Start
<1>3. CASE PubWorks
  <2>1. P!AfterMatch => shown' = shown \/ \E s : P!CommunicateBookMsg(s)
    BY DEF P!AfterMatch
  <2>2. (\E o : P!Announce(o)) \/ P!AfterMatch \/ shown' = shown
    BY <1>3 DEF PubWorks, P!PubProgress, P!LoadRow, P!LoadDone, P!MatchTrades, P!MatchEnds,
       P!TakeFails
  <2>3. QED
    BY <1>1, <2>1, <2>2
<1>4. CASE PubHandles
  <2>1. (\E o : P!Announce(o)) \/ shown' = shown
    BY <1>4 DEF PubHandles, P!Process, P!ProcessNew, P!ProcessModify, P!ProcessCancel,
       P!ProcessKnown
  <2>2. QED
    BY <1>1, <2>1
<1>5. CASE PubEnds
  BY <1>5 DEF PubEnds, P!Interrupt, P!InterruptLoad, P!DieDrained, P!DieInModify
<1>6. CASE Engine \/ EngineReady \/ EngineNotReady \/ EngineRestart \/ UNCHANGED exVars
  BY <1>6 DEF Engine, EngineReady, EngineNotReady, EngineRestart, exVars, pubOwn
<1>7. QED
  BY <1>2, <1>3, <1>4, <1>5, <1>6 DEF ExNext

LEMMA MessagesChange ==
  ASSUME CleanInv, [ExNext]_exVars, NEW s \in Symbols
  PROVE  shown'[s] \in {shown[s], None, P!TopBook(pubbooks'[s])}
<1>1. shown = [z \in Symbols |-> shown[z]]
  BY DEF CleanInv
<1>2. ASSUME NEW z, P!CommunicateBookMsg(z)
      PROVE  shown'[s] \in {shown[s], P!TopBook(pubbooks'[s])}
  BY <1>1, <1>2 DEF P!CommunicateBookMsg
<1>3. QED
  BY <1>2, MessageMade

LEMMA MessagesKept ==
  ASSUME CleanInv, MsgInv, PubDataInv', PubKindInv', [ExNext]_exVars
  PROVE  MsgInv'
<1>1. ASSUME NEW s \in Symbols
      PROVE  \/ shown'[s] = None
             \/ \E b \in Books(Least) : ClientBook(b) /\ shown'[s] = P!TopBook(b)
  <2>1. GoodState(PState') /\ KindState(PState', PubKinds') /\ PState'.books = pubbooks'
    BY DEF PubDataInv, PubKindInv, PState, State
  <2>2. pubbooks'[s] \in Books(Least) /\ ClientBook(pubbooks'[s])
    BY <2>1, OfClients
  <2>3. shown'[s] \in {shown[s], None, P!TopBook(pubbooks'[s])}
    BY MessagesChange
  <2>4. QED
    BY <2>2, <2>3 DEF MsgInv
<1>2. QED
  BY <1>1 DEF MsgInv

\* All that the books of both processes and the messages rest on, when
\* quantities are positive and ids unique.
ClientInv ==
  /\ ReplicaInv /\ RequestInv /\ PubDataInv /\ CleanInv
  /\ NameInv /\ EngineDataInv /\ EngineKindInv /\ PubKindInv /\ MsgInv

LEMMA ClientsBegin ==
  ASSUME Least = 1, ExInit
  PROVE  ClientInv
<1>1. /\ requests = << >> /\ seen = << >> /\ base = 0
      /\ ppc = "down" /\ shown = [s \in Symbols |-> None]
      /\ PState = State(<< >>, None, EmptyBooks, NoOrders)
      /\ EState = State(<< >>, None, EmptyBooks, NoOrders)
  BY DEF ExInit, Init, ViewInit, P!PubInit, P!ViewInit, PState, EState, EmptyBooks, NoOrders,
     P!EmptyBook, P!Sides, EmptyBook, Sides
<1>2. << >> \in Seq(ProperOrders(Least)) /\ Len(<< >>) = 0
  BY EmptyIsSequence
<1>3. PubDataInv /\ EngineDataInv
  BY <1>1, <1>2, EmptyBooksGood DEF PubDataInv, EngineDataInv
<1>4. RequestInv /\ CleanInv /\ MsgInv
  BY <1>1, <1>2 DEF RequestInv, CleanInv, MsgInv
<1>5. NameInv
  BY <1>1, <1>2 DEF NameInv, Apart, AllApart, NewIn
<1>6. PubKindInv /\ KindState(EState, EngineKinds)
  <2>1. \A K : << >> \in Seq(KindOrders(K))
    OBVIOUS
  <2>2. \A K : KindState(State(<< >>, None, EmptyBooks, NoOrders), K)
    BY <2>1, EmptyKinds
  <2>3. QED
    BY <1>1, <2>2 DEF PubKindInv
<1>7. db \in DBIn(EngineKinds)
  <2>1. IInv
    BY InitIInv DEF ExInit
  <2>2. db.t1 = << >>
    BY DEF ExInit, Init, EmptyDB
  <2>3. << >> \in Seq(KindOrders(EngineKinds))
    OBVIOUS
  <2>4. db \in ProperDB(Least)
    BY <2>1 DEF IInv, DataInv, DataIn
  <2>5. QED
    BY <2>2, <2>3, <2>4 DEF DBIn
<1>8. QED
  BY <1>3, <1>4, <1>5, <1>6, <1>7, ReplicasBegin DEF ClientInv, EngineKindInv

LEMMA ClientsKept ==
  ASSUME OneJunk, UniqueIds, Least = 1, IInv, IInv', ClientInv, [ExNext]_exVars
  PROVE  ClientInv'
<1>1. /\ ReplicaInv /\ RequestInv /\ PubDataInv /\ CleanInv
      /\ NameInv /\ EngineDataInv /\ EngineKindInv /\ PubKindInv /\ MsgInv
  BY DEF ClientInv
<1>2. ReplicaInv' /\ RequestInv' /\ PubDataInv' /\ CleanInv'
  BY <1>1, ReplicasKept, RequestsKept, PubDataKept, CleanKept
<1>3. NameInv'
  BY <1>1, NamesKept
<1>4. EngineDataInv'
  BY <1>1, <1>2, EngineDataKept
<1>5. EngineKindInv'
  BY <1>1, <1>2, <1>3, EngineKindKept
<1>6. PubKindInv'
  BY <1>1, <1>3, PubKindKept
<1>7. MsgInv'
  BY <1>1, <1>2, <1>6, MessagesKept
<1>8. QED
  BY <1>2, <1>3, <1>4, <1>5, <1>6, <1>7 DEF ClientInv

LEMMA ClientsAlways ==
  ASSUME OneJunk, UniqueIds, 0 \notin Quantities
  PROVE  ExSpec => []ClientInv
<1>1. Least = 1
  BY LeastType
<1>2. ExInit => ClientInv
  BY <1>1, ClientsBegin
<1>3. IInv /\ IInv' /\ ClientInv /\ [ExNext]_exVars => ClientInv'
  BY <1>1, ClientsKept
<1>4. QED
  BY ExInductive, <1>2, <1>3, PTL DEF ExSpec

\* With unique ids, the lines of a side of every message that clients get, those
\* within Update included, show strictly worse prices from the first line down,
\* garbage of a market order aside: no price is on two lines.
THEOREM LinesFallOff ==
  ASSUME OneJunk, UniqueIds, 0 \notin Quantities
  PROVE  ExSpec => []LevelsOrdered
<1>1. ClientInv => LevelsOrdered
  <2> SUFFICES ASSUME ClientInv, NEW s \in Symbols, shown[s] # None,
                      NEW i \in 1 .. Depth, NEW j \in 1 .. Depth, i < j
               PROVE  LET better(side, worse(_, _)) ==
                            {side[i].price, side[j].price} \subseteq Prices =>
                               worse(side[j].price, side[i].price)
                      IN  /\ better(shown[s].bid, <)
                          /\ better(shown[s].offer, >)
    BY DEF LevelsOrdered
  <2>1. PICK b \in Books(Least) : ClientBook(b) /\ shown[s] = P!TopBook(b)
    BY DEF ClientInv, MsgInv
  <2>2. i \in Nat /\ j \in Nat
    BY DepthAssumption
  <2>3. /\ shown[s].bid[i].price = P!BookData(b["BUY"], i).price
        /\ shown[s].bid[j].price = P!BookData(b["BUY"], j).price
        /\ shown[s].offer[i].price = P!BookData(b["SELL"], i).price
        /\ shown[s].offer[j].price = P!BookData(b["SELL"], j).price
    BY <2>1 DEF P!TopBook
  <2>4. {shown[s].bid[i].price, shown[s].bid[j].price} \subseteq Prices =>
           shown[s].bid[j].price < shown[s].bid[i].price
    BY <2>1, <2>2, <2>3, LinesWorse DEF Sides
  <2>5. {shown[s].offer[i].price, shown[s].offer[j].price} \subseteq Prices =>
           shown[s].offer[j].price > shown[s].offer[i].price
    BY <2>1, <2>2, <2>3, LinesWorse DEF Sides
  <2>6. QED
    BY <2>4, <2>5
<1>2. QED
  BY ClientsAlways, <1>1, PTL
-----------------------------------------------------------------------------
(* The lines of a side that has no market orders *)

PricesOf(s) == {s[i].price : i \in 1 .. Len(s)}

Better(side, q, p) == IF side = "BUY" THEN q > p ELSE q < p

\* The prices of s that are p or better.
AtLeast(s, side, p) == {q \in PricesOf(s) : q = p \/ Better(side, q, p)}

\* A side as the publisher shows it between requests.
LimitSide(s, side) ==
  s \in Seq(SideOrders(side, Least)) /\ Sorted(s) /\ NoMarket(s)

LEMMA LimitOrders ==
  ASSUME NEW side \in Sides, NEW s, LimitSide(s, side)
  PROVE  /\ Len(s) \in Nat
         /\ \A i \in 1 .. Len(s) : s[i].price \in Nat /\ s[i].price \in PricesOf(s)
         /\ \A i, j \in 1 .. Len(s) : SameLevel(s[i], s[j]) <=> s[i].price = s[j].price
         /\ \A i, j \in 1 .. Len(s) :
               i <= j => s[i].price = s[j].price \/ Better(side, s[i].price, s[j].price)
<1>1. Len(s) \in Nat
  BY LenProperties DEF LimitSide
<1>2. ASSUME NEW i \in 1 .. Len(s)
      PROVE  /\ s[i] \in SideOrders(side, Least) /\ ~IsMarket(s[i])
             /\ s[i].price \in Nat /\ s[i].order_type = "LIMIT" /\ s[i].buysell = side
  <2>1. s[i] \in SideOrders(side, Least) /\ ~IsMarket(s[i])
    BY ElementOfSeq DEF LimitSide, NoMarket
  <2>2. QED
    BY <2>1, LeastType, OrderFields DEF IsMarket
<1>3. ASSUME NEW i \in 1 .. Len(s), NEW j \in 1 .. Len(s)
      PROVE  SameLevel(s[i], s[j]) <=> s[i].price = s[j].price
  BY <1>2 DEF SameLevel
<1>4. ASSUME NEW i \in 1 .. Len(s), NEW j \in 1 .. Len(s), i <= j
      PROVE  s[i].price = s[j].price \/ Better(side, s[i].price, s[j].price)
  <2>1. i = j \/ Ahead(s[i], s[j])
    BY <1>4 DEF LimitSide, Sorted
  <2>2. Ahead(s[i], s[j]) => s[i].price = s[j].price \/ Better(side, s[i].price, s[j].price)
    BY <1>2, <1>3 DEF Ahead, BetterLevel, Better
  <2>3. QED
    BY <2>1, <2>2
<1>5. QED
  BY <1>1, <1>2, <1>3, <1>4 DEF PricesOf

LEMMA PricesFinite ==
  ASSUME NEW side \in Sides, NEW s, LimitSide(s, side), NEW p
  PROVE  /\ IsFiniteSet(PricesOf(s)) /\ Cardinality(PricesOf(s)) \in Nat
         /\ PricesOf(s) \in SUBSET Nat
         /\ IsFiniteSet(AtLeast(s, side, p)) /\ Cardinality(AtLeast(s, side, p)) \in Nat
         /\ Cardinality(AtLeast(s, side, p)) <= Cardinality(PricesOf(s))
<1> DEFINE f == [i \in 1 .. Len(s) |-> s[i].price]
<1>1. Len(s) \in Nat /\ \A i \in 1 .. Len(s) : s[i].price \in Nat
  BY LimitOrders
<1>2. IsFiniteSet(1 .. Len(s))
  BY <1>1, FS_Interval
<1>3. f \in Surjection(1 .. Len(s), PricesOf(s))
  BY DEF Surjection, PricesOf
<1> HIDE DEF f
<1>4. IsFiniteSet(PricesOf(s))
  BY <1>2, <1>3, FS_Surjection
<1>5. AtLeast(s, side, p) \in SUBSET PricesOf(s)
  BY DEF AtLeast
<1>6. /\ IsFiniteSet(AtLeast(s, side, p))
      /\ Cardinality(AtLeast(s, side, p)) <= Cardinality(PricesOf(s))
  BY <1>4, <1>5, FS_Subset
<1>7. PricesOf(s) \in SUBSET Nat
  BY <1>1 DEF PricesOf
<1>8. QED
  BY <1>4, <1>6, <1>7, FS_CardinalityType

\* A level begins with the first order of each price.
LEMMA PriceBegins ==
  ASSUME NEW side \in Sides, NEW s, LimitSide(s, side), NEW q \in PricesOf(s)
  PROVE  \E m \in 1 .. Len(s) :
            /\ s[m].price = q
            /\ m = 1 \/ ~SameLevel(s[m - 1], s[m])
            /\ \A x \in 1 .. Len(s) : s[x].price = q => m <= x
<1> DEFINE X == {x \in 1 .. Len(s) : s[x].price = q}
           m == Min(X)
<1>1. X \in SUBSET Nat /\ X # {}
  BY DEF PricesOf
<1>2. m \in X /\ \A y \in X : m <= y
  <2> HIDE DEF X
  <2>1. QED
    BY <1>1, MinIsLeast
<1> HIDE DEF m
<1>3. m # 1 => ~SameLevel(s[m - 1], s[m])
  <2> SUFFICES ASSUME m # 1 PROVE ~SameLevel(s[m - 1], s[m])
    OBVIOUS
  <2>1. Len(s) \in Nat
    BY LimitOrders
  <2>2. m \in 1 .. Len(s) /\ m - 1 \in 1 .. Len(s) /\ m - 1 < m
    BY <1>2, <2>1
  <2>3. s[m - 1].price # q /\ s[m].price = q
    BY <1>2, <2>2
  <2>4. QED
    BY <2>2, <2>3, LimitOrders
<1>4. QED
  BY <1>2, <1>3

\* Of one price there is one beginning.
LEMMA OneBeginning ==
  ASSUME NEW side \in Sides, NEW s, LimitSide(s, side),
         NEW a \in 1 .. Len(s), NEW b \in 1 .. Len(s), a < b,
         s[a].price = s[b].price
  PROVE  SameLevel(s[b - 1], s[b])
<1>1. Len(s) \in Nat
  BY LimitOrders
<1>2. b - 1 \in 1 .. Len(s) /\ a <= b - 1 /\ b - 1 <= b
  BY <1>1
<1>3. /\ s[a].price = s[b - 1].price \/ Better(side, s[a].price, s[b - 1].price)
      /\ s[b - 1].price = s[b].price \/ Better(side, s[b - 1].price, s[b].price)
      /\ s[a].price \in Nat /\ s[b].price \in Nat /\ s[b - 1].price \in Nat
  BY <1>2, LimitOrders
<1>4. s[b - 1].price = s[b].price
  BY <1>3 DEF Better, Sides
<1>5. QED
  BY <1>2, <1>4, LimitOrders

\* An order's level number counts the prices that are its own or better.
LEMMA NoCounts ==
  ASSUME NEW side \in Sides, NEW s, LimitSide(s, side), NEW i \in 1 .. Len(s)
  PROVE  No(s, i) = Cardinality(AtLeast(s, side, s[i].price))
<1> DEFINE p == s[i].price
           A == AtLeast(s, side, p)
           B == Starts(s, i)
           f == [j \in B |-> s[j].price]
<1>1. /\ Len(s) \in Nat /\ i \in Nat
      /\ \A j \in 1 .. Len(s) : s[j].price \in Nat /\ s[j].price \in PricesOf(s)
  BY LimitOrders
<1>2. \A j \in B : j \in 1 .. Len(s) /\ j <= i /\ (j = 1 \/ ~SameLevel(s[j - 1], s[j]))
  BY <1>1 DEF Starts
<1>3. \A j \in B : s[j].price \in A
  <2>1. \A j \in B : s[j].price = p \/ Better(side, s[j].price, p)
    BY <1>2, LimitOrders
  <2>2. QED
    BY <1>1, <1>2, <2>1 DEF AtLeast
<1>4. ASSUME NEW a \in B, NEW b \in B, s[a].price = s[b].price PROVE a = b
  <2>1. a \in 1 .. Len(s) /\ b \in 1 .. Len(s)
    BY <1>2
  <2>2. ~(a < b)
    <3> SUFFICES ASSUME a < b PROVE FALSE
      OBVIOUS
    <3>1. SameLevel(s[b - 1], s[b])
      BY <1>4, <2>1, OneBeginning
    <3>2. b # 1
      BY <2>1
    <3>3. QED
      BY <1>2, <3>1, <3>2
  <2>3. ~(b < a)
    <3> SUFFICES ASSUME b < a PROVE FALSE
      OBVIOUS
    <3>1. SameLevel(s[a - 1], s[a])
      BY <1>4, <2>1, OneBeginning
    <3>2. a # 1
      BY <2>1
    <3>3. QED
      BY <1>2, <3>1, <3>2
  <2>4. QED
    BY <2>1, <2>2, <2>3
<1>5. ASSUME NEW q \in A PROVE \E j \in B : s[j].price = q
  <2>1. q \in PricesOf(s) /\ (q = p \/ Better(side, q, p))
    BY DEF AtLeast
  <2>2. PICK m \in 1 .. Len(s) : /\ s[m].price = q
                                 /\ m = 1 \/ ~SameLevel(s[m - 1], s[m])
                                 /\ \A x \in 1 .. Len(s) : s[x].price = q => m <= x
    BY <2>1, PriceBegins
  <2>3. m <= i
    <3> SUFFICES ASSUME i < m PROVE FALSE
      BY <1>1
    <3>1. q # p
      BY <2>2
    <3>2. p = q \/ Better(side, p, q)
      BY <2>2, LimitOrders
    <3>3. p \in Nat /\ q \in Nat
      BY <1>1, <2>2
    <3>4. QED
      BY <2>1, <3>1, <3>2, <3>3 DEF Better, Sides
  <2>4. m \in B
    BY <1>1, <2>2, <2>3 DEF Starts
  <2>5. QED
    BY <2>2, <2>4
<1> HIDE DEF A, B
<1>6. f \in Bijection(B, A)
  <2>1. f \in [B -> A] /\ \A j \in B : f[j] = s[j].price
    BY <1>3
  <2> HIDE DEF f
  <2>2. f \in Injection(B, A)
    BY <1>4, <2>1 DEF Injection, IsInjective
  <2>3. f \in Surjection(B, A)
    BY <1>5, <2>1 DEF Surjection
  <2>4. QED
    BY <2>2, <2>3 DEF Bijection
<1>7. ExistsBijection(B, A)
  BY <1>6 DEF ExistsBijection
<1>8. IsFiniteSet(B)
  BY <1>1, NoTyped DEF B
<1>9. Cardinality(A) = Cardinality(B)
  BY <1>7, <1>8, FS_Bijection
<1>10. QED
  BY <1>9 DEF A, B, p, No

\* Orders of one number are the orders of one price.
LEMMA NoIsPrice ==
  ASSUME NEW side \in Sides, NEW s, LimitSide(s, side),
         NEW i \in 1 .. Len(s), NEW j \in 1 .. Len(s)
  PROVE  No(s, i) = No(s, j) <=> s[i].price = s[j].price
<1>1. s[i].price = s[j].price => No(s, i) = No(s, j)
  BY NoCounts
<1>2. ASSUME NEW a \in 1 .. Len(s), NEW b \in 1 .. Len(s), No(s, a) = No(s, b),
             s[a].price # s[b].price, a < b
      PROVE  FALSE
  <2> DEFINE A == AtLeast(s, side, s[a].price)
             B == AtLeast(s, side, s[b].price)
             q == s[b].price
  <2>1. /\ s[a].price \in Nat /\ q \in Nat /\ q \in PricesOf(s)
        /\ Better(side, s[a].price, q)
    BY <1>2, LimitOrders
  <2>2. q \in B /\ q \notin A
    BY <1>2, <2>1 DEF AtLeast, Better, Sides
  <2>3. A \in SUBSET B
    <3>1. PricesOf(s) \in SUBSET Nat
      BY PricesFinite
    <3>2. QED
      BY <2>1, <3>1 DEF AtLeast, Better, Sides
  <2>4. IsFiniteSet(B) /\ Cardinality(A) = Cardinality(B)
    BY <1>2, NoCounts, PricesFinite
  <2> HIDE DEF A, B
  <2>5. QED
    BY <2>2, <2>3, <2>4, FS_Subset
<1>3. ASSUME No(s, i) = No(s, j), s[i].price # s[j].price PROVE FALSE
  <2>1. i < j \/ j < i
    BY <1>3, LimitOrders
  <2>2. QED
    BY <1>2, <1>3, <2>1
<1>4. QED
  BY <1>1, <1>3

\* Every number up to that of the last order is some order's.
LEMMA EveryNo ==
  ASSUME NEW side \in Sides, NEW s, LimitSide(s, side),
         NEW k \in Nat \ {0}, k <= Cardinality(PricesOf(s))
  PROVE  \E i \in 1 .. Len(s) : No(s, i) = k
<1>1. Len(s) \in Nat /\ Len(s) # 0
  <2>1. Len(s) \in Nat
    BY LimitOrders
  <2>2. ASSUME Len(s) = 0 PROVE FALSE
    <3>1. PricesOf(s) = {}
      BY <2>2 DEF PricesOf
    <3>2. QED
      BY <3>1, FS_EmptySet
  <2>3. QED
    BY <2>1, <2>2
<1>2. Len(s) \in 1 .. Len(s) /\ No(s, Len(s)) = Cardinality(PricesOf(s))
  <2>1. Len(s) \in 1 .. Len(s)
    BY <1>1
  <2>2. AtLeast(s, side, s[Len(s)].price) = PricesOf(s)
    <3>1. \A j \in 1 .. Len(s) : \/ s[j].price = s[Len(s)].price
                                \/ Better(side, s[j].price, s[Len(s)].price)
      BY <2>1, LimitOrders
    <3>2. QED
      BY <3>1 DEF AtLeast, PricesOf
  <2>3. QED
    BY <2>1, <2>2, NoCounts
<1> DEFINE X == {i \in 1 .. Len(s) : No(s, i) >= k}
           m == Min(X)
<1>3. X \in SUBSET Nat /\ X # {}
  BY <1>2
<1>4. m \in X /\ \A y \in X : m <= y
  <2> HIDE DEF X
  <2>1. QED
    BY <1>3, MinIsLeast
<1> HIDE DEF m
<1>5. m \in 1 .. Len(s) /\ No(s, m) >= k /\ No(s, m) \in Nat
  <2>1. m \in 1 .. Len(s) /\ No(s, m) >= k
    BY <1>4
  <2>2. QED
    BY <2>1, NoTyped
<1>6. No(s, m) <= k
  <2>1. IsFiniteSet(Starts(s, m - 1)) /\ No(s, m - 1) \in Nat
    BY <1>5, NoTyped
  <2>2. Starts(s, m) \in SUBSET (Starts(s, m - 1) \cup {m})
    BY <1>5 DEF Starts
  <2>3. No(s, m) <= No(s, m - 1) + 1
    <3>1. /\ IsFiniteSet(Starts(s, m - 1) \cup {m})
          /\ Cardinality(Starts(s, m - 1) \cup {m}) =
               IF m \in Starts(s, m - 1) THEN No(s, m - 1) ELSE No(s, m - 1) + 1
      BY <2>1, FS_AddElement DEF No
    <3>2. Cardinality(Starts(s, m)) <= Cardinality(Starts(s, m - 1) \cup {m})
      BY <2>2, <3>1, FS_Subset
    <3>3. m \notin Starts(s, m - 1)
      BY <1>5 DEF Starts
    <3>4. QED
      BY <3>1, <3>2, <3>3 DEF No
  <2>4. No(s, m - 1) < k
    <3>1. CASE m = 1
      <4>1. Starts(s, m - 1) = {}
        BY <3>1 DEF Starts
      <4>2. No(s, m - 1) = 0
        BY <4>1, FS_EmptySet DEF No
      <4>3. QED
        BY <4>2
    <3>2. CASE m # 1
      <4>1. m - 1 \in 1 .. Len(s) /\ ~(m <= m - 1)
        BY <1>1, <1>5, <3>2
      <4>2. m - 1 \notin X
        BY <1>4, <4>1
      <4>3. ~(No(s, m - 1) >= k)
        BY <4>1, <4>2
      <4>4. QED
        BY <2>1, <4>3
    <3>3. QED
      BY <3>1, <3>2
  <2>5. QED
    BY <1>5, <2>1, <2>3, <2>4
<1>7. QED
  BY <1>5, <1>6

\* All that the orders of s ask for at a price.
AskedFor(s, p) == MapThenSumSet(LAMBDA i : s[i].quantity, {i \in 1 .. Len(s) : s[i].price = p})

\* The line is the kth best price with all that is asked for at it.
IsLine(line, k, s, side) ==
  IF k > Cardinality(PricesOf(s)) THEN line.price = None
  ELSE /\ line.price \in PricesOf(s)
       /\ Cardinality({q \in PricesOf(s) : Better(side, q, line.price)}) = k - 1
       /\ line.quantity = AskedFor(s, line.price)

LEMMA LineShows ==
  ASSUME NEW side \in Sides, NEW s, LimitSide(s, side), NEW k \in Nat \ {0}
  PROVE  IsLine(P!BookData(s, k), k, s, side)
<1> DEFINE prices == PricesOf(s)
           line == P!BookData(s, k)
<1>1. /\ Len(s) \in Nat /\ Cardinality(prices) \in Nat /\ IsFiniteSet(prices)
      /\ prices \in SUBSET Nat
  BY LimitOrders, PricesFinite
<1>2. CASE k > Cardinality(prices)
  <2>1. ASSUME NEW i \in 1 .. Len(s) PROVE No(s, i) # k
    <3>1. /\ No(s, i) <= Cardinality(prices) /\ No(s, i) \in Nat
      BY NoCounts, PricesFinite
    <3>2. QED
      BY <1>1, <1>2, <3>1
  <2>2. P!Level(s, k) = {}
    BY <2>1, LevelByNo
  <2>3. line.price = None
    BY <2>2 DEF P!BookData
  <2>4. QED
    BY <1>2, <2>3 DEF IsLine
<1>3. CASE k <= Cardinality(prices)
  <2>1. P!Level(s, k) # {}
    BY <1>3, EveryNo, LevelByNo
  <2>2. PICK i \in P!Level(s, k) : line.price = s[i].price
    BY <1>1, <2>1, LineOfLevel
  <2> DEFINE p == s[i].price
             above == {q \in prices : Better(side, q, p)}
  <2>3. i \in 1 .. Len(s) /\ No(s, i) = k
    BY <2>2, LevelByNo
  <2>4. p \in prices /\ p \in Nat
    BY <2>3, LimitOrders
  <2>5. Cardinality(above) = k - 1
    <3>1. AtLeast(s, side, p) = above \cup {p} /\ p \notin above
      BY <2>4 DEF AtLeast, Better, Sides
    <3>2. IsFiniteSet(above) /\ Cardinality(above) \in Nat
      <4>1. above \in SUBSET prices
        OBVIOUS
      <4> HIDE DEF above, prices
      <4>2. QED
        BY <1>1, <4>1, FS_Subset, FS_CardinalityType
    <3>3. Cardinality(AtLeast(s, side, p)) = k
      BY <2>3, NoCounts
    <3> HIDE DEF above, p
    <3>4. Cardinality(above \cup {p}) = Cardinality(above) + 1
      BY <3>1, <3>2, FS_AddElement
    <3>5. QED
      BY <3>1, <3>2, <3>3, <3>4
  <2>6. P!Level(s, k) = {j \in 1 .. Len(s) : s[j].price = p}
    <3>1. \A j \in 1 .. Len(s) : No(s, j) = k <=> s[j].price = p
      BY <2>3, NoIsPrice
    <3>2. QED
      BY <3>1, LevelByNo
  <2>7. line.quantity = P!LevelQuantity(s, k)
    BY <2>1 DEF P!BookData
  <2>8. P!LevelQuantity(s, k) = AskedFor(s, p)
    BY <2>6 DEF AskedFor, P!LevelQuantity, P!MapThenSumSet, MapThenSumSet,
       P!MapThenFoldSet, MapThenFoldSet
  <2>9. QED
    BY <1>1, <1>3, <2>2, <2>4, <2>5, <2>7, <2>8 DEF IsLine
<1>4. QED
  BY <1>1, <1>2, <1>3

LEMMA BidsShown ==
  ASSUME NEW lines, NEW s, \A k \in 1 .. Depth : IsLine(lines[k], k, s, "BUY")
  PROVE  Shows(lines, s, >)
<1>1. ASSUME NEW k \in 1 .. Depth
      PROVE  IF k > Cardinality(PricesOf(s)) THEN lines[k].price = None
             ELSE /\ lines[k].price \in PricesOf(s)
                  /\ Cardinality({q \in PricesOf(s) : q > lines[k].price}) = k - 1
                  /\ lines[k].quantity = AskedFor(s, lines[k].price)
  <2>1. {q \in PricesOf(s) : Better("BUY", q, lines[k].price)} =
          {q \in PricesOf(s) : q > lines[k].price}
    BY DEF Better
  <2>2. QED
    BY <2>1 DEF IsLine
<1>2. QED
  BY <1>1, Zenon DEF Shows, PricesOf, AskedFor

LEMMA OffersShown ==
  ASSUME NEW lines, NEW s, \A k \in 1 .. Depth : IsLine(lines[k], k, s, "SELL")
  PROVE  Shows(lines, s, <)
<1>1. ASSUME NEW k \in 1 .. Depth
      PROVE  IF k > Cardinality(PricesOf(s)) THEN lines[k].price = None
             ELSE /\ lines[k].price \in PricesOf(s)
                  /\ Cardinality({q \in PricesOf(s) : q < lines[k].price}) = k - 1
                  /\ lines[k].quantity = AskedFor(s, lines[k].price)
  <2>1. {q \in PricesOf(s) : Better("SELL", q, lines[k].price)} =
          {q \in PricesOf(s) : q < lines[k].price}
    BY DEF Better
  <2>2. QED
    BY <2>1 DEF IsLine
<1>2. QED
  BY <1>1, Zenon DEF Shows, PricesOf, AskedFor
-----------------------------------------------------------------------------
(* What clients see is the book *)

\* No message is the value that says that there is none.
NoneIsNoMessage == \A x, y : None # [bid |-> x, offer |-> y]

\* A book without the market orders that stand in front.
Plain(b) == [side \in Sides |-> PopMarketLevel(b[side])]

\* Who saw this last, if anything, saw book b.
Showing(message, b) ==
  IF message = None THEN b = EmptyBook ELSE message = P!TopBook(b)

\* What is shown of a book that Update does not work on is the book; before the
\* first Match, that is what Match will leave unless it trades.
ShowInv ==
  ppc # "down" =>
    \A s \in Symbols :
       /\ s # psym => Showing(shown[s], pubbooks[s])
       /\ s = psym /\ ppc = "match" => Showing(shown[s], Plain(pubbooks[s]))

LEMMA TopIsMessage ==
  ASSUME NoneIsNoMessage, NEW b
  PROVE  Showing(P!TopBook(b), b)
  BY DEF NoneIsNoMessage, Showing, P!TopBook

LEMMA PlainOfLimits ==
  ASSUME NEW b \in Books(Least), Limits(b)
  PROVE  Plain(b) = b
<1>1. b \in [Sides -> Seq(Order)]
  BY DEF Books
<1>2. ASSUME NEW side \in Sides PROVE PopMarketLevel(b[side]) = b[side]
  <2>1. b[side] \in Seq(Order) /\ NoMarket(b[side])
    BY <1>1 DEF Limits
  <2>2. QED
    BY <2>1, PopNothing
<1>3. QED
  BY <1>1, <1>2 DEF Plain

\* A market order stands in front of limit orders, alone at its level.
LEMMA PopEntered ==
  ASSUME NEW S, NEW s \in Seq(S), NEW o \in S, NoMarket(s), IsMarket(o)
  PROVE  PopMarketLevel(AddOrder(s, o)) = s
<1> DEFINE F == {i \in 1 .. Len(s) : Ahead(s[i], o)}
           k == Place(s, o)
           t == AddOrder(s, o)
           M == {i \in 1 .. Len(t) : IsMarket(t[i])}
           n == FirstOutside(t, M)
<1>1. F \in SUBSET (1 .. Len(s)) /\ F = {}
  BY DEF NoMarket, Ahead, BetterLevel, SameLevel, IsMarket
<1>2. k = FirstOutside(s, F) /\ t = InsertAt(s, k, o) /\ Len(s) \in Nat
  BY LenProperties DEF Place, AddOrder
<1> HIDE DEF F, t
<1>3. k \in 1 .. Len(s) + 1 /\ \A i \in 1 .. k - 1 : i \in F
  BY <1>1, <1>2, FirstOutsideFinds
<1> HIDE DEF k
<1>4. k = 1
  <2>1. k > 1 => k - 1 \in 1 .. k - 1
    BY <1>3
  <2>2. QED
    BY <1>1, <1>3, <2>1
<1>5. /\ t \in Seq(S) /\ Len(t) = Len(s) + 1 /\ t[1] = o
      /\ \A j \in 1 .. Len(s) : t[j + 1] = s[j]
  <2> DEFINE u == InsertAt(s, 1, o)
  <2>1. 1 \in 1 .. Len(s) + 1
    BY <1>2
  <2>2. /\ u \in Seq(S) /\ Len(u) = Len(s) + 1
        /\ \A j \in 1 .. Len(s) + 1 :
              u[j] = IF j < 1 THEN s[j] ELSE IF j = 1 THEN o ELSE s[j - 1]
    BY <2>1, InsertAtElements
  <2> HIDE DEF u
  <2>3. u[1] = o /\ \A j \in 1 .. Len(s) : u[j + 1] = s[j]
    BY <1>2, <2>2
  <2>4. t = u
    BY <1>2, <1>4 DEF u
  <2>5. QED
    BY <2>2, <2>3, <2>4
<1>6. M = {1}
  <2>1. \A i \in 2 .. Len(t) : ~IsMarket(t[i])
    <3>1. ASSUME NEW i \in 2 .. Len(t) PROVE ~IsMarket(t[i])
      <4>1. i - 1 \in 1 .. Len(s) /\ t[(i - 1) + 1] = s[i - 1] /\ (i - 1) + 1 = i
        BY <1>2, <1>5
      <4>2. QED
        BY <4>1 DEF NoMarket
    <3>2. QED
      BY <3>1
  <2>2. 1 \in M
    BY <1>2, <1>5
  <2>3. QED
    BY <1>2, <1>5, <2>1, <2>2
<1>7. PopMarketLevel(t) = SubSeq(t, n, Len(t))
  BY DEF PopMarketLevel
<1> HIDE DEF M
<1>8. n = 2
  <2>1. M \in SUBSET (1 .. Len(t))
    BY <1>2, <1>5, <1>6
  <2>2. n \in 1 .. Len(t) + 1 /\ n \notin M /\ \A i \in 1 .. n - 1 : i \in M
    BY <1>5, <2>1, FirstOutsideFinds
  <2> HIDE DEF n
  <2>3. n > 2 => 2 \in 1 .. n - 1
    BY <2>2
  <2>4. QED
    BY <1>6, <2>2, <2>3
<1>9. SubSeq(t, 2, Len(t)) = s
  <2> DEFINE u == SubSeq(t, 2, Len(t))
  <2>1. /\ u \in Seq(S) /\ Len(u) = Len(s)
        /\ \A j \in 1 .. Len(s) : u[j] = t[j + 1]
    BY <1>2, <1>5
  <2> HIDE DEF u
  <2>2. \A j \in 1 .. Len(s) : u[j] = s[j]
    BY <1>5, <2>1
  <2>3. u = s
    BY <2>1, <2>2, SeqEqual
  <2>4. QED
    BY <2>3 DEF u
<1>10. QED
  BY <1>7, <1>8, <1>9 DEF t

LEMMA PlainEntered ==
  ASSUME NEW books \in [Symbols -> Books(Least)], NEW o \in ProperOrders(Least),
         IsMarket(o), Limits(books[o.symbol])
  PROVE  Plain(BooksWith(books, o)[o.symbol]) = books[o.symbol]
<1> DEFINE b == books[o.symbol]
           c == BooksWith(books, o)[o.symbol]
<1>1. o.symbol \in Symbols
  BY DEF ProperOrders, Order
<1>2. b \in [Sides -> Seq(Order)]
  BY <1>1 DEF Books
<1>3. ASSUME NEW side \in Sides PROVE PopMarketLevel(c[side]) = b[side]
  <2>1. b[side] \in Seq(Order \cup {o}) /\ NoMarket(b[side])
    <3>1. b[side] \in Seq(Order)
      BY <1>2
    <3>2. QED
      BY <3>1 DEF Limits
  <2>2. c[side] = AddOrder(b[side], o) \/ c[side] = b[side]
    BY <1>1, SideWith
  <2>3. PopMarketLevel(b[side]) = b[side]
    BY <2>1, PopNothing
  <2>4. PopMarketLevel(AddOrder(b[side], o)) = b[side]
    BY <2>1, PopEntered
  <2> HIDE DEF b, c
  <2>5. QED
    BY <2>2, <2>3, <2>4
<1> HIDE DEF b, c
<1>4. Plain(c) = b
  BY <1>2, <1>3 DEF Plain
<1>5. QED
  BY <1>4 DEF b, c

LEMMA ElsewhereWith ==
  ASSUME NEW books, books = [z \in Symbols |-> books[z]], NEW o, NEW s \in Symbols,
         s # o.symbol
  PROVE  BooksWith(books, o)[s] = books[s] /\ BooksWithout(books, o)[s] = books[s]
  BY DEF BooksWith, BooksWithout

\* A Match that does not trade pops market orders, if there are any.
LEMMA PlainMatched ==
  ASSUME Least = 1, NEW b \in Books(Least), ~TradesIn(b)
  PROVE  MatchedBook(b) = Plain(b)
<1>1. ~Crosses(b)
  BY Heads DEF TradesIn
<1>2. ASSUME NEW side \in Sides PROVE MatchedSide(b, side) = PopMarketLevel(b[side])
  <2> DEFINE other == IF side = "BUY" THEN "SELL" ELSE "BUY"
             s == b[side]
  <2>1. s \in Seq(Order) /\ Sorted(s) /\ Len(s) \in Nat
    BY LenProperties DEF Books
  <2>2. CASE EmptySide(b, other)
    BY <1>1, <2>2 DEF MatchedSide
  <2>3. CASE ~EmptySide(b, other)
    <3>1. NoMarket(s)
      <4>1. CASE s = << >>
        BY <4>1 DEF NoMarket
      <4>2. CASE s # << >>
        <5>1. ~EmptySide(b, "BUY") /\ ~EmptySide(b, "SELL")
          BY <2>3, <4>2 DEF EmptySide, Sides
        <5>2. ~IsMarket(Head(s))
          BY <1>1, <5>1 DEF Crosses, HeadBuy, HeadSell, Sides
        <5>3. Head(s) = s[1] /\ 1 \in 1 .. Len(s)
          BY <2>1, <4>2
        <5> HIDE DEF s
        <5>4. ASSUME NEW j \in 1 .. Len(s) PROVE ~IsMarket(s[j])
          <6>1. j = 1 \/ 1 < j
            OBVIOUS
          <6>2. QED
            BY <2>1, <5>2, <5>3, <6>1, MarketsFirst
        <5>5. QED
          BY <5>4 DEF NoMarket
      <4>3. QED
        BY <4>1, <4>2
    <3>2. PopMarketLevel(s) = s
      BY <2>1, <3>1, PopNothing
    <3>3. MatchedSide(b, side) = s
      BY <1>1, <2>3 DEF MatchedSide
    <3>4. QED
      BY <3>2, <3>3
  <2>4. QED
    BY <2>2, <2>3
<1>3. QED
  BY <1>2 DEF MatchedBook, Plain

\* Books before and after a step in which order o comes to be announced.
LEMMA AnnouncedShown ==
  ASSUME NoneIsNoMessage, shown = [z \in Symbols |-> shown[z]],
         \A z \in Symbols : Showing(shown[z], pubbooks[z]),
         NEW o, o.symbol \in Symbols, psym' = o.symbol, ppc' = "match", P!Announce(o),
         \A z \in Symbols : z # o.symbol => pubbooks'[z] = pubbooks[z],
         Plain(pubbooks'[o.symbol]) =
           IF IsMarket(o) THEN pubbooks[o.symbol] ELSE pubbooks'[o.symbol]
  PROVE  ShowInv'
<1>1. ASSUME NEW z \in Symbols, z # o.symbol PROVE Showing(shown'[z], pubbooks'[z])
  <2>1. shown'[z] = shown[z]
    BY <1>1 DEF P!Announce, P!CommunicateBookMsg
  <2>2. QED
    BY <1>1, <2>1
<1>2. Showing(shown'[o.symbol], Plain(pubbooks'[o.symbol]))
  <2>1. CASE IsMarket(o)
    <3>1. shown' = shown
      BY <2>1, SameMarket DEF P!Announce
    <3>2. QED
      BY <2>1, <3>1
  <2>2. CASE ~IsMarket(o)
    <3>1. shown'[o.symbol] = P!TopBook(pubbooks'[o.symbol])
      BY <2>2, SameMarket DEF P!Announce, P!CommunicateBookMsg
    <3>2. QED
      BY <2>2, <3>1, TopIsMessage
  <2>3. QED
    BY <2>1, <2>2
<1>3. QED
  BY <1>1, <1>2 DEF ShowInv

\* A request changes the book of one symbol only.
LEMMA RequestElsewhere ==
  ASSUME OneJunk, NEW r, ProperRequest(r), NEW books, NEW orders,
         GoodState(State(<< >>, None, books, orders)),
         NEW o, o = IF r.type = "NEW" THEN r.order ELSE orders[r.order_id],
         NEW s \in Symbols, r.type = "NEW" \/ o # None => s # o.symbol
  PROVE  AfterRequest(r, <<books, orders>>).books[s] = books[s]
<1>1. /\ books \in [Symbols -> Books(Least)]
      /\ orders \in [Ids -> ProperOrders(Least) \cup {None}]
  BY DEF GoodState, State
<1>2. books = [z \in Symbols |-> books[z]]
  BY <1>1
<1>3. CASE r.type = "NEW"
  <2>1. BooksWith(books, o)[s] = books[s]
    BY <1>2, <1>3, ElsewhereWith
  <2>2. AfterRequest(r, <<books, orders>>).books \in {BooksWith(books, o), books}
    BY <1>3 DEF AfterRequest, AfterNew, State
  <2>3. QED
    BY <2>1, <2>2
<1>4. CASE r.type # "NEW" /\ ~Rests(books, orders, r.order_id)
  <2>1. AfterRequest(r, <<books, orders>>).books = books
    BY <1>4 DEF AfterRequest, State
  <2>2. QED
    BY <2>1
<1>5. CASE r.type # "NEW" /\ Rests(books, orders, r.order_id)
  <2> DEFINE less == BooksWithout(books, o)
             new == Amended(o, r.price)
  <2>1. o # None /\ r.order_id \in Ids
    BY <1>5 DEF Rests, ProperRequest
  <2>2. o \in ProperOrders(Least) /\ s # o.symbol
    BY <1>1, <1>5, <2>1
  <2>3. less \in [Symbols -> Books(Least)] /\ less[s] = books[s]
    BY <1>1, <1>2, <2>2, LeastType, BooksWithoutOrder, ElsewhereWith
  <2>4. CASE r.type = "MODIFY"
    <3>1. new.symbol = o.symbol
      BY <2>2, <2>4, AmendedProper DEF ProperRequest
    <3>2. AfterRequest(r, <<books, orders>>).books = BooksWith(less, new)
      BY <1>5, <2>4 DEF AfterRequest, AfterModify, State
    <3>3. less = [z \in Symbols |-> less[z]]
      BY <2>3
    <3> HIDE DEF less, new
    <3>4. BooksWith(less, new)[s] = less[s]
      BY <2>2, <3>1, <3>3, ElsewhereWith
    <3>5. QED
      BY <2>3, <3>2, <3>4
  <2>5. CASE r.type # "MODIFY"
    <3>1. AfterRequest(r, <<books, orders>>).books = less
      BY <1>5, <2>5 DEF AfterRequest, AfterCancel, State
    <3>2. QED
      BY <2>3, <3>1
  <2>6. QED
    BY <2>4, <2>5
<1>6. QED
  BY <1>3, <1>4, <1>5

\* A request that names a market order leaves the books alone or adds it.
LEMMA RequestMarket ==
  ASSUME OneJunk, Least = 1, NEW K, Decided(K), NEW r, ProperRequest(r), NEW books, NEW orders,
         GoodState(State(<< >>, None, books, orders)),
         KindState(State(<< >>, None, books, orders), K),
         NEW o, o = IF r.type = "NEW" THEN r.order ELSE orders[r.order_id],
         o \in ProperOrders(Least), IsMarket(o)
  PROVE  Plain(AfterRequest(r, <<books, orders>>).books[o.symbol]) = books[o.symbol]
<1>1. /\ books \in [Symbols -> Books(Least)] /\ o.symbol \in Symbols
      /\ \A s \in Symbols : Limits(books[s])
  BY NoneIsNone DEF GoodState, State, Limits, Quiet, ProperOrders, Order
<1>2. Plain(books[o.symbol]) = books[o.symbol]
  BY <1>1, PlainOfLimits
<1>3. CASE r.type = "NEW"
  <2>1. Plain(BooksWith(books, o)[o.symbol]) = books[o.symbol]
    BY <1>1, PlainEntered
  <2>2. AfterRequest(r, <<books, orders>>).books \in {BooksWith(books, o), books}
    BY <1>3 DEF AfterRequest, AfterNew, State
  <2>3. QED
    BY <1>2, <2>1, <2>2
<1>4. CASE r.type # "NEW"
  <2>1. r.order_id \in Ids
    BY <1>4 DEF ProperRequest
  <2>2. ~Rests(books, orders, r.order_id)
    BY <1>4, <2>1, RestingIsLimit
  <2>3. AfterRequest(r, <<books, orders>>).books = books
    BY <1>4, <2>2 DEF AfterRequest, State
  <2>4. QED
    BY <1>2, <2>3
<1>5. QED
  BY <1>3, <1>4

\* The kinds that the publisher has seen are decided.
LEMMA PubDecided ==
  ASSUME IInv, ReplicaInv, NameInv, ppc # "down"
  PROVE  Decided(PubKinds)
<1>1. base \in 0 .. Len(requests) /\ Len(requests) \in Nat
  BY DEF IInv, RestTypeOK, ReplicaInv, HistTypes
<1>2. /\ Apart(seen, Len(seen)) /\ AllApart(requests, base, seen, Len(seen))
      /\ Apart(requests, Len(requests))
  BY DEF NameInv
<1>3. Apart(requests, base)
  BY <1>1, <1>2 DEF Apart, NewIn
<1>4. QED
  BY <1>2, <1>3, ApartDecided, BothDecided DEF PubKinds

LEMMA TakeShown ==
  ASSUME OneJunk, NoneIsNoMessage, Least = 1, IInv, ClientInv, ShowInv,
         NEW r \in NextMessages, P!Process(r)
  PROVE  ShowInv'
<1> DEFINE o == IF r.type = "NEW" THEN r.order ELSE puborders[r.order_id]
<1>1. /\ ReplicaInv /\ RequestInv /\ PubDataInv /\ CleanInv /\ NameInv /\ PubKindInv
      /\ PublisherInv
  BY DEF ClientInv, ReplicaInv
<1>2. /\ ProperRequest(r) /\ ppc = "idle" /\ seen' = Append(seen, r)
      /\ ppc' = IF psym' = None THEN "idle" ELSE "match"
      /\ PState' = AfterRequest(r, <<pubbooks, puborders>>)
  BY <1>1, TakeGood DEF Takes
<1>3. PState = State(<< >>, None, pubbooks, puborders)
  BY <1>1, <1>2, PubRests
<1>4. /\ GoodState(State(<< >>, None, pubbooks, puborders))
      /\ KindState(State(<< >>, None, pubbooks, puborders), PubKinds)
      /\ Decided(PubKinds)
  <2>1. GoodState(PState) /\ KindState(PState, PubKinds)
    BY <1>1 DEF PubDataInv, PubKindInv
  <2>2. Decided(PubKinds)
    BY <1>1, <1>2, PubDecided
  <2>3. QED
    BY <1>3, <2>1, <2>2
<1>5. pubbooks' = AfterRequest(r, <<pubbooks, puborders>>).books
  <2>1. PState'.books = pubbooks'
    BY DEF PState, State
  <2>2. QED
    BY <1>2, <2>1
<1>6. /\ \A s \in Symbols : Showing(shown[s], pubbooks[s])
      /\ shown = [z \in Symbols |-> shown[z]]
  <2>1. psym = None
    BY <1>1, <1>2 DEF PublisherInv
  <2>2. QED
    BY <1>1, <1>2, <2>1, NoneIsNone DEF ShowInv, CleanInv
<1>7. CASE r.type # "NEW" /\ o = None
  <2>1. shown' = shown /\ psym' = None
    BY <1>7 DEF P!Process, P!ProcessNew, P!ProcessModify, P!ProcessCancel,
       P!ProcessKnown, P!Known, P!Take
  <2>2. \A s \in Symbols : pubbooks'[s] = pubbooks[s]
    BY <1>2, <1>4, <1>5, <1>7, RequestElsewhere
  <2>3. QED
    BY <1>2, <1>6, <2>1, <2>2, NoneIsNone DEF ShowInv
<1>8. CASE r.type = "NEW" \/ o # None
  <2>1. P!Announce(o) /\ psym' = o.symbol
    BY <1>8 DEF P!Process, P!ProcessNew, P!ProcessModify, P!ProcessCancel,
       P!ProcessKnown, P!Known, P!Take
  <2>2. o \in ProperOrders(Least)
    BY <1>2, <1>4, <1>8 DEF ProperRequest, GoodState, State
  <2>3. o.symbol \in Symbols
    BY <2>2 DEF ProperOrders, Order
  <2>4. ppc' = "match"
    BY <1>2, <2>1, <2>3, NoneIsNone
  <2>5. \A s \in Symbols : s # o.symbol => pubbooks'[s] = pubbooks[s]
    BY <1>2, <1>4, <1>5, RequestElsewhere
  <2>6. IsMarket(o) => Plain(pubbooks'[o.symbol]) = pubbooks[o.symbol]
    BY <1>2, <1>4, <1>5, <2>2, RequestMarket
  <2>7. ~IsMarket(o) => Plain(pubbooks'[o.symbol]) = pubbooks'[o.symbol]
    <3> SUFFICES ASSUME ~IsMarket(o) PROVE Plain(pubbooks'[o.symbol]) = pubbooks'[o.symbol]
      OBVIOUS
    <3>1. Limits(pubbooks'[o.symbol])
      BY <1>2, <1>4, <1>5, <1>8, RequestLimits
    <3>2. pubbooks' \in [Symbols -> Books(Least)]
      <4>1. GoodState(PState') /\ PState'.books = pubbooks'
        BY <1>1, TakeGood DEF PState, State
      <4>2. QED
        BY <4>1 DEF GoodState
    <3>3. QED
      BY <2>3, <3>1, <3>2, PlainOfLimits
  <2> HIDE DEF o
  <2>8. QED
    BY <1>6, <2>1, <2>3, <2>4, <2>5, <2>6, <2>7, AnnouncedShown
<1>9. QED
  BY <1>7, <1>8

LEMMA LoadShown ==
  ASSUME NoneIsNoMessage, Least = 1, PublisherInv, PubDataInv, CleanInv, ShowInv, P!LoadRow
  PROVE  ShowInv'
<1> DEFINE o == Head(ptodo)
<1>1. /\ ppc = "load" /\ ptodo # << >> /\ psym = None /\ ppc' = "match"
      /\ psym' = o.symbol /\ P!Announce(o) /\ P!Accept(o)
  BY DEF P!LoadRow, PublisherInv
<1>2. /\ ptodo \in Seq(ProperOrders(Least)) /\ pubbooks \in [Symbols -> Books(Least)]
      /\ \A s \in Symbols : Limits(pubbooks[s])
  BY <1>1, NoneIsNone DEF PubDataInv, GoodState, PState, State, Quiet, Limits
<1>3. o \in ProperOrders(Least)
  BY <1>1, <1>2
<1>4. o.symbol \in Symbols
  BY <1>3 DEF ProperOrders, Order
<1>5. pubbooks' = BooksWith(pubbooks, o)
  BY <1>1, SameBooksWith DEF P!Accept
<1>6. /\ \A s \in Symbols : Showing(shown[s], pubbooks[s])
      /\ shown = [z \in Symbols |-> shown[z]]
  BY <1>1, NoneIsNone DEF ShowInv, CleanInv
<1> HIDE DEF o
<1>7. \A s \in Symbols : s # o.symbol => pubbooks'[s] = pubbooks[s]
  <2>1. pubbooks = [z \in Symbols |-> pubbooks[z]]
    BY <1>2
  <2>2. QED
    BY <1>5, <2>1, ElsewhereWith
<1>8. IsMarket(o) => Plain(pubbooks'[o.symbol]) = pubbooks[o.symbol]
  BY <1>2, <1>3, <1>4, <1>5, PlainEntered
<1>9. ~IsMarket(o) => Plain(pubbooks'[o.symbol]) = pubbooks'[o.symbol]
  <2> SUFFICES ASSUME ~IsMarket(o) PROVE Plain(pubbooks'[o.symbol]) = pubbooks'[o.symbol]
    OBVIOUS
  <2>1. Limits(pubbooks'[o.symbol])
    BY <1>2, <1>3, <1>4, <1>5, LimitsWith
  <2>2. pubbooks' \in [Symbols -> Books(Least)]
    BY <1>2, <1>3, <1>5, LeastType, BooksWithOrder
  <2>3. QED
    BY <1>4, <2>1, <2>2, PlainOfLimits
<1>10. QED
  BY <1>1, <1>4, <1>6, <1>7, <1>8, <1>9, AnnouncedShown

LEMMA MatchShown ==
  ASSUME NoneIsNoMessage, Least = 1, PublisherInv, PubDataInv, CleanInv, ShowInv,
         P!MatchTrades \/ P!MatchEnds
  PROVE  ShowInv'
<1> DEFINE b == pubbooks[psym]
<1>1. /\ ppc \in {"match", "again"} /\ psym \in Symbols /\ P!AfterMatch
      /\ pubbooks' = Matched(pubbooks, psym)
      /\ b \in Books(Least) /\ pubbooks \in [Symbols -> Books(Least)]
  BY SameMatched DEF P!MatchTrades, P!MatchEnds, P!Match, Matched, PublisherInv,
     PubDataInv, GoodState, PState, State
<1>2. /\ pubbooks'[psym] = MatchedBook(b)
      /\ \A s \in Symbols : s # psym => pubbooks'[s] = pubbooks[s]
  BY <1>1 DEF Matched
<1>3. /\ ppc = "match" => shown' = shown
      /\ ppc = "again" => shown'[psym] = P!TopBook(MatchedBook(b))
      /\ \A s \in Symbols : s # psym => shown'[s] = shown[s]
  BY <1>1, <1>2 DEF P!AfterMatch, P!CommunicateBookMsg, CleanInv
<1>4. \A s \in Symbols : s # psym => Showing(shown'[s], pubbooks'[s])
  BY <1>1, <1>2, <1>3 DEF ShowInv
<1>5. CASE P!MatchTrades
  <2>1. ppc' = "again" /\ psym' = psym
    BY <1>5 DEF P!MatchTrades
  <2>2. QED
    BY <1>4, <2>1 DEF ShowInv
<1>6. CASE P!MatchEnds
  <2>1. ~TradesIn(b)
    BY <1>6, SameCrosses DEF P!MatchEnds, P!Trades, TradesIn
  <2>2. MatchedBook(b) = Plain(b)
    BY <1>1, <2>1, PlainMatched
  <2>4. Showing(shown'[psym], pubbooks'[psym])
    <3>1. CASE ppc = "again"
      BY <1>2, <1>3, <3>1, TopIsMessage
    <3>2. CASE ppc = "match"
      <4>1. Showing(shown[psym], Plain(b))
        BY <1>1, <3>2 DEF ShowInv
      <4>2. QED
        BY <1>2, <1>3, <2>2, <3>2, <4>1
    <3>3. QED
      BY <1>1, <3>1, <3>2
  <2>5. \A s \in Symbols : Showing(shown'[s], pubbooks'[s])
    BY <1>4, <2>4
  <2>6. ppc' # "match"
    BY <1>6 DEF P!MatchEnds
  <2>7. QED
    BY <2>5, <2>6 DEF ShowInv
<1>7. QED
  BY <1>5, <1>6

LEMMA ShowKept ==
  ASSUME OneJunk, NoneIsNoMessage, Least = 1, IInv, ClientInv, ShowInv, [ExNext]_exVars
  PROVE  ShowInv'
<1>1. PublisherInv /\ PubDataInv /\ CleanInv
  BY DEF ClientInv, ReplicaInv
<1>2. CASE P!Exit
  BY <1>2 DEF P!Exit, ShowInv
<1>3. CASE UNCHANGED <<pubbooks, ppc, psym, shown>>
  BY <1>3 DEF ShowInv
<1>4. CASE PubStart
  <2>1. /\ shown' = [s \in Symbols |-> None] /\ pubbooks' = pubbooks /\ psym' = psym
        /\ ppc = "down" /\ ppc' = "load"
    BY <1>4 DEF PubStart, P!Start, P!viewVars
  <2>2. psym = None /\ pubbooks = EmptyBooks
    BY <1>1, <2>1 DEF PublisherInv, PView
  <2>3. QED
    BY <2>1, <2>2 DEF ShowInv, Showing, EmptyBooks
<1>5. CASE PubWorks
  <2>1. CASE P!LoadDone
    <3>1. /\ shown' = shown /\ pubbooks' = pubbooks /\ psym' = psym
          /\ ppc = "load" /\ ppc' = "idle"
      BY <2>1 DEF P!LoadDone, P!viewVars
    <3>2. QED
      BY <3>1 DEF ShowInv
  <2>2. QED
    BY <1>1, <1>2, <1>5, <2>1, LoadShown, MatchShown
    DEF PubWorks, P!PubProgress, P!TakeFails
<1>6. CASE PubHandles
  BY <1>6, TakeShown DEF PubHandles
<1>7. CASE PubEnds
  BY <1>2, <1>3, <1>7
  DEF PubEnds, P!Interrupt, P!InterruptLoad, P!DieDrained, P!DieInModify, P!viewVars
<1>8. CASE Engine \/ EngineReady \/ EngineNotReady \/ EngineRestart \/ UNCHANGED exVars
  BY <1>3, <1>8
  DEF Engine, EngineReady, EngineNotReady, EngineRestart, exVars, pubOwn
<1>9. QED
  BY <1>4, <1>5, <1>6, <1>7, <1>8 DEF ExNext

\* Who have both caught up have one view.
LEMMA OneView ==
  ASSUME IInv, ReplicaInv, CaughtUp
  PROVE  mybooks = pubbooks
<1>1. /\ HistTypes /\ EngineInv /\ PublisherInv /\ AgreeInv
      /\ pc = "idle" /\ ppc = "idle" /\ Len(seen) = Len(Read)
  BY DEF ReplicaInv, CaughtUp
<1>2. /\ ReadCount \in Nat /\ Len(mehist) = ReadCount + 1 /\ EView = mehist[Len(mehist)]
      /\ Len(bphist) = Len(seen) + 1 /\ PView = bphist[Len(bphist)]
  BY <1>1, Counts DEF EngineInv, PublisherInv
<1>3. Len(seen) = ReadCount
  <2>1. requests \in Seq(Request) /\ base \in Nat /\ base <= Len(requests)
    BY <1>1 DEF IInv, RestTypeOK, HistTypes
  <2>2. Len(Read) = Len(requests) - base
    BY <2>1 DEF Read
  <2>3. QED
    BY <1>1, <2>2 DEF ReadCount
<1>4. mehist[Len(mehist)] = bphist[Len(mehist)] /\ Len(mehist) = Len(bphist)
  <2>1. Len(mehist) \in 1 .. Len(mehist) /\ Len(mehist) <= Len(bphist)
    BY <1>2, <1>3
  <2>2. QED
    BY <1>1, <1>2, <1>3, <2>1 DEF AgreeInv
<1>5. EView = PView
  BY <1>2, <1>4
<1>6. QED
  BY <1>5 DEF EView, PView

\* With positive quantities and unique ids, when both processes have handled all
\* that there is, what clients were sent last about a symbol is the engine's
\* book of it: on each line the next best price with the whole quantity asked for
\* at it, for any depth; nothing was sent only about an empty book.
THEOREM ClientsSeeBooks ==
  ASSUME OneJunk, UniqueIds, 0 \notin Quantities, NoneIsNoMessage
  PROVE  ExSpec => []ClientsSeeTheBook
<1>1. Least = 1
  BY LeastType
<1>2. ExInit => ShowInv
  BY DEF ExInit, P!PubInit, ShowInv
<1>3. IInv /\ ClientInv /\ ShowInv /\ [ExNext]_exVars => ShowInv'
  BY <1>1, ShowKept
<1>4. IInv /\ ClientInv /\ ShowInv => ClientsSeeTheBook
  <2> SUFFICES ASSUME IInv, ClientInv, ShowInv, CaughtUp, NEW s \in Symbols
               PROVE  IF shown[s] = None THEN mybooks[s] = EmptyBook
                      ELSE /\ Shows(shown[s].bid, mybooks[s]["BUY"], >)
                           /\ Shows(shown[s].offer, mybooks[s]["SELL"], <)
    BY DEF ClientsSeeTheBook
  <2>1. ReplicaInv /\ PublisherInv /\ PubDataInv /\ ppc = "idle"
    BY DEF ClientInv, ReplicaInv, CaughtUp
  <2>2. psym = None
    BY <2>1 DEF PublisherInv
  <2>3. mybooks[s] = pubbooks[s] /\ Showing(shown[s], pubbooks[s])
    BY <2>1, <2>2, OneView, NoneIsNone DEF ShowInv
  <2> DEFINE b == pubbooks[s]
  <2>4. b \in Books(Least) /\ Limits(b)
    BY <1>1, <2>1, <2>2, NoneIsNone DEF PubDataInv, GoodState, PState, State, Quiet, Limits
  <2>5. CASE shown[s] = None
    BY <2>3, <2>5 DEF Showing
  <2>6. CASE shown[s] # None
    <3>1. shown[s] = P!TopBook(b)
      BY <2>3, <2>6 DEF Showing
    <3>2. LimitSide(b["BUY"], "BUY") /\ LimitSide(b["SELL"], "SELL")
      BY <2>4 DEF LimitSide, Books, Limits, Sides
    <3> HIDE DEF b
    <3>3. \A k \in 1 .. Depth : /\ k \in Nat \ {0}
                               /\ shown[s].bid[k] = P!BookData(b["BUY"], k)
                               /\ shown[s].offer[k] = P!BookData(b["SELL"], k)
      BY <3>1, DepthAssumption DEF P!TopBook
    <3>4. Shows(shown[s].bid, b["BUY"], >)
      <4>1. \A k \in 1 .. Depth : IsLine(shown[s].bid[k], k, b["BUY"], "BUY")
        BY <3>2, <3>3, LineShows DEF Sides
      <4>2. QED
        BY <4>1, BidsShown
    <3>5. Shows(shown[s].offer, b["SELL"], <)
      <4>1. \A k \in 1 .. Depth : IsLine(shown[s].offer[k], k, b["SELL"], "SELL")
        BY <3>2, <3>3, LineShows DEF Sides
      <4>2. QED
        BY <4>1, OffersShown
    <3>6. QED
      BY <2>3, <2>6, <3>4, <3>5 DEF b
  <2>7. QED
    BY <2>5, <2>6
<1>5. QED
  BY ExInductive, ClientsAlways, <1>2, <1>3, <1>4, PTL DEF ExSpec
-----------------------------------------------------------------------------
(* Types.  Nothing here rests on what the processes have in common. *)

LEMMA LineTyped ==
  ASSUME NEW side, NEW s \in Seq(SideOrders(side, Least)), NEW k
  PROVE  P!BookData(s, k) \in P!BookLine
<1> DEFINE L == P!Level(s, k)
<1>1. Len(s) \in Nat /\ \A i \in 1 .. Len(s) : s[i] \in Order
  BY ElementOfSeq DEF SideOrders, ProperOrders
<1>2. \A i \in 1 .. Len(s) : s[i].price \in Prices \cup {NoPrice} /\ s[i].quantity \in Nat
  BY <1>1 DEF Order
<1>3. CASE L = {}
  BY <1>3 DEF P!BookData, P!BookLine
<1>4. CASE L # {}
  <2>1. L \in SUBSET (1 .. Len(s))
    BY DEF P!Level
  <2>2. P!BookData(s, k).price \in Prices \cup {NoPrice, None}
    BY <1>1, <1>2, LinePrice
  <2>3. IsFiniteSet(L)
    <3>1. IsFiniteSet(1 .. Len(s))
      BY <1>1, FS_Interval
    <3> HIDE DEF L
    <3>2. QED
      BY <2>1, <3>1, FS_Subset
  <2>4. P!LevelQuantity(s, k) = SumOf(s, L)
    BY DEF SumOf, P!LevelQuantity, P!MapThenSumSet, MapThenSumSet, P!MapThenFoldSet,
       MapThenFoldSet
  <2>5. SumOf(s, L) \in Nat
    <3> HIDE DEF L
    <3>1. QED
      BY <1>2, <2>1, <2>3, SumIs
  <2>6. P!BookData(s, k) = [price |-> P!BookData(s, k).price,
                            quantity |-> P!LevelQuantity(s, k)]
    BY <1>4 DEF P!BookData
  <2>7. QED
    BY <2>2, <2>4, <2>5, <2>6 DEF P!BookLine
<1>5. QED
  BY <1>3, <1>4

LEMMA MessageTyped ==
  ASSUME NEW b \in Books(Least)
  PROVE  P!TopBook(b) \in P!BookMessage
<1>1. /\ b["BUY"] \in Seq(SideOrders("BUY", Least))
      /\ b["SELL"] \in Seq(SideOrders("SELL", Least))
  BY DEF Books, Sides
<1>2. \A k : P!BookData(b["BUY"], k) \in P!BookLine /\ P!BookData(b["SELL"], k) \in P!BookLine
  BY <1>1, LineTyped
<1>3. QED
  BY <1>2 DEF P!TopBook, P!BookMessage

\* What the publisher keeps is good wherever it is, and it has a symbol exactly
\* while Update is at work.
PubHasInv ==
  /\ GoodState(PState)
  /\ ppc \in {"load", "idle", "match", "again", "down"}
  /\ psym # None <=> ppc \in {"match", "again"}
  /\ {loaded, up} \subseteq BOOLEAN

\* Both processes, what they count and record, and what clients are sent.
ExInv ==
  /\ HistTypes /\ RequestInv /\ PubHasInv
  /\ shown \in [Symbols -> P!BookMessage \cup {None}]

LEMMA PairAppended ==
  ASSUME NEW s, IsSequence(s), \A k \in 1 .. Len(s) : IsPair(s[k]), NEW v, NEW w
  PROVE  /\ IsSequence(Append(s, <<v, w>>))
         /\ \A k \in 1 .. Len(Append(s, <<v, w>>)) : IsPair(Append(s, <<v, w>>)[k])
<1> DEFINE e == <<v, w>>
<1>1. IsPair(e)
  BY DEF IsPair
<1> HIDE DEF e
<1>2. /\ IsSequence(Append(s, e)) /\ Len(s) \in Nat /\ Len(Append(s, e)) = Len(s) + 1
      /\ Append(s, e)[Len(s) + 1] = e
      /\ \A i \in 1 .. Len(s) : Append(s, e)[i] = s[i]
  BY Appended
<1>3. ASSUME NEW k \in 1 .. Len(Append(s, e)) PROVE IsPair(Append(s, e)[k])
  <2>1. k \in 1 .. Len(s) \/ k = Len(s) + 1
    BY <1>2
  <2>2. QED
    BY <1>1, <1>2, <2>1
<1>4. QED
  BY <1>2, <1>3 DEF e

LEMMA HistoriesTyped ==
  ASSUME IInv, HistTypes, [ExNext]_exVars
  PROVE  HistTypes'
<1>1. \/ mehist' = mehist \/ mehist' = << >>
      \/ mehist' = Append(mehist, <<mybooks', myorders'>>)
  BY DEF ExNext, Engine, EngineRecords, EngineReady, EngineNotReady, EngineRestart, PubStart,
     PubWorks, PubHandles, PubEnds, exVars
<1>2. \/ bphist' = bphist \/ bphist' = << >>
      \/ bphist' = Append(bphist, <<pubbooks', puborders'>>)
  BY DEF ExNext, Engine, PubRecords, EngineReady, EngineNotReady, EngineRestart, PubStart,
     PubWorks, PubHandles, PubEnds, exVars
<1>3. seen' = seen \/ seen' = << >> \/ \E r : seen' = Append(seen, r)
  <2>1. CASE PubStart
    BY <2>1 DEF PubStart, P!Start
  <2>2. CASE PubWorks
    BY <2>2 DEF PubWorks, P!PubProgress, P!LoadRow, P!LoadDone, P!MatchTrades, P!MatchEnds,
       P!TakeFails, P!Exit
  <2>3. CASE PubHandles
    BY <2>3 DEF PubHandles, P!Process, P!ProcessNew, P!ProcessModify, P!ProcessCancel,
       P!ProcessKnown, P!Take
  <2>4. CASE PubEnds
    BY <2>4 DEF PubEnds, P!Interrupt, P!InterruptLoad, P!DieDrained, P!DieInModify, P!Exit
  <2>5. CASE Engine \/ EngineReady \/ EngineNotReady \/ EngineRestart \/ UNCHANGED exVars
    BY <2>5 DEF Engine, EngineReady, EngineNotReady, EngineRestart, exVars, pubOwn
  <2>6. QED
    BY <2>1, <2>2, <2>3, <2>4, <2>5 DEF ExNext
<1>4. semid5' \in Nat
  <2>1. semid5 \in Nat
    BY DEF HistTypes
  <2>2. CASE PubWorks
    BY <2>1, <2>2 DEF PubWorks, P!PubProgress, P!LoadRow, P!LoadDone, P!MatchTrades,
       P!MatchEnds, P!TakeFails, P!Exit
  <2>3. CASE PubHandles
    BY <2>1, <2>3 DEF PubHandles, P!Process, P!ProcessNew, P!ProcessModify,
       P!ProcessCancel, P!ProcessKnown, P!Take
  <2>4. CASE PubStart \/ PubEnds
    BY <2>1, <2>4 DEF PubStart, P!Start, PubEnds, P!Interrupt, P!InterruptLoad,
       P!DieDrained, P!DieInModify, P!Exit
  <2>5. CASE Engine \/ EngineReady \/ EngineNotReady \/ EngineRestart \/ UNCHANGED exVars
    BY <2>1, <2>5 DEF Engine, EngineReady, EngineNotReady, EngineRestart, exVars
  <2>6. QED
    BY <2>2, <2>3, <2>4, <2>5 DEF ExNext
<1>5. base' \in Nat /\ base' <= Len(requests')
  <2>1. base \in Nat /\ base <= Len(requests) /\ Len(requests) \in Nat /\ IsSequence(requests)
    BY LenProperties DEF HistTypes, IInv, RestTypeOK, IsSequence
  <2>2. CASE Engine
    <3>1. base' = base /\ (requests' = requests \/ \E r : requests' = Append(requests, r))
      BY <2>2, EngineAppends DEF Engine
    <3>2. QED
      BY <2>1, <3>1, Appended
  <2>3. CASE EngineRestart
    BY <2>1, <2>3 DEF EngineRestart, Restart, logVars
  <2>4. CASE EngineReady \/ EngineNotReady \/ PubStart \/ PubWorks \/ PubHandles \/ PubEnds
             \/ UNCHANGED exVars
    <3>1. base' = base /\ requests' = requests
      BY <2>4 DEF EngineReady, Ready, EngineNotReady, PubStart, PubWorks, PubHandles, PubEnds,
         exVars, vars, logVars
    <3>2. QED
      BY <2>1, <3>1
  <2>5. QED
    BY <2>2, <2>3, <2>4 DEF ExNext
<1>6. IsSequence(seen')
  BY <1>3, Appended, EmptyIsSequence DEF HistTypes
<1>7. IsSequence(mehist') /\ \A k \in 1 .. Len(mehist') : IsPair(mehist'[k])
  <2>1. IsSequence(mehist) /\ \A k \in 1 .. Len(mehist) : IsPair(mehist[k])
    BY DEF HistTypes
  <2>2. CASE mehist' = << >>
    BY <2>2, EmptyIsSequence
  <2>3. QED
    BY <1>1, <2>1, <2>2, PairAppended
<1>8. IsSequence(bphist') /\ \A k \in 1 .. Len(bphist') : IsPair(bphist'[k])
  <2>1. IsSequence(bphist) /\ \A k \in 1 .. Len(bphist) : IsPair(bphist[k])
    BY DEF HistTypes
  <2>2. CASE bphist' = << >>
    BY <2>2, EmptyIsSequence
  <2>3. QED
    BY <1>2, <2>1, <2>2, PairAppended
<1>9. QED
  BY <1>4, <1>5, <1>6, <1>7, <1>8 DEF HistTypes

\* Between two messages the view is good, whatever rows are left.
LEMMA GoodView ==
  ASSUME GoodState(PState), psym = None
  PROVE  /\ ptodo \in Seq(ProperOrders(Least))
         /\ pubbooks \in [Symbols -> Books(Least)]
         /\ puborders \in [Ids -> ProperOrders(Least) \cup {None}]
         /\ GoodState(State(<< >>, None, pubbooks, puborders))
<1>1. << >> \in Seq(ProperOrders(Least))
  OBVIOUS
<1>2. QED
  BY <1>1, NoneIsNone DEF GoodState, PState, State

LEMMA OtherRows ==
  ASSUME NEW rows \in Seq(ProperOrders(Least)), NEW s, NEW books, NEW orders,
         GoodState(State(<< >>, s, books, orders))
  PROVE  GoodState(State(rows, s, books, orders))
  BY DEF GoodState, State

\* A message leaves a good view and the symbol to Update.
LEMMA ProcessTyped ==
  ASSUME PubHasInv, ppc = "idle", NEW r, ProperRequest(r), P!Process(r)
  PROVE  /\ GoodState(PState')
         /\ ppc' = IF psym' = None THEN "idle" ELSE "match"
         /\ loaded' = loaded /\ up' = up
<1>1. /\ ptodo \in Seq(ProperOrders(Least))
      /\ pubbooks \in [Symbols -> Books(Least)]
      /\ puborders \in [Ids -> ProperOrders(Least) \cup {None}]
      /\ GoodState(State(<< >>, None, pubbooks, puborders))
  BY GoodView DEF PubHasInv
<1>2. /\ ppc' = IF psym' = None THEN "idle" ELSE "match"
      /\ loaded' = loaded /\ up' = up /\ ptodo' = ptodo
  BY DEF P!Process, P!ProcessNew, P!ProcessModify, P!ProcessCancel, P!ProcessKnown, P!Take
<1>3. SUFFICES GoodState(State(<< >>, psym', pubbooks', puborders'))
  BY <1>1, <1>2, OtherRows DEF PState
<1>4. CASE r.type = "MODIFY"
  <2> DEFINE id == r.order_id
             old == puborders[id]
  <2>1. P!ProcessModify(r) /\ id \in Ids /\ r.price \in Prices
    BY <1>4 DEF P!Process, P!ProcessNew, P!ProcessCancel, ProperRequest
  <2>2. psym' = SymbolOf(puborders, id)
    BY <2>1 DEF P!ProcessModify, P!ProcessKnown, P!Known, P!Take, SymbolOf
  <2>3. P!Resting(id) <=> Rests(pubbooks, puborders, id)
    BY SameHolds DEF P!Resting, P!Known, Rests
  <2>4. CASE ~Rests(pubbooks, puborders, id)
    <3>1. pubbooks' = pubbooks /\ puborders' = puborders
      BY <2>1, <2>3, <2>4 DEF P!ProcessModify, P!viewVars
    <3>2. SymbolOf(puborders, id) \in Symbols \cup {None}
      BY <1>1, <2>1 DEF SymbolOf, ProperOrders, Order
    <3>3. GoodState(State(<< >>, SymbolOf(puborders, id), pubbooks, puborders))
      BY <1>1, <3>2, NoneIsNone DEF GoodState, State
    <3>4. QED
      BY <2>2, <3>1, <3>3
  <2>5. CASE Rests(pubbooks, puborders, id)
    <3>1. PICK q \in JunkQuantities : P!Replace(id, r.price, q)
      BY <2>1, <2>3, <2>5 DEF P!ProcessModify
    <3> DEFINE new == Changed(old, r.price, q)
               less == BooksWithout(pubbooks, old)
               orders2 == [puborders EXCEPT ![id] = new]
    <3>2. pubbooks' = BooksWith(less, new) /\ puborders' = orders2
      BY <3>1, SameBooksWith DEF P!Replace, P!Modified, Changed
    <3>3. old \in ProperOrders(Least) /\ psym' = old.symbol
      BY <1>1, <2>1, <2>2, <2>5 DEF Rests, SymbolOf
    <3>4. new \in ProperOrders(Least) /\ new.symbol = old.symbol
      BY <2>1, <3>3, ReplacedProper
    <3>5. /\ less \in [Symbols -> Books(Least)]
          /\ \A s \in Symbols : Quiet(pubbooks[s]) => Quiet(less[s])
      BY <1>1, <3>3, LeastType, BooksWithoutOrder
    <3>6. Least = 1 => \A s \in Symbols : Quiet(pubbooks[s])
      BY <1>1, NoneIsNone DEF GoodState, State
    <3>7. orders2 \in [Ids -> ProperOrders(Least) \cup {None}]
      BY <1>1, <3>4
    <3>8. << >> \in Seq(ProperOrders(Least))
      OBVIOUS
    <3> HIDE DEF new, less, orders2
    <3>9. GoodState(State(<< >>, new.symbol, BooksWith(less, new), orders2))
      BY <3>4, <3>5, <3>6, <3>7, <3>8, PlacedGood
    <3>10. QED
      BY <3>2, <3>3, <3>4, <3>9
  <2>6. QED
    BY <2>4, <2>5
<1>5. CASE r.type # "MODIFY"
  <2>1. State(<< >>, psym', pubbooks', puborders') = AfterRequest(r, <<pubbooks, puborders>>)
    BY <1>5, TakeRequest DEF Takes, PView
  <2>2. GoodState(AfterRequest(r, <<pubbooks, puborders>>))
    BY <1>1, <1>5, RequestGood
  <2>3. QED
    BY <2>1, <2>2
<1>6. QED
  BY <1>4, <1>5

LEMMA PubHasKept ==
  ASSUME IInv, HistTypes, RequestInv, PubHasInv, [ExNext]_exVars
  PROVE  PubHasInv'
<1>1. CASE UNCHANGED <<pubbooks, puborders, ppc, psym, ptodo, loaded>> /\ up' \in BOOLEAN
  BY <1>1 DEF PubHasInv, PState
<1>2. CASE P!Exit /\ up' = up
  <2>1. PState' = State(<< >>, None, EmptyBooks, NoOrders)
    BY <1>2 DEF P!Exit, PState, EmptyBooks, NoOrders, P!EmptyBook, P!Sides, EmptyBook, Sides
  <2>2. << >> \in Seq(ProperOrders(Least))
    OBVIOUS
  <2>3. GoodState(PState')
    BY <2>1, <2>2, EmptyBooksGood
  <2>4. QED
    BY <1>2, <2>3 DEF P!Exit, PubHasInv
<1>3. CASE PubStart
  <2>1. /\ ppc = "down" /\ ppc' = "load" /\ ptodo' = db.t1 /\ psym' = psym
        /\ pubbooks' = pubbooks /\ puborders' = puborders /\ loaded' = FALSE /\ up' = TRUE
    BY <1>3 DEF PubStart, P!Start, P!viewVars
  <2>2. db.t1 \in Seq(ProperOrders(Least)) /\ psym = None
    BY <2>1 DEF IInv, DataInv, DataIn, ProperDB, PubHasInv
  <2>3. GoodState(State(db.t1, None, pubbooks, puborders))
    BY <2>2, GoodView, OtherRows DEF PubHasInv
  <2>4. QED
    BY <2>1, <2>2, <2>3 DEF PubHasInv, PState
<1>4. CASE PubWorks
  <2>1. CASE P!LoadRow
    <3>1. psym = None /\ ptodo \in Seq(Order)
      BY <2>1, GoodView DEF P!LoadRow, PubHasInv, ProperOrders
    <3>2. PState' = Continue(PState) /\ ~Done(PState) /\ psym' # None
      BY <2>1, <3>1, PublisherLoads
    <3>3. QED
      BY <2>1, <3>2, ContinueGood DEF P!LoadRow, PubHasInv
  <2>2. CASE P!LoadDone
    <3>1. PState' = PState
      BY <2>2 DEF P!LoadDone, P!viewVars, PState
    <3>2. QED
      BY <2>2, <3>1 DEF P!LoadDone, PubHasInv
  <2>3. CASE P!MatchTrades
    <3>1. PState' = Continue(PState) /\ ~Done(PState) /\ psym' # None
      BY <2>3, PublisherTrades DEF P!MatchTrades, PubHasInv
    <3>2. QED
      BY <2>3, <3>1, ContinueGood DEF P!MatchTrades, PubHasInv
  <2>4. CASE P!MatchEnds
    <3>1. PState' = Continue(PState) /\ ~Done(PState) /\ psym' = None
      BY <2>4, PublisherEndsMatch DEF P!MatchEnds, PubHasInv
    <3>2. QED
      BY <2>4, <3>1, ContinueGood DEF P!MatchEnds, PubHasInv
  <2>5. QED
    BY <1>2, <1>4, <2>1, <2>2, <2>3, <2>4 DEF PubWorks, P!PubProgress, P!TakeFails
<1>5. CASE PubHandles
  <2>1. PICK r \in NextMessages : P!Process(r)
    BY <1>5 DEF PubHandles
  <2>2. ppc = "idle"
    BY <2>1 DEF P!Process, P!ProcessNew, P!ProcessModify, P!ProcessCancel, P!ProcessKnown,
       P!Take
  <2>3. /\ GoodState(PState') /\ ppc' = IF psym' = None THEN "idle" ELSE "match"
        /\ loaded' = loaded /\ up' = up
    BY <2>1, <2>2, NextProper, ProcessTyped
  <2>4. QED
    BY <2>3 DEF PubHasInv
<1>6. CASE PubEnds
  BY <1>1, <1>2, <1>6
  DEF PubEnds, P!Interrupt, P!InterruptLoad, P!DieDrained, P!DieInModify, P!viewVars
<1>7. CASE Engine \/ EngineReady \/ EngineNotReady \/ EngineRestart \/ UNCHANGED exVars
  BY <1>1, <1>7
  DEF Engine, EngineReady, EngineNotReady, EngineRestart, exVars, pubOwn, PubHasInv
<1>8. QED
  BY <1>3, <1>4, <1>5, <1>6, <1>7 DEF ExNext

LEMMA ShownTyped ==
  ASSUME shown \in [Symbols -> P!BookMessage \cup {None}], PubHasInv', [ExNext]_exVars
  PROVE  shown' \in [Symbols -> P!BookMessage \cup {None}]
<1>1. \A s \in Symbols : P!TopBook(pubbooks'[s]) \in P!BookMessage
  <2>1. GoodState(PState') /\ PState'.books = pubbooks'
    BY DEF PubHasInv, PState, State
  <2>2. pubbooks' \in [Symbols -> Books(Least)]
    BY <2>1 DEF GoodState
  <2>3. QED
    BY <2>2, MessageTyped
<1>2. ASSUME NEW s, P!CommunicateBookMsg(s)
      PROVE  shown' \in [Symbols -> P!BookMessage \cup {None}]
  BY <1>1, <1>2 DEF P!CommunicateBookMsg
<1>3. QED
  BY <1>2, MessageMade

\* Matching engine, publisher and messages keep to their types, whatever the
\* overruns leave and whoever names which order: semid5 never goes below zero,
\* and no life begins with a request that has not been read.
THEOREM ExchangeTyped == ExSpec => []ExTypeOK
<1>1. ExInit => ExInv
  <2> SUFFICES ASSUME ExInit PROVE ExInv
    OBVIOUS
  <2>1. /\ requests = << >> /\ seen = << >> /\ mehist = << >> /\ bphist = << >>
        /\ base = 0 /\ semid5 = 0 /\ ppc = "down" /\ psym = None
        /\ loaded = FALSE /\ up = FALSE /\ shown = [s \in Symbols |-> None]
        /\ PState = State(<< >>, None, EmptyBooks, NoOrders)
    BY DEF ExInit, Init, P!PubInit, P!ViewInit, PState, EmptyBooks, NoOrders, P!EmptyBook,
       P!Sides, EmptyBook, Sides
  <2>2. << >> \in Seq(ProperOrders(Least))
    OBVIOUS
  <2>3. PubHasInv
    BY <2>1, <2>2, EmptyBooksGood DEF PubHasInv
  <2>4. HistTypes /\ RequestInv
    BY <2>1, EmptyIsSequence DEF HistTypes, RequestInv
  <2>5. QED
    BY <2>1, <2>3, <2>4 DEF ExInv
<1>2. IInv /\ ExInv /\ [ExNext]_exVars => ExInv'
  BY HistoriesTyped, RequestsKept, PubHasKept, ShownTyped DEF ExInv
<1>3. IInv /\ ExInv => ExTypeOK
  <2> SUFFICES ASSUME IInv, ExInv PROVE ExTypeOK
    OBVIOUS
  <2>1. TypeOK
    BY TypesFollow
  <2>2. GoodState(PState) /\ PState = State(ptodo, psym, pubbooks, puborders)
    BY DEF ExInv, PubHasInv, PState
  <2>3. /\ ptodo \in Seq(ProperOrders(Least)) /\ psym \in Symbols \cup {None}
        /\ pubbooks \in [Symbols -> Books(Least)]
        /\ puborders \in [Ids -> ProperOrders(Least) \cup {None}]
    BY <2>2 DEF GoodState, State
  <2>4. ProperOrders(Least) \subseteq Order /\ Books(Least) \subseteq [Sides -> Seq(Order)]
    BY DEF ProperOrders, Books
  <2>5. P!Order = Order /\ P!Sides = Sides
    BY DEF P!Order, Order, P!Sides, Sides
  <2>6. ptodo \in Seq(P!Order)
    BY <2>3, <2>4, <2>5
  <2>7. P!ViewTypeOK
    BY <2>3, <2>4, <2>5 DEF P!ViewTypeOK
  <2>8. P!PubTypeOK
    BY <2>3, <2>6, <2>7 DEF P!PubTypeOK, ExInv, PubHasInv, HistTypes
  <2>9. base \in 0 .. Len(requests)
    <3>1. Len(requests) \in Nat
      BY LenProperties DEF IInv, RestTypeOK
    <3>2. QED
      BY <3>1 DEF ExInv, HistTypes
  <2>10. QED
    BY <2>1, <2>8, <2>9 DEF ExTypeOK
<1>4. QED
  BY ExInductive, <1>1, <1>2, <1>3, PTL DEF ExSpec
=============================================================================
