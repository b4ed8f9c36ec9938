---------------------------- MODULE CancelProofs -----------------------------
(***************************************************************************)
(* Proofs about MatchEng for clients that name each order differently:     *)
(* CancelIsFinal, Cancelable, LimitRowsRest and LoadNeverTrades.           *)
(*                                                                         *)
(* First that an order stands at one place at most (CancelInv), which is   *)
(* what makes a cancel final: it takes one order out of one book and one   *)
(* row out of t1, no later step makes a second one, and the next start,    *)
(* which reads t1 again, finds none.  Then what stands: myorders has every *)
(* limit order as it rests (StandInv), and every limit row of t1 rests     *)
(* (RowsInv), through loads, requests, matches and stops.                  *)
(***************************************************************************)
EXTENDS MatchEngProofs

-----------------------------------------------------------------------------
(* Sides in which no order stands twice *)

Once(s) ==
  \A i, j \in 1 .. Len(s) : s[i].order_id = s[j].order_id => i = j

LEMMA AddOrderOnce ==
  ASSUME NEW S, NEW s \in Seq(S), NEW o \in S
  PROVE  /\ \A id : Holds(AddOrder(s, o), id) => Holds(s, id) \/ id = o.order_id
         /\ Once(s) /\ ~Holds(s, o.order_id) => Once(AddOrder(s, o))
<1> DEFINE P == {i \in 1 .. Len(s) : Ahead(s[i], o)}
           k == Place(s, o)
           t == AddOrder(s, o)
<1>1. k \in 1 .. Len(s) + 1
  <2>1. P \in SUBSET (1 .. Len(s)) /\ k = FirstOutside(s, P)
    BY DEF Place
  <2>2. QED
    BY <2>1, FirstOutsideFinds
<1> HIDE DEF k
<1>2. t = InsertAt(s, k, o)
  BY DEF AddOrder, k
<1>3. /\ Len(t) = Len(s) + 1 /\ Len(s) \in Nat
      /\ \A j \in 1 .. Len(s) + 1 :
            t[j] = IF j < k THEN s[j] ELSE IF j = k THEN o ELSE s[j - 1]
  BY <1>1, <1>2, InsertAtElements, LenProperties
<1> HIDE DEF t
<1>4. \A j \in 1 .. Len(t) : \/ j < k /\ j \in 1 .. Len(s) /\ t[j] = s[j]
                             \/ j = k /\ t[j] = o
                             \/ k < j /\ j - 1 \in 1 .. Len(s) /\ t[j] = s[j - 1]
  BY <1>1, <1>3
<1>5. \A id : Holds(t, id) => Holds(s, id) \/ id = o.order_id
  BY <1>4 DEF Holds
<1>6. ASSUME Once(s), ~Holds(s, o.order_id),
             NEW i \in 1 .. Len(t), NEW j \in 1 .. Len(t),
             t[i].order_id = t[j].order_id
      PROVE  i = j
  <2>1. \A m \in 1 .. Len(t) : m # k => t[m].order_id # o.order_id
    BY <1>4, <1>6 DEF Holds
  <2>2. CASE i = k \/ j = k
    <3>1. t[k] = o
      BY <1>1, <1>3
    <3>2. QED
      BY <1>6, <2>1, <2>2, <3>1
  <2>3. CASE i < k /\ j < k
    <3>1. /\ i \in 1 .. Len(s) /\ j \in 1 .. Len(s)
          /\ s[i].order_id = s[j].order_id
      BY <1>1, <1>3, <1>6, <2>3
    <3>2. QED
      BY <1>6, <3>1 DEF Once
  <2>4. CASE i > k /\ j > k
    <3>1. /\ i - 1 \in 1 .. Len(s) /\ j - 1 \in 1 .. Len(s)
          /\ s[i - 1].order_id = s[j - 1].order_id
      BY <1>1, <1>3, <1>6, <2>4
    <3>2. i - 1 = j - 1
      BY <1>6, <3>1 DEF Once
    <3>3. QED
      BY <3>2
  <2>5. ASSUME NEW m \in 1 .. Len(t), NEW n \in 1 .. Len(t), m < k, k < n
        PROVE  t[m].order_id # t[n].order_id
    <3>1. m \in 1 .. Len(s) /\ n - 1 \in 1 .. Len(s) /\ m # n - 1
      BY <1>1, <1>3, <2>5
    <3>2. t[m] = s[m] /\ t[n] = s[n - 1]
      BY <1>1, <1>3, <2>5
    <3>3. QED
      BY <1>6, <3>1, <3>2 DEF Once
  <2>6. QED
    BY <1>1, <1>6, <2>2, <2>3, <2>4, <2>5
<1>7. QED
  BY <1>5, <1>6 DEF Once, t

LEMMA RemoveOrderOnce ==
  ASSUME NEW S, NEW s \in Seq(S), NEW id
  PROVE  /\ \A x : Holds(RemoveOrder(s, id), x) => Holds(s, x)
         /\ Once(s) => Once(RemoveOrder(s, id)) /\ ~Holds(RemoveOrder(s, id), id)
<1> DEFINE P == {i \in 1 .. Len(s) : s[i].order_id # id}
           k == PositionOf(s, id)
           t == RemoveOrder(s, id)
<1>1. CASE Holds(s, id)
  <2>1. P \in SUBSET (1 .. Len(s)) /\ k = FirstOutside(s, P)
    BY DEF PositionOf
  <2> HIDE DEF k
  <2>2. /\ k \in 1 .. Len(s) + 1 /\ k \notin P
        /\ \A i \in 1 .. k - 1 : i \in P
    BY <2>1, FirstOutsideFinds
  <2>3. PICK i \in 1 .. Len(s) : s[i].order_id = id
    BY <1>1 DEF Holds
  <2>4. Len(s) \in Nat /\ i \notin 1 .. k - 1
    BY <2>2, <2>3, LenProperties
  <2>5. k \in 1 .. Len(s) /\ s[k].order_id = id
    BY <2>2, <2>3, <2>4
  <2>6. t = RemoveAt(s, k)
    BY <1>1 DEF RemoveOrder, k
  <2>7. /\ Len(t) = Len(s) - 1
        /\ \A j \in 1 .. Len(s) - 1 : t[j] = IF j < k THEN s[j] ELSE s[j + 1]
    BY <2>5, <2>6, RemoveAtElements
  <2> HIDE DEF t
  <2>8. \A j \in 1 .. Len(t) : \/ j < k /\ j \in 1 .. Len(s) /\ t[j] = s[j]
                               \/ k <= j /\ j + 1 \in 1 .. Len(s) /\ t[j] = s[j + 1]
    BY <2>4, <2>5, <2>7
  <2>9. \A x : Holds(t, x) => Holds(s, x)
    BY <2>8 DEF Holds
  <2>10. ASSUME Once(s) PROVE ~Holds(t, id)
    BY <2>5, <2>7, <2>8, <2>10 DEF Once, Holds
  <2>11. ASSUME Once(s), NEW m \in 1 .. Len(t), NEW n \in 1 .. Len(t),
                t[m].order_id = t[n].order_id
         PROVE  m = n
    BY <2>4, <2>5, <2>7, <2>8, <2>11 DEF Once
  <2>12. QED
    BY <2>9, <2>10, <2>11 DEF Once, t
<1>2. CASE ~Holds(s, id)
  BY <1>2 DEF RemoveOrder
<1>3. QED
  BY <1>1, <1>2

\* A part of a side, from position k on.
LEMMA SuffixOnce ==
  ASSUME NEW S, NEW s \in Seq(S), Sorted(s), NEW k \in 1 .. Len(s) + 1
  PROVE  LET t == SubSeq(s, k, Len(s))
         IN  /\ \A id : Holds(t, id) => Holds(s, id)
             /\ Once(s) => Once(t)
<1> DEFINE t == SubSeq(s, k, Len(s))
<1>1. /\ Len(t) = Len(s) - k + 1 /\ Len(s) \in Nat
      /\ \A j \in 1 .. Len(s) - k + 1 : t[j] = s[k + j - 1]
  BY SuffixSorted, LenProperties
<1> HIDE DEF t
<1>2. \A j \in 1 .. Len(t) : k + j - 1 \in 1 .. Len(s) /\ t[j] = s[k + j - 1]
  BY <1>1
<1>3. \A id : Holds(t, id) => Holds(s, id)
  BY <1>2 DEF Holds
<1>4. ASSUME Once(s) PROVE Once(t)
  BY <1>1, <1>2, <1>4 DEF Once
<1>5. QED
  BY <1>3, <1>4 DEF t

LEMMA TailOnce ==
  ASSUME NEW S, NEW s \in Seq(S), s # << >>
  PROVE  /\ Tail(s) \in Seq(S) /\ Head(s) \in S /\ Holds(s, Head(s).order_id)
         /\ \A id : Holds(Tail(s), id) => Holds(s, id)
         /\ Once(s) => Once(Tail(s)) /\ ~Holds(Tail(s), Head(s).order_id)
<1> DEFINE t == Tail(s)
<1>1. /\ t \in Seq(S) /\ Head(s) \in S /\ Head(s) = s[1]
      /\ Len(t) = Len(s) - 1 /\ Len(s) \in Nat \ {0}
      /\ \A i \in 1 .. Len(t) : t[i] = s[i + 1]
  BY HeadTailProperties, EmptySeq, ElementOfSeq
<1> HIDE DEF t
<1>2. /\ 1 \in 1 .. Len(s)
      /\ \A i \in 1 .. Len(t) : i + 1 \in 1 .. Len(s) /\ i + 1 # 1
  BY <1>1
<1>3. \A id : Holds(t, id) => Holds(s, id)
  BY <1>1, <1>2 DEF Holds
<1>4. ASSUME Once(s) PROVE ~Holds(t, Head(s).order_id)
  BY <1>1, <1>2, <1>4 DEF Once, Holds
<1>5. ASSUME Once(s), NEW i \in 1 .. Len(t), NEW j \in 1 .. Len(t),
             t[i].order_id = t[j].order_id
      PROVE  i = j
  <2>1. i + 1 = j + 1
    BY <1>1, <1>2, <1>5 DEF Once
  <2>2. QED
    BY <2>1
<1>6. Holds(s, Head(s).order_id)
  BY <1>1, <1>2 DEF Holds
<1>7. QED
  BY <1>1, <1>3, <1>4, <1>5, <1>6 DEF Once, t

\* Match brings no order into a side, nor one of them twice.
LEMMA MatchedSideOnce ==
  ASSUME NEW least \in {0, 1}, NEW b \in Books(least), NEW side \in Sides
  PROVE  /\ \A id : Holds(MatchedBook(b)[side], id) => Holds(b[side], id)
         /\ Once(b[side]) => Once(MatchedBook(b)[side])
<1> DEFINE s == b[side]
           q == TradeQuantity(b)
           S == SideOrders(side, least)
<1>1. s \in Seq(S) /\ Sorted(s) /\ MatchedBook(b)[side] = MatchedSide(b, side)
  BY DEF Books, MatchedBook
<1>2. CASE Crosses(b)
  <2>1. s # << >> /\ q \in 0 .. Head(s).quantity
    BY <1>2, Heads DEF HeadBuy, HeadSell, Sides
  <2>2. Head(s) \in S
    BY <1>1, <2>1, TailOnce
  <2>4. /\ \A id : Holds(Tail(s), id) => Holds(s, id)
        /\ Once(s) => Once(Tail(s)) /\ ~Holds(Tail(s), Head(s).order_id)
    BY <1>1, <2>1, TailOnce
  <2>5. /\ Rest(Head(s), q).order_id = Head(s).order_id
        /\ Rest(Head(s), q).quantity > 0 => Rest(Head(s), q) \in S
    BY <2>1, <2>2, RestProper
  <2>6. Tail(s) \in Seq(S)
    BY <1>1, <2>1, TailOnce
  <2>7. Holds(s, Head(s).order_id)
    BY <1>1, <2>1, TailOnce
  <2>8. MatchedSide(b, side) = Executed(s, q)
    BY <1>2 DEF MatchedSide
  <2> HIDE DEF s, q, S
  <2>9. CASE Rest(Head(s), q).quantity > 0
    <3>1. Executed(s, q) = AddOrder(Tail(s), Rest(Head(s), q))
      BY <2>9 DEF Executed
    <3>2. Rest(Head(s), q) \in S
      BY <2>5, <2>9
    <3> DEFINE t == Tail(s)
               o == Rest(Head(s), q)
    <3> HIDE DEF t, o
    <3>3. t \in Seq(S) /\ o \in S /\ o.order_id = Head(s).order_id
      BY <2>5, <2>6, <3>2 DEF t, o
    <3>4. /\ \A id : Holds(AddOrder(t, o), id) => Holds(t, id) \/ id = o.order_id
          /\ Once(t) /\ ~Holds(t, o.order_id) => Once(AddOrder(t, o))
      BY <3>3, AddOrderOnce
    <3>5. \A id : Holds(Executed(s, q), id) => Holds(s, id)
      BY <2>4, <2>7, <3>1, <3>3, <3>4 DEF t, o
    <3>6. Once(s) => Once(Executed(s, q))
      BY <2>4, <3>1, <3>3, <3>4 DEF t, o
    <3>7. QED
      BY <1>1, <2>8, <3>5, <3>6 DEF s
  <2>10. CASE ~(Rest(Head(s), q).quantity > 0)
    BY <1>1, <2>4, <2>8, <2>10 DEF Executed, s
  <2>11. QED
    BY <2>9, <2>10
<1>3. CASE ~Crosses(b)
  <2>1. MatchedSide(b, side) \in {PopMarketLevel(s), s}
    BY <1>3 DEF MatchedSide
  <2>2. /\ \A id : Holds(PopMarketLevel(s), id) => Holds(s, id)
        /\ Once(s) => Once(PopMarketLevel(s))
    <3> DEFINE P == {i \in 1 .. Len(s) : IsMarket(s[i])}
               k == FirstOutside(s, P)
    <3>1. k \in 1 .. Len(s) + 1
      <4>1. P \in SUBSET (1 .. Len(s))
        OBVIOUS
      <4>2. QED
        BY <1>1, <4>1, FirstOutsideFinds
    <3> HIDE DEF k
    <3>2. PopMarketLevel(s) = SubSeq(s, k, Len(s))
      BY DEF PopMarketLevel, k
    <3>3. QED
      BY <1>1, <3>1, <3>2, SuffixOnce
  <2>3. QED
    BY <1>1, <2>1, <2>2
<1>4. QED
  BY <1>2, <1>3
-----------------------------------------------------------------------------
(* All books, in which no order stands twice *)

Somewhere(books, id) ==
  \E s \in Symbols, side \in Sides : Holds(books[s][side], id)

Spread(books) ==
  /\ \A s \in Symbols, side \in Sides : Once(books[s][side])
  /\ \A s, t \in Symbols, x, y \in Sides, id \in Ids :
        Holds(books[s][x], id) /\ Holds(books[t][y], id) => s = t /\ x = y

\* c has no more than books has.
Fewer(c, books) ==
  \A s \in Symbols, side \in Sides :
     /\ \A id : Holds(c[s][side], id) => Holds(books[s][side], id)
     /\ Once(books[s][side]) => Once(c[s][side])

LEMMA FewerSpread ==
  ASSUME NEW c, NEW books, Fewer(c, books)
  PROVE  /\ Spread(books) => Spread(c)
         /\ \A id : Somewhere(c, id) => Somewhere(books, id)
  BY DEF Fewer, Spread, Somewhere

LEMMA MatchFewer ==
  ASSUME NEW least \in {0, 1}, NEW books \in [Symbols -> Books(least)],
         NEW s \in Symbols
  PROVE  Fewer([books EXCEPT ![s] = MatchedBook(@)], books)
<1> DEFINE c == [books EXCEPT ![s] = MatchedBook(@)]
<1>1. \A t \in Symbols : c[t] = IF t = s THEN MatchedBook(books[s]) ELSE books[t]
  OBVIOUS
<1>2. books[s] \in Books(least)
  OBVIOUS
<1> HIDE DEF c
<1>3. \A side \in Sides :
         /\ \A id : Holds(MatchedBook(books[s])[side], id) => Holds(books[s][side], id)
         /\ Once(books[s][side]) => Once(MatchedBook(books[s])[side])
  BY <1>2, MatchedSideOnce
<1>4. Fewer(c, books)
  BY <1>1, <1>3 DEF Fewer
<1>5. QED
  BY <1>4 DEF c

\* Sides of the books after an insertion or a removal.
LEMMA EditedSides ==
  ASSUME NEW least \in {0, 1}, NEW books \in [Symbols -> Books(least)],
         NEW o \in ProperOrders(least)
  PROVE  /\ o.symbol \in Symbols /\ o.buysell \in Sides /\ o.order_id \in Ids
         /\ o \in Order
         /\ \A s \in Symbols, side \in Sides :
               /\ books[s][side] \in Seq(Order)
               /\ BooksWith(books, o)[s][side] =
                    IF s = o.symbol /\ side = o.buysell
                    THEN AddOrder(books[s][side], o) ELSE books[s][side]
               /\ BooksWithout(books, o)[s][side] =
                    IF s = o.symbol /\ side = o.buysell
                    THEN RemoveOrder(books[s][side], o.order_id) ELSE books[s][side]
<1>1. /\ o.symbol \in Symbols /\ o.buysell \in Sides /\ o.order_id \in Ids
      /\ o \in Order
  BY DEF ProperOrders, Order
<1>2. books \in [Symbols -> [Sides -> Seq(Order)]]
  BY DEF Books
<1>3. QED
  BY <1>1, <1>2 DEF BooksWith, BooksWithout

LEMMA WithOnce ==
  ASSUME NEW least \in {0, 1}, NEW books \in [Symbols -> Books(least)],
         NEW o \in ProperOrders(least),
         Spread(books), ~Somewhere(books, o.order_id)
  PROVE  /\ Spread(BooksWith(books, o))
         /\ \A id : Somewhere(BooksWith(books, o), id) =>
                      Somewhere(books, id) \/ id = o.order_id
<1> DEFINE c == BooksWith(books, o)
<1>1. /\ o.symbol \in Symbols /\ o.buysell \in Sides /\ o.order_id \in Ids
      /\ o \in Order
      /\ \A s \in Symbols, side \in Sides :
            /\ books[s][side] \in Seq(Order)
            /\ c[s][side] = IF s = o.symbol /\ side = o.buysell
                            THEN AddOrder(books[s][side], o) ELSE books[s][side]
  BY EditedSides
<1> HIDE DEF c
<1>2. ASSUME NEW s \in Symbols, NEW side \in Sides
      PROVE  /\ Once(c[s][side])
             /\ \A id : Holds(c[s][side], id) =>
                  \/ Holds(books[s][side], id)
                  \/ s = o.symbol /\ side = o.buysell /\ id = o.order_id
  <2>1. Once(books[s][side]) /\ ~Holds(books[s][side], o.order_id)
    BY DEF Spread, Somewhere
  <2>2. /\ \A id : Holds(AddOrder(books[s][side], o), id) =>
                     Holds(books[s][side], id) \/ id = o.order_id
        /\ Once(AddOrder(books[s][side], o))
    BY <1>1, <2>1, AddOrderOnce
  <2>3. QED
    BY <1>1, <2>1, <2>2
<1>3. \A id : Somewhere(c, id) => Somewhere(books, id) \/ id = o.order_id
  BY <1>2 DEF Somewhere
<1>4. ASSUME NEW s \in Symbols, NEW t \in Symbols, NEW x \in Sides, NEW y \in Sides,
             NEW id \in Ids, Holds(c[s][x], id), Holds(c[t][y], id)
      PROVE  s = t /\ x = y
  <2>1. CASE id = o.order_id
    BY <1>2, <1>4, <2>1 DEF Somewhere
  <2>2. CASE id # o.order_id
    <3>1. Holds(books[s][x], id) /\ Holds(books[t][y], id)
      BY <1>2, <1>4, <2>2
    <3>2. QED
      BY <3>1 DEF Spread
  <2>3. QED
    BY <2>1, <2>2
<1>5. Spread(c)
  BY <1>2, <1>4 DEF Spread
<1>6. QED
  BY <1>3, <1>5 DEF c

\* After the removal the order is in no book.
LEMMA WithoutOnce ==
  ASSUME NEW least \in {0, 1}, NEW books \in [Symbols -> Books(least)],
         NEW o \in ProperOrders(least), Spread(books),
         Holds(books[o.symbol][o.buysell], o.order_id)
  PROVE  /\ Fewer(BooksWithout(books, o), books)
         /\ ~Somewhere(BooksWithout(books, o), o.order_id)
<1> DEFINE c == BooksWithout(books, o)
<1>1. /\ o.symbol \in Symbols /\ o.buysell \in Sides /\ o.order_id \in Ids
      /\ \A s \in Symbols, side \in Sides :
            /\ books[s][side] \in Seq(Order)
            /\ c[s][side] = IF s = o.symbol /\ side = o.buysell
                            THEN RemoveOrder(books[s][side], o.order_id)
                            ELSE books[s][side]
  BY EditedSides
<1> HIDE DEF c
<1>2. ASSUME NEW s \in Symbols, NEW side \in Sides
      PROVE  /\ \A id : Holds(c[s][side], id) => Holds(books[s][side], id)
             /\ Once(books[s][side]) => Once(c[s][side])
             /\ ~Holds(c[s][side], o.order_id)
  <2>1. Once(books[s][side])
    BY DEF Spread
  <2>2. /\ \A id : Holds(RemoveOrder(books[s][side], o.order_id), id) =>
                     Holds(books[s][side], id)
        /\ Once(RemoveOrder(books[s][side], o.order_id))
        /\ ~Holds(RemoveOrder(books[s][side], o.order_id), o.order_id)
    BY <1>1, <2>1, RemoveOrderOnce
  <2>3. Holds(books[s][side], o.order_id) => s = o.symbol /\ side = o.buysell
    BY <1>1 DEF Spread
  <2>4. QED
    BY <1>1, <2>1, <2>2, <2>3
<1>3. Fewer(c, books) /\ ~Somewhere(c, o.order_id)
  BY <1>2 DEF Fewer, Somewhere
<1>4. QED
  BY <1>3 DEF c
-----------------------------------------------------------------------------
(* The rows of t1 *)

LEMMA AddRowOnce ==
  ASSUME NEW least \in {0, 1}, NEW d \in ProperDB(least),
         NEW o \in ProperOrders(least), Once(d.t1)
  PROVE  /\ Once(AddRow(d, o).t1)
         /\ \A id : InT1(AddRow(d, o), id) => InT1(d, id) \/ id = o.order_id
<1>1. CASE InT1(d, o.order_id) \/ InT2(d, o.order_id)
  BY <1>1 DEF AddRow
<1>2. CASE ~(InT1(d, o.order_id) \/ InT2(d, o.order_id))
  <2> DEFINE t == AddRow(d, o).t1
  <2>1. t = Append(d.t1, o) /\ d.t1 \in Seq(ProperOrders(least))
    BY <1>2 DEF AddRow, ProperDB
  <2>2. /\ Len(t) = Len(d.t1) + 1 /\ Len(d.t1) \in Nat /\ t[Len(d.t1) + 1] = o
        /\ \A i \in 1 .. Len(d.t1) : t[i] = d.t1[i]
    BY <2>1, AppendProperties, LenProperties
  <2>3. \A i \in 1 .. Len(d.t1) : d.t1[i].order_id # o.order_id
    BY <1>2 DEF InT1, Holds
  <2> HIDE DEF t
  <2>4. \A i \in 1 .. Len(t) : i \in 1 .. Len(d.t1) \/ i = Len(d.t1) + 1
    BY <2>2
  <2>5. \A id : Holds(t, id) => Holds(d.t1, id) \/ id = o.order_id
    BY <2>2, <2>4 DEF Holds
  <2>6. ASSUME NEW i \in 1 .. Len(t), NEW j \in 1 .. Len(t),
               t[i].order_id = t[j].order_id
        PROVE  i = j
    BY <2>2, <2>3, <2>4, <2>6 DEF Once
  <2>7. QED
    BY <2>5, <2>6 DEF Once, InT1, t
<1>3. QED
  BY <1>1, <1>2

LEMMA DeleteRowOnce ==
  ASSUME NEW least \in {0, 1}, NEW d \in ProperDB(least), NEW id, Once(d.t1)
  PROVE  /\ Once(DeleteRow(d, id).t1) /\ ~InT1(DeleteRow(d, id), id)
         /\ \A x : InT1(DeleteRow(d, id), x) => InT1(d, x)
<1>1. d \in DB /\ d.t1 \in Seq(ProperOrders(least))
  BY DEF ProperDB
<1>2. DeleteRow(d, id).t1 = RemoveOrder(d.t1, id)
  BY <1>1 DEF DeleteRow, DB
<1>3. QED
  BY <1>1, <1>2, RemoveOrderOnce DEF InT1

\* A match writes rows of the orders that traded only.
LEMMA MatchWritesOnce ==
  ASSUME IInv, Once(db.t1), NEW s \in Symbols, Crosses(mybooks[s]),
         NEW k \in 1 .. 5
  PROVE  /\ Once(MatchWrites(s)[k].t1)
         /\ \A id : InT1(MatchWrites(s)[k], id) =>
              \/ InT1(db, id)
              \/ id \in {ReportOf(s).orderA.order_id, ReportOf(s).orderB.order_id}
<1> DEFINE r  == ReportOf(s)
           d1 == DeleteRow(db, r.orderA.order_id)
           d2 == DeleteRow(d1, r.orderB.order_id)
           d3 == Reinserted(d2, r.orderA)
           d4 == Reinserted(d3, r.orderB)
           a  == r.orderA.order_id
           b  == r.orderB.order_id
<1>1. /\ r.orderA.quantity > 0 => r.orderA \in ProperOrders(Least)
      /\ r.orderB.quantity > 0 => r.orderB \in ProperOrders(Least)
  BY LeastType, ReportTyped DEF IInv, DataInv, DataIn
<1>2. db \in ProperDB(Least)
  BY DEF IInv, DataInv, DataIn
<1>3. /\ d1 \in ProperDB(Least) /\ Once(d1.t1)
      /\ \A x : InT1(d1, x) => InT1(db, x)
  BY <1>2, LeastType, DeleteRowProper, DeleteRowOnce
<1> HIDE DEF d1
<1>4. /\ d2 \in ProperDB(Least) /\ Once(d2.t1)
      /\ \A x : InT1(d2, x) => InT1(d1, x)
  BY <1>3, LeastType, DeleteRowProper, DeleteRowOnce
<1> HIDE DEF d2
<1>5. /\ d3 \in ProperDB(Least) /\ Once(d3.t1)
      /\ \A x : InT1(d3, x) => InT1(d2, x) \/ x = a
  <2> HIDE DEF r
  <2>1. QED
    BY <1>1, <1>4, LeastType, AddRowProper, AddRowOnce DEF Reinserted
<1> HIDE DEF d3
<1>6. /\ Once(d4.t1)
      /\ \A x : InT1(d4, x) => InT1(d3, x) \/ x = b
  <2> HIDE DEF r
  <2>1. QED
    BY <1>1, <1>5, LeastType, AddRowOnce DEF Reinserted
<1> HIDE DEF d4
<1>7. MatchWrites(s) = <<db, d1, d2, d3, d4>>
  BY DEF MatchWrites, r, d1, d2, d3, d4
<1>8. QED
  BY <1>3, <1>4, <1>5, <1>6, <1>7
-----------------------------------------------------------------------------
(* The inductive invariant *)

\* What may come to trade, now or after the next start.
Live(id) == Somewhere(mybooks, id) \/ Holds(todo, id) \/ InT1(db, id)

\* The acknowledgement was sent, or is about to be.
Cancelled(id) ==
  \/ Acked("CANCEL_ACK", id)
  \/ pc = "ack" /\ ack.type = "CANCEL_ACK" /\ ack.order_id = id

\* The orders are one of a kind in the books, the rows to load and t1.
PlacesInv ==
  /\ Spread(mybooks) /\ Once(todo) /\ Once(db.t1)
  /\ \A id \in Ids : Holds(todo, id) => ~Somewhere(mybooks, id)
  /\ \A id \in Ids : Known(id) => myorders[id].order_id = id

\* Where the rows have been loaded, and what a stopped process has.
PhaseInv ==
  /\ pc \in {"wait", "idle", "ack"} \/ writetodatabase = 1 => todo = << >>
  /\ pc = "down" => /\ writetodatabase = 0
                    /\ \A s \in Symbols : mybooks[s] = EmptyBook

\* What was cancelled is nowhere, and a client does not name it again.
FinalInv ==
  /\ \A id \in Ids : Live(id) => Named(id) /\ ~Cancelled(id)
  /\ \A id \in Ids : Cancelled(id) => Named(id)
  /\ pc = "trade" =>
       ~Cancelled(rp.orderA.order_id) /\ ~Cancelled(rp.orderB.order_id)

CancelInv == PlacesInv /\ PhaseInv /\ FinalInv

LEMMA EmptyNowhere ==
  ASSUME NEW books, \A s \in Symbols : books[s] = EmptyBook
  PROVE  Spread(books) /\ \A id : ~Somewhere(books, id)
<1>1. \A s \in Symbols, side \in Sides : books[s][side] = << >>
  BY DEF EmptyBook
<1>2. Len(<< >>) = 0
  OBVIOUS
<1>3. Once(<< >>) /\ \A id : ~Holds(<< >>, id)
  BY <1>2 DEF Once, Holds
<1>4. QED
  BY <1>1, <1>3 DEF Spread, Somewhere

LEMMA NothingOnce == Once(<< >>) /\ \A id : ~Holds(<< >>, id)
<1>1. Len(<< >>) = 0
  OBVIOUS
<1>2. QED
  BY <1>1 DEF Once, Holds

LEMMA InitCancel == Init => CancelInv
<1> SUFFICES ASSUME Init PROVE CancelInv
  OBVIOUS
<1>1. /\ \A s \in Symbols : mybooks[s] = EmptyBook
      /\ writetodatabase = 0 /\ todo = << >> /\ db.t1 = << >> /\ acks = << >>
      /\ ack = None /\ pc = "load"
      /\ \A id \in Ids : ~Known(id)
  BY DEF Init, ViewInit, EmptyDB, Known
<1>2. Spread(mybooks) /\ \A id : ~Somewhere(mybooks, id)
  BY <1>1, EmptyNowhere
<1>3. \A id \in Ids : ~Live(id)
  BY <1>1, <1>2, NothingOnce DEF Live, InT1
<1>4. \A id \in Ids : ~Cancelled(id)
  BY <1>1 DEF Cancelled, Acked
<1>5. QED
  BY <1>1, <1>2, <1>3, <1>4, NothingOnce DEF CancelInv, PlacesInv, PhaseInv, FinalInv
-----------------------------------------------------------------------------
(* Steps after which nothing is alive that was not *)

\* The logs and the pending acknowledgement say the same of cancelled orders.
Calm ==
  /\ \A id : Cancelled(id)' => Cancelled(id)
  /\ \A id \in Ids : Named(id) => Named(id)'

LEMMA NamedStays ==
  ASSUME IInv, requests' = requests \/ \E r : requests' = Append(requests, r)
  PROVE  \A id \in Ids : Named(id) => Named(id)'
<1>1. CASE requests' = requests
  BY <1>1 DEF Named
<1>2. ASSUME NEW r, requests' = Append(requests, r)
      PROVE  \A id \in Ids : Named(id) => Named(id)'
  <2>1. requests \in Seq(Request \cup {r})
    BY SeqMonotonic DEF IInv, RestTypeOK
  <2>2. /\ Len(requests') = Len(requests) + 1 /\ Len(requests) \in Nat
        /\ \A i \in 1 .. Len(requests) : requests'[i] = requests[i]
    BY <1>2, <2>1, AppendProperties, LenProperties
  <2>3. \A i \in 1 .. Len(requests) : i \in 1 .. Len(requests')
    BY <2>2
  <2>4. QED
    BY <2>2, <2>3 DEF Named
<1>3. QED
  BY <1>1, <1>2

LEMMA CalmStep ==
  ASSUME IInv, acks' = acks,
         pc' # "ack" \/ ack'.type # "CANCEL_ACK",
         requests' = requests \/ \E r : requests' = Append(requests, r)
  PROVE  Calm
<1>1. \A id : Cancelled(id)' => Cancelled(id)
  BY DEF Cancelled, Acked
<1>2. QED
  BY <1>1, NamedStays DEF Calm

\* Such a step keeps FinalInv when no trade begins with it.
LEMMA CalmFinal ==
  ASSUME CancelInv, Calm, \A id \in Ids : Live(id)' => Live(id),
         pc' = "trade" => FALSE
  PROVE  FinalInv'
  BY DEF CancelInv, FinalInv, Calm

\* The process ends: what remains is in the database.
LEMMA ExitCancel ==
  ASSUME IInv, CancelInv, Exit, acks' = acks,
         requests' = requests \/ \E r : requests' = Append(requests, r),
         Once(db'.t1), \A id \in Ids : InT1(db', id) => Live(id)
  PROVE  CancelInv'
<1>1. /\ \A s \in Symbols : mybooks'[s] = EmptyBook
      /\ todo' = << >> /\ pc' = "down" /\ ack' = None /\ writetodatabase' = 0
      /\ \A id \in Ids : ~Known(id)'
  BY DEF Exit, Known
<1>2. Spread(mybooks') /\ \A id : ~Somewhere(mybooks', id)
  BY <1>1, EmptyNowhere
<1>3. Calm
  BY <1>1, CalmStep
<1>4. \A id \in Ids : Live(id)' => Live(id)
  BY <1>1, <1>2, NothingOnce DEF Live, InT1
<1>5. PlacesInv' /\ PhaseInv'
  BY <1>1, <1>2, NothingOnce DEF PlacesInv, PhaseInv
<1>6. QED
  BY <1>1, <1>3, <1>4, <1>5, CalmFinal DEF CancelInv

\* A step that leaves books, orders, rows and tables alone, or only moves on.
LEMMA StillCancel ==
  ASSUME CancelInv, Calm, mybooks' = mybooks, myorders' = myorders,
         todo' = todo, db' = db, PhaseInv', pc' # "trade"
  PROVE  CancelInv'
<1>1. \A id \in Ids : Live(id)' => Live(id)
  BY DEF Live, Somewhere
<1>2. PlacesInv'
  BY DEF CancelInv, PlacesInv, Spread, Somewhere, Known
<1>3. QED
  BY <1>1, <1>2, CalmFinal DEF CancelInv

\* The two orders of a match rest when it begins.
LEMMA TradersRest ==
  ASSUME IInv, NEW s \in Symbols, Crosses(mybooks[s])
  PROVE  /\ Somewhere(mybooks, ReportOf(s).orderA.order_id)
         /\ Somewhere(mybooks, ReportOf(s).orderB.order_id)
         /\ ReportOf(s).orderA.order_id \in Ids
         /\ ReportOf(s).orderB.order_id \in Ids
<1> DEFINE b == mybooks[s]
<1>1. b \in Books(Least) /\ Least \in {0, 1}
  BY LeastType DEF IInv, DataInv, DataIn
<1>2. /\ HeadBuy(b) = b["BUY"][1] /\ HeadSell(b) = b["SELL"][1]
      /\ 1 \in 1 .. Len(b["BUY"]) /\ 1 \in 1 .. Len(b["SELL"])
      /\ HeadBuy(b) \in SideOrders("BUY", Least)
      /\ HeadSell(b) \in SideOrders("SELL", Least)
      /\ TradeQuantity(b) \in 0 .. HeadBuy(b).quantity
      /\ TradeQuantity(b) \in 0 .. HeadSell(b).quantity
  BY <1>1, Heads
<1>3. /\ ReportOf(s).orderA.order_id = HeadSell(b).order_id
      /\ ReportOf(s).orderB.order_id = HeadBuy(b).order_id
  BY <1>1, <1>2, RestProper DEF ReportOf, Sides
<1>4. Holds(b["SELL"], HeadSell(b).order_id) /\ Holds(b["BUY"], HeadBuy(b).order_id)
  BY <1>2 DEF Holds
<1>5. HeadSell(b).order_id \in Ids /\ HeadBuy(b).order_id \in Ids
  BY <1>2 DEF SideOrders, ProperOrders, Order
<1>6. QED
  BY <1>3, <1>4, <1>5 DEF Somewhere, Sides

\* UpdateOrders enters each order under its own id.
LEMMA OrdersNamed ==
  ASSUME IInv, CancelInv, sym \in Symbols, MatchTrades \/ MatchEnds
  PROVE  \A id \in Ids : Known(id)' => myorders'[id].order_id = id
<1>1. \A id \in Ids : Known(id) => myorders[id].order_id = id
  BY DEF CancelInv, PlacesInv
<1>2. CASE MatchEnds
  BY <1>1, <1>2 DEF MatchEnds, Known
<1>3. CASE MatchTrades
  <2> DEFINE r == ReportOf(sym)
             erased == [myorders EXCEPT ![r.orderA.order_id] = None,
                                        ![r.orderB.order_id] = None]
             first == Kept(erased, r.orderA)
  <2>1. myorders' = Kept(first, r.orderB) /\ DOMAIN myorders = Ids
    BY <1>3 DEF MatchTrades, UpdateOrders, IInv, DataInv, DataIn
  <2> HIDE DEF r
  <2>2. /\ DOMAIN erased = Ids
        /\ \A id \in Ids : erased[id] # None => erased[id].order_id = id
    BY <1>1, <2>1 DEF Known
  <2> HIDE DEF erased
  <2>3. /\ DOMAIN first = Ids
        /\ \A id \in Ids : first[id] # None => first[id].order_id = id
    BY <2>2 DEF Kept
  <2> HIDE DEF first
  <2>4. \A id \in Ids : myorders'[id] # None => myorders'[id].order_id = id
    BY <2>1, <2>3 DEF Kept
  <2>5. QED
    BY <2>4 DEF Known
<1>4. QED
  BY <1>2, <1>3

\* A row that is loaded is not read again.
LEMMA NothingLeft == ASSUME PhaseInv, todo # << >> PROVE writetodatabase # 1
  BY DEF PhaseInv
-----------------------------------------------------------------------------
(* The steps *)

LEMMA StopSteps ==
  ASSUME IInv, CancelInv, Stop \/ StopInMatch \/ DieDrained
  PROVE  CancelInv'
<1>1. Exit /\ acks' = acks /\ requests' = requests
  BY DEF Stop, StopInMatch, DieDrained, logVars
<1>2. Once(db.t1) /\ \A id \in Ids : InT1(db, id) => Live(id)
  BY DEF CancelInv, PlacesInv, Live
<1>3. CASE Stop \/ DieDrained
  <2>1. db' = db
    BY <1>3 DEF Stop, DieDrained
  <2>2. QED
    BY <1>1, <1>2, <2>1, ExitCancel
<1>4. CASE StopInMatch
  <2>1. sym \in Symbols /\ Crosses(mybooks[sym])
    BY <1>4 DEF StopInMatch, IInv, ControlInv
  <2>2. PICK k \in 2 .. 5 : db' = MatchWrites(sym)[k]
    BY <1>4 DEF StopInMatch
  <2>3. /\ Once(db'.t1)
        /\ \A id \in Ids : InT1(db', id) =>
             \/ InT1(db, id)
             \/ id \in {ReportOf(sym).orderA.order_id, ReportOf(sym).orderB.order_id}
    BY <1>2, <2>1, <2>2, MatchWritesOnce
  <2>4. /\ Somewhere(mybooks, ReportOf(sym).orderA.order_id)
        /\ Somewhere(mybooks, ReportOf(sym).orderB.order_id)
    BY <2>1, TradersRest
  <2>5. \A id \in Ids : InT1(db', id) => Live(id)
    BY <2>3, <2>4 DEF Live
  <2>6. QED
    BY <1>1, <2>3, <2>5, ExitCancel
<1>5. QED
  BY <1>3, <1>4

LEMMA LoadRowStep ==
  ASSUME IInv, CancelInv, LoadRow
  PROVE  CancelInv'
<1> DEFINE o == Head(todo)
<1>1. /\ pc = "load" /\ todo # << >> /\ Accept(o) /\ todo' = Tail(todo)
      /\ pc' = "match" /\ UNCHANGED <<ack, writetodatabase, db>>
      /\ UNCHANGED <<acks, requests>>
  BY DEF LoadRow, logVars
<1>2. /\ todo \in Seq(ProperOrders(Least))
      /\ mybooks \in [Symbols -> Books(Least)]
      /\ myorders \in [Ids -> ProperOrders(Least) \cup {None}]
  BY DEF IInv, DataInv, DataIn
<1>3. /\ todo' \in Seq(ProperOrders(Least)) /\ o \in ProperOrders(Least)
      /\ Holds(todo, o.order_id)
      /\ \A id : Holds(todo', id) => Holds(todo, id)
      /\ Once(todo') /\ ~Holds(todo', o.order_id)
  BY <1>1, <1>2, TailOnce DEF CancelInv, PlacesInv
<1>4. o.order_id \in Ids
  BY <1>3 DEF ProperOrders, Order
<1> HIDE DEF o
<1>5. /\ mybooks' = BooksWith(mybooks, o)
      /\ myorders' \in {myorders, [myorders EXCEPT ![o.order_id] = o]}
  BY <1>1 DEF Accept
<1>6. Spread(mybooks) /\ ~Somewhere(mybooks, o.order_id)
  BY <1>3, <1>4 DEF CancelInv, PlacesInv
<1>7. /\ Spread(mybooks')
      /\ \A id : Somewhere(mybooks', id) => Somewhere(mybooks, id) \/ id = o.order_id
  BY <1>2, <1>3, <1>5, <1>6, LeastType, WithOnce
<1>8. \A id \in Ids : Known(id)' => myorders'[id].order_id = id
  BY <1>2, <1>5 DEF CancelInv, PlacesInv, Known
<1>9. \A id \in Ids : Live(id)' => Live(id)
  BY <1>1, <1>3, <1>7 DEF Live, InT1
<1>10. Calm
  BY <1>1, CalmStep
<1>11. PlacesInv'
  BY <1>1, <1>3, <1>7, <1>8 DEF CancelInv, PlacesInv
<1>12. PhaseInv'
  BY <1>1, NothingLeft DEF CancelInv, PhaseInv
<1>13. QED
  BY <1>1, <1>9, <1>10, <1>11, <1>12, CalmFinal DEF CancelInv

LEMMA MatchStep ==
  ASSUME IInv, CancelInv, MatchTrades \/ MatchEnds
  PROVE  CancelInv'
<1>1. /\ sym \in Symbols /\ pc = "match" /\ Match(sym) /\ WriteMatch
      /\ UNCHANGED <<ack, todo, writetodatabase>> /\ UNCHANGED <<acks, requests>>
      /\ pc' \in {"trade", "idle", "load"}
      /\ pc' = "idle" => writetodatabase = 1
      /\ pc' = "trade" => Trades(sym) /\ rp' = ReportOf(sym)
  BY DEF MatchTrades, MatchEnds, IInv, ControlInv, logVars
<1>2. /\ mybooks \in [Symbols -> Books(Least)]
      /\ myorders \in [Ids -> ProperOrders(Least) \cup {None}]
  BY DEF IInv, DataInv, DataIn
<1>3. Fewer(mybooks', mybooks)
  BY <1>1, <1>2, LeastType, MatchFewer DEF Match
<1>4. Spread(mybooks') /\ \A id : Somewhere(mybooks', id) => Somewhere(mybooks, id)
  BY <1>3, FewerSpread DEF CancelInv, PlacesInv
<1>5. /\ Once(db'.t1)
      /\ \A id : InT1(db', id) => InT1(db, id) \/ Somewhere(mybooks, id)
  <2>1. Once(db.t1)
    BY DEF CancelInv, PlacesInv
  <2>2. CASE db' = db
    BY <2>1, <2>2
  <2>3. CASE db' = MatchWrites(sym)[5] /\ Crosses(mybooks[sym])
    BY <1>1, <2>1, <2>3, MatchWritesOnce, TradersRest
  <2>4. QED
    BY <1>1, <2>2, <2>3 DEF WriteMatch
<1>6. \A id \in Ids : Live(id)' => Live(id)
  BY <1>1, <1>4, <1>5 DEF Live
<1>7. Calm
  BY <1>1, CalmStep
<1>8. \A id \in Ids : Known(id)' => myorders'[id].order_id = id
  BY <1>1, <1>2, OrdersNamed
<1>9. PlacesInv'
  BY <1>1, <1>4, <1>5, <1>8 DEF CancelInv, PlacesInv
<1>10. PhaseInv'
  BY <1>1 DEF CancelInv, PhaseInv
<1>11. ASSUME pc' = "trade"
       PROVE  ~Cancelled(rp.orderA.order_id)' /\ ~Cancelled(rp.orderB.order_id)'
  <2>1. /\ Somewhere(mybooks, rp'.orderA.order_id) /\ rp'.orderA.order_id \in Ids
        /\ Somewhere(mybooks, rp'.orderB.order_id) /\ rp'.orderB.order_id \in Ids
    BY <1>1, <1>11, TradersRest DEF Trades
  <2>2. ~Cancelled(rp'.orderA.order_id) /\ ~Cancelled(rp'.orderB.order_id)
    BY <2>1 DEF CancelInv, FinalInv, Live
  <2>3. QED
    BY <1>1, <2>2 DEF Cancelled, Acked
<1>12. FinalInv'
  BY <1>6, <1>7, <1>11 DEF CancelInv, FinalInv, Calm
<1>13. QED
  BY <1>9, <1>10, <1>12 DEF CancelInv

LEMMA RestartStep ==
  ASSUME IInv, CancelInv, Restart
  PROVE  CancelInv'
<1>1. /\ pc = "down" /\ pc' = "load" /\ todo' = db.t1
      /\ UNCHANGED <<mybooks, myorders, db, writetodatabase, ack, acks, requests>>
  BY DEF Restart, viewVars
<1>2. \A s \in Symbols : mybooks[s] = EmptyBook
  BY <1>1 DEF CancelInv, PhaseInv
<1>3. \A id : ~Somewhere(mybooks', id)
  BY <1>1, <1>2, EmptyNowhere
<1>4. \A id \in Ids : Live(id)' => Live(id)
  BY <1>1, <1>3 DEF Live, InT1
<1>5. PlacesInv'
  BY <1>1, <1>3 DEF CancelInv, PlacesInv, Spread, Known
<1>6. PhaseInv'
  BY <1>1 DEF CancelInv, PhaseInv
<1>7. Calm
  BY <1>1, CalmStep
<1>8. QED
  BY <1>1, <1>4, <1>5, <1>6, <1>7, CalmFinal DEF CancelInv

LEMMA AckStep ==
  ASSUME IInv, CancelInv, CommunicateAck
  PROVE  CancelInv'
<1>1. /\ pc = "ack" /\ acks' = Append(acks, ack) /\ ack' = None
      /\ pc' \in {"idle", "match"}
      /\ UNCHANGED <<mybooks, myorders, todo, writetodatabase, db, requests>>
  BY DEF CommunicateAck, viewVars
<1>2. ack \in Ack /\ acks \in Seq(Ack)
  BY <1>1 DEF IInv, ControlInv, RestTypeOK
<1>3. /\ Len(acks') = Len(acks) + 1 /\ Len(acks) \in Nat
      /\ acks'[Len(acks) + 1] = ack
      /\ \A i \in 1 .. Len(acks) : acks'[i] = acks[i]
  BY <1>1, <1>2, AppendProperties, LenProperties
<1>4. ASSUME NEW id, Cancelled(id)' PROVE Cancelled(id)
  <2>1. Acked("CANCEL_ACK", id)'
    BY <1>1, <1>4 DEF Cancelled
  <2>2. PICK i \in 1 .. Len(acks') :
           acks'[i].type = "CANCEL_ACK" /\ acks'[i].order_id = id
    BY <2>1 DEF Acked
  <2>3. CASE i = Len(acks) + 1
    BY <1>1, <1>3, <2>2, <2>3 DEF Cancelled
  <2>4. CASE i \in 1 .. Len(acks)
    BY <1>3, <2>2, <2>4 DEF Cancelled, Acked
  <2>5. QED
    BY <1>3, <2>2, <2>3, <2>4
<1>5. Calm
  BY <1>1, <1>4, NamedStays DEF Calm
<1>6. PhaseInv'
  BY <1>1 DEF CancelInv, PhaseInv
<1>7. QED
  BY <1>1, <1>5, <1>6, StillCancel

LEMMA QuietSteps ==
  ASSUME IInv, CancelInv,
         \/ LoadDone \/ Ready \/ CommunicateTrade \/ CommunicateReportingMsg
         \/ UNCHANGED vars
  PROVE  CancelInv'
<1>1. CASE UNCHANGED vars
  <2>1. UNCHANGED <<mybooks, myorders, todo, writetodatabase, db, requests, acks,
                    ack, pc, rp>>
    BY <1>1 DEF vars, memVars, viewVars, logVars
  <2>2. PlacesInv' /\ PhaseInv'
    BY <2>1 DEF CancelInv, PlacesInv, PhaseInv, Spread, Somewhere, Known
  <2>3. FinalInv'
    BY <2>1 DEF CancelInv, FinalInv, Live, Somewhere, Named, Cancelled, Acked
  <2>4. QED
    BY <2>2, <2>3 DEF CancelInv
<1>2. CASE LoadDone \/ Ready \/ CommunicateTrade \/ CommunicateReportingMsg
  <2>1. /\ UNCHANGED <<mybooks, myorders, todo, db, requests, acks, ack>>
        /\ pc' \notin {"trade", "down", "ack"}
    BY <1>2 DEF LoadDone, Ready, CommunicateTrade, CommunicateReportingMsg,
                viewVars, logVars
  <2>2. Calm
    BY <2>1, CalmStep
  <2>3. PhaseInv'
    BY <1>2 DEF CancelInv, PhaseInv, LoadDone, Ready, CommunicateTrade,
                CommunicateReportingMsg
  <2>4. QED
    BY <2>1, <2>2, <2>3, StillCancel
<1>3. QED
  BY <1>1, <1>2

\* A request that changes nothing but what is acknowledged.
LEMMA RefusedStep ==
  ASSUME IInv, CancelInv, NEW r, NEW s, NEW type, NEW id, NEW quantity,
         Receive(r, s, type, id, quantity), type # "CANCEL_ACK",
         UNCHANGED <<viewVars, db>>
  PROVE  CancelInv'
<1>1. /\ pc = "idle" /\ pc' = "ack" /\ ack'.type # "CANCEL_ACK"
      /\ requests' = Append(requests, r)
      /\ UNCHANGED <<mybooks, myorders, todo, writetodatabase, db, acks>>
  BY DEF Receive, viewVars
<1>2. Calm
  BY <1>1, CalmStep
<1>3. PhaseInv'
  BY <1>1 DEF CancelInv, PhaseInv
<1>4. QED
  BY <1>1, <1>2, <1>3, StillCancel

LEMMA NewStep ==
  ASSUME UniqueIds, IInv, CancelInv, ProcessNew
  PROVE  CancelInv'
<1>1. PICK o \in NewOrders :
         ~Named(o.order_id) /\ (AcceptOrder(o) \/ RejectOrder(o))
  BY DEF ProcessNew
<1>2. CASE RejectOrder(o)
  BY <1>2, RefusedStep DEF RejectOrder
<1>3. CASE AcceptOrder(o)
  <2> DEFINE r == [type |-> "NEW", order |-> o, filled |-> TRUE]
  <2>1. /\ pc = "idle" /\ pc' = "ack" /\ ack'.type # "CANCEL_ACK"
        /\ requests' = Append(requests, r)
        /\ UNCHANGED <<todo, writetodatabase, acks>>
        /\ Accept(o) /\ db' = AddRow(db, o)
    BY <1>3 DEF AcceptOrder, Receive
  <2>2. /\ o \in ProperOrders(Least) /\ o.order_id \in Ids
        /\ db \in ProperDB(Least) /\ mybooks \in [Symbols -> Books(Least)]
        /\ DOMAIN myorders = Ids
    BY NewOrdersProper DEF ProperOrders, Order, IInv, DataInv, DataIn
  <2>3. Calm
    BY <2>1, CalmStep
  <2>4. Named(o.order_id)'
    <3>1. requests \in Seq(Request \cup {r})
      BY SeqMonotonic DEF IInv, RestTypeOK
    <3>2. /\ Len(requests') = Len(requests) + 1 /\ Len(requests) \in Nat
          /\ requests'[Len(requests) + 1] = r
      BY <2>1, <3>1, AppendProperties, LenProperties
    <3>3. Len(requests) + 1 \in 1 .. Len(requests')
      BY <3>2
    <3>4. QED
      BY <3>2, <3>3 DEF Named
  <2>5. ~Live(o.order_id) /\ ~Cancelled(o.order_id)
    BY <1>1, <2>2 DEF CancelInv, FinalInv
  <2>6. /\ Spread(mybooks')
        /\ \A id : Somewhere(mybooks', id) => Somewhere(mybooks, id) \/ id = o.order_id
    BY <2>1, <2>2, <2>5, LeastType, WithOnce DEF CancelInv, PlacesInv, Live, Accept
  <2>7. /\ Once(db'.t1)
        /\ \A id : InT1(db', id) => InT1(db, id) \/ id = o.order_id
    BY <2>1, <2>2, LeastType, AddRowOnce DEF CancelInv, PlacesInv
  <2>8. todo = << >>
    BY <2>1 DEF CancelInv, PhaseInv
  <2>9. \A id \in Ids : Known(id)' => myorders'[id].order_id = id
    BY <2>1, <2>2 DEF CancelInv, PlacesInv, Known, Accept
  <2>10. PlacesInv'
    BY <2>1, <2>6, <2>7, <2>8, <2>9, NothingOnce DEF PlacesInv
  <2>11. PhaseInv'
    BY <2>1, <2>8 DEF PhaseInv
  <2>12. \A id \in Ids : Live(id)' => Live(id) \/ id = o.order_id
    BY <2>1, <2>6, <2>7 DEF Live
  <2>13. FinalInv'
    BY <2>1, <2>3, <2>4, <2>5, <2>12 DEF CancelInv, FinalInv, Calm
  <2>14. QED
    BY <2>10, <2>11, <2>13 DEF CancelInv
<1>4. QED
  BY <1>1, <1>2, <1>3

\* An order that rests is in the book of its symbol under its own id.
LEMMA RestingOrder ==
  ASSUME IInv, CancelInv, NEW id \in Ids, Resting(id)
  PROVE  /\ myorders[id] \in ProperOrders(Least) /\ myorders[id].order_id = id
         /\ Holds(mybooks[myorders[id].symbol][myorders[id].buysell], id)
         /\ Live(id)
         /\ BooksWithout(mybooks, myorders[id]) \in [Symbols -> Books(Least)]
         /\ Spread(BooksWithout(mybooks, myorders[id]))
         /\ ~Somewhere(BooksWithout(mybooks, myorders[id]), id)
         /\ \A x : Somewhere(BooksWithout(mybooks, myorders[id]), x) =>
                     Somewhere(mybooks, x)
<1> DEFINE o == myorders[id]
<1>1. Known(id) /\ Holds(mybooks[o.symbol][o.buysell], id)
  BY DEF Resting
<1>2. o \in ProperOrders(Least) /\ o.order_id = id
  BY <1>1, KnownOrder DEF CancelInv, PlacesInv
<1>3. o.symbol \in Symbols /\ o.buysell \in Sides
  BY <1>2 DEF ProperOrders, Order
<1>4. Live(id)
  BY <1>1, <1>3 DEF Live, Somewhere
<1>5. mybooks \in [Symbols -> Books(Least)] /\ Spread(mybooks)
  BY DEF IInv, DataInv, DataIn, CancelInv, PlacesInv
<1> HIDE DEF o
<1>6. /\ Fewer(BooksWithout(mybooks, o), mybooks)
      /\ ~Somewhere(BooksWithout(mybooks, o), id)
  BY <1>1, <1>2, <1>5, LeastType, WithoutOnce
<1>7. BooksWithout(mybooks, o) \in [Symbols -> Books(Least)]
  BY <1>2, <1>5, LeastType, BooksWithoutOrder
<1>8. /\ Spread(BooksWithout(mybooks, o))
      /\ \A x : Somewhere(BooksWithout(mybooks, o), x) => Somewhere(mybooks, x)
  BY <1>5, <1>6, FewerSpread
<1>9. QED
  BY <1>1, <1>2, <1>4, <1>6, <1>7, <1>8 DEF o

LEMMA ModifyOrderStep ==
  ASSUME IInv, CancelInv, NEW id \in Ids, NEW price \in Prices, NEW quantity,
         ModifyOrder(id, price, quantity)
  PROVE  CancelInv'
<1>1. /\ pc = "idle" /\ pc' = "ack" /\ ack'.type # "CANCEL_ACK" /\ Resting(id)
      /\ \E r : requests' = Append(requests, r)
      /\ UNCHANGED <<todo, writetodatabase, acks>>
  BY DEF ModifyOrder, Receive
<1>2. PICK q \in JunkQuantities :
         /\ Replace(id, price, q)
         /\ db' = AddRow(DeleteRow(db, id), Modified(id, price, q))
  BY DEF ModifyOrder
<1> DEFINE o == Modified(id, price, q)
           w == BooksWithout(mybooks, myorders[id])
<1>3. /\ myorders[id] \in ProperOrders(Least) /\ myorders[id].order_id = id
      /\ Live(id) /\ w \in [Symbols -> Books(Least)] /\ Spread(w)
      /\ ~Somewhere(w, id)
      /\ \A x : Somewhere(w, x) => Somewhere(mybooks, x)
  BY <1>1, RestingOrder
<1>4. o \in ProperOrders(Least) /\ o.order_id = id
  BY <1>3, LeastType, ModifiedProper
<1>5. mybooks' = BooksWith(w, o) /\ myorders' = [myorders EXCEPT ![id] = o]
  BY <1>2 DEF Replace
<1> HIDE DEF o, w
<1>6. /\ Spread(mybooks')
      /\ \A x : Somewhere(mybooks', x) => Somewhere(mybooks, x) \/ x = id
  BY <1>3, <1>4, <1>5, LeastType, WithOnce
<1>7. /\ db \in ProperDB(Least) /\ Once(db.t1) /\ DOMAIN myorders = Ids
  BY DEF IInv, DataInv, DataIn, CancelInv, PlacesInv
<1>8. /\ DeleteRow(db, id) \in ProperDB(Least) /\ Once(DeleteRow(db, id).t1)
      /\ \A x : InT1(DeleteRow(db, id), x) => InT1(db, x)
  BY <1>7, LeastType, DeleteRowProper, DeleteRowOnce
<1>9. /\ Once(db'.t1)
      /\ \A x : InT1(db', x) => InT1(db, x) \/ x = id
  BY <1>2, <1>4, <1>8, LeastType, AddRowOnce DEF o
<1>10. todo = << >>
  BY <1>1 DEF CancelInv, PhaseInv
<1>11. \A x \in Ids : Known(x)' => myorders'[x].order_id = x
  BY <1>4, <1>5, <1>7 DEF CancelInv, PlacesInv, Known
<1>12. PlacesInv' /\ PhaseInv'
  BY <1>1, <1>6, <1>9, <1>10, <1>11, NothingOnce DEF PlacesInv, PhaseInv
<1>13. \A x \in Ids : Live(x)' => Live(x)
  BY <1>1, <1>3, <1>6, <1>9 DEF Live
<1>14. Calm
  BY <1>1, CalmStep
<1>15. QED
  BY <1>1, <1>12, <1>13, <1>14, CalmFinal DEF CancelInv

LEMMA ModifyStep ==
  ASSUME IInv, CancelInv, ProcessModify
  PROVE  CancelInv'
<1>1. PICK id \in Ids, price \in Prices, quantity \in Quantities :
         \/ ModifyUnknown(id, price, quantity)
         \/ ModifyGone(id, price, quantity)
         \/ ModifyOrder(id, price, quantity)
         \/ DieInModify(id, price, quantity)
  BY DEF ProcessModify
<1>2. CASE ModifyUnknown(id, price, quantity)
  BY <1>2, RefusedStep DEF ModifyUnknown
<1>3. CASE ModifyGone(id, price, quantity)
  BY <1>3, RefusedStep DEF ModifyGone
<1>4. CASE DieInModify(id, price, quantity)
  <2>1. /\ Exit /\ acks' = acks /\ db' = DeleteRow(db, id)
        /\ \E r : requests' = Append(requests, r)
    BY <1>4 DEF DieInModify
  <2>2. db \in ProperDB(Least) /\ Once(db.t1)
    BY DEF IInv, DataInv, DataIn, CancelInv, PlacesInv
  <2>3. Once(db'.t1) /\ \A x : InT1(db', x) => InT1(db, x)
    BY <2>1, <2>2, LeastType, DeleteRowOnce
  <2>4. QED
    BY <2>1, <2>3, ExitCancel DEF Live
<1>5. QED
  BY <1>1, <1>2, <1>3, <1>4, ModifyOrderStep

LEMMA CancelOrderStep ==
  ASSUME IInv, CancelInv, NEW id \in Ids, CancelOrder(id)
  PROVE  CancelInv'
<1> DEFINE w == BooksWithout(mybooks, myorders[id])
<1>1. /\ pc = "idle" /\ pc' = "ack" /\ Resting(id)
      /\ ack'.type = "CANCEL_ACK" /\ ack'.order_id = id
      /\ \E r : requests' = Append(requests, r)
      /\ UNCHANGED <<todo, writetodatabase, acks>>
      /\ mybooks' = w /\ myorders' = [myorders EXCEPT ![id] = None]
      /\ db' = DeleteRow(db, id)
  BY DEF CancelOrder, Receive, Withdraw
<1>2. /\ Live(id) /\ Spread(w) /\ ~Somewhere(w, id)
      /\ \A x : Somewhere(w, x) => Somewhere(mybooks, x)
  BY <1>1, RestingOrder
<1> HIDE DEF w
<1>3. /\ db \in ProperDB(Least) /\ Once(db.t1) /\ DOMAIN myorders = Ids
  BY DEF IInv, DataInv, DataIn, CancelInv, PlacesInv
<1>4. /\ Once(db'.t1) /\ ~InT1(db', id)
      /\ \A x : InT1(db', x) => InT1(db, x)
  BY <1>1, <1>3, LeastType, DeleteRowOnce
<1>5. todo = << >>
  BY <1>1 DEF CancelInv, PhaseInv
<1>6. \A x \in Ids : Known(x)' => myorders'[x].order_id = x
  BY <1>1, <1>3 DEF CancelInv, PlacesInv, Known
<1>7. PlacesInv' /\ PhaseInv'
  BY <1>1, <1>2, <1>4, <1>5, <1>6, NothingOnce DEF PlacesInv, PhaseInv
<1>8. /\ ~Live(id)'
      /\ \A x \in Ids : Live(x)' => Live(x)
  BY <1>1, <1>2, <1>4, <1>5, NothingOnce DEF Live
<1>9. \A x : Cancelled(x)' => Cancelled(x) \/ x = id
  BY <1>1 DEF Cancelled, Acked
<1>10. \A x \in Ids : Named(x) => Named(x)'
  BY <1>1, NamedStays
<1>11. FinalInv'
  BY <1>1, <1>2, <1>8, <1>9, <1>10 DEF CancelInv, FinalInv
<1>12. QED
  BY <1>7, <1>11 DEF CancelInv

LEMMA CancelStep ==
  ASSUME IInv, CancelInv, ProcessCancel
  PROVE  CancelInv'
<1>1. PICK id \in Ids : CancelUnknown(id) \/ CancelOrder(id)
  BY DEF ProcessCancel
<1>2. CASE CancelUnknown(id)
  BY <1>2, RefusedStep DEF CancelUnknown
<1>3. QED
  BY <1>1, <1>2, CancelOrderStep

LEMMA NextCancel ==
  ASSUME UniqueIds, IInv, CancelInv, [Next]_vars
  PROVE  CancelInv'
  BY StopSteps, LoadRowStep, MatchStep, RestartStep, AckStep, QuietSteps,
     NewStep, ModifyStep, CancelStep
  DEF Next, Progress

\* Only a trade is communicated to the trade publisher.
LEMMA OnlyTradesTrade ==
  ASSUME [Next]_vars, trades' # trades
  PROVE  CommunicateTrade
<1>1. CASE ProcessNew \/ ProcessModify \/ ProcessCancel
  <2>1. ASSUME NEW r, NEW s, NEW type, NEW id, NEW quantity,
               Receive(r, s, type, id, quantity)
        PROVE  trades' = trades
    BY <2>1 DEF Receive
  <2>2. CASE ProcessNew
    BY <2>1, <2>2 DEF ProcessNew, AcceptOrder, RejectOrder
  <2>3. CASE ProcessModify
    BY <2>1, <2>3 DEF ProcessModify, ModifyUnknown, ModifyGone, ModifyOrder, DieInModify
  <2>4. CASE ProcessCancel
    BY <2>1, <2>4 DEF ProcessCancel, CancelUnknown, CancelOrder
  <2>5. QED
    BY <1>1, <2>2, <2>3, <2>4
<1>2. CASE Ready \/ Stop \/ StopInMatch \/ DieDrained \/ Restart \/ UNCHANGED vars
  BY <1>2 DEF Ready, Stop, StopInMatch, DieDrained, Restart, vars, logVars
<1>3. CASE Progress
  BY <1>3 DEF Progress, LoadRow, LoadDone, CommunicateAck, MatchTrades, MatchEnds,
              CommunicateReportingMsg, logVars
<1>4. QED
  BY <1>1, <1>2, <1>3 DEF Next

\* Process(Cancel) of matcheng.h takes the order out of the book and of t1
\* before it is acknowledged, and it never trades after that: whatever matches,
\* amends, SIGINTs and restarts follow.  (Clients name each order differently.)
THEOREM CancelsAreFinal == UniqueIds => (Spec => CancelIsFinal)
<1> SUFFICES ASSUME UniqueIds PROVE Spec => CancelIsFinal
  OBVIOUS
<1> DEFINE Step ==
      \A id \in Ids :
         Acked("CANCEL_ACK", id) /\ trades' # trades =>
           id \notin {Last(trades').orderA.order_id, Last(trades').orderB.order_id}
<1>1. IInv /\ CancelInv /\ [Next]_vars => CancelInv'
  BY NextCancel
<1>2. ASSUME IInv, CancelInv, [Next]_vars PROVE Step
  <2> SUFFICES ASSUME NEW id \in Ids, Acked("CANCEL_ACK", id), trades' # trades
               PROVE  id \notin {Last(trades').orderA.order_id,
                                 Last(trades').orderB.order_id}
    OBVIOUS
  <2>1. pc = "trade" /\ trades' = Append(trades, rp)
    BY <1>2, OnlyTradesTrade DEF CommunicateTrade
  <2>2. trades \in Seq(Report) /\ rp \in Report
    BY <1>2, <2>1 DEF IInv, ControlInv, RestTypeOK
  <2>3. Last(trades') = rp
    BY <2>1, <2>2, AppendProperties, LenProperties DEF Last
  <2>4. id \notin {rp.orderA.order_id, rp.orderB.order_id}
    BY <1>2, <2>1 DEF CancelInv, FinalInv, Cancelled
  <2>5. QED
    BY <2>3, <2>4
<1>3. Spec => [](IInv /\ CancelInv)
  BY Inductive, InitCancel, <1>1, PTL DEF Spec
<1>4. IInv /\ CancelInv /\ [Next]_vars => [Step]_vars
  BY <1>2
<1>5. Spec => [][Step]_vars
  BY <1>3, <1>4, PTL DEF Spec
<1>6. QED
  BY <1>5 DEF CancelIsFinal
-----------------------------------------------------------------------------
(* The orders on a side, as they stand there *)

Has(s, p) == \E i \in 1 .. Len(s) : s[i] = p

LEMMA HasHolds == ASSUME NEW s, NEW p, Has(s, p) PROVE Holds(s, p.order_id)
  BY DEF Has, Holds

LEMMA HasTyped ==
  ASSUME NEW S, NEW s \in Seq(S), NEW p, Has(s, p)
  PROVE  p \in S
  BY ElementOfSeq DEF Has

LEMMA HasOnce ==
  ASSUME NEW s, Once(s), NEW p, NEW q, Has(s, p), Has(s, q),
         p.order_id = q.order_id
  PROVE  p = q
  BY DEF Once, Has

LEMMA AddOrderHas ==
  ASSUME NEW S, NEW s \in Seq(S), NEW o \in S
  PROVE  \A p : Has(AddOrder(s, o), p) <=> Has(s, p) \/ p = o
<1> DEFINE P == {i \in 1 .. Len(s) : Ahead(s[i], o)}
           k == Place(s, o)
           t == AddOrder(s, o)
<1>1. k \in 1 .. Len(s) + 1
  <2>1. P \in SUBSET (1 .. Len(s)) /\ k = FirstOutside(s, P)
    BY DEF Place
  <2>2. QED
    BY <2>1, FirstOutsideFinds
<1> HIDE DEF k
<1>2. t = InsertAt(s, k, o)
  BY DEF AddOrder, k
<1>3. /\ Len(t) = Len(s) + 1 /\ Len(s) \in Nat
      /\ \A j \in 1 .. Len(s) + 1 :
            t[j] = IF j < k THEN s[j] ELSE IF j = k THEN o ELSE s[j - 1]
  BY <1>1, <1>2, InsertAtElements, LenProperties
<1> HIDE DEF t
<1>4. \A j \in 1 .. Len(t) : \/ j \in 1 .. Len(s) /\ t[j] = s[j]
                             \/ t[j] = o
                             \/ j - 1 \in 1 .. Len(s) /\ t[j] = s[j - 1]
  BY <1>1, <1>3
<1>5. \A j \in 1 .. Len(s) : \/ j \in 1 .. Len(t) /\ t[j] = s[j]
                             \/ j + 1 \in 1 .. Len(t) /\ t[j + 1] = s[j]
  <2> SUFFICES ASSUME NEW j \in 1 .. Len(s)
               PROVE  \/ j \in 1 .. Len(t) /\ t[j] = s[j]
                      \/ j + 1 \in 1 .. Len(t) /\ t[j + 1] = s[j]
    OBVIOUS
  <2>1. CASE j < k
    BY <1>1, <1>3, <2>1
  <2>2. CASE k <= j
    <3>1. j + 1 \in 1 .. Len(s) + 1 /\ ~(j + 1 < k) /\ j + 1 # k /\ (j + 1) - 1 = j
      BY <1>1, <1>3, <2>2
    <3>2. QED
      BY <1>3, <3>1
  <2>3. QED
    BY <1>1, <2>1, <2>2
<1>6. k \in 1 .. Len(t) /\ t[k] = o
  BY <1>1, <1>3
<1>7. \A p : Has(t, p) => Has(s, p) \/ p = o
  BY <1>4 DEF Has
<1>8. \A p : Has(s, p) \/ p = o => Has(t, p)
  BY <1>5, <1>6 DEF Has
<1>9. QED
  BY <1>7, <1>8 DEF t

LEMMA RemoveOrderHas ==
  ASSUME NEW S, NEW s \in Seq(S), NEW id
  PROVE  \A p : /\ Has(RemoveOrder(s, id), p) => Has(s, p)
                /\ Has(s, p) /\ p.order_id # id => Has(RemoveOrder(s, id), p)
<1> DEFINE P == {i \in 1 .. Len(s) : s[i].order_id # id}
           k == PositionOf(s, id)
           t == RemoveOrder(s, id)
<1>1. CASE Holds(s, id)
  <2>1. P \in SUBSET (1 .. Len(s)) /\ k = FirstOutside(s, P)
    BY DEF PositionOf
  <2> HIDE DEF k
  <2>2. /\ k \in 1 .. Len(s) + 1 /\ k \notin P
        /\ \A i \in 1 .. k - 1 : i \in P
    BY <2>1, FirstOutsideFinds
  <2>3. PICK i \in 1 .. Len(s) : s[i].order_id = id
    BY <1>1 DEF Holds
  <2>4. Len(s) \in Nat /\ i \notin 1 .. k - 1
    BY <2>2, <2>3, LenProperties
  <2>5. k \in 1 .. Len(s) /\ s[k].order_id = id
    BY <2>2, <2>3, <2>4
  <2>6. t = RemoveAt(s, k)
    BY <1>1 DEF RemoveOrder, k
  <2>7. /\ Len(t) = Len(s) - 1
        /\ \A j \in 1 .. Len(s) - 1 : t[j] = IF j < k THEN s[j] ELSE s[j + 1]
    BY <2>5, <2>6, RemoveAtElements
  <2> HIDE DEF t
  <2>8. \A j \in 1 .. Len(t) : \/ j \in 1 .. Len(s) /\ t[j] = s[j]
                               \/ j + 1 \in 1 .. Len(s) /\ t[j] = s[j + 1]
    BY <2>4, <2>5, <2>7
  <2>9. \A j \in 1 .. Len(s) : \/ j = k
                               \/ j \in 1 .. Len(t) /\ t[j] = s[j]
                               \/ j - 1 \in 1 .. Len(t) /\ t[j - 1] = s[j]
    <3> SUFFICES ASSUME NEW j \in 1 .. Len(s), j # k
                 PROVE  \/ j \in 1 .. Len(t) /\ t[j] = s[j]
                        \/ j - 1 \in 1 .. Len(t) /\ t[j - 1] = s[j]
      OBVIOUS
    <3>1. CASE j < k
      <4>1. j \in 1 .. Len(s) - 1
        BY <2>4, <2>5, <3>1
      <4>2. QED
        BY <2>7, <3>1, <4>1
    <3>2. CASE k < j
      <4>1. j - 1 \in 1 .. Len(s) - 1 /\ ~(j - 1 < k) /\ (j - 1) + 1 = j
        BY <2>4, <2>5, <3>2
      <4>2. QED
        BY <2>7, <4>1
    <3>3. QED
      BY <2>5, <3>1, <3>2
  <2>10. \A p : Has(t, p) => Has(s, p)
    BY <2>8 DEF Has
  <2>11. \A p : Has(s, p) /\ p.order_id # id => Has(t, p)
    BY <2>5, <2>9 DEF Has
  <2>12. QED
    BY <2>10, <2>11 DEF t
<1>2. CASE ~Holds(s, id)
  BY <1>2 DEF RemoveOrder
<1>3. QED
  BY <1>1, <1>2

LEMMA TailHas ==
  ASSUME NEW S, NEW s \in Seq(S), s # << >>
  PROVE  \A p : Has(s, p) <=> p = Head(s) \/ Has(Tail(s), p)
<1> DEFINE t == Tail(s)
<1>1. /\ Head(s) = s[1] /\ Len(t) = Len(s) - 1 /\ Len(s) \in Nat \ {0}
      /\ \A i \in 1 .. Len(t) : t[i] = s[i + 1]
  BY HeadTailProperties, EmptySeq, ElementOfSeq
<1> HIDE DEF t
<1>2. /\ 1 \in 1 .. Len(s)
      /\ \A i \in 1 .. Len(t) : i + 1 \in 1 .. Len(s)
      /\ \A i \in 1 .. Len(s) : i = 1 \/ (i - 1 \in 1 .. Len(t) /\ t[i - 1] = s[i])
  BY <1>1
<1>3. \A p : Has(t, p) \/ p = Head(s) => Has(s, p)
  BY <1>1, <1>2 DEF Has
<1>4. \A p : Has(s, p) => p = Head(s) \/ Has(t, p)
  BY <1>1, <1>2 DEF Has
<1>5. QED
  BY <1>3, <1>4 DEF t

LEMMA PopMarketLevelHas ==
  ASSUME NEW S, NEW s \in Seq(S), Sorted(s)
  PROVE  \A p : /\ Has(PopMarketLevel(s), p) => Has(s, p)
                /\ Has(s, p) /\ ~IsMarket(p) => Has(PopMarketLevel(s), p)
<1> DEFINE P == {i \in 1 .. Len(s) : IsMarket(s[i])}
           k == FirstOutside(s, P)
           t == PopMarketLevel(s)
<1>1. k \in 1 .. Len(s) + 1 /\ \A i \in 1 .. k - 1 : i \in P
  <2>1. P \in SUBSET (1 .. Len(s))
    OBVIOUS
  <2>2. QED
    BY <2>1, FirstOutsideFinds
<1>2. t = SubSeq(s, k, Len(s))
  BY DEF PopMarketLevel
<1> HIDE DEF k, t
<1>3. /\ Len(t) = Len(s) - k + 1 /\ Len(s) \in Nat
      /\ \A j \in 1 .. Len(s) - k + 1 : t[j] = s[k + j - 1]
  BY <1>1, <1>2, SuffixSorted, LenProperties
<1>4. \A j \in 1 .. Len(t) : k + j - 1 \in 1 .. Len(s) /\ t[j] = s[k + j - 1]
  BY <1>1, <1>3
<1>5. \A i \in 1 .. Len(s) :
         IsMarket(s[i]) \/ (i - k + 1 \in 1 .. Len(t) /\ t[i - k + 1] = s[i])
  <2> SUFFICES ASSUME NEW i \in 1 .. Len(s), ~IsMarket(s[i])
               PROVE  i - k + 1 \in 1 .. Len(t) /\ t[i - k + 1] = s[i]
    OBVIOUS
  <2>1. i \notin 1 .. k - 1
    BY <1>1
  <2>2. /\ i - k + 1 \in 1 .. Len(s) - k + 1
        /\ k + (i - k + 1) - 1 = i
    BY <1>1, <1>3, <2>1
  <2>3. QED
    BY <1>3, <2>2
<1>6. QED
  BY <1>4, <1>5 DEF Has, t

LEMMA RestSame ==
  ASSUME NEW o \in Order, NEW q
  PROVE  /\ Rest(o, q).symbol = o.symbol /\ Rest(o, q).buysell = o.buysell
         /\ Rest(o, q).order_id = o.order_id /\ Rest(o, q).order_type = o.order_type
  BY DEF Rest, Order

\* A match takes the head off and puts what is left of it back.
LEMMA ExecutedHas ==
  ASSUME NEW side \in Sides, NEW least \in {0, 1},
         NEW s \in Seq(SideOrders(side, least)), s # << >>, Once(s),
         NEW q \in 0 .. Head(s).quantity, NEW r, r = Rest(Head(s), q)
  PROVE  /\ \A p : Has(Executed(s, q), p) =>
                     \/ Has(s, p) /\ p.order_id # r.order_id
                     \/ p = r /\ r.quantity > 0
         /\ \A p : Has(s, p) /\ p.order_id # r.order_id => Has(Executed(s, q), p)
         /\ r.quantity > 0 => Has(Executed(s, q), r)
<1> DEFINE S == SideOrders(side, least)
           h == Head(s)
           t == Tail(s)
<1>1. /\ t \in Seq(S) /\ h \in S
      /\ ~Holds(t, h.order_id)
  BY TailOnce
<1>2. \A p : Has(s, p) <=> p = h \/ Has(t, p)
  BY TailHas
<1>3. r.order_id = h.order_id /\ (r.quantity > 0 => r \in S)
  BY <1>1, RestProper
<1>4. \A p : Has(t, p) => p.order_id # r.order_id
  BY <1>1, <1>3, HasHolds
<1>5. CASE r.quantity > 0
  <2>1. Executed(s, q) = AddOrder(t, r)
    BY <1>5 DEF Executed
  <2> HIDE DEF t, h
  <2>2. \A p : Has(AddOrder(t, r), p) <=> Has(t, p) \/ p = r
    BY <1>1, <1>3, <1>5, AddOrderHas
  <2>3. QED
    BY <1>2, <1>3, <1>4, <1>5, <2>1, <2>2
<1>6. CASE ~(r.quantity > 0)
  <2>1. Executed(s, q) = t
    BY <1>6 DEF Executed
  <2> HIDE DEF t, h
  <2>2. QED
    BY <1>2, <1>3, <1>4, <1>6, <2>1
<1>7. QED
  BY <1>5, <1>6

\* The order of a report that was on this side.
Trader(r, side) == IF side = "SELL" THEN r.orderA ELSE r.orderB

LEMMA TradedHas ==
  ASSUME NEW least \in {0, 1}, NEW s \in Symbols, mybooks[s] \in Books(least),
         Crosses(mybooks[s]), NEW side \in Sides, Once(mybooks[s][side]),
         NEW r, r = Trader(ReportOf(s), side),
         NEW m, m = MatchedBook(mybooks[s])[side]
  PROVE  /\ Holds(mybooks[s][side], r.order_id) /\ r.order_id \in Ids
         /\ \E h \in Order : Has(mybooks[s][side], h) /\ r.symbol = h.symbol
         /\ r \in Order /\ r.buysell = side
         /\ \A p : Has(m, p) => \/ Has(mybooks[s][side], p) /\ p.order_id # r.order_id
                                \/ p = r /\ r.quantity > 0
         /\ \A p : Has(mybooks[s][side], p) /\ p.order_id # r.order_id => Has(m, p)
         /\ r.quantity > 0 => Has(m, r)
<1> DEFINE b == mybooks[s]
           q == TradeQuantity(b)
           l == b[side]
           h == Head(l)
<1>1. /\ l # << >> /\ q \in 0 .. h.quantity /\ l \in Seq(SideOrders(side, least))
      /\ h = l[1] /\ 1 \in 1 .. Len(l) /\ h \in SideOrders(side, least)
  BY Heads DEF HeadBuy, HeadSell, Sides, Books
<1>2. r = Rest(h, q)
  BY DEF Trader, ReportOf, HeadBuy, HeadSell, Sides
<1>3. m = Executed(l, q)
  BY DEF MatchedBook, MatchedSide
<1> HIDE DEF b, q, l, h
<1>4. Once(l)
  BY DEF l, b
<1>5. /\ \A p : Has(m, p) => \/ Has(l, p) /\ p.order_id # r.order_id
                             \/ p = r /\ r.quantity > 0
      /\ \A p : Has(l, p) /\ p.order_id # r.order_id => Has(m, p)
      /\ r.quantity > 0 => Has(m, r)
  BY <1>1, <1>2, <1>3, <1>4, ExecutedHas DEF h
<1>6. h \in Order /\ h.buysell = side /\ h.order_id \in Ids
  BY <1>1 DEF SideOrders, ProperOrders, Order
<1>7. /\ r.order_id = h.order_id /\ r.symbol = h.symbol /\ r.buysell = side
  BY <1>2, <1>6, RestSame
<1>8. r \in Order
  BY <1>1, <1>2, RestProper
<1>9. Has(l, h) /\ Holds(l, h.order_id)
  BY <1>1 DEF Has, Holds
<1>10. QED
  BY <1>5, <1>6, <1>7, <1>8, <1>9 DEF l, b

\* Where the heads do not cross, Match leaves every limit order, and every
\* order of a side whose other side is not empty.
LEMMA UncrossedHas ==
  ASSUME NEW least \in {0, 1}, NEW b \in Books(least), ~Crosses(b),
         NEW side \in Sides, NEW m, m = MatchedBook(b)[side]
  PROVE  \A p : /\ Has(m, p) => Has(b[side], p)
                /\ Has(b[side], p) /\ ~IsMarket(p) => Has(m, p)
                /\ \/ \A other \in Sides \ {side} : b[other] = << >>
                   \/ Has(b[side], p) => Has(m, p)
<1> DEFINE other == IF side = "BUY" THEN "SELL" ELSE "BUY"
<1>1. b[side] \in Seq(SideOrders(side, least)) /\ Sorted(b[side])
  BY DEF Books
<1>2. m = IF b[other] = << >> THEN PopMarketLevel(b[side]) ELSE b[side]
  BY DEF MatchedBook, MatchedSide, EmptySide
<1>3. Sides \ {side} = {other}
  BY DEF Sides
<1> HIDE DEF other
<1>4. CASE b[other] = << >>
  BY <1>1, <1>2, <1>3, <1>4, PopMarketLevelHas
<1>5. CASE b[other] # << >>
  BY <1>2, <1>3, <1>5
<1>6. QED
  BY <1>4, <1>5

\* Of all books.
LEMMA WithHas ==
  ASSUME NEW least \in {0, 1}, NEW books \in [Symbols -> Books(least)],
         NEW o \in ProperOrders(least), NEW c, c = BooksWith(books, o)
  PROVE  \A s \in Symbols, side \in Sides : \A p :
            Has(c[s][side], p) <=>
              \/ Has(books[s][side], p)
              \/ p = o /\ s = o.symbol /\ side = o.buysell
<1> SUFFICES ASSUME NEW s \in Symbols, NEW side \in Sides
             PROVE  \A p : Has(c[s][side], p) <=>
                             \/ Has(books[s][side], p)
                             \/ p = o /\ s = o.symbol /\ side = o.buysell
  OBVIOUS
<1>1. /\ o \in Order /\ books[s][side] \in Seq(Order)
      /\ c[s][side] = IF s = o.symbol /\ side = o.buysell
                      THEN AddOrder(books[s][side], o) ELSE books[s][side]
  BY EditedSides
<1>2. \A p : Has(AddOrder(books[s][side], o), p) <=> Has(books[s][side], p) \/ p = o
  BY <1>1, AddOrderHas
<1>3. QED
  BY <1>1, <1>2

LEMMA WithoutHas ==
  ASSUME NEW least \in {0, 1}, NEW books \in [Symbols -> Books(least)],
         NEW o \in ProperOrders(least), NEW c, c = BooksWithout(books, o)
  PROVE  \A s \in Symbols, side \in Sides : \A p :
            /\ Has(c[s][side], p) => Has(books[s][side], p)
            /\ Has(books[s][side], p) /\ p.order_id # o.order_id => Has(c[s][side], p)
<1> SUFFICES ASSUME NEW s \in Symbols, NEW side \in Sides
             PROVE  \A p :
                      /\ Has(c[s][side], p) => Has(books[s][side], p)
                      /\ Has(books[s][side], p) /\ p.order_id # o.order_id =>
                           Has(c[s][side], p)
  OBVIOUS
<1>1. /\ books[s][side] \in Seq(Order)
      /\ c[s][side] = IF s = o.symbol /\ side = o.buysell
                      THEN RemoveOrder(books[s][side], o.order_id)
                      ELSE books[s][side]
  BY EditedSides
<1>2. \A p :
         /\ Has(RemoveOrder(books[s][side], o.order_id), p) => Has(books[s][side], p)
         /\ Has(books[s][side], p) /\ p.order_id # o.order_id =>
              Has(RemoveOrder(books[s][side], o.order_id), p)
  BY <1>1, RemoveOrderHas
<1>3. QED
  BY <1>1, <1>2
-----------------------------------------------------------------------------
(* Cancelable: what myorders has of the orders that stand in the books *)

StandInv ==
  \A s \in Symbols, side \in Sides : \A p :
     Has(mybooks[s][side], p) =>
       /\ p.symbol = s
       /\ IsMarket(p) \/ myorders[p.order_id] = p

LEMMA StandingTyped ==
  ASSUME IInv, NEW s \in Symbols, NEW side \in Sides, NEW p,
         Has(mybooks[s][side], p)
  PROVE  /\ p \in Order /\ p.order_id \in Ids /\ p.buysell = side
         /\ Holds(mybooks[s][side], p.order_id) /\ Somewhere(mybooks, p.order_id)
<1>1. mybooks[s][side] \in Seq(SideOrders(side, Least))
  BY DEF IInv, DataInv, DataIn, Books
<1>2. p \in SideOrders(side, Least)
  BY <1>1, HasTyped
<1>3. Holds(mybooks[s][side], p.order_id)
  BY HasHolds
<1>4. QED
  BY <1>2, <1>3 DEF SideOrders, ProperOrders, Order, Somewhere

LEMMA EnterStands ==
  ASSUME IInv, StandInv, NEW o \in ProperOrders(Least),
         ~Somewhere(mybooks, o.order_id), Accept(o)
  PROVE  StandInv'
<1>1. /\ mybooks' = BooksWith(mybooks, o) /\ mybooks \in [Symbols -> Books(Least)]
      /\ myorders' = IF IsMarket(o) THEN myorders
                     ELSE [myorders EXCEPT ![o.order_id] = o]
      /\ DOMAIN myorders = Ids
  BY DEF Accept, IInv, DataInv, DataIn
<1>2. o.order_id \in Ids
  BY DEF ProperOrders, Order
<1>3. \A s \in Symbols, side \in Sides : \A p :
         Has(mybooks'[s][side], p) =>
           \/ Has(mybooks[s][side], p)
           \/ p = o /\ s = o.symbol /\ side = o.buysell
  BY <1>1, LeastType, WithHas
<1> SUFFICES ASSUME NEW s \in Symbols, NEW side \in Sides, NEW p,
                    Has(mybooks'[s][side], p)
             PROVE  p.symbol = s /\ (IsMarket(p) \/ myorders'[p.order_id] = p)
  BY DEF StandInv
<1>4. CASE Has(mybooks[s][side], p)
  <2>1. p.order_id # o.order_id
    BY <1>4, StandingTyped
  <2>2. p.symbol = s /\ (IsMarket(p) \/ myorders[p.order_id] = p)
    BY <1>4 DEF StandInv
  <2>3. myorders'[p.order_id] = myorders[p.order_id]
    BY <1>1, <1>2, <2>1
  <2>4. QED
    BY <2>2, <2>3
<1>5. CASE p = o /\ s = o.symbol
  BY <1>1, <1>2, <1>5
<1>6. QED
  BY <1>3, <1>4, <1>5

\* What is left after a removal, and after the order is entered again.
LEMMA WithdrawStands ==
  ASSUME IInv, CancelInv, StandInv, NEW id \in Ids, Resting(id)
  PROVE  \A s \in Symbols, side \in Sides : \A p :
            Has(BooksWithout(mybooks, myorders[id])[s][side], p) =>
              /\ Has(mybooks[s][side], p) /\ p.order_id # id /\ p.order_id \in Ids
              /\ p.symbol = s
              /\ IsMarket(p) \/ myorders[p.order_id] = p
<1> DEFINE w == BooksWithout(mybooks, myorders[id])
<1>1. /\ myorders[id] \in ProperOrders(Least) /\ ~Somewhere(w, id)
      /\ mybooks \in [Symbols -> Books(Least)]
  BY RestingOrder DEF IInv, DataInv, DataIn
<1>2. \A s \in Symbols, side \in Sides : \A p :
         Has(w[s][side], p) => Has(mybooks[s][side], p)
  BY <1>1, LeastType, WithoutHas
<1> HIDE DEF w
<1>3. \A s \in Symbols, side \in Sides : \A p :
         Has(w[s][side], p) => p.order_id # id
  BY <1>1, HasHolds DEF Somewhere
<1>4. QED
  BY <1>2, <1>3, StandingTyped DEF StandInv, w

LEMMA ReplaceStands ==
  ASSUME IInv, CancelInv, StandInv, NEW id \in Ids, Resting(id),
         NEW price \in Prices, NEW q \in JunkQuantities, Replace(id, price, q)
  PROVE  /\ StandInv'
         /\ Modified(id, price, q) \in ProperOrders(Least)
         /\ Modified(id, price, q).order_id = id
         /\ Modified(id, price, q).symbol = myorders[id].symbol
         /\ \A s \in Symbols, side \in Sides : \A p :
               Has(mybooks'[s][side], p) <=>
                 \/ Has(BooksWithout(mybooks, myorders[id])[s][side], p)
                 \/ /\ p = Modified(id, price, q)
                    /\ s = p.symbol /\ side = p.buysell
<1> DEFINE o == Modified(id, price, q)
           m == myorders[id]
           w == BooksWithout(mybooks, m)
<1>1. /\ m \in ProperOrders(Least) /\ m.order_id = id /\ m \in Order
      /\ w \in [Symbols -> Books(Least)]
  BY RestingOrder DEF ProperOrders
<1>2. o \in ProperOrders(Least) /\ o.symbol = m.symbol /\ o.order_id = id
  BY <1>1, LeastType, ModifiedProper
<1>3. /\ mybooks' = BooksWith(w, o) /\ myorders' = [myorders EXCEPT ![id] = o]
      /\ DOMAIN myorders = Ids
  BY DEF Replace, IInv, DataInv, DataIn
<1>4. \A s \in Symbols, side \in Sides : \A p :
         Has(w[s][side], p) =>
           /\ p.order_id # id /\ p.order_id \in Ids /\ p.symbol = s
           /\ IsMarket(p) \/ myorders[p.order_id] = p
  BY WithdrawStands
<1> HIDE DEF m, w, o
<1>5. \A s \in Symbols, side \in Sides : \A p :
         Has(mybooks'[s][side], p) <=>
           \/ Has(w[s][side], p)
           \/ p = o /\ s = o.symbol /\ side = o.buysell
  BY <1>1, <1>2, <1>3, LeastType, WithHas
<1>6. ASSUME NEW s \in Symbols, NEW side \in Sides, NEW p,
             Has(mybooks'[s][side], p)
      PROVE  p.symbol = s /\ (IsMarket(p) \/ myorders'[p.order_id] = p)
  <2>1. CASE Has(w[s][side], p)
    <3>1. p.order_id # id /\ p.symbol = s /\ (IsMarket(p) \/ myorders[p.order_id] = p)
      BY <1>4, <2>1
    <3>2. myorders'[p.order_id] = myorders[p.order_id]
      BY <1>3, <3>1
    <3>3. QED
      BY <3>1, <3>2
  <2>2. CASE p = o /\ s = o.symbol
    BY <1>2, <1>3, <2>2
  <2>3. QED
    BY <1>5, <1>6, <2>1, <2>2
<1>7. StandInv'
  BY <1>6 DEF StandInv
<1>8. QED
  BY <1>2, <1>5, <1>7 DEF m, w, o

LEMMA UpdatedOrders ==
  ASSUME DOMAIN myorders = Ids, NEW A, NEW B, NEW r,
         r.orderA = A, r.orderB = B, A.order_id \in Ids, B.order_id \in Ids,
         A.order_id # B.order_id, UpdateOrders(r)
  PROVE  /\ A.quantity > 0 => myorders'[A.order_id] = A
         /\ B.quantity > 0 => myorders'[B.order_id] = B
         /\ \A id \in Ids : id # A.order_id /\ id # B.order_id =>
                              myorders'[id] = myorders[id]
<1> DEFINE erased == [myorders EXCEPT ![A.order_id] = None, ![B.order_id] = None]
           first == Kept(erased, A)
<1>1. myorders' = Kept(first, B)
  BY DEF UpdateOrders
<1>2. /\ DOMAIN erased = Ids
      /\ \A id \in Ids : id # A.order_id /\ id # B.order_id => erased[id] = myorders[id]
  OBVIOUS
<1> HIDE DEF erased
<1>3. /\ DOMAIN first = Ids
      /\ A.quantity > 0 => first[A.order_id] = A
      /\ \A id \in Ids : id # A.order_id => first[id] = erased[id]
  BY <1>2 DEF Kept
<1> HIDE DEF first
<1>4. /\ B.quantity > 0 => myorders'[B.order_id] = B
      /\ \A id \in Ids : id # B.order_id => myorders'[id] = first[id]
  BY <1>1, <1>3 DEF Kept
<1>5. QED
  BY <1>2, <1>3, <1>4

\* Where a match leaves the orders that stood in the books.
LEMMA TradeHas ==
  ASSUME IInv, CancelInv, NEW s \in Symbols, Crosses(mybooks[s]), Match(s),
         NEW A, A = ReportOf(s).orderA, NEW B, B = ReportOf(s).orderB
  PROVE  /\ A \in Order /\ A.order_id \in Ids /\ A.buysell = "SELL"
         /\ B \in Order /\ B.order_id \in Ids /\ B.buysell = "BUY"
         /\ A.order_id # B.order_id
         /\ StandInv => A.symbol = s /\ B.symbol = s
         /\ \A t \in Symbols, side \in Sides : \A p :
               Has(mybooks'[t][side], p) =>
                 \/ /\ Has(mybooks[t][side], p)
                    /\ p.order_id # A.order_id /\ p.order_id # B.order_id
                 \/ t = s /\ p \in {A, B} /\ p.quantity > 0
         /\ \A t \in Symbols, side \in Sides : \A p :
               /\ Has(mybooks[t][side], p)
               /\ p.order_id # A.order_id /\ p.order_id # B.order_id
               => Has(mybooks'[t][side], p)
         /\ A.quantity > 0 => Has(mybooks'[s]["SELL"], A)
         /\ B.quantity > 0 => Has(mybooks'[s]["BUY"], B)
<1> DEFINE m == MatchedBook(mybooks[s])
<1>1. /\ mybooks \in [Symbols -> Books(Least)] /\ mybooks[s] \in Books(Least)
      /\ Spread(mybooks)
  BY DEF IInv, DataInv, DataIn, CancelInv, PlacesInv
<1>2. \A t \in Symbols, side \in Sides :
         mybooks'[t][side] = IF t = s THEN m[side] ELSE mybooks[t][side]
  BY <1>1 DEF Match
<1> HIDE DEF m
<1>3. /\ Trader(ReportOf(s), "SELL") = A /\ Trader(ReportOf(s), "BUY") = B
      /\ Once(mybooks[s]["SELL"]) /\ Once(mybooks[s]["BUY"])
      /\ "SELL" \in Sides /\ "BUY" \in Sides
  BY <1>1 DEF Trader, Spread, Sides
<1>4. /\ Holds(mybooks[s]["SELL"], A.order_id) /\ A.order_id \in Ids
      /\ \E h \in Order : Has(mybooks[s]["SELL"], h) /\ A.symbol = h.symbol
      /\ A \in Order /\ A.buysell = "SELL"
      /\ \A p : Has(m["SELL"], p) =>
                  \/ Has(mybooks[s]["SELL"], p) /\ p.order_id # A.order_id
                  \/ p = A /\ A.quantity > 0
      /\ \A p : Has(mybooks[s]["SELL"], p) /\ p.order_id # A.order_id =>
                  Has(m["SELL"], p)
      /\ A.quantity > 0 => Has(m["SELL"], A)
  BY <1>1, <1>3, LeastType, TradedHas DEF m
<1>5. /\ Holds(mybooks[s]["BUY"], B.order_id) /\ B.order_id \in Ids
      /\ \E h \in Order : Has(mybooks[s]["BUY"], h) /\ B.symbol = h.symbol
      /\ B \in Order /\ B.buysell = "BUY"
      /\ \A p : Has(m["BUY"], p) =>
                  \/ Has(mybooks[s]["BUY"], p) /\ p.order_id # B.order_id
                  \/ p = B /\ B.quantity > 0
      /\ \A p : Has(mybooks[s]["BUY"], p) /\ p.order_id # B.order_id =>
                  Has(m["BUY"], p)
      /\ B.quantity > 0 => Has(m["BUY"], B)
  BY <1>1, <1>3, LeastType, TradedHas DEF m
<1>6. \A t \in Symbols, side \in Sides : \A p :
         Has(mybooks[t][side], p) =>
           /\ p.order_id = A.order_id => t = s /\ side = "SELL"
           /\ p.order_id = B.order_id => t = s /\ side = "BUY"
  <2> SUFFICES ASSUME NEW t \in Symbols, NEW side \in Sides, NEW p,
                      Has(mybooks[t][side], p)
               PROVE  /\ p.order_id = A.order_id => t = s /\ side = "SELL"
                      /\ p.order_id = B.order_id => t = s /\ side = "BUY"
    OBVIOUS
  <2>1. Holds(mybooks[t][side], p.order_id)
    BY HasHolds
  <2>2. QED
    BY <1>1, <1>3, <1>4, <1>5, <2>1 DEF Spread
<1>7. A.order_id # B.order_id
  BY <1>1, <1>3, <1>4, <1>5 DEF Spread
<1>8. ASSUME NEW t \in Symbols, NEW side \in Sides, NEW p,
             Has(mybooks'[t][side], p)
      PROVE  \/ /\ Has(mybooks[t][side], p)
                /\ p.order_id # A.order_id /\ p.order_id # B.order_id
             \/ t = s /\ p \in {A, B} /\ p.quantity > 0
  <2>1. CASE t # s
    BY <1>2, <1>6, <1>8, <2>1
  <2>2. CASE t = s /\ side = "SELL"
    <3>1. Has(m["SELL"], p)
      BY <1>2, <1>8, <2>2
    <3>2. QED
      BY <1>4, <1>6, <2>2, <3>1
  <2>3. CASE t = s /\ side = "BUY"
    <3>1. Has(m["BUY"], p)
      BY <1>2, <1>8, <2>3
    <3>2. QED
      BY <1>5, <1>6, <2>3, <3>1
  <2>4. QED
    BY <2>1, <2>2, <2>3 DEF Sides
<1>9. ASSUME NEW t \in Symbols, NEW side \in Sides, NEW p,
             Has(mybooks[t][side], p),
             p.order_id # A.order_id, p.order_id # B.order_id
      PROVE  Has(mybooks'[t][side], p)
  <2>1. CASE t # s
    BY <1>2, <1>9, <2>1
  <2>2. CASE t = s /\ side = "SELL"
    BY <1>2, <1>4, <1>9, <2>2
  <2>3. CASE t = s /\ side = "BUY"
    BY <1>2, <1>5, <1>9, <2>3
  <2>4. QED
    BY <2>1, <2>2, <2>3 DEF Sides
<1>10. StandInv => A.symbol = s /\ B.symbol = s
  BY <1>3, <1>4, <1>5 DEF StandInv
<1>11. /\ A.quantity > 0 => Has(mybooks'[s]["SELL"], A)
       /\ B.quantity > 0 => Has(mybooks'[s]["BUY"], B)
  BY <1>2, <1>3, <1>4, <1>5
<1>12. QED
  BY <1>4, <1>5, <1>7, <1>8, <1>9, <1>10, <1>11

\* ... and one that finds nothing to trade.
LEMMA EndHas ==
  ASSUME IInv, NEW s \in Symbols, ~Crosses(mybooks[s]), Match(s)
  PROVE  \A t \in Symbols, side \in Sides : \A p :
            /\ Has(mybooks'[t][side], p) => Has(mybooks[t][side], p)
            /\ Has(mybooks[t][side], p) /\ ~IsMarket(p) => Has(mybooks'[t][side], p)
            /\ \/ \A other \in Sides \ {side} : t = s /\ mybooks[t][other] = << >>
               \/ Has(mybooks[t][side], p) => Has(mybooks'[t][side], p)
<1> DEFINE m == MatchedBook(mybooks[s])
<1>1. mybooks \in [Symbols -> Books(Least)] /\ mybooks[s] \in Books(Least)
  BY DEF IInv, DataInv, DataIn
<1>2. \A t \in Symbols, side \in Sides :
         mybooks'[t][side] = IF t = s THEN m[side] ELSE mybooks[t][side]
  BY <1>1 DEF Match
<1>3. \A side \in Sides : \A p :
         /\ Has(m[side], p) => Has(mybooks[s][side], p)
         /\ Has(mybooks[s][side], p) /\ ~IsMarket(p) => Has(m[side], p)
         /\ \/ \A other \in Sides \ {side} : mybooks[s][other] = << >>
            \/ Has(mybooks[s][side], p) => Has(m[side], p)
  <2> SUFFICES ASSUME NEW side \in Sides
               PROVE  \A p :
                  /\ Has(m[side], p) => Has(mybooks[s][side], p)
                  /\ Has(mybooks[s][side], p) /\ ~IsMarket(p) => Has(m[side], p)
                  /\ \/ \A other \in Sides \ {side} : mybooks[s][other] = << >>
                     \/ Has(mybooks[s][side], p) => Has(m[side], p)
    OBVIOUS
  <2> DEFINE b == mybooks[s]
             l == m[side]
  <2>1. b \in Books(Least) /\ ~Crosses(b) /\ l = MatchedBook(b)[side]
    BY <1>1
  <2> HIDE DEF b, l
  <2>2. \A p : /\ Has(l, p) => Has(b[side], p)
               /\ Has(b[side], p) /\ ~IsMarket(p) => Has(l, p)
               /\ \/ \A other \in Sides \ {side} : b[other] = << >>
                  \/ Has(b[side], p) => Has(l, p)
    BY <2>1, LeastType, UncrossedHas
  <2>3. QED
    BY <2>2 DEF b, l
<1> HIDE DEF m
<1> SUFFICES ASSUME NEW t \in Symbols, NEW side \in Sides, NEW p
             PROVE  /\ Has(mybooks'[t][side], p) => Has(mybooks[t][side], p)
                    /\ Has(mybooks[t][side], p) /\ ~IsMarket(p) =>
                         Has(mybooks'[t][side], p)
                    /\ \/ \A other \in Sides \ {side} :
                             t = s /\ mybooks[t][other] = << >>
                       \/ Has(mybooks[t][side], p) => Has(mybooks'[t][side], p)
  OBVIOUS
<1>4. CASE t = s
  BY <1>2, <1>3, <1>4
<1>5. CASE t # s
  BY <1>2, <1>5
<1>6. QED
  BY <1>4, <1>5

\* With positive quantities a loop ends only where the heads do not cross.
LEMMA EndsUncrossed ==
  ASSUME IInv, Least = 1, NEW s \in Symbols, ~Trades(s)
  PROVE  ~Crosses(mybooks[s])
<1>1. mybooks[s] \in Books(1)
  BY DEF IInv, DataInv, DataIn
<1>2. Crosses(mybooks[s]) =>
         /\ TradeQuantity(mybooks[s]) >= 1
         /\ TradeQuantity(mybooks[s]) \in 0 .. HeadBuy(mybooks[s]).quantity
         /\ HeadBuy(mybooks[s]) \in SideOrders("BUY", 1)
  BY <1>1, Heads
<1>3. Crosses(mybooks[s]) => TradeQuantity(mybooks[s]) > 0
  BY <1>2, OrderFields DEF Sides
<1>4. QED
  BY <1>3 DEF Trades

LEMMA SameStands ==
  ASSUME StandInv, mybooks' = mybooks, myorders' = myorders
  PROVE  StandInv'
  BY DEF StandInv

\* After the process has ended no order stands.
LEMMA ExitStands == ASSUME Exit PROVE StandInv'
<1>1. \A s \in Symbols, side \in Sides : mybooks'[s][side] = << >>
  BY DEF Exit, EmptyBook
<1>2. \A p : ~Has(<< >>, p)
  <2>1. Len(<< >>) = 0
    OBVIOUS
  <2>2. QED
    BY <2>1 DEF Has
<1>3. QED
  BY <1>1, <1>2 DEF StandInv

LEMMA MatchStands ==
  ASSUME IInv, CancelInv, StandInv, Least = 1, MatchTrades \/ MatchEnds
  PROVE  StandInv'
<1>1. sym \in Symbols /\ Match(sym) /\ DOMAIN myorders = Ids
  BY DEF MatchTrades, MatchEnds, IInv, ControlInv, DataInv, DataIn
<1>2. CASE MatchEnds
  <2>1. ~Crosses(mybooks[sym]) /\ myorders' = myorders
    BY <1>1, <1>2, EndsUncrossed DEF MatchEnds
  <2>2. \A t \in Symbols, side \in Sides : \A p :
           Has(mybooks'[t][side], p) => Has(mybooks[t][side], p)
    BY <1>1, <2>1, EndHas
  <2>3. QED
    BY <2>1, <2>2 DEF StandInv
<1>3. CASE MatchTrades
  <2> DEFINE A == ReportOf(sym).orderA
             B == ReportOf(sym).orderB
  <2>1. Crosses(mybooks[sym]) /\ UpdateOrders(ReportOf(sym))
    BY <1>3 DEF MatchTrades, Trades
  <2>2. /\ A.order_id \in Ids /\ B.order_id \in Ids /\ A.order_id # B.order_id
        /\ A.symbol = sym /\ B.symbol = sym
        /\ \A t \in Symbols, side \in Sides : \A p :
              Has(mybooks'[t][side], p) =>
                \/ /\ Has(mybooks[t][side], p)
                   /\ p.order_id # A.order_id /\ p.order_id # B.order_id
                \/ t = sym /\ p \in {A, B} /\ p.quantity > 0
    BY <1>1, <2>1, TradeHas
  <2>3. /\ A.quantity > 0 => myorders'[A.order_id] = A
        /\ B.quantity > 0 => myorders'[B.order_id] = B
        /\ \A id \in Ids : id # A.order_id /\ id # B.order_id =>
                             myorders'[id] = myorders[id]
    BY <1>1, <2>1, <2>2, UpdatedOrders
  <2> HIDE DEF A, B
  <2> SUFFICES ASSUME NEW t \in Symbols, NEW side \in Sides, NEW p,
                      Has(mybooks'[t][side], p)
               PROVE  p.symbol = t /\ (IsMarket(p) \/ myorders'[p.order_id] = p)
    BY DEF StandInv
  <2>4. CASE /\ Has(mybooks[t][side], p)
             /\ p.order_id # A.order_id /\ p.order_id # B.order_id
    <3>1. p.symbol = t /\ (IsMarket(p) \/ myorders[p.order_id] = p)
      BY <2>4 DEF StandInv
    <3>2. p.order_id \in Ids
      BY <2>4, StandingTyped
    <3>3. QED
      BY <2>3, <2>4, <3>1, <3>2
  <2>5. CASE t = sym /\ p \in {A, B} /\ p.quantity > 0
    BY <2>2, <2>3, <2>5
  <2>6. QED
    BY <2>2, <2>4, <2>5
<1>4. QED
  BY <1>2, <1>3

LEMMA RequestStands ==
  ASSUME UniqueIds, IInv, CancelInv, StandInv,
         ProcessNew \/ ProcessModify \/ ProcessCancel
  PROVE  StandInv'
<1>1. CASE ProcessNew
  <2>1. PICK o \in NewOrders :
           ~Named(o.order_id) /\ (AcceptOrder(o) \/ RejectOrder(o))
    BY <1>1 DEF ProcessNew
  <2>2. o \in ProperOrders(Least) /\ o.order_id \in Ids
    BY NewOrdersProper DEF ProperOrders, Order
  <2>3. ~Somewhere(mybooks, o.order_id)
    BY <2>1, <2>2 DEF CancelInv, FinalInv, Live
  <2>4. CASE AcceptOrder(o)
    BY <2>2, <2>3, <2>4, EnterStands DEF AcceptOrder
  <2>5. CASE RejectOrder(o)
    BY <2>5, SameStands DEF RejectOrder, viewVars
  <2>6. QED
    BY <2>1, <2>4, <2>5
<1>2. CASE ProcessModify
  <2>1. PICK id \in Ids, price \in Prices, quantity \in Quantities :
           \/ ModifyUnknown(id, price, quantity)
           \/ ModifyGone(id, price, quantity)
           \/ ModifyOrder(id, price, quantity)
           \/ DieInModify(id, price, quantity)
    BY <1>2 DEF ProcessModify
  <2>2. CASE ModifyUnknown(id, price, quantity) \/ ModifyGone(id, price, quantity)
    BY <2>2, SameStands DEF ModifyUnknown, ModifyGone, viewVars
  <2>3. CASE ModifyOrder(id, price, quantity)
    BY <2>3, ReplaceStands DEF ModifyOrder
  <2>4. CASE DieInModify(id, price, quantity)
    BY <2>4, ExitStands DEF DieInModify
  <2>5. QED
    BY <2>1, <2>2, <2>3, <2>4
<1>3. CASE ProcessCancel
  <2>1. PICK id \in Ids : CancelUnknown(id) \/ CancelOrder(id)
    BY <1>3 DEF ProcessCancel
  <2>2. CASE CancelUnknown(id)
    BY <2>2, SameStands DEF CancelUnknown, viewVars
  <2>3. CASE CancelOrder(id)
    <3>1. /\ Resting(id) /\ mybooks' = BooksWithout(mybooks, myorders[id])
          /\ myorders' = [myorders EXCEPT ![id] = None] /\ DOMAIN myorders = Ids
      BY <2>3 DEF CancelOrder, Withdraw, IInv, DataInv, DataIn
    <3>2. \A s \in Symbols, side \in Sides : \A p :
             Has(mybooks'[s][side], p) =>
               /\ p.order_id # id /\ p.order_id \in Ids /\ p.symbol = s
               /\ IsMarket(p) \/ myorders[p.order_id] = p
      BY <3>1, WithdrawStands
    <3>3. QED
      BY <3>1, <3>2 DEF StandInv
  <2>4. QED
    BY <2>1, <2>2, <2>3
<1>4. QED
  BY <1>1, <1>2, <1>3

LEMMA StandStep ==
  ASSUME UniqueIds, Least = 1, IInv, CancelInv, StandInv, [Next]_vars
  PROVE  StandInv'
<1>1. CASE LoadRow
  <2>1. Accept(Head(todo)) /\ todo # << >> /\ todo \in Seq(ProperOrders(Least))
    BY <1>1 DEF LoadRow, IInv, DataInv, DataIn
  <2>2. Head(todo) \in ProperOrders(Least) /\ Holds(todo, Head(todo).order_id)
    BY <2>1, TailOnce
  <2>3. ~Somewhere(mybooks, Head(todo).order_id)
    BY <2>2 DEF CancelInv, PlacesInv, ProperOrders, Order
  <2>4. QED
    BY <2>1, <2>2, <2>3, EnterStands
<1>2. CASE \/ LoadDone \/ Ready \/ CommunicateAck \/ CommunicateTrade
           \/ CommunicateReportingMsg \/ Restart \/ UNCHANGED vars
  <2>1. mybooks' = mybooks /\ myorders' = myorders
    BY <1>2 DEF LoadDone, Ready, CommunicateAck, CommunicateTrade,
                CommunicateReportingMsg, Restart, vars, memVars, viewVars
  <2>2. QED
    BY <2>1, SameStands
<1>3. CASE Stop \/ StopInMatch \/ DieDrained
  BY <1>3, ExitStands DEF Stop, StopInMatch, DieDrained
<1>4. QED
  BY <1>1, <1>2, <1>3, MatchStands, RequestStands DEF Next, Progress

LEMMA StandInductive ==
  ASSUME UniqueIds, 0 \notin Quantities
  PROVE  Spec => [](IInv /\ QuietInv /\ CancelInv /\ StandInv)
<1>1. Init => StandInv
  <2> SUFFICES ASSUME Init PROVE StandInv
    OBVIOUS
  <2>1. \A s \in Symbols, side \in Sides : mybooks[s][side] = << >>
    BY DEF Init, ViewInit, EmptyBook
  <2>2. Len(<< >>) = 0
    OBVIOUS
  <2>3. QED
    BY <2>1, <2>2 DEF StandInv, Has
<1>2. IInv /\ CancelInv /\ [Next]_vars => CancelInv'
  BY NextCancel
<1>3. IInv /\ CancelInv /\ StandInv /\ [Next]_vars => StandInv'
  BY StandStep, LeastType
<1>4. QED
  BY QuietInductive, InitCancel, <1>1, <1>2, <1>3, PTL DEF Spec

\* Process and Update keep myorders in step with the books: an order enters
\* both, a match leaves in both what is left of it, and what a modify or a
\* cancel changes in one it changes in the other.  Market orders, which
\* myorders does not take, are gone when the next request is read.
THEOREM RestingOrdersKnown ==
  ASSUME UniqueIds, 0 \notin Quantities
  PROVE  Spec => []Cancelable
<1>1. IInv /\ QuietInv /\ StandInv => Cancelable
  <2> SUFFICES ASSUME IInv, QuietInv, StandInv, AtRest, NEW o \in InBooks
               PROVE  myorders[o.order_id] = o
    BY DEF Cancelable
  <2>1. PICK s \in Symbols, side \in Sides : o \in AllOrders(s, side)
    BY DEF InBooks
  <2>2. PICK i \in 1 .. Len(mybooks[s][side]) : o = mybooks[s][side][i]
    BY <2>1 DEF AllOrders
  <2>3. Quiet(mybooks[s])
    BY RestingQuiet, LeastType
  <2>4. ~IsMarket(o)
    BY <2>2, <2>3 DEF Quiet, NoMarket
  <2>5. Has(mybooks[s][side], o)
    BY <2>2 DEF Has
  <2>6. QED
    BY <2>4, <2>5 DEF StandInv
<1>2. QED
  BY StandInductive, <1>1, PTL
-----------------------------------------------------------------------------
(* The rows of t1: which orders, and in which order *)

Before(s, p, q) ==
  \E i, j \in 1 .. Len(s) : i < j /\ s[i] = p /\ s[j] = q

\* t is the end of s.
EndOf(t, s) ==
  /\ Len(t) <= Len(s)
  /\ \A i \in 1 .. Len(t) : t[i] = s[Len(s) - Len(t) + i]

LEMMA BeforeHas ==
  ASSUME NEW s, NEW p, NEW q, Before(s, p, q)
  PROVE  Has(s, p) /\ Has(s, q)
  BY DEF Before, Has

LEMMA NothingHas == /\ \A p : ~Has(<< >>, p)
                    /\ \A p, q : ~Before(<< >>, p, q)
<1>1. Len(<< >>) = 0
  OBVIOUS
<1>2. \A p : ~Has(<< >>, p)
  BY <1>1 DEF Has
<1>3. QED
  BY <1>2, BeforeHas

LEMMA RemoveOrderBefore ==
  ASSUME NEW S, NEW s \in Seq(S), NEW id
  PROVE  \A p, q : Before(RemoveOrder(s, id), p, q) => Before(s, p, q)
<1> DEFINE P == {i \in 1 .. Len(s) : s[i].order_id # id}
           k == PositionOf(s, id)
           t == RemoveOrder(s, id)
<1>1. CASE Holds(s, id)
  <2>1. P \in SUBSET (1 .. Len(s)) /\ k = FirstOutside(s, P)
    BY DEF PositionOf
  <2> HIDE DEF k
  <2>2. /\ k \in 1 .. Len(s) + 1
        /\ \A i \in 1 .. k - 1 : i \in P
    BY <2>1, FirstOutsideFinds
  <2>3. PICK i \in 1 .. Len(s) : s[i].order_id = id
    BY <1>1 DEF Holds
  <2>4. Len(s) \in Nat /\ i \notin 1 .. k - 1
    BY <2>2, <2>3, LenProperties
  <2>5. k \in 1 .. Len(s)
    BY <2>2, <2>3, <2>4
  <2>6. t = RemoveAt(s, k)
    BY <1>1 DEF RemoveOrder, k
  <2>7. /\ Len(t) = Len(s) - 1
        /\ \A j \in 1 .. Len(s) - 1 : t[j] = IF j < k THEN s[j] ELSE s[j + 1]
    BY <2>5, <2>6, RemoveAtElements
  <2> HIDE DEF t
  <2> SUFFICES ASSUME NEW p, NEW q, Before(t, p, q) PROVE Before(s, p, q)
    BY DEF t
  <2>8. PICK m \in 1 .. Len(t), n \in 1 .. Len(t) : m < n /\ t[m] = p /\ t[n] = q
    BY DEF Before
  <2> DEFINE x == IF m < k THEN m ELSE m + 1
             y == IF n < k THEN n ELSE n + 1
  <2>9. x \in 1 .. Len(s) /\ y \in 1 .. Len(s) /\ x < y
    BY <2>4, <2>5, <2>7, <2>8
  <2>10. s[x] = p /\ s[y] = q
    BY <2>4, <2>7, <2>8
  <2> HIDE DEF x, y
  <2>11. QED
    BY <2>9, <2>10 DEF Before
<1>2. CASE ~Holds(s, id)
  BY <1>2 DEF RemoveOrder
<1>3. QED
  BY <1>1, <1>2

LEMMA AppendHas ==
  ASSUME NEW S, NEW s \in Seq(S), NEW o \in S
  PROVE  /\ \A p : Has(Append(s, o), p) <=> Has(s, p) \/ p = o
         /\ \A p, q : Before(Append(s, o), p, q) =>
                        Before(s, p, q) \/ (Has(s, p) /\ q = o)
<1> DEFINE t == Append(s, o)
<1>1. /\ Len(t) = Len(s) + 1 /\ Len(s) \in Nat /\ t[Len(s) + 1] = o
      /\ \A i \in 1 .. Len(s) : t[i] = s[i]
  BY AppendProperties, LenProperties
<1> HIDE DEF t
<1>2. /\ \A i \in 1 .. Len(t) : i \in 1 .. Len(s) \/ i = Len(s) + 1
      /\ \A i \in 1 .. Len(s) : i \in 1 .. Len(t)
      /\ Len(s) + 1 \in 1 .. Len(t)
  BY <1>1
<1>3. \A p : Has(t, p) <=> Has(s, p) \/ p = o
  BY <1>1, <1>2 DEF Has
<1>4. ASSUME NEW p, NEW q, Before(t, p, q)
      PROVE  Before(s, p, q) \/ (Has(s, p) /\ q = o)
  <2>1. PICK i \in 1 .. Len(t), j \in 1 .. Len(t) : i < j /\ t[i] = p /\ t[j] = q
    BY <1>4 DEF Before
  <2>2. i \in 1 .. Len(s) /\ s[i] = p
    BY <1>1, <2>1
  <2>3. CASE j \in 1 .. Len(s)
    BY <1>1, <2>1, <2>2, <2>3 DEF Before
  <2>4. CASE j = Len(s) + 1
    BY <1>1, <2>1, <2>2, <2>4 DEF Has
  <2>5. QED
    BY <1>2, <2>3, <2>4
<1>5. QED
  BY <1>3, <1>4 DEF t

\* What a row that is loaded was preceded by.
LEMMA EndOfHas ==
  ASSUME NEW S, NEW s \in Seq(S), NEW t \in Seq(S), EndOf(t, s)
  PROVE  /\ \A p : Has(t, p) => Has(s, p)
         /\ t # << >> => /\ EndOf(Tail(t), s) /\ Has(t, Head(t))
                         /\ \A p : Has(s, p) /\ ~Has(t, p) => Before(s, p, Head(t))
<1>1. /\ Len(s) \in Nat /\ Len(t) \in Nat /\ Len(t) <= Len(s)
      /\ \A i \in 1 .. Len(t) : /\ Len(s) - Len(t) + i \in 1 .. Len(s)
                                /\ t[i] = s[Len(s) - Len(t) + i]
  BY LenProperties DEF EndOf
<1>2. \A p : Has(t, p) => Has(s, p)
  BY <1>1 DEF Has
<1>3. ASSUME t # << >>
      PROVE  /\ EndOf(Tail(t), s) /\ Has(t, Head(t))
             /\ \A p : Has(s, p) /\ ~Has(t, p) => Before(s, p, Head(t))
  <2> DEFINE u == Tail(t)
             d == Len(s) - Len(t)
  <2>1. /\ Head(t) = t[1] /\ Len(u) = Len(t) - 1 /\ Len(t) \in Nat \ {0}
        /\ \A i \in 1 .. Len(u) : u[i] = t[i + 1]
    BY <1>3, HeadTailProperties, EmptySeq, ElementOfSeq
  <2> HIDE DEF u
  <2>2. /\ 1 \in 1 .. Len(t) /\ Len(u) <= Len(s)
        /\ \A i \in 1 .. Len(u) :
              i + 1 \in 1 .. Len(t) /\ d + (i + 1) = Len(s) - Len(u) + i
    BY <1>1, <2>1
  <2>3. EndOf(u, s)
    BY <1>1, <2>1, <2>2 DEF EndOf
  <2>4. Has(t, Head(t))
    BY <2>1, <2>2 DEF Has
  <2>5. ASSUME NEW p, Has(s, p), ~Has(t, p) PROVE Before(s, p, Head(t))
    <3>1. PICK i \in 1 .. Len(s) : s[i] = p
      BY <2>5 DEF Has
    <3>2. CASE i <= d
      <4>1. d + 1 \in 1 .. Len(s) /\ i < d + 1 /\ s[d + 1] = Head(t)
        BY <1>1, <2>1, <2>2, <3>2
      <4>2. QED
        BY <3>1, <4>1 DEF Before
    <3>3. CASE d < i
      <4>1. i - d \in 1 .. Len(t) /\ d + (i - d) = i
        BY <1>1, <3>3
      <4>2. t[i - d] = p
        BY <1>1, <3>1, <4>1
      <4>3. QED
        BY <2>5, <4>1, <4>2 DEF Has
    <3>4. QED
      BY <1>1, <3>2, <3>3
  <2>6. QED
    BY <2>3, <2>4, <2>5 DEF u
<1>4. QED
  BY <1>2, <1>3
-----------------------------------------------------------------------------
(* Rows and books *)

Stands(books, p) == Has(books[p.symbol][p.buysell], p)

\* A limit row stands in the book.  A market row stands there too, or came
\* when only its own side of the book had limit orders.
RowsStand(t, books) ==
  /\ \A p : Has(t, p) /\ ~IsMarket(p) => Stands(books, p)
  /\ \A p, q : Before(t, p, q) /\ ~IsMarket(p) /\ IsMarket(q) /\ p.symbol = q.symbol
                 => p.buysell = q.buysell \/ Stands(books, q)

\* Rows that make no trade when they are loaded one after the other.
Harmless(t) ==
  /\ \A p, q : Before(t, p, q) /\ ~IsMarket(p) /\ IsMarket(q) /\ p.symbol = q.symbol
                 => p.buysell = q.buysell
  /\ \A p, q : /\ Has(t, p) /\ ~IsMarket(p) /\ p.buysell = "BUY"
               /\ Has(t, q) /\ ~IsMarket(q) /\ q.buysell = "SELL"
               /\ p.symbol = q.symbol
               => p.price < q.price

\* u has no rows but t's, in t's order.
FewerRows(u, t) ==
  /\ \A p : Has(u, p) => Has(t, p)
  /\ \A p, q : Before(u, p, q) => Before(t, p, q)

LEMMA RowTyped ==
  ASSUME NEW least \in {0, 1}, NEW d \in ProperDB(least), NEW p, Has(d.t1, p)
  PROVE  /\ p \in ProperOrders(least) /\ p \in Order
         /\ p.symbol \in Symbols /\ p.buysell \in Sides /\ p.order_id \in Ids
<1>1. p \in ProperOrders(least)
  BY HasTyped DEF ProperDB
<1>2. QED
  BY <1>1 DEF ProperOrders, Order

LEMMA HarmlessFewer ==
  ASSUME NEW t, NEW u, FewerRows(u, t), Harmless(t)
  PROVE  Harmless(u)
  BY DEF FewerRows, Harmless

LEMMA StandFewer ==
  ASSUME NEW t, NEW u, FewerRows(u, t), NEW books, NEW c, RowsStand(t, books),
         \A p : Has(u, p) /\ Stands(books, p) => Stands(c, p)
  PROVE  RowsStand(u, c)
<1>1. \A p : Has(u, p) /\ ~IsMarket(p) => Stands(c, p)
  BY DEF FewerRows, RowsStand
<1>2. ASSUME NEW p, NEW q, Before(u, p, q), ~IsMarket(p), IsMarket(q),
             p.symbol = q.symbol, p.buysell # q.buysell
      PROVE  Stands(c, q)
  <2>1. Before(t, p, q) /\ Has(u, q)
    BY <1>2, BeforeHas DEF FewerRows
  <2>2. Stands(books, q)
    BY <1>2, <2>1 DEF RowsStand
  <2>3. QED
    BY <2>1, <2>2
<1>3. QED
  BY <1>1, <1>2 DEF RowsStand

LEMMA FewerRowsSame == \A t : FewerRows(t, t)
  BY DEF FewerRows

LEMMA DeleteRowFewer ==
  ASSUME NEW least \in {0, 1}, NEW d \in ProperDB(least), NEW id
  PROVE  /\ FewerRows(DeleteRow(d, id).t1, d.t1)
         /\ Once(d.t1) => \A p : Has(DeleteRow(d, id).t1, p) => p.order_id # id
<1>1. d \in DB /\ d.t1 \in Seq(ProperOrders(least))
  BY DEF ProperDB
<1>2. DeleteRow(d, id).t1 = RemoveOrder(d.t1, id)
  BY <1>1 DEF DeleteRow, DB
<1>3. FewerRows(RemoveOrder(d.t1, id), d.t1)
  BY <1>1, RemoveOrderHas, RemoveOrderBefore DEF FewerRows
<1>4. Once(d.t1) => \A p : Has(RemoveOrder(d.t1, id), p) => p.order_id # id
  BY <1>1, RemoveOrderOnce, HasHolds
<1>5. QED
  BY <1>2, <1>3, <1>4

\* A row is added of an order that stands.
LEMMA AddRowStands ==
  ASSUME NEW least \in {0, 1}, NEW d \in ProperDB(least),
         NEW o \in ProperOrders(least), NEW books,
         RowsStand(d.t1, books), Stands(books, o)
  PROVE  RowsStand(AddRow(d, o).t1, books)
<1>1. CASE AddRow(d, o).t1 = d.t1
  BY <1>1
<1>2. CASE AddRow(d, o).t1 = Append(d.t1, o)
  <2> DEFINE t == d.t1
             u == Append(t, o)
  <2>1. t \in Seq(ProperOrders(least))
    BY DEF ProperDB
  <2> HIDE DEF t
  <2>2. /\ \A p : Has(u, p) <=> Has(t, p) \/ p = o
        /\ \A p, q : Before(u, p, q) => Before(t, p, q) \/ (Has(t, p) /\ q = o)
    BY <2>1, AppendHas
  <2> HIDE DEF u
  <2>3. RowsStand(u, books)
    BY <2>2 DEF RowsStand, t
  <2>4. QED
    BY <1>2, <2>3 DEF u, t
<1>3. QED
  BY <1>1, <1>2 DEF AddRow

\* The rows that a quiet engine leaves behind are harmless.
LEMMA QuietHarmless ==
  ASSUME IInv, \A s \in Symbols : Quiet(mybooks[s]), RowsStand(db.t1, mybooks)
  PROVE  Harmless(db.t1)
<1>1. \A p : Has(db.t1, p) => p.symbol \in Symbols /\ p.buysell \in Sides
  BY RowTyped, LeastType DEF IInv, DataInv, DataIn
<1>2. ASSUME NEW p, NEW q, Before(db.t1, p, q), ~IsMarket(p), IsMarket(q),
             p.symbol = q.symbol
      PROVE  p.buysell = q.buysell
  <2>1. Has(db.t1, q)
    BY <1>2, BeforeHas
  <2>2. ~Stands(mybooks, q)
    BY <1>1, <1>2, <2>1 DEF Stands, Has, Quiet, NoMarket
  <2>3. QED
    BY <1>2, <2>2 DEF RowsStand
<1>3. ASSUME NEW p, Has(db.t1, p), ~IsMarket(p), p.buysell = "BUY",
             NEW q, Has(db.t1, q), ~IsMarket(q), q.buysell = "SELL",
             p.symbol = q.symbol
      PROVE  p.price < q.price
  <2>1. Stands(mybooks, p) /\ Stands(mybooks, q) /\ p.symbol \in Symbols
    BY <1>1, <1>3 DEF RowsStand
  <2>2. Has(mybooks[p.symbol]["BUY"], p) /\ Has(mybooks[p.symbol]["SELL"], q)
    BY <1>3, <2>1 DEF Stands
  <2>3. QED
    BY <2>1, <2>2 DEF Has, Quiet
<1>4. QED
  BY <1>2, <1>3 DEF Harmless

\* Where two heads cross, two orders that stand there do.
LEMMA CrossingOrders ==
  ASSUME NEW least \in {0, 1}, NEW b \in Books(least), Crosses(b)
  PROVE  \E p, q : /\ Has(b["BUY"], p) /\ Has(b["SELL"], q)
                   /\ p.buysell = "BUY" /\ q.buysell = "SELL"
                   /\ ~IsMarket(p) => p.price \in Nat
                   /\ ~IsMarket(q) => q.price \in Nat
                   /\ ~IsMarket(p) /\ ~IsMarket(q) => p.price >= q.price
<1>1. /\ HeadBuy(b) = b["BUY"][1] /\ HeadSell(b) = b["SELL"][1]
      /\ 1 \in 1 .. Len(b["BUY"]) /\ 1 \in 1 .. Len(b["SELL"])
      /\ HeadBuy(b) \in SideOrders("BUY", least)
      /\ HeadSell(b) \in SideOrders("SELL", least)
  BY Heads
<1>2. /\ HeadBuy(b).buysell = "BUY" /\ HeadSell(b).buysell = "SELL"
      /\ ~IsMarket(HeadBuy(b)) => HeadBuy(b).price \in Nat
      /\ ~IsMarket(HeadSell(b)) => HeadSell(b).price \in Nat
  BY <1>1, OrderFields DEF Sides
<1>3. Has(b["BUY"], HeadBuy(b)) /\ Has(b["SELL"], HeadSell(b))
  BY <1>1 DEF Has
<1>4. ~IsMarket(HeadBuy(b)) /\ ~IsMarket(HeadSell(b)) =>
        HeadBuy(b).price >= HeadSell(b).price
  BY DEF Crosses
<1>5. QED
  BY <1>2, <1>3, <1>4

LEMMA QuietUncrossed ==
  ASSUME NEW least \in {0, 1}, NEW b \in Books(least), Quiet(b)
  PROVE  ~Crosses(b)
<1> SUFFICES ASSUME Crosses(b) PROVE FALSE
  OBVIOUS
<1>1. PICK p, q : /\ Has(b["BUY"], p) /\ Has(b["SELL"], q)
                  /\ ~IsMarket(p) => p.price \in Nat
                  /\ ~IsMarket(q) => q.price \in Nat
                  /\ ~IsMarket(p) /\ ~IsMarket(q) => p.price >= q.price
  BY CrossingOrders
<1>2. ~IsMarket(p) /\ ~IsMarket(q) /\ p.price < q.price
  BY <1>1 DEF Has, Quiet, NoMarket, Sides
<1>3. QED
  BY <1>1, <1>2
-----------------------------------------------------------------------------
(* LimitRowsRest and LoadNeverTrades *)

\* While the engine is down or loads t1: what has been loaded rests, nothing
\* else does, and nothing has met an order it could trade with.
LoadInv ==
  writetodatabase = 0 =>
    /\ pc \in {"load", "match", "wait", "down"} /\ rp = None
    /\ Harmless(db.t1)
    /\ \A s \in Symbols : ~Crosses(mybooks[s])
    /\ pc # "down" =>
         /\ EndOf(todo, db.t1)
         /\ \A p : Has(db.t1, p) /\ ~Has(todo, p) /\ ~IsMarket(p) => Stands(mybooks, p)
         /\ \A s \in Symbols, side \in Sides : \A p :
               Has(mybooks[s][side], p) => Has(db.t1, p)

\* From then on, whatever requests do.
WorkInv ==
  writetodatabase = 1 =>
    /\ pc \in {"idle", "ack", "match", "trade", "report"}
    /\ RowsStand(db.t1, mybooks)

RowsInv == LoadInv /\ WorkInv

\* What is known of the engine already.
EngineInv == IInv /\ QuietInv /\ CancelInv /\ StandInv

LEMMA ExitRows ==
  ASSUME Exit, Harmless(db'.t1)
  PROVE  RowsInv'
<1>1. /\ writetodatabase' = 0 /\ pc' = "down" /\ rp' = None
      /\ \A s \in Symbols : mybooks'[s] = EmptyBook
  BY DEF Exit
<1>2. ~Crosses(EmptyBook)
  BY EmptyBookProper, QuietUncrossed, LeastType
<1>3. QED
  BY <1>1, <1>2 DEF RowsInv, LoadInv, WorkInv

LEMMA StillRows ==
  ASSUME RowsInv, UNCHANGED <<mybooks, db, todo, writetodatabase>>,
         writetodatabase = 0 => rp' = rp /\ pc' \in {"load", "match", "wait"} /\ pc # "down",
         writetodatabase = 1 => pc' \in {"idle", "ack", "match", "trade", "report"}
  PROVE  RowsInv'
  BY DEF RowsInv, LoadInv, WorkInv, RowsStand, Stands, Harmless, EndOf

LEMMA WorkingRows ==
  ASSUME IInv, RowsInv, pc \in {"idle", "ack", "trade", "report"}
  PROVE  writetodatabase = 1 /\ RowsStand(db.t1, mybooks)
  BY DEF IInv, RestTypeOK, RowsInv, LoadInv, WorkInv

LEMMA LoadingRows ==
  ASSUME IInv, RowsInv, pc \in {"load", "wait", "down"}
  PROVE  writetodatabase = 0
  BY DEF IInv, RestTypeOK, RowsInv, WorkInv

LEMMA StopRows ==
  ASSUME StopsOnlyWhenIdle, Least = 1, EngineInv, RowsInv,
         Stop \/ StopInMatch \/ DieDrained
  PROVE  RowsInv'
<1>1. db' = db /\ Exit /\ (pc = "idle" \/ (pc = "match" /\ Drained(mybooks[sym])))
  BY DEF Stop, StopInMatch, DieDrained
<1>2. CASE writetodatabase = 0
  BY <1>1, <1>2, ExitRows DEF RowsInv, LoadInv, Harmless
<1>3. CASE writetodatabase = 1
  <2>1. \A s \in Symbols : Quiet(mybooks[s])
    <3>1. CASE pc = "idle"
      BY <3>1, RestingQuiet DEF AtRest, EngineInv
    <3>2. CASE pc = "match" /\ Drained(mybooks[sym])
      <4>1. mybooks[sym]["BUY"] = << >> /\ mybooks[sym]["SELL"] = << >>
        BY <3>2 DEF Drained, EmptySide
      <4>2. Len(<< >>) = 0
        OBVIOUS
      <4>3. Quiet(mybooks[sym])
        BY <4>1, <4>2 DEF Quiet, NoMarket, Sides
      <4>4. \A s \in Symbols : s # sym => Quiet(mybooks[s])
        BY DEF EngineInv, QuietInv, SidesInv
      <4>5. QED
        BY <4>3, <4>4
    <3>3. QED
      BY <1>1, <3>1, <3>2
  <2>2. RowsStand(db.t1, mybooks)
    BY <1>3 DEF RowsInv, WorkInv
  <2>3. Harmless(db.t1)
    BY <2>1, <2>2, QuietHarmless DEF EngineInv
  <2>4. QED
    BY <1>1, <2>3, ExitRows
<1>4. QED
  BY <1>2, <1>3 DEF EngineInv, IInv, RestTypeOK

LEMMA RestartRows ==
  ASSUME EngineInv, RowsInv, Restart
  PROVE  RowsInv'
<1>1. /\ pc = "down" /\ pc' = "load" /\ todo' = db.t1
      /\ UNCHANGED <<mybooks, db, writetodatabase, rp>>
  BY DEF Restart, viewVars
<1>2. writetodatabase = 0 /\ \A s \in Symbols : mybooks[s] = EmptyBook
  BY <1>1 DEF EngineInv, CancelInv, PhaseInv
<1>3. \A s \in Symbols, side \in Sides : mybooks[s][side] = << >>
  BY <1>2 DEF EmptyBook
<1>4. /\ Harmless(db.t1) /\ rp = None
      /\ \A s \in Symbols : ~Crosses(mybooks[s])
  BY <1>2 DEF RowsInv, LoadInv
<1>5. EndOf(db.t1, db.t1)
  <2>1. db.t1 \in Seq(ProperOrders(Least))
    BY DEF EngineInv, IInv, DataInv, DataIn, ProperDB
  <2>2. Len(db.t1) \in Nat
    BY <2>1, LenProperties
  <2>3. QED
    BY <2>2 DEF EndOf
<1>6. \A s \in Symbols, side \in Sides : \A p : ~Has(mybooks[s][side], p)
  BY <1>3, NothingHas
<1>7. LoadInv'
  BY <1>1, <1>4, <1>5, <1>6 DEF LoadInv, Harmless, EndOf
<1>8. WorkInv'
  BY <1>1, <1>2 DEF WorkInv
<1>9. QED
  BY <1>7, <1>8 DEF RowsInv

LEMMA ReadyRows ==
  ASSUME EngineInv, RowsInv, Ready
  PROVE  RowsInv'
<1>1. /\ pc = "wait" /\ pc' = "idle" /\ writetodatabase' = 1
      /\ UNCHANGED <<mybooks, db>>
  BY DEF Ready, viewVars
<1>2. writetodatabase = 0 /\ todo = << >>
  BY <1>1, LoadingRows DEF EngineInv, CancelInv, PhaseInv
<1>3. RowsStand(db.t1, mybooks)
  BY <1>1, <1>2, NothingHas DEF RowsInv, LoadInv, RowsStand, Harmless
<1>4. QED
  BY <1>1, <1>3 DEF RowsInv, LoadInv, WorkInv, RowsStand, Stands

\* A row of t1 enters the book and meets nothing it could trade with.
LEMMA LoadRowRows ==
  ASSUME Least = 1, EngineInv, RowsInv, LoadRow
  PROVE  RowsInv'
<1> DEFINE o == Head(todo)
<1>1. /\ pc = "load" /\ todo # << >> /\ Accept(o) /\ todo' = Tail(todo)
      /\ pc' = "match" /\ UNCHANGED <<rp, writetodatabase, db>>
  BY DEF LoadRow
<1>2. writetodatabase = 0
  BY <1>1, LoadingRows DEF EngineInv
<1>3. /\ rp = None /\ Harmless(db.t1) /\ EndOf(todo, db.t1)
      /\ \A s \in Symbols : ~Crosses(mybooks[s])
      /\ \A p : Has(db.t1, p) /\ ~Has(todo, p) /\ ~IsMarket(p) => Stands(mybooks, p)
      /\ \A s \in Symbols, side \in Sides : \A p :
            Has(mybooks[s][side], p) => Has(db.t1, p)
  BY <1>1, <1>2 DEF RowsInv, LoadInv
<1>4. /\ mybooks \in [Symbols -> Books(Least)] /\ db \in ProperDB(Least)
      /\ todo \in Seq(ProperOrders(Least)) /\ db.t1 \in Seq(ProperOrders(Least))
      /\ mybooks' = BooksWith(mybooks, o) /\ DataInv
  BY <1>1 DEF EngineInv, IInv, DataInv, DataIn, Accept, ProperDB
<1>5. o \in ProperOrders(Least) /\ Has(todo, o) /\ Holds(todo, o.order_id)
  BY <1>1, <1>4, TailOnce, EndOfHas, <1>3
<1>6. /\ EndOf(Tail(todo), db.t1) /\ Has(db.t1, o)
      /\ \A p : Has(db.t1, p) /\ ~Has(todo, p) => Before(db.t1, p, o)
  BY <1>1, <1>3, <1>4, <1>5, EndOfHas
<1>7. \A p : Has(todo, p) <=> p = o \/ Has(Tail(todo), p)
  BY <1>1, <1>4, TailHas
<1> HIDE DEF o
<1>8. /\ o \in Order /\ o.symbol \in Symbols /\ o.buysell \in Sides /\ o.order_id \in Ids
  BY <1>5 DEF ProperOrders, Order
<1>9. \A s \in Symbols, side \in Sides : \A p :
         Has(mybooks'[s][side], p) <=>
           \/ Has(mybooks[s][side], p)
           \/ p = o /\ s = o.symbol /\ side = o.buysell
  BY <1>4, <1>5, LeastType, WithHas
<1>10. ASSUME NEW p, Has(db.t1, p), ~Has(Tail(todo), p), ~IsMarket(p)
       PROVE  Stands(mybooks', p)
  <2>1. CASE p = o
    BY <1>8, <1>9, <2>1 DEF Stands
  <2>2. CASE p # o
    <3>1. Stands(mybooks, p)
      BY <1>3, <1>7, <1>10, <2>2
    <3>2. p.symbol \in Symbols /\ p.buysell \in Sides
      BY <1>4, <1>10, LeastType, RowTyped
    <3>3. QED
      BY <1>9, <3>1, <3>2 DEF Stands
  <2>3. QED
    BY <2>1, <2>2
<1>11. \A s \in Symbols, side \in Sides : \A p :
          Has(mybooks'[s][side], p) => Has(db.t1, p)
  BY <1>3, <1>6, <1>9
<1>12. ASSUME NEW s \in Symbols, NEW side \in Sides, NEW p, Has(mybooks[s][side], p)
       PROVE  ~IsMarket(p) /\ p.symbol = s /\ p.buysell = side
              /\ Has(db.t1, p) /\ Before(db.t1, p, o)
  <2>1. Quiet(mybooks[s])
    BY <1>1, RestingQuiet DEF EngineInv, AtRest
  <2>2. ~IsMarket(p)
    BY <1>12, <2>1 DEF Quiet, NoMarket, Has
  <2>3. p.symbol = s /\ p.buysell = side /\ p.order_id \in Ids
        /\ Somewhere(mybooks, p.order_id)
    BY <1>12, StandingTyped DEF EngineInv, StandInv
  <2>4. Has(db.t1, p)
    BY <1>3, <1>12
  <2>5. ~Has(todo, p)
    BY <2>3, HasHolds DEF EngineInv, CancelInv, PlacesInv
  <2>6. QED
    BY <1>6, <2>2, <2>3, <2>4, <2>5
<1>13. ASSUME NEW s \in Symbols, Crosses(mybooks'[s]) PROVE FALSE
  <2>1. mybooks' \in [Symbols -> Books(Least)]
        /\ \A x \in Symbols \ {o.symbol} : mybooks'[x] = mybooks[x]
    BY <1>1, <1>4, <1>5, LeastType, AcceptData DEF DataInv, o
  <2>2. s = o.symbol
    BY <1>3, <1>13, <2>1
  <2>3. mybooks'[s] \in Books(Least)
    BY <2>1
  <2>4. PICK p, q : /\ Has(mybooks'[s]["BUY"], p) /\ Has(mybooks'[s]["SELL"], q)
                    /\ p.buysell = "BUY" /\ q.buysell = "SELL"
                    /\ ~IsMarket(p) => p.price \in Nat
                    /\ ~IsMarket(q) => q.price \in Nat
                    /\ ~IsMarket(p) /\ ~IsMarket(q) => p.price >= q.price
    BY <1>13, <2>3, LeastType, CrossingOrders
  <2>5. /\ Has(mybooks[s]["BUY"], p) \/ p = o
        /\ Has(mybooks[s]["SELL"], q) \/ q = o
    BY <1>9, <2>4 DEF Sides
  <2>6. p # o \/ q # o
    BY <2>4
  <2>7. /\ p # o => ~IsMarket(p) /\ Before(db.t1, p, o)
        /\ q # o => ~IsMarket(q) /\ Before(db.t1, q, o)
        /\ p.symbol = s /\ q.symbol = s /\ Has(db.t1, p) /\ Has(db.t1, q)
    BY <1>6, <1>12, <2>2, <2>5 DEF Sides
  <2>8. ~IsMarket(o)
    BY <1>3, <2>4, <2>6, <2>7 DEF Harmless
  <2>9. ~IsMarket(p) /\ ~IsMarket(q)
    BY <2>7, <2>8
  <2>10. p.price < q.price
    BY <1>3, <2>4, <2>7, <2>9 DEF Harmless
  <2>11. QED
    BY <2>4, <2>9, <2>10
<1>14. LoadInv'
  BY <1>1, <1>2, <1>3, <1>6, <1>10, <1>11, <1>13 DEF LoadInv, Harmless, EndOf, Stands
<1>15. WorkInv'
  BY <1>1, <1>2 DEF WorkInv
<1>16. QED
  BY <1>14, <1>15 DEF RowsInv

LEMMA MatchEndsRows ==
  ASSUME Least = 1, EngineInv, RowsInv, MatchEnds
  PROVE  RowsInv'
<1>1. /\ pc = "match" /\ sym \in Symbols /\ Match(sym) /\ ~Crosses(mybooks[sym])
      /\ db' = db /\ UNCHANGED <<rp, todo, writetodatabase>>
      /\ pc' = IF writetodatabase = 1 THEN "idle" ELSE "load"
      /\ mybooks \in [Symbols -> Books(Least)] /\ db \in ProperDB(Least)
  BY EndsUncrossed
  DEF MatchEnds, WriteMatch, EngineInv, IInv, ControlInv, DataInv, DataIn
<1>2. \A t \in Symbols, side \in Sides : \A p :
         /\ Has(mybooks'[t][side], p) => Has(mybooks[t][side], p)
         /\ Has(mybooks[t][side], p) /\ ~IsMarket(p) => Has(mybooks'[t][side], p)
         /\ \/ \A other \in Sides \ {side} : t = sym /\ mybooks[t][other] = << >>
            \/ Has(mybooks[t][side], p) => Has(mybooks'[t][side], p)
  BY <1>1, EndHas DEF EngineInv
<1>3. \A p : Has(db.t1, p) => p.symbol \in Symbols /\ p.buysell \in Sides
  BY <1>1, LeastType, RowTyped
<1>4. \A p : Has(db.t1, p) /\ ~IsMarket(p) /\ Stands(mybooks, p) => Stands(mybooks', p)
  BY <1>2, <1>3 DEF Stands
<1>5. CASE writetodatabase = 0
  <2>1. ASSUME NEW s \in Symbols PROVE ~Crosses(mybooks'[s])
    <3>1. ~Crosses(mybooks[s])
      BY <1>5 DEF RowsInv, LoadInv
    <3>2. s # sym => mybooks'[s] = mybooks[s]
      BY <1>1 DEF Match
    <3>3. mybooks'[sym] \in Books(Least) /\ Quiet(mybooks'[sym])
      BY <1>1, MatchData, LeastType DEF EngineInv, IInv, DataInv, Trades
    <3>4. QED
      BY <3>1, <3>2, <3>3, LeastType, QuietUncrossed
  <2>2. /\ rp = None /\ Harmless(db.t1) /\ EndOf(todo, db.t1)
        /\ \A p : Has(db.t1, p) /\ ~Has(todo, p) /\ ~IsMarket(p) => Stands(mybooks, p)
        /\ \A s \in Symbols, side \in Sides : \A p :
              Has(mybooks[s][side], p) => Has(db.t1, p)
    BY <1>1, <1>5 DEF RowsInv, LoadInv
  <2>3. \A p : Has(db.t1, p) /\ ~Has(todo, p) /\ ~IsMarket(p) => Stands(mybooks', p)
    BY <1>4, <2>2
  <2>4. \A s \in Symbols, side \in Sides : \A p :
           Has(mybooks'[s][side], p) => Has(db.t1, p)
    BY <1>2, <2>2
  <2>5. LoadInv'
    BY <1>1, <1>5, <2>1, <2>2, <2>3, <2>4 DEF LoadInv, Stands
  <2>6. QED
    BY <1>1, <1>5, <2>5 DEF RowsInv, WorkInv
<1>6. CASE writetodatabase = 1
  <2>1. RowsStand(db.t1, mybooks)
    BY <1>6 DEF RowsInv, WorkInv
  <2>2. ASSUME NEW p, NEW q, Before(db.t1, p, q), ~IsMarket(p), IsMarket(q),
               p.symbol = q.symbol, p.buysell # q.buysell
        PROVE  Stands(mybooks', q)
    <3>1. /\ Has(db.t1, p) /\ Has(db.t1, q) /\ Stands(mybooks, p) /\ Stands(mybooks, q)
      BY <2>1, <2>2, BeforeHas DEF RowsStand
    <3>2. /\ p.symbol \in Symbols /\ p.buysell \in Sides
          /\ q.symbol \in Symbols /\ q.buysell \in Sides
      BY <1>3, <3>1
    <3>3. mybooks[q.symbol][p.buysell] # << >>
      BY <2>2, <3>1, NothingHas DEF Stands
    <3>4. QED
      BY <1>2, <2>2, <3>1, <3>2, <3>3 DEF Stands
  <2>3. RowsStand(db.t1, mybooks')
    BY <1>4, <2>1, <2>2 DEF RowsStand
  <2>4. QED
    BY <1>1, <1>6, <2>3 DEF RowsInv, LoadInv, WorkInv, RowsStand, Stands
<1>7. QED
  BY <1>5, <1>6 DEF EngineInv, IInv, RestTypeOK

LEMMA MatchTradesRows ==
  ASSUME Least = 1, EngineInv, RowsInv, MatchTrades
  PROVE  RowsInv'
<1> DEFINE A == ReportOf(sym).orderA
           B == ReportOf(sym).orderB
           d1 == DeleteRow(db, A.order_id)
           d2 == DeleteRow(d1, B.order_id)
           d3 == Reinserted(d2, A)
           d4 == Reinserted(d3, B)
<1>1. /\ pc = "match" /\ sym \in Symbols /\ Match(sym) /\ Crosses(mybooks[sym])
      /\ pc' = "trade" /\ UNCHANGED <<todo, writetodatabase>> /\ WriteMatch
      /\ mybooks \in [Symbols -> Books(Least)] /\ db \in ProperDB(Least)
      /\ Once(db.t1)
  BY DEF MatchTrades, Trades, EngineInv, IInv, ControlInv, DataInv, DataIn, CancelInv, PlacesInv
<1>2. writetodatabase = 1 /\ RowsStand(db.t1, mybooks)
  BY <1>1 DEF RowsInv, LoadInv, WorkInv, EngineInv, IInv, RestTypeOK
<1>3. db' = d4
  <2>1. MatchWrites(sym) = <<db, d1, d2, d3, d4>>
    BY DEF MatchWrites
  <2>2. MatchWrites(sym)[5] = d4
    BY <2>1
  <2>3. QED
    BY <1>1, <1>2, <2>2 DEF WriteMatch
<1>4. /\ A \in Order /\ A.buysell = "SELL" /\ B \in Order /\ B.buysell = "BUY"
      /\ A.symbol = sym /\ B.symbol = sym
      /\ \A t \in Symbols, side \in Sides : \A p :
            /\ Has(mybooks[t][side], p)
            /\ p.order_id # A.order_id /\ p.order_id # B.order_id
            => Has(mybooks'[t][side], p)
      /\ A.quantity > 0 => Has(mybooks'[sym]["SELL"], A)
      /\ B.quantity > 0 => Has(mybooks'[sym]["BUY"], B)
  BY <1>1, TradeHas DEF EngineInv
<1>5. /\ A.quantity > 0 => A \in ProperOrders(Least)
      /\ B.quantity > 0 => B \in ProperOrders(Least)
  BY <1>1, LeastType, ReportTyped
<1>6. /\ A.quantity > 0 => Stands(mybooks', A)
      /\ B.quantity > 0 => Stands(mybooks', B)
  BY <1>4 DEF Stands
<1> HIDE DEF A, B
<1>7. /\ d1 \in ProperDB(Least) /\ Once(d1.t1) /\ FewerRows(d1.t1, db.t1)
      /\ \A p : Has(d1.t1, p) => p.order_id # A.order_id
  BY <1>1, LeastType, DeleteRowProper, DeleteRowOnce, DeleteRowFewer
<1> HIDE DEF d1
<1>8. /\ d2 \in ProperDB(Least) /\ FewerRows(d2.t1, d1.t1)
      /\ \A p : Has(d2.t1, p) => p.order_id # B.order_id
  BY <1>7, LeastType, DeleteRowProper, DeleteRowOnce, DeleteRowFewer
<1> HIDE DEF d2
<1>9. FewerRows(d2.t1, db.t1)
  BY <1>7, <1>8 DEF FewerRows
<1>10. ASSUME NEW p, Has(d2.t1, p), Stands(mybooks, p)
       PROVE  Stands(mybooks', p)
  <2>1. p.order_id # A.order_id /\ p.order_id # B.order_id
    BY <1>7, <1>8, <1>10 DEF FewerRows
  <2>2. p.symbol \in Symbols /\ p.buysell \in Sides
    BY <1>8, <1>10, LeastType, RowTyped
  <2>3. QED
    BY <1>4, <1>10, <2>1, <2>2 DEF Stands
<1>11. RowsStand(d2.t1, mybooks')
  BY <1>2, <1>9, <1>10, StandFewer
<1>12. d3 \in ProperDB(Least) /\ RowsStand(d3.t1, mybooks')
  BY <1>5, <1>6, <1>8, <1>11, LeastType, AddRowProper, AddRowStands DEF Reinserted
<1> HIDE DEF d3
<1>13. RowsStand(d4.t1, mybooks')
  BY <1>5, <1>6, <1>12, LeastType, AddRowStands DEF Reinserted
<1>14. RowsStand(db'.t1, mybooks')
  BY <1>3, <1>13
<1>15. QED
  BY <1>1, <1>2, <1>14 DEF RowsInv, LoadInv, WorkInv, RowsStand, Stands

\* A row stays of an order that stays.
LEMMA KeptStands ==
  ASSUME IInv, NEW c, NEW u, FewerRows(u, db.t1), RowsStand(db.t1, mybooks),
         \A s \in Symbols, side \in Sides : \A p :
            Has(u, p) /\ Has(mybooks[s][side], p) => Has(c[s][side], p)
  PROVE  RowsStand(u, c)
<1>1. \A p : Has(u, p) => p.symbol \in Symbols /\ p.buysell \in Sides
  BY LeastType, RowTyped DEF IInv, DataInv, DataIn, FewerRows
<1>2. \A p : Has(u, p) /\ Stands(mybooks, p) => Stands(c, p)
  BY <1>1 DEF Stands
<1>3. QED
  BY <1>2, StandFewer

LEMMA NewRows ==
  ASSUME EngineInv, RowsInv, ProcessNew
  PROVE  RowsInv'
<1>1. PICK o \in NewOrders : AcceptOrder(o) \/ RejectOrder(o)
  BY DEF ProcessNew
<1>2. /\ pc = "idle" /\ pc' = "ack" /\ writetodatabase' = writetodatabase
      /\ todo' = todo
  BY <1>1 DEF AcceptOrder, RejectOrder, Receive
<1>3. writetodatabase = 1 /\ RowsStand(db.t1, mybooks)
  BY <1>2, WorkingRows DEF EngineInv
<1>4. o \in ProperOrders(Least) /\ o.symbol \in Symbols /\ o.buysell \in Sides
  BY NewOrdersProper DEF ProperOrders, Order
<1>5. CASE AcceptOrder(o)
  <2>1. /\ mybooks' = BooksWith(mybooks, o) /\ db' = AddRow(db, o)
        /\ mybooks \in [Symbols -> Books(Least)] /\ db \in ProperDB(Least) /\ IInv
    BY <1>5 DEF AcceptOrder, Accept, EngineInv, IInv, DataInv, DataIn
  <2>2. \A s \in Symbols, side \in Sides : \A p :
           Has(mybooks'[s][side], p) <=>
             \/ Has(mybooks[s][side], p)
             \/ p = o /\ s = o.symbol /\ side = o.buysell
    BY <1>4, <2>1, LeastType, WithHas
  <2>3. RowsStand(db.t1, mybooks')
    BY <1>3, <2>1, <2>2, FewerRowsSame, KeptStands
  <2>4. Stands(mybooks', o)
    BY <1>4, <2>2 DEF Stands
  <2>5. RowsStand(AddRow(db, o).t1, mybooks')
    BY <1>4, <2>1, <2>3, <2>4, LeastType, AddRowStands
  <2>6. QED
    BY <1>2, <1>3, <2>1, <2>5 DEF RowsInv, LoadInv, WorkInv, RowsStand, Stands
<1>6. CASE RejectOrder(o)
  <2>1. UNCHANGED <<mybooks, db, todo, writetodatabase>>
    BY <1>2, <1>6 DEF RejectOrder, viewVars
  <2>2. QED
    BY <1>2, <1>3, <2>1, StillRows
<1>7. QED
  BY <1>1, <1>5, <1>6

LEMMA ModifyRows ==
  ASSUME Least = 1, EngineInv, RowsInv, ProcessModify
  PROVE  RowsInv'
<1>1. PICK id \in Ids, price \in Prices, quantity \in Quantities :
         \/ ModifyUnknown(id, price, quantity)
         \/ ModifyGone(id, price, quantity)
         \/ ModifyOrder(id, price, quantity)
         \/ DieInModify(id, price, quantity)
  BY DEF ProcessModify
<1>2. pc = "idle"
  BY <1>1 DEF ModifyUnknown, ModifyGone, ModifyOrder, DieInModify, Receive
<1>3. writetodatabase = 1 /\ RowsStand(db.t1, mybooks)
  BY <1>2, WorkingRows DEF EngineInv
<1>4. /\ IInv /\ CancelInv /\ StandInv /\ Once(db.t1) /\ db \in ProperDB(Least)
      /\ mybooks \in [Symbols -> Books(Least)]
  BY DEF EngineInv, IInv, DataInv, DataIn, CancelInv, PlacesInv
<1> DEFINE d == DeleteRow(db, id)
<1>5. /\ d \in ProperDB(Least) /\ FewerRows(d.t1, db.t1)
      /\ \A p : Has(d.t1, p) => p.order_id # id
  BY <1>4, LeastType, DeleteRowProper, DeleteRowFewer
<1> HIDE DEF d
<1>6. CASE ModifyUnknown(id, price, quantity) \/ ModifyGone(id, price, quantity)
  <2>1. UNCHANGED <<mybooks, db, todo, writetodatabase>> /\ pc' = "ack"
    BY <1>6 DEF ModifyUnknown, ModifyGone, Receive, viewVars
  <2>2. QED
    BY <1>3, <2>1, StillRows
<1>7. CASE ModifyOrder(id, price, quantity)
  <2>1. /\ Resting(id) /\ pc' = "ack" /\ writetodatabase' = writetodatabase
    BY <1>7 DEF ModifyOrder, Receive
  <2>2. PICK q \in JunkQuantities :
           Replace(id, price, q) /\ db' = AddRow(d, Modified(id, price, q))
    BY <1>7 DEF ModifyOrder, d
  <2> DEFINE o == Modified(id, price, q)
             w == BooksWithout(mybooks, myorders[id])
  <2>3. /\ o \in ProperOrders(Least)
        /\ \A s \in Symbols, side \in Sides : \A p :
              Has(mybooks'[s][side], p) <=>
                \/ Has(w[s][side], p)
                \/ /\ p = o
                   /\ s = p.symbol /\ side = p.buysell
    BY <1>4, <2>1, <2>2, ReplaceStands
  <2>4. myorders[id] \in ProperOrders(Least) /\ myorders[id].order_id = id
    BY <1>4, <2>1, RestingOrder
  <2>5. \A s \in Symbols, side \in Sides : \A p :
           Has(mybooks[s][side], p) /\ p.order_id # id => Has(w[s][side], p)
    BY <1>4, <2>4, LeastType, WithoutHas
  <2> HIDE DEF o, w
  <2>6. RowsStand(d.t1, mybooks')
    BY <1>3, <1>4, <1>5, <2>3, <2>5, KeptStands
  <2>7. Stands(mybooks', o)
    BY <2>3 DEF Stands, ProperOrders, Order
  <2>8. RowsStand(AddRow(d, o).t1, mybooks')
    BY <1>5, <2>3, <2>6, <2>7, LeastType, AddRowStands
  <2>9. RowsStand(db'.t1, mybooks')
    BY <2>2, <2>8 DEF o
  <2>10. QED
    BY <1>3, <2>1, <2>9 DEF RowsInv, LoadInv, WorkInv, RowsStand, Stands
<1>8. CASE DieInModify(id, price, quantity)
  <2>1. Exit /\ db' = d
    BY <1>8 DEF DieInModify, d
  <2>2. \A s \in Symbols : Quiet(mybooks[s])
    BY <1>2, RestingQuiet DEF EngineInv, AtRest
  <2>3. Harmless(d.t1)
    BY <1>3, <1>4, <1>5, <2>2, QuietHarmless, HarmlessFewer
  <2>4. Harmless(db'.t1)
    BY <2>1, <2>3
  <2>5. QED
    BY <2>1, <2>4, ExitRows
<1>9. QED
  BY <1>1, <1>6, <1>7, <1>8

LEMMA CancelRows ==
  ASSUME EngineInv, RowsInv, ProcessCancel
  PROVE  RowsInv'
<1>1. PICK id \in Ids : CancelUnknown(id) \/ CancelOrder(id)
  BY DEF ProcessCancel
<1>2. pc = "idle" /\ pc' = "ack" /\ writetodatabase' = writetodatabase /\ todo' = todo
  BY <1>1 DEF CancelUnknown, CancelOrder, Receive
<1>3. writetodatabase = 1 /\ RowsStand(db.t1, mybooks)
  BY <1>2, WorkingRows DEF EngineInv
<1>4. /\ IInv /\ CancelInv /\ Once(db.t1) /\ db \in ProperDB(Least)
      /\ mybooks \in [Symbols -> Books(Least)]
  BY DEF EngineInv, IInv, DataInv, DataIn, CancelInv, PlacesInv
<1>5. CASE CancelUnknown(id)
  <2>1. UNCHANGED <<mybooks, db, todo, writetodatabase>>
    BY <1>2, <1>5 DEF CancelUnknown, viewVars
  <2>2. QED
    BY <1>2, <1>3, <2>1, StillRows
<1>6. CASE CancelOrder(id)
  <2> DEFINE d == DeleteRow(db, id)
  <2>1. /\ Resting(id) /\ mybooks' = BooksWithout(mybooks, myorders[id]) /\ db' = d
    BY <1>6 DEF CancelOrder, Withdraw
  <2>2. /\ FewerRows(d.t1, db.t1) /\ \A p : Has(d.t1, p) => p.order_id # id
    BY <1>4, LeastType, DeleteRowFewer
  <2> HIDE DEF d
  <2>3. myorders[id] \in ProperOrders(Least) /\ myorders[id].order_id = id
    BY <1>4, <2>1, RestingOrder
  <2>4. \A s \in Symbols, side \in Sides : \A p :
           Has(mybooks[s][side], p) /\ p.order_id # id => Has(mybooks'[s][side], p)
    BY <1>4, <2>1, <2>3, LeastType, WithoutHas
  <2>5. RowsStand(d.t1, mybooks')
    BY <1>3, <1>4, <2>2, <2>4, KeptStands
  <2>6. RowsStand(db'.t1, mybooks')
    BY <2>1, <2>5
  <2>7. QED
    BY <1>2, <1>3, <2>6 DEF RowsInv, LoadInv, WorkInv, RowsStand, Stands
<1>7. QED
  BY <1>1, <1>5, <1>6

LEMMA RowsStep ==
  ASSUME StopsOnlyWhenIdle, Least = 1, EngineInv, RowsInv, [Next]_vars
  PROVE  RowsInv'
<1>1. CASE LoadDone
  <2>1. /\ pc = "load" /\ pc' = "wait" /\ rp' = rp
        /\ UNCHANGED <<mybooks, db, todo, writetodatabase>>
    BY <1>1 DEF LoadDone, viewVars
  <2>2. writetodatabase = 0
    BY <2>1, LoadingRows DEF EngineInv
  <2>3. QED
    BY <2>1, <2>2, StillRows
<1>2. CASE CommunicateAck \/ CommunicateTrade \/ CommunicateReportingMsg
  <2>1. /\ pc \in {"ack", "trade", "report"} /\ pc' \in {"idle", "match", "report"}
        /\ UNCHANGED <<mybooks, db, todo, writetodatabase>>
    BY <1>2 DEF CommunicateAck, CommunicateTrade, CommunicateReportingMsg, viewVars
  <2>2. writetodatabase = 1
    BY <2>1, WorkingRows DEF EngineInv
  <2>3. QED
    BY <2>1, <2>2, StillRows
<1>3. CASE UNCHANGED vars
  BY <1>3
  DEF vars, memVars, viewVars, RowsInv, LoadInv, WorkInv, RowsStand, Stands,
      Harmless, EndOf
<1>4. QED
  BY <1>1, <1>2, <1>3, LoadRowRows, ReadyRows, MatchTradesRows, MatchEndsRows,
     NewRows, ModifyRows, CancelRows, StopRows, RestartRows
  DEF Next, Progress

LEMMA InitRows ==
  ASSUME Init
  PROVE  RowsInv
<1>1. /\ pc = "load" /\ todo = << >> /\ db.t1 = << >> /\ rp = None
      /\ writetodatabase = 0 /\ mybooks = [s \in Symbols |-> EmptyBook]
  BY DEF Init, ViewInit, EmptyDB
<1>2. ~Crosses(EmptyBook) /\ \A side \in Sides : EmptyBook[side] = << >>
  BY EmptyBookProper, QuietUncrossed, LeastType DEF EmptyBook
<1>3. Harmless(<< >>) /\ EndOf(<< >>, << >>)
  <2>1. Len(<< >>) = 0
    OBVIOUS
  <2>2. QED
    BY <2>1, NothingHas DEF Harmless, EndOf
<1>4. LoadInv
  BY <1>1, <1>2, <1>3, NothingHas DEF LoadInv
<1>5. QED
  BY <1>1, <1>4 DEF RowsInv, WorkInv

LEMMA RowsInductive ==
  ASSUME UniqueIds, StopsOnlyWhenIdle, 0 \notin Quantities
  PROVE  Spec => [](EngineInv /\ RowsInv)
<1>1. Least = 1
  BY LeastType
<1>2. EngineInv /\ RowsInv /\ [Next]_vars => RowsInv'
  BY <1>1, RowsStep
<1>3. Spec => []EngineInv
  BY StandInductive DEF EngineInv
<1>4. QED
  BY InitRows, <1>2, <1>3, PTL DEF Spec

\* AddOrder, RemoveOrder and Match write to t1 what they do to the book, so
\* that every limit order left in t1 is one that rests; a load puts the rows
\* back, and meets no trade that would take one of them off the book again.
\* The engine is stopped between requests only: a SIGINT between the ack of an
\* order and its match leaves two rows in t1 that trade when they are loaded,
\* and the load does not write.
THEOREM LimitRowsFound ==
  ASSUME UniqueIds, StopsOnlyWhenIdle, 0 \notin Quantities
  PROVE  Spec => []LimitRowsRest
<1>1. EngineInv /\ RowsInv => LimitRowsRest
  <2> SUFFICES ASSUME EngineInv, RowsInv, AtRest, pc # "load",
                      NEW i \in 1 .. Len(db.t1), ~IsMarket(db.t1[i])
               PROVE  db.t1[i] \in InBooks
    BY DEF LimitRowsRest
  <2> DEFINE p == db.t1[i]
  <2>1. Has(db.t1, p)
    BY DEF Has
  <2> HIDE DEF p
  <2>2. db \in ProperDB(Least) /\ p.symbol \in Symbols /\ p.buysell \in Sides
    BY <2>1, LeastType, RowTyped DEF EngineInv, IInv, DataInv, DataIn
  <2>3. Stands(mybooks, p)
    <3>1. CASE pc = "wait"
      <4>1. writetodatabase = 0 /\ todo = << >>
        BY <3>1, LoadingRows DEF EngineInv, CancelInv, PhaseInv
      <4>2. ~Has(todo, p)
        BY <4>1, NothingHas
      <4>3. QED
        BY <2>1, <3>1, <4>1, <4>2 DEF RowsInv, LoadInv, p
    <3>2. CASE pc = "idle"
      BY <2>1, <3>2, WorkingRows DEF EngineInv, RowsStand, p
    <3>3. QED
      BY <3>1, <3>2 DEF AtRest
  <2>4. p \in AllOrders(p.symbol, p.buysell)
    BY <2>3 DEF Stands, Has, AllOrders
  <2>5. QED
    BY <2>2, <2>4 DEF InBooks, p
<1>2. QED
  BY RowsInductive, <1>1, PTL

\* The load of src/matcheng.cpp matches like Process does, with every message
\* to the trade publisher and the reporting engine; after a stop between
\* requests there is nothing for it to match.
THEOREM LoadsAreSilent ==
  ASSUME UniqueIds, StopsOnlyWhenIdle, 0 \notin Quantities
  PROVE  Spec => []LoadNeverTrades
<1>1. EngineInv /\ RowsInv => LoadNeverTrades
  BY DEF RowsInv, LoadInv, LoadNeverTrades
<1>2. QED
  BY RowsInductive, <1>1, PTL
-----------------------------------------------------------------------------
(* Conservation *)

\* The trades in t of the order id.
TradesOf(t, id) ==
  {i \in 1 .. Len(t) : id \in {t[i].orderA.order_id, t[i].orderB.order_id}}

\* What the order has traded in them.
TradedIn(t, id) == SumOf(t, TradesOf(t, id))

\* What the order trades in the match about to be communicated.
Untold(id) ==
  IF pc = "trade" /\ id \in {rp.orderA.order_id, rp.orderB.order_id}
  THEN rp.quantity ELSE 0

Dealt(id) == Traded(id) + Untold(id)

\* p is in a book, or would be after this load or the next.
Present(p) ==
  \/ \E s \in Symbols, side \in Sides : Has(mybooks[s][side], p)
  \/ Has(todo, p) \/ Has(db.t1, p)

\* What is left of o, wherever it is, and what o has traded add up to o.
Balanced(o) ==
  /\ Dealt(o.order_id) <= o.quantity
  /\ \A p : Present(p) /\ p.order_id = o.order_id =>
        p.quantity + Dealt(o.order_id) = o.quantity

Ordered(o) == \E i \in 1 .. Len(requests) : requests[i].type = "NEW" /\ requests[i].order = o

BalanceInv ==
  /\ \A id \in Ids : ~Named(id) => Dealt(id) = 0
  /\ \A o : Ordered(o) /\ ~Modifies(o.order_id) => Balanced(o)

LEMMA TradedSum ==
  /\ \A id : Traded(id) = TradedIn(trades, id)
  /\ \A id : Traded(id)' = TradedIn(trades', id)
<1>1. \A id : Traded(id) = TradedIn(trades, id)
  BY Zenon DEF Traded, TradedIn, SumOf, TradesOf
<1>2. (\A id : Traded(id) = TradedIn(trades, id))'
  BY <1>1, PTL
<1>3. QED
  BY <1>1, <1>2

\* Another trade adds its quantity to what its two orders have traded.
TradesMore(t, u, r, id) ==
  /\ TradedIn(t, id) \in Nat
  /\ TradedIn(u, id) =
       TradedIn(t, id) +
         (IF id \in {r.orderA.order_id, r.orderB.order_id} THEN r.quantity ELSE 0)

LEMMA OneTradeMore ==
  ASSUME NEW t \in Seq(Report), NEW r \in Report, NEW u, u = Append(t, r), NEW id
  PROVE  TradesMore(t, u, r, id)
<1> DEFINE n == Len(t) + 1
           L == TradesOf(t, id)
           M == TradesOf(u, id)
<1>1. /\ Len(t) \in Nat /\ Len(u) = n /\ u[n] = r
      /\ \A i \in 1 .. Len(t) : u[i] = t[i] /\ t[i] \in Report
  BY AppendProperties, LenProperties, ElementOfSeq
<1>2. n \notin L /\ L \in SUBSET (1 .. Len(t)) /\ M \in SUBSET (1 .. n)
  BY <1>1 DEF TradesOf
<1>3. M = IF id \in {r.orderA.order_id, r.orderB.order_id} THEN L \cup {n} ELSE L
  BY <1>1 DEF TradesOf
<1>4. IsFiniteSet(L) /\ IsFiniteSet(M)
  <2>1. IsFiniteSet(1 .. Len(t)) /\ IsFiniteSet(1 .. n)
    BY <1>1, FS_Interval
  <2>2. QED
    BY <1>2, <2>1, FS_Subset
<1> HIDE DEF L, M, TradedIn, TradesMore
<1>5. /\ \A i \in L : t[i].quantity \in Nat /\ u[i].quantity = t[i].quantity
      /\ r.quantity \in Nat
  BY <1>1, <1>2 DEF Report
<1>6. SumOf(t, L) \in Nat /\ SumOf(u, L) = SumOf(t, L)
  BY <1>4, <1>5, SumIs
<1>7. CASE id \in {r.orderA.order_id, r.orderB.order_id}
  <2>1. M = L \cup {n} /\ n \in M /\ M \ {n} = L
    BY <1>2, <1>3, <1>7
  <2>2. \A i \in M : u[i].quantity \in Nat
    BY <1>1, <1>5, <2>1
  <2> HIDE DEF n
  <2>3. SumOf(u, M) = u[n].quantity + SumOf(u, M \ {n})
    BY <1>4, <2>1, <2>2, SumIs
  <2>4. SumOf(u, M) = r.quantity + SumOf(u, L)
    BY <1>1, <2>1, <2>3
  <2>5. QED
    BY <1>5, <1>6, <1>7, <2>4 DEF L, M, TradedIn, TradesMore
<1>8. CASE id \notin {r.orderA.order_id, r.orderB.order_id}
  <2>1. SumOf(u, M) = SumOf(t, L)
    BY <1>3, <1>6, <1>8
  <2>2. QED
    BY <1>6, <1>8, <2>1 DEF L, M, TradedIn, TradesMore
<1>9. QED
  BY <1>7, <1>8

LEMMA TradedTyped ==
  ASSUME IInv
  PROVE  \A id : Traded(id) \in Nat
<1>1. trades \in Seq(Report)
  BY DEF IInv, RestTypeOK
<1>2. ASSUME NEW id PROVE TradedIn(trades, id) \in Nat
  <2> DEFINE L == TradesOf(trades, id)
  <2>1. /\ Len(trades) \in Nat /\ L \in SUBSET (1 .. Len(trades))
        /\ \A i \in 1 .. Len(trades) : trades[i] \in Report
    BY <1>1, LenProperties, ElementOfSeq DEF TradesOf
  <2>2. IsFiniteSet(L)
    <3>1. IsFiniteSet(1 .. Len(trades))
      BY <2>1, FS_Interval
    <3>2. QED
      BY <2>1, <3>1, FS_Subset
  <2> HIDE DEF L
  <2>3. \A i \in L : trades[i].quantity \in Nat
    BY <2>1 DEF Report
  <2>4. SumOf(trades, L) \in Nat
    BY <2>2, <2>3, SumIs
  <2>5. QED
    BY <2>4 DEF L, TradedIn
<1>3. QED
  BY <1>2, TradedSum

LEMMA AddRowHas ==
  ASSUME NEW least \in {0, 1}, NEW d \in ProperDB(least), NEW o \in ProperOrders(least)
  PROVE  \A p : Has(AddRow(d, o).t1, p) => Has(d.t1, p) \/ p = o
<1>1. d.t1 \in Seq(ProperOrders(least))
  BY DEF ProperDB
<1>2. \A p : Has(Append(d.t1, o), p) => Has(d.t1, p) \/ p = o
  BY <1>1, AppendHas
<1>3. QED
  BY <1>2 DEF AddRow

LEMMA NewIsTyped ==
  ASSUME requests \in Seq(Request), NEW i \in 1 .. Len(requests), requests[i].type = "NEW"
  PROVE  requests[i].order \in Order /\ requests[i].order.quantity \in Nat
<1>1. requests[i] \in Request
  BY ElementOfSeq
<1>2. requests[i] \in NewRequest
  BY <1>1 DEF Request, ModifyRequest, CancelRequest
<1>3. QED
  BY <1>2 DEF NewRequest, Order

\* What is present is alive, in the sense of CancelInv.
LEMMA PresentLive ==
  ASSUME NEW p, Present(p)
  PROVE  Live(p.order_id)
  BY HasHolds DEF Present, Live, Somewhere, InT1

LEMMA DealtSame ==
  ASSUME trades' = trades, pc # "trade", pc' # "trade"
  PROVE  \A id : Dealt(id)' = Dealt(id)
<1>1. \A id : Traded(id)' = Traded(id)
  BY TradedSum
<1>2. QED
  BY <1>1 DEF Dealt, Untold

\* A step that adds no order and no trade.
LEMMA StillBalanced ==
  ASSUME BalanceInv, requests' = requests, \A id : Dealt(id)' = Dealt(id),
         \A p : Present(p)' => Present(p)
  PROVE  BalanceInv'
<1>1. \A o : Balanced(o) => Balanced(o)'
  BY DEF Balanced
<1>2. /\ \A id : Named(id)' = Named(id)
      /\ \A id : Modifies(id)' = Modifies(id)
  BY DEF Named, Modifies
<1>3. \A o : Ordered(o)' => Ordered(o)
  BY DEF Ordered
<1>4. QED
  BY <1>1, <1>2, <1>3 DEF BalanceInv
-----------------------------------------------------------------------------
(* The steps that read no request *)

LEMMA SilentBalance ==
  ASSUME IInv, BalanceInv,
         \/ LoadDone \/ Ready \/ CommunicateAck \/ CommunicateTrade
         \/ CommunicateReportingMsg \/ UNCHANGED vars
  PROVE  BalanceInv'
<1>1. UNCHANGED <<mybooks, todo, db, requests>>
  BY DEF LoadDone, Ready, CommunicateAck, CommunicateTrade, CommunicateReportingMsg, vars,
         memVars, viewVars, logVars
<1>2. \A p : Present(p)' => Present(p)
  BY <1>1 DEF Present
<1>3. CASE CommunicateTrade
  <2>1. /\ pc = "trade" /\ pc' = "report" /\ trades' = Append(trades, rp)
        /\ trades \in Seq(Report) /\ rp \in Report
    BY <1>3 DEF CommunicateTrade, IInv, RestTypeOK, ControlInv
  <2>2. ASSUME NEW id PROVE Dealt(id)' = Dealt(id)
    <3>1. /\ Traded(id) \in Nat
          /\ Traded(id)' = Traded(id) +
               (IF id \in {rp.orderA.order_id, rp.orderB.order_id} THEN rp.quantity ELSE 0)
      <4>1. TradesMore(trades, trades', rp, id)
        BY <2>1, OneTradeMore
      <4>2. QED
        BY <4>1, TradedSum DEF TradesMore
    <3>2. rp.quantity \in Nat
      BY <2>1 DEF Report
    <3>3. Untold(id)' = 0
      BY <2>1 DEF Untold
    <3>4. QED
      BY <2>1, <3>1, <3>2, <3>3 DEF Dealt, Untold
  <2>3. QED
    BY <1>1, <1>2, <2>2, StillBalanced
<1>4. CASE LoadDone \/ Ready \/ CommunicateAck \/ CommunicateReportingMsg
  <2>1. trades' = trades /\ pc # "trade" /\ pc' # "trade"
    BY <1>4 DEF LoadDone, Ready, CommunicateAck, CommunicateReportingMsg, logVars
  <2>2. QED
    BY <1>1, <1>2, <2>1, DealtSame, StillBalanced
<1>5. CASE UNCHANGED vars
  <2>1. UNCHANGED <<trades, pc, rp>>
    BY <1>5 DEF vars, memVars, logVars
  <2>2. \A id : Dealt(id)' = Dealt(id)
    BY <2>1, TradedSum DEF Dealt, Untold
  <2>3. QED
    BY <1>1, <1>2, <2>2, StillBalanced
<1>6. QED
  BY <1>3, <1>4, <1>5

\* The process ends, or begins again with the rows of t1.
LEMMA LivesBalance ==
  ASSUME StopsOnlyWhenIdle, BalanceInv, Stop \/ StopInMatch \/ DieDrained \/ Restart
  PROVE  BalanceInv'
<1>1. /\ trades' = trades /\ requests' = requests /\ db' = db
      /\ pc \in {"idle", "match", "down"} /\ pc' \in {"down", "load"}
  BY DEF Stop, StopInMatch, DieDrained, Restart, Exit, logVars
<1>2. CASE Restart
  <2>1. mybooks' = mybooks /\ todo' = db.t1
    BY <1>2 DEF Restart, viewVars
  <2>2. \A p : Present(p)' => Present(p)
    BY <1>1, <2>1 DEF Present
  <2>3. QED
    BY <1>1, <2>2, DealtSame, StillBalanced
<1>3. CASE Exit
  <2>1. /\ \A s \in Symbols, side \in Sides : mybooks'[s][side] = << >>
        /\ todo' = << >>
    BY <1>3 DEF Exit, EmptyBook
  <2>2. \A p : Present(p)' => Present(p)
    BY <1>1, <2>1, NothingHas DEF Present
  <2>3. QED
    BY <1>1, <2>2, DealtSame, StillBalanced
<1>4. QED
  BY <1>2, <1>3 DEF Stop, StopInMatch, DieDrained

LEMMA LoadRowBalance ==
  ASSUME IInv, BalanceInv, LoadRow
  PROVE  BalanceInv'
<1>1. /\ pc = "load" /\ pc' = "match" /\ todo # << >> /\ todo' = Tail(todo)
      /\ mybooks' = BooksWith(mybooks, Head(todo))
      /\ UNCHANGED <<db, requests, trades>>
  BY DEF LoadRow, Accept, logVars
<1>2. todo \in Seq(ProperOrders(Least)) /\ mybooks \in [Symbols -> Books(Least)]
      /\ Least \in {0, 1}
  BY LeastType DEF IInv, DataInv, DataIn
<1>3. Head(todo) \in ProperOrders(Least)
  BY <1>1, <1>2, HeadTailProperties
<1>4. ASSUME NEW o \in ProperOrders(Least), o = Head(todo)
      PROVE  \A p : Present(p)' => Present(p)
  <2>1. \A p : Has(todo, p) <=> p = o \/ Has(todo', p)
    BY <1>1, <1>2, <1>4, TailHas
  <2>2. mybooks' = BooksWith(mybooks, o)
    BY <1>1, <1>4
  <2>3. ASSUME NEW least \in {0, 1}, least = Least, NEW books, books = mybooks,
                NEW c, c = mybooks'
         PROVE  \A s \in Symbols, side \in Sides : \A p :
                   Has(c[s][side], p) => Has(books[s][side], p) \/ p = o
    <3>1. /\ books \in [Symbols -> Books(least)] /\ o \in ProperOrders(least)
          /\ c = BooksWith(books, o)
      BY <1>2, <2>2, <2>3
    <3>2. QED
      BY <3>1, WithHas
  <2>4. \A s \in Symbols, side \in Sides : \A p :
           Has(mybooks'[s][side], p) => Has(mybooks[s][side], p) \/ p = o
    BY <1>2, <2>3
  <2>5. QED
    BY <1>1, <2>1, <2>4 DEF Present
<1>5. \A p : Present(p)' => Present(p)
  BY <1>3, <1>4
<1>6. QED
  BY <1>1, <1>5, DealtSame, StillBalanced

LEMMA MatchEndsBalance ==
  ASSUME Least = 1, IInv, BalanceInv, MatchEnds
  PROVE  BalanceInv'
<1>1. /\ pc = "match" /\ pc' # "trade" /\ sym \in Symbols /\ Match(sym)
      /\ ~Trades(sym) /\ WriteMatch
      /\ UNCHANGED <<todo, requests, trades>>
  BY DEF MatchEnds, logVars, IInv, ControlInv
<1>2. ~Crosses(mybooks[sym])
  BY <1>1, EndsUncrossed
<1>3. db' = db
  BY <1>1, <1>2 DEF WriteMatch
<1>4. \A t \in Symbols, side \in Sides : \A p :
         Has(mybooks'[t][side], p) => Has(mybooks[t][side], p)
  BY <1>1, <1>2, EndHas
<1>5. \A p : Present(p)' => Present(p)
  BY <1>1, <1>3, <1>4 DEF Present
<1>6. QED
  BY <1>1, <1>5, DealtSame, StillBalanced
-----------------------------------------------------------------------------
(* A match *)

\* The orders of a report are the heads less what they trade.
LEMMA HeadsTrade ==
  ASSUME IInv, NEW s \in Symbols, Crosses(mybooks[s])
  PROVE  /\ ReportOf(s).quantity \in Nat
         /\ \A o \in {ReportOf(s).orderA, ReportOf(s).orderB} :
               /\ o.quantity \in Nat
               /\ \E h : \E side \in Sides :
                     /\ Has(mybooks[s][side], h) /\ h.order_id = o.order_id
                     /\ h.quantity = o.quantity + ReportOf(s).quantity
<1> DEFINE b == mybooks[s]
           q == TradeQuantity(b)
<1>1. b \in Books(Least) /\ Least \in {0, 1}
  BY LeastType DEF IInv, DataInv, DataIn
<1>2. /\ HeadBuy(b) = b["BUY"][1] /\ HeadSell(b) = b["SELL"][1]
      /\ 1 \in 1 .. Len(b["BUY"]) /\ 1 \in 1 .. Len(b["SELL"])
      /\ HeadBuy(b) \in SideOrders("BUY", Least)
      /\ HeadSell(b) \in SideOrders("SELL", Least)
      /\ q \in 0 .. HeadBuy(b).quantity
      /\ q \in 0 .. HeadSell(b).quantity
  BY <1>1, Heads
<1>3. /\ HeadSell(b) \in Order /\ HeadBuy(b) \in Order
      /\ HeadSell(b).quantity \in Nat /\ HeadBuy(b).quantity \in Nat
  BY <1>2 DEF SideOrders, ProperOrders, Order
<1>4. /\ ReportOf(s).quantity = q
      /\ ReportOf(s).orderA = Rest(HeadSell(b), q)
      /\ ReportOf(s).orderB = Rest(HeadBuy(b), q)
  BY DEF ReportOf
<1>5. Has(b["SELL"], HeadSell(b)) /\ Has(b["BUY"], HeadBuy(b))
  BY <1>2 DEF Has
<1> HIDE DEF b, q
<1>6. \A h \in Order : /\ Rest(h, q).order_id = h.order_id
                       /\ Rest(h, q).quantity = h.quantity - q
  BY DEF Rest, Order
<1>7. q \in Nat
  BY <1>2, <1>3
<1>8. \A h \in Order :
         h.quantity \in Nat /\ q \in 0 .. h.quantity =>
            /\ Rest(h, q).quantity \in Nat
            /\ h.order_id = Rest(h, q).order_id
            /\ h.quantity = Rest(h, q).quantity + q
  BY <1>6
<1>9. /\ Rest(HeadSell(b), q).quantity \in Nat
      /\ HeadSell(b).order_id = Rest(HeadSell(b), q).order_id
      /\ HeadSell(b).quantity = Rest(HeadSell(b), q).quantity + q
  BY <1>2, <1>3, <1>8
<1>10. /\ Rest(HeadBuy(b), q).quantity \in Nat
       /\ HeadBuy(b).order_id = Rest(HeadBuy(b), q).order_id
       /\ HeadBuy(b).quantity = Rest(HeadBuy(b), q).quantity + q
  BY <1>2, <1>3, <1>8
<1>11. /\ Has(mybooks[s]["SELL"], HeadSell(b)) /\ Has(mybooks[s]["BUY"], HeadBuy(b))
       /\ "SELL" \in Sides /\ "BUY" \in Sides
  BY <1>5 DEF b, Sides
<1>12. ASSUME NEW o, o = ReportOf(s).orderA
       PROVE  /\ o.quantity \in Nat
              /\ \E h : \E side \in Sides :
                    /\ Has(mybooks[s][side], h) /\ h.order_id = o.order_id
                    /\ h.quantity = o.quantity + ReportOf(s).quantity
  <2>1. o = Rest(HeadSell(b), q) /\ ReportOf(s).quantity = q
    BY <1>4, <1>12
  <2> DEFINE h == HeadSell(b)
  <2>2. /\ o.quantity \in Nat /\ h.order_id = o.order_id
        /\ h.quantity = o.quantity + ReportOf(s).quantity
    BY <1>9, <2>1
  <2>3. Has(mybooks[s]["SELL"], h) /\ "SELL" \in Sides
    BY <1>11
  <2> HIDE DEF h
  <2>4. QED
    BY <2>2, <2>3
<1>13. ASSUME NEW o, o = ReportOf(s).orderB
       PROVE  /\ o.quantity \in Nat
              /\ \E h : \E side \in Sides :
                    /\ Has(mybooks[s][side], h) /\ h.order_id = o.order_id
                    /\ h.quantity = o.quantity + ReportOf(s).quantity
  <2>1. o = Rest(HeadBuy(b), q) /\ ReportOf(s).quantity = q
    BY <1>4, <1>13
  <2> DEFINE h == HeadBuy(b)
  <2>2. /\ o.quantity \in Nat /\ h.order_id = o.order_id
        /\ h.quantity = o.quantity + ReportOf(s).quantity
    BY <1>10, <2>1
  <2>3. Has(mybooks[s]["BUY"], h) /\ "BUY" \in Sides
    BY <1>11
  <2> HIDE DEF h
  <2>4. QED
    BY <2>2, <2>3
<1>14. QED
  BY <1>4, <1>7, <1>12, <1>13

LEMMA MatchTradesBalance ==
  ASSUME Least = 1, EngineInv, RowsInv, BalanceInv, MatchTrades
  PROVE  BalanceInv'
<1> DEFINE r == ReportOf(sym)
           A == r.orderA
           B == r.orderB
           d1 == DeleteRow(db, A.order_id)
           d2 == DeleteRow(d1, B.order_id)
           d3 == Reinserted(d2, A)
           d4 == Reinserted(d3, B)
<1>1. /\ pc = "match" /\ sym \in Symbols /\ Match(sym) /\ Crosses(mybooks[sym])
      /\ pc' = "trade" /\ rp' = r /\ WriteMatch
      /\ UNCHANGED <<todo, writetodatabase, requests, trades>>
      /\ db \in ProperDB(Least) /\ Once(db.t1)
      /\ IInv /\ CancelInv
  BY DEF MatchTrades, Trades, logVars, EngineInv, IInv, ControlInv, DataInv, DataIn, CancelInv,
         PlacesInv
<1>2. writetodatabase = 1 /\ todo = << >>
  BY <1>1 DEF RowsInv, LoadInv, IInv, RestTypeOK, CancelInv, PhaseInv
<1>3. db' = d4
  <2>1. MatchWrites(sym) = <<db, d1, d2, d3, d4>>
    BY DEF MatchWrites
  <2>2. MatchWrites(sym)[5] = d4
    BY <2>1
  <2>3. QED
    BY <1>1, <1>2, <2>2 DEF WriteMatch
<1>4. /\ A.order_id \in Ids /\ B.order_id \in Ids /\ A.order_id # B.order_id
      /\ \A t \in Symbols, side \in Sides : \A p :
            Has(mybooks'[t][side], p) =>
              \/ /\ Has(mybooks[t][side], p)
                 /\ p.order_id # A.order_id /\ p.order_id # B.order_id
              \/ p = A \/ p = B
  BY <1>1, TradeHas
<1>5. /\ A.quantity > 0 => A \in ProperOrders(Least)
      /\ B.quantity > 0 => B \in ProperOrders(Least)
  BY <1>1, LeastType, ReportTyped DEF IInv, DataInv, DataIn
<1>6. /\ r.quantity \in Nat
      /\ \A o \in {A, B} :
            /\ o.quantity \in Nat
            /\ \E h : \E side \in Sides :
                  /\ Has(mybooks[sym][side], h) /\ h.order_id = o.order_id
                  /\ h.quantity = o.quantity + r.quantity
  BY <1>1, HeadsTrade
<1>7. \A id : /\ Traded(id)' = Traded(id) /\ Traded(id) \in Nat
              /\ Dealt(id) = Traded(id)
              /\ Dealt(id)' = Traded(id) + (IF id \in {A.order_id, B.order_id}
                                            THEN r.quantity ELSE 0)
  BY <1>1, TradedSum, TradedTyped DEF Dealt, Untold
<1> HIDE DEF A, B, r
<1>8. /\ d1 \in ProperDB(Least) /\ Once(d1.t1) /\ FewerRows(d1.t1, db.t1)
      /\ \A p : Has(d1.t1, p) => p.order_id # A.order_id
  BY <1>1, LeastType, DeleteRowProper, DeleteRowOnce, DeleteRowFewer
<1> HIDE DEF d1
<1>9. /\ d2 \in ProperDB(Least) /\ FewerRows(d2.t1, d1.t1)
      /\ \A p : Has(d2.t1, p) => p.order_id # B.order_id
  BY <1>8, LeastType, DeleteRowProper, DeleteRowOnce, DeleteRowFewer
<1> HIDE DEF d2
<1>10. d3 \in ProperDB(Least) /\ \A p : Has(d3.t1, p) => Has(d2.t1, p) \/ p = A
  BY <1>5, <1>9, LeastType, AddRowProper, AddRowHas DEF Reinserted
<1> HIDE DEF d3
<1>11. \A p : Has(d4.t1, p) => Has(d3.t1, p) \/ p = B
  BY <1>5, <1>10, LeastType, AddRowHas DEF Reinserted
<1>12. \A p : Has(db'.t1, p) =>
          \/ Has(db.t1, p) /\ p.order_id # A.order_id /\ p.order_id # B.order_id
          \/ p = A \/ p = B
  BY <1>3, <1>8, <1>9, <1>10, <1>11 DEF FewerRows
<1> HIDE DEF d4
<1>13. ASSUME NEW p, Present(p)'
       PROVE  \/ Present(p) /\ p.order_id # A.order_id /\ p.order_id # B.order_id
              \/ p = A \/ p = B
  BY <1>1, <1>2, <1>4, <1>12, <1>13, NothingHas DEF Present
<1>14. \A o \in {A, B} : \E h : /\ Present(h) /\ h.order_id = o.order_id
                               /\ h.quantity = o.quantity + r.quantity
  BY <1>1, <1>6 DEF Present
<1>15. ASSUME NEW id \in Ids, ~Named(id)' PROVE Dealt(id)' = 0
  <2>1. ~Named(id) /\ Dealt(id) = 0
    BY <1>1, <1>15 DEF Named, BalanceInv
  <2>2. ~Live(id)
    BY <1>1, <2>1 DEF CancelInv, FinalInv
  <2>3. id # A.order_id /\ id # B.order_id
    BY <1>14, <2>2, PresentLive
  <2>4. QED
    BY <1>7, <2>1, <2>3
<1>16. ASSUME NEW o, Balanced(o), o.quantity \in Nat PROVE Balanced(o)'
  <2>1. CASE o.order_id \notin {A.order_id, B.order_id}
    <3>1. Dealt(o.order_id)' = Dealt(o.order_id)
      BY <1>7, <2>1
    <3>2. \A p : Present(p)' /\ p.order_id = o.order_id => Present(p)
      BY <1>13, <2>1
    <3>3. QED
      BY <1>16, <3>1, <3>2 DEF Balanced
  <2>2. CASE o.order_id \in {A.order_id, B.order_id}
    <3>1. PICK x \in {A, B} : x.order_id = o.order_id
      BY <2>2
    <3>2. PICK h : /\ Present(h) /\ h.order_id = x.order_id
                   /\ h.quantity = x.quantity + r.quantity
      BY <1>14
    <3>3. h.quantity + Dealt(o.order_id) = o.quantity
      BY <1>16, <3>1, <3>2 DEF Balanced
    <3>4. /\ Dealt(o.order_id)' = Dealt(o.order_id) + r.quantity
          /\ Dealt(o.order_id) \in Nat /\ r.quantity \in Nat /\ x.quantity \in Nat
      BY <1>6, <1>7, <2>2
    <3>5. x.quantity + Dealt(o.order_id)' = o.quantity
      BY <3>2, <3>3, <3>4
    <3>6. Dealt(o.order_id)' <= o.quantity
      BY <3>4, <3>5
    <3>7. ASSUME NEW p, Present(p)', p.order_id = o.order_id
          PROVE  p = x
      BY <1>4, <1>13, <3>1, <3>7
    <3>8. QED
      BY <3>5, <3>6, <3>7 DEF Balanced
  <2>3. QED
    BY <2>1, <2>2
<1>17. ASSUME NEW o, Ordered(o)', ~Modifies(o.order_id)'
       PROVE  Balanced(o)'
  <2>1. Ordered(o) /\ ~Modifies(o.order_id)
    BY <1>1, <1>17 DEF Ordered, Modifies
  <2>2. o.quantity \in Nat
    BY <1>1, <2>1, NewIsTyped DEF IInv, RestTypeOK, Ordered
  <2>3. QED
    BY <1>16, <2>1, <2>2 DEF BalanceInv
<1>18. QED
  BY <1>15, <1>17 DEF BalanceInv
-----------------------------------------------------------------------------
(* The requests *)

\* A request brings in no order but a new one, which its id was not used for, or
\* one that is modified.
LEMMA RequestBalance ==
  ASSUME IInv, CancelInv, BalanceInv, NEW q, requests' = Append(requests, q),
         trades' = trades, pc # "trade", pc' # "trade",
         q.type = "NEW" => /\ ~Named(q.order.order_id) /\ q.order.order_id \in Ids
                           /\ q.order.quantity \in Nat,
         \A p : Present(p)' => \/ Present(p)
                               \/ q.type = "NEW" /\ p = q.order
                               \/ q.type = "MODIFY" /\ p.order_id = q.order_id
  PROVE  BalanceInv'
<1> DEFINE n == Len(requests) + 1
<1>1. requests \in Seq(Request \cup {q})
  BY SeqMonotonic DEF IInv, RestTypeOK
<1>2. /\ Len(requests) \in Nat /\ Len(requests') = n /\ requests'[n] = q
      /\ \A i \in 1 .. Len(requests) : requests'[i] = requests[i]
  BY <1>1, AppendProperties, LenProperties
<1>3. /\ \A i \in 1 .. Len(requests) : i \in 1 .. Len(requests')
      /\ n \in 1 .. Len(requests')
      /\ \A i \in 1 .. Len(requests') : i \in 1 .. Len(requests) \/ i = n
  BY <1>2
<1> HIDE DEF n
<1>4. \A id : Dealt(id)' = Dealt(id)
  BY DealtSame
<1>5. \A id : Named(id) => Named(id)'
  BY <1>2, <1>3 DEF Named
<1>6. \A id : Modifies(id) => Modifies(id)'
  BY <1>2, <1>3 DEF Modifies
<1>7. q.type = "MODIFY" => Modifies(q.order_id)'
  BY <1>2, <1>3 DEF Modifies
<1>8. \A id \in Ids : ~Named(id)' => Dealt(id)' = 0
  BY <1>4, <1>5 DEF BalanceInv
<1>9. ASSUME NEW o, Ordered(o), ~Modifies(o.order_id)'
      PROVE  Balanced(o)'
  <2>1. Balanced(o)
    BY <1>6, <1>9 DEF BalanceInv
  <2>2. Named(o.order_id)
    BY <1>9 DEF Named, Ordered
  <2>3. ASSUME NEW p, Present(p)', p.order_id = o.order_id PROVE Present(p)
    <3>1. q.type = "NEW" => p # q.order
      BY <2>2, <2>3
    <3>2. q.type = "MODIFY" => p.order_id # q.order_id
      BY <1>7, <1>9, <2>3
    <3>3. QED
      BY <2>3, <3>1, <3>2
  <2>4. QED
    BY <1>4, <2>1, <2>3 DEF Balanced
<1>10. ASSUME q.type = "NEW" PROVE Balanced(q.order)'
  <2>1. ~Named(q.order.order_id) /\ q.order.quantity \in Nat
    BY <1>10
  <2>2. Dealt(q.order.order_id)' = 0
    BY <1>4, <1>10 DEF BalanceInv
  <2>3. ~Live(q.order.order_id)
    BY <1>10 DEF CancelInv, FinalInv
  <2>4. ASSUME NEW p, Present(p)', p.order_id = q.order.order_id PROVE p = q.order
    <3>1. ~Present(p)
      BY <2>3, <2>4, PresentLive
    <3>2. QED
      BY <1>10, <2>4, <3>1
  <2>5. QED
    BY <2>1, <2>2, <2>4 DEF Balanced
<1>11. ASSUME NEW o, Ordered(o)' PROVE Ordered(o) \/ (q.type = "NEW" /\ o = q.order)
  BY <1>2, <1>3, <1>11 DEF Ordered
<1>12. QED
  BY <1>8, <1>9, <1>10, <1>11 DEF BalanceInv

LEMMA NewBalance ==
  ASSUME UniqueIds, IInv, CancelInv, BalanceInv, ProcessNew
  PROVE  BalanceInv'
<1>1. PICK o \in NewOrders : ~Named(o.order_id) /\ (AcceptOrder(o) \/ RejectOrder(o))
  BY DEF ProcessNew
<1>2. /\ pc = "idle" /\ pc' = "ack"
      /\ UNCHANGED <<todo, trades>>
  BY <1>1 DEF AcceptOrder, RejectOrder, Receive
<1>3. o \in ProperOrders(Least) /\ o.order_id \in Ids /\ o.quantity \in Nat
  BY NewOrdersProper DEF ProperOrders, Order
<1>4. PICK q : /\ requests' = Append(requests, q) /\ q.type = "NEW" /\ q.order = o
  BY <1>1 DEF AcceptOrder, RejectOrder, Receive
<1>5. \A p : Present(p)' => Present(p) \/ p = o
  <2>1. CASE AcceptOrder(o)
    <3>1. /\ mybooks' = BooksWith(mybooks, o) /\ db' = AddRow(db, o)
          /\ mybooks \in [Symbols -> Books(Least)] /\ db \in ProperDB(Least)
      BY <2>1 DEF AcceptOrder, Accept, IInv, DataInv, DataIn
    <3>2. \A s \in Symbols, side \in Sides : \A p :
             Has(mybooks'[s][side], p) <=>
               Has(mybooks[s][side], p) \/ (p = o /\ s = o.symbol /\ side = o.buysell)
      BY <1>3, <3>1, LeastType, WithHas
    <3>3. \A p : Has(db'.t1, p) => Has(db.t1, p) \/ p = o
      BY <1>3, <3>1, LeastType, AddRowHas
    <3>4. QED
      BY <1>2, <3>2, <3>3 DEF Present
  <2>2. CASE RejectOrder(o)
    BY <1>2, <2>2 DEF RejectOrder, viewVars, Present
  <2>3. QED
    BY <1>1, <2>1, <2>2
<1>6. QED
  BY <1>1, <1>2, <1>3, <1>4, <1>5, RequestBalance

LEMMA ModifyBalance ==
  ASSUME IInv, CancelInv, BalanceInv, ProcessModify
  PROVE  BalanceInv'
<1>1. PICK id \in Ids, price \in Prices, quantity \in Quantities :
         \/ ModifyUnknown(id, price, quantity)
         \/ ModifyGone(id, price, quantity)
         \/ ModifyOrder(id, price, quantity)
         \/ DieInModify(id, price, quantity)
  BY DEF ProcessModify
<1> DEFINE q == Modification(id, price, quantity)
           d == DeleteRow(db, id)
<1>2. /\ pc = "idle" /\ pc' # "trade" /\ trades' = trades
      /\ requests' = Append(requests, q)
  BY <1>1 DEF ModifyUnknown, ModifyGone, ModifyOrder, DieInModify, Receive, Exit
<1>3. q.type = "MODIFY" /\ q.order_id = id
  BY DEF Modification
<1>4. mybooks \in [Symbols -> Books(Least)] /\ db \in ProperDB(Least)
  BY DEF IInv, DataInv, DataIn
<1>5. d \in ProperDB(Least) /\ \A p : Has(d.t1, p) => Has(db.t1, p)
  BY <1>4, LeastType, DeleteRowProper, DeleteRowFewer DEF FewerRows
<1> HIDE DEF q, d
<1>6. CASE ModifyUnknown(id, price, quantity) \/ ModifyGone(id, price, quantity)
  <2>1. UNCHANGED <<mybooks, db, todo>>
    BY <1>6 DEF ModifyUnknown, ModifyGone, Receive, viewVars
  <2>2. \A p : Present(p)' => Present(p)
    BY <2>1 DEF Present
  <2>3. QED
    BY <1>2, <1>3, <2>2, RequestBalance
<1>7. CASE ModifyOrder(id, price, quantity)
  <2>1. Resting(id) /\ todo' = todo
    BY <1>7 DEF ModifyOrder, Receive
  <2>2. PICK junk \in JunkQuantities :
           Replace(id, price, junk) /\ db' = AddRow(d, Modified(id, price, junk))
    BY <1>7 DEF ModifyOrder, d
  <2> DEFINE o == Modified(id, price, junk)
             w == BooksWithout(mybooks, myorders[id])
  <2>3. /\ myorders[id] \in ProperOrders(Least) /\ myorders[id].order_id = id
        /\ w \in [Symbols -> Books(Least)]
    BY <2>1, RestingOrder
  <2>4. o \in ProperOrders(Least) /\ o.order_id = id
    BY <2>3, LeastType, ModifiedProper
  <2>5. mybooks' = BooksWith(w, o) /\ db' = AddRow(d, o)
    BY <2>2 DEF Replace
  <2>6. \A s \in Symbols, side \in Sides : \A p :
           Has(w[s][side], p) => Has(mybooks[s][side], p)
    BY <1>4, <2>3, LeastType, WithoutHas
  <2> HIDE DEF o, w
  <2>7. ASSUME NEW least \in {0, 1}, least = Least, NEW c, c = mybooks'
         PROVE  \A s \in Symbols, side \in Sides : \A p :
                   Has(c[s][side], p) => Has(w[s][side], p) \/ p = o
    <3>1. /\ w \in [Symbols -> Books(least)] /\ o \in ProperOrders(least)
          /\ c = BooksWith(w, o)
      BY <2>3, <2>4, <2>5, <2>7
    <3>2. QED
      BY <3>1, WithHas
  <2>8. \A p : Has(db'.t1, p) => Has(db.t1, p) \/ p = o
    BY <1>5, <2>4, <2>5, LeastType, AddRowHas
  <2>9. \A p : Present(p)' => Present(p) \/ p.order_id = id
    <3>1. \A s \in Symbols, side \in Sides : \A p :
             Has(mybooks'[s][side], p) => Has(w[s][side], p) \/ p = o
      BY <2>7, LeastType
    <3>2. QED
      BY <2>1, <2>4, <2>6, <2>8, <3>1 DEF Present
  <2>10. QED
    BY <1>2, <1>3, <2>9, RequestBalance
<1>8. CASE DieInModify(id, price, quantity)
  <2>1. /\ \A s \in Symbols, side \in Sides : mybooks'[s][side] = << >>
        /\ todo' = << >> /\ db' = d
    BY <1>8 DEF DieInModify, Exit, EmptyBook, d
  <2>2. \A p : Present(p)' => Present(p)
    BY <1>5, <2>1, NothingHas DEF Present
  <2>3. QED
    BY <1>2, <1>3, <2>2, RequestBalance
<1>9. QED
  BY <1>1, <1>6, <1>7, <1>8

LEMMA CancelBalance ==
  ASSUME IInv, CancelInv, BalanceInv, ProcessCancel
  PROVE  BalanceInv'
<1>1. PICK id \in Ids : CancelUnknown(id) \/ CancelOrder(id)
  BY DEF ProcessCancel
<1>2. /\ pc = "idle" /\ pc' = "ack" /\ UNCHANGED <<todo, trades>>
  BY <1>1 DEF CancelUnknown, CancelOrder, Receive
<1>3. PICK q : requests' = Append(requests, q) /\ q.type = "CANCEL"
  BY <1>1 DEF CancelUnknown, CancelOrder, Receive
<1>4. \A p : Present(p)' => Present(p)
  <2>1. CASE CancelUnknown(id)
    BY <1>2, <2>1 DEF CancelUnknown, viewVars, Present
  <2>2. CASE CancelOrder(id)
    <3> DEFINE d == DeleteRow(db, id)
               w == BooksWithout(mybooks, myorders[id])
    <3>1. /\ mybooks \in [Symbols -> Books(Least)] /\ db \in ProperDB(Least)
          /\ Resting(id) /\ mybooks' = w /\ db' = d
      BY <2>2 DEF CancelOrder, Withdraw, IInv, DataInv, DataIn
    <3>2. myorders[id] \in ProperOrders(Least)
      BY <3>1, RestingOrder
    <3>3. \A p : Has(d.t1, p) => Has(db.t1, p)
      BY <3>1, LeastType, DeleteRowFewer DEF FewerRows
    <3>4. \A s \in Symbols, side \in Sides : \A p :
             Has(w[s][side], p) => Has(mybooks[s][side], p)
      BY <3>1, <3>2, LeastType, WithoutHas
    <3> HIDE DEF d, w
    <3>5. QED
      BY <1>2, <3>1, <3>3, <3>4 DEF Present
  <2>3. QED
    BY <1>1, <2>1, <2>2
<1>5. QED
  BY <1>2, <1>3, <1>4, RequestBalance

LEMMA BalanceStep ==
  ASSUME UniqueIds, StopsOnlyWhenIdle, Least = 1, EngineInv, RowsInv, BalanceInv, [Next]_vars
  PROVE  BalanceInv'
<1>1. IInv /\ CancelInv
  BY DEF EngineInv
<1>2. QED
  BY <1>1, SilentBalance, LivesBalance, LoadRowBalance, MatchEndsBalance, MatchTradesBalance,
     NewBalance, ModifyBalance, CancelBalance
  DEF Next, Progress

LEMMA InitBalance ==
  ASSUME Init
  PROVE  BalanceInv
<1>1. pc = "load" /\ requests = << >> /\ trades = << >>
  BY DEF Init
<1>2. ASSUME NEW id PROVE Dealt(id) = 0
  <2>1. TradesOf(trades, id) = {}
    BY <1>1 DEF TradesOf
  <2>2. IsFiniteSet({}) /\ \A i \in {} : trades[i].quantity \in Nat
    BY FS_EmptySet
  <2>3. SumOf(trades, {}) = 0
    BY <2>2, SumIs
  <2>4. QED
    BY <1>1, <2>1, <2>3, TradedSum DEF Dealt, Untold, TradedIn
<1>3. QED
  BY <1>1, <1>2 DEF BalanceInv, Ordered

\* Match of orderbookview.h takes what it reports off both orders, puts the rest
\* back, and nothing else touches a quantity: for any number of partial fills, on
\* either side, and over restarts that load the rest from t1, what an order has
\* traded and what rests of it is what was ordered.  A load trades nothing, so
\* that no trade is counted twice; the engine is stopped between requests only,
\* since a stop between match and report takes a trade off the order that nobody
\* is told of.
THEOREM QuantitiesAddUp ==
  ASSUME UniqueIds, StopsOnlyWhenIdle, 0 \notin Quantities
  PROVE  Spec => []Conservation
<1>1. Least = 1
  BY LeastType
<1>2. EngineInv /\ RowsInv /\ BalanceInv /\ [Next]_vars => BalanceInv'
  BY <1>1, BalanceStep
<1>3. EngineInv /\ BalanceInv => Conservation
  <2> SUFFICES ASSUME EngineInv, BalanceInv, pc # "trade",
                      NEW i \in 1 .. Len(requests), requests[i].type = "NEW",
                      ~Modifies(requests[i].order.order_id)
               PROVE  LET o == requests[i].order
                      IN  /\ Traded(o.order_id) <= o.quantity
                          /\ \A r \in InBooks : r.order_id = o.order_id =>
                                r.quantity + Traded(o.order_id) = o.quantity
    BY DEF Conservation
  <2> DEFINE o == requests[i].order
  <2>1. Balanced(o)
    BY DEF BalanceInv, Ordered
  <2>2. Traded(o.order_id) \in Nat
    BY TradedTyped DEF EngineInv
  <2> HIDE DEF o
  <2>3. Dealt(o.order_id) = Traded(o.order_id)
    BY <2>2 DEF Dealt, Untold
  <2>4. \A r \in InBooks : Present(r)
    BY DEF InBooks, AllOrders, Present, Has
  <2>5. QED
    BY <2>1, <2>3, <2>4 DEF Balanced, o
<1>4. QED
  BY RowsInductive, InitBalance, <1>2, <1>3, PTL DEF Spec
=============================================================================
