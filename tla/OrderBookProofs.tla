--------------------------- MODULE OrderBookProofs ---------------------------
(***************************************************************************)
(* Lemmas about the operators of OrderBook, for sides of any length: what  *)
(* a search finds, what an insertion and a removal leave, and that both    *)
(* keep a side in price-time priority; and about those of OrderBookView    *)
(* and Database, for the processes that are built from them: what each     *)
(* leaves of a view whose books are in priority order, and of the tables.  *)
(* At the end, sums of quantities over any finite set of places.           *)
(***************************************************************************)
EXTENDS OrderBookView, Database, TLAPS, SequenceTheorems, FiniteSetTheorems

\* A non-empty set of naturals has a least element: of the intervals 0 .. t,
\* one includes no smaller one.
LEMMA MinIsLeast ==
  ASSUME NEW T \in SUBSET Nat, T # {}
  PROVE  Min(T) \in T /\ \A y \in T : Min(T) <= y
<1> DEFINE Below == {0 .. t : t \in T}
<1>1. Below \subseteq FiniteSubsetsOf(Nat) /\ Below # {}
  <2>1. ASSUME NEW t \in T PROVE 0 .. t \in FiniteSubsetsOf(Nat)
    <3>1. IsFiniteSet(0 .. t)
      BY FS_Interval
    <3>2. QED
      BY <3>1 DEF FiniteSubsetsOf
  <2>2. QED
    BY <2>1
<1>2. PICK X \in Below :
         \A Y \in Below : ~(<<Y, X>> \in StrictSubsetOrdering(Nat))
  <2> HIDE DEF Below
  <2>1. QED
    BY <1>1, WFMin, FS_StrictSubsetOrderingWellFounded
<1>3. PICK x \in T : X = 0 .. x
  OBVIOUS
<1>4. ASSUME NEW y \in T, y < x PROVE FALSE
  <2>1. /\ 0 .. y \in Below /\ 0 .. y \subseteq X /\ x \in X /\ x \notin 0 .. y
        /\ X \in SUBSET Nat
    BY <1>3, <1>4
  <2>2. <<0 .. y, X>> \in StrictSubsetOrdering(Nat)
    BY <2>1 DEF StrictSubsetOrdering
  <2>3. QED
    BY <1>2, <2>1, <2>2
<1>5. \A y \in T : x <= y
  BY <1>4
<1>6. \E z \in T : \A y \in T : z <= y
  BY <1>5
<1>7. QED
  BY <1>6, Zenon DEF Min

\* A search stops at the first position that is not in P.
LEMMA FirstOutsideFinds ==
  ASSUME NEW S, NEW s \in Seq(S), NEW P \in SUBSET (1 .. Len(s))
  PROVE  /\ FirstOutside(s, P) \in 1 .. Len(s) + 1
         /\ FirstOutside(s, P) \notin P
         /\ \A i \in 1 .. FirstOutside(s, P) - 1 : i \in P
<1> DEFINE T == (1 .. Len(s) + 1) \ P
           k == FirstOutside(s, P)
<1>1. Len(s) \in Nat /\ Len(s) + 1 \in T
  BY LenProperties
<1>2. T \in SUBSET Nat
  BY <1>1
<1>3. k = Min(T)
  BY DEF FirstOutside
<1>4. k \in T /\ \A y \in T : k <= y
  <2> HIDE DEF T, k
  <2>1. QED
    BY <1>1, <1>2, <1>3, MinIsLeast
<1> HIDE DEF k
<1>5. k \in 1 .. Len(s) + 1 /\ k \notin P
  BY <1>4
<1>6. ASSUME NEW i \in 1 .. k - 1, i \notin P PROVE FALSE
  <2>1. i \in T /\ i < k
    BY <1>1, <1>5, <1>6
  <2>2. QED
    BY <1>1, <1>4, <1>5, <2>1
<1>7. QED
  BY <1>5, <1>6 DEF k

LEMMA InsertAtElements ==
  ASSUME NEW S, NEW s \in Seq(S), NEW e \in S, NEW i \in 1 .. Len(s) + 1
  PROVE  /\ InsertAt(s, i, e) \in Seq(S)
         /\ Len(InsertAt(s, i, e)) = Len(s) + 1
         /\ \A j \in 1 .. Len(s) + 1 :
               InsertAt(s, i, e)[j] = IF j < i THEN s[j]
                                      ELSE IF j = i THEN e ELSE s[j - 1]
<1> DEFINE a == SubSeq(s, 1, i - 1)
           b == SubSeq(s, i, Len(s))
<1>1. Len(s) \in Nat /\ \A j \in 1 .. Len(s) : s[j] \in S
  BY LenProperties, ElementOfSeq
<1>2. /\ a \in Seq(S) /\ Len(a) = i - 1
      /\ \A j \in 1 .. i - 1 : a[j] = s[j]
  <2>1. \A j \in 1 .. i - 1 : s[j] \in S
    BY <1>1
  <2>2. 1 \in Int /\ i - 1 \in Int
    BY <1>1
  <2>3. /\ a \in Seq(S) /\ Len(a) = IF 1 <= i - 1 THEN (i - 1) - 1 + 1 ELSE 0
        /\ \A j \in 1 .. (i - 1) - 1 + 1 : a[j] = s[1 + j - 1]
    BY <2>1, <2>2, SubSeqProperties
  <2>4. QED
    BY <1>1, <2>3
<1>3. /\ b \in Seq(S) /\ Len(b) = Len(s) - i + 1
      /\ \A j \in 1 .. Len(s) - i + 1 : b[j] = s[i + j - 1]
  <2>1. \A j \in i .. Len(s) : s[j] \in S
    BY <1>1
  <2>2. i \in Int /\ Len(s) \in Int
    BY <1>1
  <2>3. /\ b \in Seq(S) /\ Len(b) = IF i <= Len(s) THEN Len(s) - i + 1 ELSE 0
        /\ \A j \in 1 .. Len(s) - i + 1 : b[j] = s[i + j - 1]
    BY <2>1, <2>2, SubSeqProperties
  <2>4. QED
    BY <1>1, <2>3
<1> HIDE DEF a, b
<1>4. /\ a \o <<e>> \in Seq(S) /\ Len(a \o <<e>>) = i
      /\ \A j \in 1 .. i : (a \o <<e>>)[j] = IF j < i THEN s[j] ELSE e
  <2>1. <<e>> \in Seq(S) /\ Len(<<e>>) = 1 /\ <<e>>[1] = e
    OBVIOUS
  <2>2. /\ a \o <<e>> \in Seq(S) /\ Len(a \o <<e>>) = Len(a) + Len(<<e>>)
        /\ \A j \in 1 .. Len(a) + Len(<<e>>) :
              (a \o <<e>>)[j] = IF j <= Len(a) THEN a[j] ELSE <<e>>[j - Len(a)]
    BY <1>2, <2>1, ConcatProperties
  <2>3. QED
    BY <1>1, <1>2, <2>1, <2>2
<1> DEFINE c == a \o <<e>>
<1> HIDE DEF c
<1>5. /\ c \o b \in Seq(S) /\ Len(c \o b) = Len(c) + Len(b)
      /\ \A j \in 1 .. Len(c) + Len(b) :
            (c \o b)[j] = IF j <= Len(c) THEN c[j] ELSE b[j - Len(c)]
  <2>1. b \in Seq(S) /\ c \in Seq(S)
    BY <1>3, <1>4 DEF c
  <2>2. QED
    BY <2>1, ConcatProperties
<1>6. InsertAt(s, i, e) = c \o b
  BY DEF InsertAt, a, b, c
<1>7. /\ Len(c) = i /\ \A j \in 1 .. i : c[j] = IF j < i THEN s[j] ELSE e
  BY <1>4 DEF c
<1>8. Len(c \o b) = Len(s) + 1
  BY <1>1, <1>3, <1>5, <1>7
<1>9. ASSUME NEW j \in 1 .. Len(s) + 1
      PROVE  (c \o b)[j] = IF j < i THEN s[j]
                           ELSE IF j = i THEN e ELSE s[j - 1]
  <2>1. CASE j <= i
    BY <1>1, <1>3, <1>5, <1>7, <2>1
  <2>2. CASE j > i
    <3>1. j - i \in 1 .. Len(s) - i + 1 /\ i + (j - i) - 1 = j - 1
      BY <1>1, <2>2
    <3>2. (c \o b)[j] = b[j - i]
      BY <1>1, <1>3, <1>5, <1>7, <2>2
    <3>3. QED
      BY <1>1, <1>3, <2>2, <3>1, <3>2
  <2>3. j <= i \/ j > i
    BY <1>1
  <2>4. QED
    BY <2>1, <2>2, <2>3, Zenon
<1>10. QED
  BY <1>5, <1>6, <1>8, <1>9

LEMMA RemoveAtElements ==
  ASSUME NEW S, NEW s \in Seq(S), NEW i \in 1 .. Len(s)
  PROVE  /\ RemoveAt(s, i) \in Seq(S)
         /\ Len(RemoveAt(s, i)) = Len(s) - 1
         /\ \A j \in 1 .. Len(s) - 1 :
               RemoveAt(s, i)[j] = IF j < i THEN s[j] ELSE s[j + 1]
<1> DEFINE a == SubSeq(s, 1, i - 1)
           b == SubSeq(s, i + 1, Len(s))
<1>1. Len(s) \in Nat /\ \A j \in 1 .. Len(s) : s[j] \in S
  BY LenProperties, ElementOfSeq
<1>2. /\ a \in Seq(S) /\ Len(a) = i - 1
      /\ \A j \in 1 .. i - 1 : a[j] = s[j]
  <2>1. \A j \in 1 .. i - 1 : s[j] \in S
    BY <1>1
  <2>2. 1 \in Int /\ i - 1 \in Int
    BY <1>1
  <2>3. /\ a \in Seq(S) /\ Len(a) = IF 1 <= i - 1 THEN (i - 1) - 1 + 1 ELSE 0
        /\ \A j \in 1 .. (i - 1) - 1 + 1 : a[j] = s[1 + j - 1]
    BY <2>1, <2>2, SubSeqProperties
  <2>4. QED
    BY <1>1, <2>3
<1>3. /\ b \in Seq(S) /\ Len(b) = Len(s) - i
      /\ \A j \in 1 .. Len(s) - i : b[j] = s[i + j]
  <2>1. \A j \in i + 1 .. Len(s) : s[j] \in S
    BY <1>1
  <2>2. i + 1 \in Int /\ Len(s) \in Int
    BY <1>1
  <2>3. /\ b \in Seq(S)
        /\ Len(b) = IF i + 1 <= Len(s) THEN Len(s) - (i + 1) + 1 ELSE 0
        /\ \A j \in 1 .. Len(s) - (i + 1) + 1 : b[j] = s[(i + 1) + j - 1]
    BY <2>1, <2>2, SubSeqProperties
  <2>4. QED
    BY <1>1, <2>3
<1> HIDE DEF a, b
<1>4. /\ a \o b \in Seq(S) /\ Len(a \o b) = Len(a) + Len(b)
      /\ \A j \in 1 .. Len(a) + Len(b) :
            (a \o b)[j] = IF j <= Len(a) THEN a[j] ELSE b[j - Len(a)]
  BY <1>2, <1>3, ConcatProperties
<1>5. RemoveAt(s, i) = a \o b
  BY DEF RemoveAt, a, b
<1>6. Len(a \o b) = Len(s) - 1
  BY <1>1, <1>2, <1>3, <1>4
<1>7. ASSUME NEW j \in 1 .. Len(s) - 1
      PROVE  (a \o b)[j] = IF j < i THEN s[j] ELSE s[j + 1]
  <2>1. CASE j < i
    BY <1>1, <1>2, <1>3, <1>4, <2>1
  <2>2. CASE j >= i
    <3>1. j - (i - 1) \in 1 .. Len(s) - i /\ i + (j - (i - 1)) = j + 1
      BY <1>1, <2>2
    <3>2. (a \o b)[j] = b[j - (i - 1)]
      BY <1>1, <1>2, <1>3, <1>4, <2>2
    <3>3. QED
      BY <1>1, <1>3, <2>2, <3>1, <3>2
  <2>3. j < i \/ j >= i
    BY <1>1
  <2>4. QED
    BY <2>1, <2>2, <2>3, Zenon
<1>8. QED
  BY <1>4, <1>5, <1>6, <1>7
-----------------------------------------------------------------------------
(* Priority.  least, 0 or 1, is a lower bound of the quantities. *)

ProperOrders(least) ==
  {o \in Order : /\ o.order_type = "LIMIT" => o.price \in Prices
                 /\ o.quantity >= least}

SideOrders(side, least) == {o \in ProperOrders(least) : o.buysell = side}

Sorted(s) == \A i, j \in 1 .. Len(s) : i < j => Ahead(s[i], s[j])

\* Every order of t is one of s.
Within(t, s) == \A i \in 1 .. Len(t) : \E j \in 1 .. Len(s) : t[i] = s[j]

\* What Ahead looks at.
LEMMA OrderFields ==
  ASSUME NEW side \in Sides, NEW least \in {0, 1},
         NEW o \in SideOrders(side, least)
  PROVE  /\ o.buysell = side /\ o.order_type \in {"MARKET", "LIMIT"}
         /\ o.timestamp \in Nat /\ o.quantity \in Nat /\ o.quantity >= least
         /\ ~IsMarket(o) => o.price \in Nat /\ o.price \in Prices
  BY PriceAssumption DEF SideOrders, ProperOrders, Order, IsMarket

LEMMA AheadTotal ==
  ASSUME NEW side \in Sides, NEW least \in {0, 1},
         NEW p \in SideOrders(side, least), NEW o \in SideOrders(side, least),
         ~Ahead(p, o)
  PROVE  Ahead(o, p)
  BY OrderFields DEF Sides, Ahead, BetterLevel, SameLevel, IsMarket

LEMMA AheadTransitive ==
  ASSUME NEW side \in Sides, NEW least \in {0, 1},
         NEW p \in SideOrders(side, least), NEW o \in SideOrders(side, least),
         NEW r \in SideOrders(side, least),
         Ahead(p, o), Ahead(o, r)
  PROVE  Ahead(p, r)
  BY OrderFields DEF Sides, Ahead, BetterLevel, SameLevel, IsMarket

\* AddOrder puts an order where the side stays sorted, and adds nothing else.
LEMMA AddOrderSorted ==
  ASSUME NEW side \in Sides, NEW least \in {0, 1},
         NEW s \in Seq(SideOrders(side, least)), Sorted(s),
         NEW o \in SideOrders(side, least)
  PROVE  /\ AddOrder(s, o) \in Seq(SideOrders(side, least))
         /\ Sorted(AddOrder(s, o))
         /\ Within(AddOrder(s, o), Append(s, o))
<1> DEFINE S == SideOrders(side, least)
           P == {i \in 1 .. Len(s) : Ahead(s[i], o)}
           k == Place(s, o)
           t == AddOrder(s, o)
<1>1. Len(s) \in Nat /\ \A i \in 1 .. Len(s) : s[i] \in S
  BY LenProperties, ElementOfSeq
<1>2. /\ k \in 1 .. Len(s) + 1 /\ k \notin P
      /\ \A i \in 1 .. k - 1 : i \in P
  <2>1. P \in SUBSET (1 .. Len(s)) /\ k = FirstOutside(s, P)
    BY DEF Place
  <2>2. QED
    BY <2>1, FirstOutsideFinds
<1> HIDE DEF k, S
<1>3. /\ t \in Seq(S) /\ Len(t) = Len(s) + 1
      /\ \A j \in 1 .. Len(s) + 1 :
            t[j] = IF j < k THEN s[j] ELSE IF j = k THEN o ELSE s[j - 1]
  <2>1. s \in Seq(S) /\ o \in S
    BY DEF S
  <2>2. t = InsertAt(s, k, o)
    BY DEF AddOrder, k
  <2>3. /\ InsertAt(s, k, o) \in Seq(S) /\ Len(InsertAt(s, k, o)) = Len(s) + 1
        /\ \A j \in 1 .. Len(s) + 1 :
              InsertAt(s, k, o)[j] = IF j < k THEN s[j]
                                     ELSE IF j = k THEN o ELSE s[j - 1]
    BY <1>2, <2>1, InsertAtElements
  <2>4. QED
    BY <2>2, <2>3
<1> HIDE DEF t
<1>4. \A i \in 1 .. k - 1 : Ahead(s[i], o)
  BY <1>2
<1>5. \A j \in k .. Len(s) : Ahead(o, s[j])
  <2> SUFFICES ASSUME NEW j \in k .. Len(s) PROVE Ahead(o, s[j])
    OBVIOUS
  <2>1. k \in 1 .. Len(s) /\ j \in 1 .. Len(s) /\ ~Ahead(s[k], o)
    BY <1>1, <1>2
  <2>2. Ahead(o, s[k])
    BY <1>1, <2>1, AheadTotal DEF S
  <2>3. CASE j = k
    BY <2>2, <2>3
  <2>4. CASE k < j
    <3>1. Ahead(s[k], s[j])
      BY <2>1, <2>4 DEF Sorted
    <3>2. QED
      BY <1>1, <2>1, <2>2, <3>1, AheadTransitive DEF S
  <2>5. QED
    BY <1>1, <1>2, <2>3, <2>4
<1>6. Sorted(t)
  <2> SUFFICES ASSUME NEW i \in 1 .. Len(t), NEW j \in 1 .. Len(t), i < j
               PROVE  Ahead(t[i], t[j])
    BY DEF Sorted
  <2>1. CASE j < k
    BY <1>1, <1>2, <1>3, <2>1 DEF Sorted
  <2>2. CASE j = k
    BY <1>1, <1>2, <1>3, <1>4, <2>2
  <2>3. CASE k < j /\ i < k
    <3>1. t[i] = s[i] /\ t[j] = s[j - 1] /\ i \in 1 .. Len(s)
          /\ j - 1 \in 1 .. Len(s) /\ i < j - 1
      BY <1>1, <1>2, <1>3, <2>3
    <3>2. QED
      BY <3>1 DEF Sorted
  <2>4. CASE i = k
    <3>1. t[i] = o /\ t[j] = s[j - 1] /\ j - 1 \in k .. Len(s)
      BY <1>1, <1>2, <1>3, <2>4
    <3>2. QED
      BY <1>5, <3>1
  <2>5. CASE k < i
    <3>1. t[i] = s[i - 1] /\ t[j] = s[j - 1] /\ i - 1 \in 1 .. Len(s)
          /\ j - 1 \in 1 .. Len(s) /\ i - 1 < j - 1
      BY <1>1, <1>2, <1>3, <2>5
    <3>2. QED
      BY <3>1 DEF Sorted
  <2>6. QED
    BY <1>1, <1>2, <1>3, <2>1, <2>2, <2>3, <2>4, <2>5
<1>7. Within(t, Append(s, o))
  <2> DEFINE u == Append(s, o)
  <2>1. /\ Len(u) = Len(s) + 1 /\ u[Len(s) + 1] = o
        /\ \A i \in 1 .. Len(s) : u[i] = s[i]
    <3>1. s \in Seq(S) /\ o \in S
      BY DEF S
    <3>2. QED
      BY <3>1, AppendProperties
  <2> HIDE DEF u
  <2> SUFFICES ASSUME NEW i \in 1 .. Len(t)
               PROVE  \E j \in 1 .. Len(u) : t[i] = u[j]
    BY DEF Within, u
  <2>2. CASE i < k
    <3>1. i \in 1 .. Len(u) /\ t[i] = u[i]
      BY <1>1, <1>2, <1>3, <2>1, <2>2
    <3>2. QED
      BY <3>1
  <2>3. CASE i = k
    <3>1. Len(s) + 1 \in 1 .. Len(u) /\ t[i] = u[Len(s) + 1]
      BY <1>1, <1>2, <1>3, <2>1, <2>3
    <3>2. QED
      BY <3>1
  <2>4. CASE k < i
    <3>1. i - 1 \in 1 .. Len(s) /\ i - 1 \in 1 .. Len(u)
      BY <1>1, <1>2, <1>3, <2>1, <2>4
    <3>2. t[i] = s[i - 1]
      BY <1>1, <1>2, <1>3, <2>4
    <3>3. QED
      BY <2>1, <3>1, <3>2
  <2>5. QED
    BY <1>1, <1>2, <1>3, <2>2, <2>3, <2>4
<1>8. QED
  BY <1>3, <1>6, <1>7 DEF t, S

\* A side from which one position is taken stays sorted.
LEMMA RemoveAtSorted ==
  ASSUME NEW S, NEW s \in Seq(S), NEW k \in 1 .. Len(s)
  PROVE  /\ RemoveAt(s, k) \in Seq(S)
         /\ Sorted(s) => Sorted(RemoveAt(s, k))
         /\ Within(RemoveAt(s, k), s)
<1> DEFINE t == RemoveAt(s, k)
<1>1. Len(s) \in Nat
  BY LenProperties
<1>2. /\ t \in Seq(S) /\ Len(t) = Len(s) - 1
      /\ \A j \in 1 .. Len(s) - 1 : t[j] = IF j < k THEN s[j] ELSE s[j + 1]
  BY RemoveAtElements
<1> HIDE DEF t
<1>3. \A j \in 1 .. Len(t) : j \in 1 .. Len(s) /\ j + 1 \in 1 .. Len(s)
  BY <1>1, <1>2
<1>4. Within(t, s)
  BY <1>1, <1>2, <1>3 DEF Within
<1>5. ASSUME Sorted(s), NEW i \in 1 .. Len(t), NEW j \in 1 .. Len(t), i < j
      PROVE  Ahead(t[i], t[j])
  <2>1. CASE j < k
    <3>1. t[i] = s[i] /\ t[j] = s[j]
      BY <1>1, <1>2, <1>5, <2>1
    <3>2. QED
      BY <1>3, <1>5, <3>1 DEF Sorted
  <2>2. CASE i < k /\ j >= k
    <3>1. t[i] = s[i] /\ t[j] = s[j + 1] /\ i < j + 1
      BY <1>1, <1>2, <1>5, <2>2
    <3>2. QED
      BY <1>3, <1>5, <3>1 DEF Sorted
  <2>3. CASE i >= k
    <3>1. t[i] = s[i + 1] /\ t[j] = s[j + 1] /\ i + 1 < j + 1
      BY <1>1, <1>2, <1>5, <2>3
    <3>2. QED
      BY <1>3, <1>5, <3>1 DEF Sorted
  <2>4. QED
    BY <1>1, <1>2, <2>1, <2>2, <2>3
<1>6. QED
  BY <1>2, <1>4, <1>5 DEF Sorted, t

LEMMA RemoveOrderElements ==
  ASSUME NEW S, NEW s \in Seq(S), NEW id
  PROVE  /\ RemoveOrder(s, id) \in Seq(S)
         /\ Sorted(s) => Sorted(RemoveOrder(s, id))
         /\ Within(RemoveOrder(s, id), s)
<1> DEFINE P == {i \in 1 .. Len(s) : s[i].order_id # id}
           k == PositionOf(s, id)
<1>1. CASE Holds(s, id)
  <2>1. P \in SUBSET (1 .. Len(s)) /\ k = FirstOutside(s, P)
    BY DEF PositionOf
  <2> HIDE DEF k
  <2>2. k \in 1 .. Len(s) + 1 /\ \A i \in 1 .. k - 1 : i \in P
    BY <2>1, FirstOutsideFinds
  <2>3. PICK i \in 1 .. Len(s) : s[i].order_id = id
    BY <1>1 DEF Holds
  <2>4. Len(s) \in Nat /\ i \notin 1 .. k - 1
    BY <2>2, <2>3, LenProperties
  <2>5. k \in 1 .. Len(s)
    BY <2>2, <2>4
  <2>6. RemoveOrder(s, id) = RemoveAt(s, k)
    BY <1>1 DEF RemoveOrder, k
  <2>7. /\ RemoveAt(s, k) \in Seq(S) /\ (Sorted(s) => Sorted(RemoveAt(s, k)))
        /\ Within(RemoveAt(s, k), s)
    BY <2>5, RemoveAtSorted
  <2>8. QED
    BY <2>6, <2>7
<1>2. CASE ~Holds(s, id)
  BY <1>2 DEF RemoveOrder, Within
<1>3. QED
  BY <1>1, <1>2

\* So does what is left of it from some position on.
LEMMA SuffixSorted ==
  ASSUME NEW S, NEW s \in Seq(S), Sorted(s), NEW k \in 1 .. Len(s) + 1
  PROVE  /\ SubSeq(s, k, Len(s)) \in Seq(S)
         /\ Sorted(SubSeq(s, k, Len(s)))
         /\ Within(SubSeq(s, k, Len(s)), s)
         /\ Len(SubSeq(s, k, Len(s))) = Len(s) - k + 1
         /\ \A j \in 1 .. Len(s) - k + 1 : SubSeq(s, k, Len(s))[j] = s[k + j - 1]
<1> DEFINE t == SubSeq(s, k, Len(s))
<1>1. Len(s) \in Nat /\ \A j \in 1 .. Len(s) : s[j] \in S
  BY LenProperties, ElementOfSeq
<1>2. /\ t \in Seq(S) /\ Len(t) = IF k <= Len(s) THEN Len(s) - k + 1 ELSE 0
      /\ \A j \in 1 .. Len(s) - k + 1 : t[j] = s[k + j - 1]
  <2>1. k \in Int /\ Len(s) \in Int /\ \A j \in k .. Len(s) : s[j] \in S
    BY <1>1
  <2>2. QED
    BY <2>1, SubSeqProperties
<1> HIDE DEF t
<1>3. Len(t) = Len(s) - k + 1
  BY <1>1, <1>2
<1>4. \A j \in 1 .. Len(t) : k + j - 1 \in 1 .. Len(s)
  BY <1>1, <1>3
<1>5. Within(t, s)
  BY <1>2, <1>3, <1>4 DEF Within
<1>6. ASSUME NEW i \in 1 .. Len(t), NEW j \in 1 .. Len(t), i < j
      PROVE  Ahead(t[i], t[j])
  <2>1. k + i - 1 < k + j - 1 /\ t[i] = s[k + i - 1] /\ t[j] = s[k + j - 1]
    BY <1>1, <1>2, <1>3, <1>6
  <2>2. QED
    BY <1>4, <2>1 DEF Sorted
<1>7. QED
  BY <1>2, <1>3, <1>5, <1>6 DEF Sorted, t

LEMMA TailSorted ==
  ASSUME NEW S, NEW s \in Seq(S), s # << >>, Sorted(s)
  PROVE  /\ Tail(s) \in Seq(S) /\ Sorted(Tail(s)) /\ Within(Tail(s), s)
<1>1. Len(s) \in Nat /\ 2 \in 1 .. Len(s) + 1
  BY LenProperties, EmptySeq
<1>2. Tail(s) = SubSeq(s, 2, Len(s))
  BY TailIsSubSeq
<1>3. QED
  BY <1>1, <1>2, SuffixSorted

NoMarket(s) == \A i \in 1 .. Len(s) : ~IsMarket(s[i])

\* Market orders come first.
LEMMA MarketsFirst ==
  ASSUME NEW s, Sorted(s), NEW i \in 1 .. Len(s), NEW j \in 1 .. Len(s),
         i < j, IsMarket(s[j])
  PROVE  IsMarket(s[i])
  BY DEF Sorted, Ahead, BetterLevel, SameLevel, IsMarket

\* Popping the level of market orders leaves limit orders only.
LEMMA PopMarketLevelSorted ==
  ASSUME NEW S, NEW s \in Seq(S), Sorted(s)
  PROVE  /\ PopMarketLevel(s) \in Seq(S)
         /\ Sorted(PopMarketLevel(s))
         /\ NoMarket(PopMarketLevel(s))
         /\ Len(PopMarketLevel(s)) <= Len(s)
<1> DEFINE P == {i \in 1 .. Len(s) : IsMarket(s[i])}
           k == FirstOutside(s, P)
           t == SubSeq(s, k, Len(s))
<1>1. /\ k \in 1 .. Len(s) + 1 /\ k \notin P /\ Len(s) \in Nat
  <2>1. P \in SUBSET (1 .. Len(s))
    OBVIOUS
  <2>2. QED
    BY <2>1, FirstOutsideFinds, LenProperties
<1> HIDE DEF k
<1>2. /\ t \in Seq(S) /\ Sorted(t) /\ Len(t) = Len(s) - k + 1
      /\ \A j \in 1 .. Len(s) - k + 1 : t[j] = s[k + j - 1]
  BY <1>1, SuffixSorted
<1> HIDE DEF t
<1>3. ASSUME NEW j \in 1 .. Len(t), IsMarket(t[j]) PROVE FALSE
  <2>1. k + j - 1 \in 1 .. Len(s) /\ k \in 1 .. Len(s) /\ IsMarket(s[k + j - 1])
    BY <1>1, <1>2, <1>3
  <2>2. ~IsMarket(s[k])
    BY <1>1, <2>1
  <2>3. CASE j = 1
    BY <1>1, <2>1, <2>2, <2>3
  <2>4. CASE j > 1
    <3>1. k < k + j - 1
      BY <1>1, <2>4
    <3>2. QED
      BY <2>1, <2>2, <3>1, MarketsFirst
  <2>5. QED
    BY <1>2, <2>3, <2>4
<1>4. PopMarketLevel(s) = t
  BY DEF PopMarketLevel, t, k
<1>5. Len(t) <= Len(s)
  BY <1>1, <1>2
<1>6. QED
  BY <1>2, <1>3, <1>4, <1>5 DEF NoMarket

\* What is left of an order is one, if it is anything.
LEMMA RestProper ==
  ASSUME NEW side \in Sides, NEW least \in {0, 1},
         NEW o \in SideOrders(side, least), NEW q \in 0 .. o.quantity
  PROVE  /\ Rest(o, q) \in Order
         /\ Rest(o, q).quantity = o.quantity - q
         /\ Rest(o, q).order_id = o.order_id
         /\ Rest(o, q).order_type = o.order_type
         /\ Rest(o, q).price = o.price
         /\ Rest(o, q).quantity > 0 => Rest(o, q) \in SideOrders(side, least)
<1>1. o \in Order /\ o.quantity \in Nat /\ o.buysell = side
      /\ (o.order_type = "LIMIT" => o.price \in Prices)
  BY DEF SideOrders, ProperOrders, Order
<1>2. o.quantity - q \in Nat
  BY <1>1
<1>3. Rest(o, q) = [order_id |-> o.order_id, order_type |-> o.order_type,
                    buysell |-> o.buysell, symbol |-> o.symbol,
                    price |-> o.price, quantity |-> o.quantity - q,
                    timestamp |-> o.timestamp]
  BY <1>1 DEF Rest, Order
<1>4. Rest(o, q) \in Order
  BY <1>1, <1>2, <1>3 DEF Order
<1>5. QED
  BY <1>1, <1>2, <1>3, <1>4 DEF SideOrders, ProperOrders

\* Executing the head keeps a side sorted and brings no market order to a side
\* without one.
LEMMA ExecutedSorted ==
  ASSUME NEW side \in Sides, NEW least \in {0, 1},
         NEW s \in Seq(SideOrders(side, least)), s # << >>, Sorted(s),
         NEW q \in 0 .. Head(s).quantity
  PROVE  /\ Executed(s, q) \in Seq(SideOrders(side, least))
         /\ Sorted(Executed(s, q))
         /\ NoMarket(s) => NoMarket(Executed(s, q))
<1> DEFINE S == SideOrders(side, least)
           t == Tail(s)
           o == Rest(Head(s), q)
<1>1. /\ t \in Seq(S) /\ Sorted(t) /\ Within(t, s)
      /\ Head(s) \in S /\ Len(s) \in Nat /\ 1 \in 1 .. Len(s) /\ Head(s) = s[1]
  BY TailSorted, HeadTailProperties, EmptySeq
<1>2. /\ o.order_type = Head(s).order_type
      /\ o.quantity > 0 => o \in S
  BY <1>1, RestProper
<1>3. NoMarket(s) => NoMarket(t) /\ ~IsMarket(o)
  BY <1>1, <1>2 DEF NoMarket, Within, IsMarket
<1> HIDE DEF S, t, o
<1>4. CASE o.quantity > 0
  <2>1. /\ AddOrder(t, o) \in Seq(S) /\ Sorted(AddOrder(t, o))
        /\ Within(AddOrder(t, o), Append(t, o))
    BY <1>1, <1>2, <1>4, AddOrderSorted DEF S
  <2>2. /\ Len(Append(t, o)) = Len(t) + 1 /\ Append(t, o)[Len(t) + 1] = o
        /\ \A i \in 1 .. Len(t) : Append(t, o)[i] = t[i]
    BY <1>1, <1>2, <1>4, AppendProperties
  <2>3. Len(t) \in Nat
    BY <1>1, LenProperties
  <2>4. NoMarket(s) => NoMarket(Append(t, o))
    BY <1>3, <2>2, <2>3 DEF NoMarket
  <2>5. NoMarket(s) => NoMarket(AddOrder(t, o))
    BY <2>1, <2>4 DEF NoMarket, Within
  <2>6. Executed(s, q) = AddOrder(t, o)
    BY <1>4 DEF Executed, t, o
  <2>7. QED
    BY <2>1, <2>5, <2>6 DEF S
<1>5. CASE ~(o.quantity > 0)
  <2>1. Executed(s, q) = t
    BY <1>5 DEF Executed, t, o
  <2>2. QED
    BY <1>1, <1>3, <2>1 DEF S
<1>6. QED
  BY <1>4, <1>5
-----------------------------------------------------------------------------
(* Books *)

Books(least) ==
  {b \in [Sides -> Seq(Order)] :
     \A side \in Sides :
        b[side] \in Seq(SideOrders(side, least)) /\ Sorted(b[side])}

\* At most one side has market orders.
OneSided(b) == \E side \in Sides : NoMarket(b[side])

\* No market order rests, and the prices miss each other.
Quiet(b) ==
  /\ \A side \in Sides : NoMarket(b[side])
  /\ \A i \in 1 .. Len(b["BUY"]), j \in 1 .. Len(b["SELL"]) :
        b["BUY"][i].price < b["SELL"][j].price

LEMMA SideOrdersAreOrders ==
  ASSUME NEW side, NEW least
  PROVE  /\ SideOrders(side, least) \subseteq ProperOrders(least)
         /\ ProperOrders(least) \subseteq Order
         /\ Seq(SideOrders(side, least)) \subseteq Seq(Order)
<1>1. SideOrders(side, least) \subseteq Order
  BY DEF SideOrders, ProperOrders
<1>2. QED
  BY <1>1, SeqMonotonic DEF SideOrders, ProperOrders

\* The heads of a book, and what they can trade.
LEMMA Heads ==
  ASSUME NEW least \in {0, 1}, NEW b \in Books(least), Crosses(b)
  PROVE  /\ b["BUY"] # << >> /\ b["SELL"] # << >>
         /\ HeadBuy(b) = b["BUY"][1] /\ HeadSell(b) = b["SELL"][1]
         /\ 1 \in 1 .. Len(b["BUY"]) /\ 1 \in 1 .. Len(b["SELL"])
         /\ HeadBuy(b) \in SideOrders("BUY", least)
         /\ HeadSell(b) \in SideOrders("SELL", least)
         /\ TradeQuantity(b) \in 0 .. HeadBuy(b).quantity
         /\ TradeQuantity(b) \in 0 .. HeadSell(b).quantity
         /\ TradeQuantity(b) >= least
<1>1. /\ b["BUY"] \in Seq(SideOrders("BUY", least)) /\ b["BUY"] # << >>
      /\ b["SELL"] \in Seq(SideOrders("SELL", least)) /\ b["SELL"] # << >>
  BY DEF Books, Crosses, EmptySide, Sides
<1>2. /\ HeadBuy(b) \in SideOrders("BUY", least) /\ HeadBuy(b) = b["BUY"][1]
      /\ 1 \in 1 .. Len(b["BUY"])
  BY <1>1, EmptySeq, HeadTailProperties DEF HeadBuy
<1>3. /\ HeadSell(b) \in SideOrders("SELL", least) /\ HeadSell(b) = b["SELL"][1]
      /\ 1 \in 1 .. Len(b["SELL"])
  BY <1>1, EmptySeq, HeadTailProperties DEF HeadSell
<1>4. /\ HeadBuy(b).quantity \in Nat /\ HeadBuy(b).quantity >= least
      /\ HeadSell(b).quantity \in Nat /\ HeadSell(b).quantity >= least
  BY <1>2, <1>3, OrderFields DEF Sides
<1>5. QED
  BY <1>1, <1>2, <1>3, <1>4 DEF TradeQuantity

\* Match keeps both sides in order, and market orders on one of them.
LEMMA MatchedBookSorted ==
  ASSUME NEW least \in {0, 1}, NEW b \in Books(least)
  PROVE  /\ MatchedBook(b) \in Books(least)
         /\ OneSided(b) => OneSided(MatchedBook(b))
<1>1. ASSUME NEW side \in Sides
      PROVE  /\ MatchedSide(b, side) \in Seq(SideOrders(side, least))
             /\ Sorted(MatchedSide(b, side))
             /\ NoMarket(b[side]) => NoMarket(MatchedSide(b, side))
  <2>1. b[side] \in Seq(SideOrders(side, least)) /\ Sorted(b[side])
    BY DEF Books
  <2>2. CASE Crosses(b)
    <3>1. b[side] # << >> /\ TradeQuantity(b) \in 0 .. Head(b[side]).quantity
      <4>1. CASE side = "BUY"
        BY <2>2, <4>1, Heads DEF HeadBuy
      <4>2. CASE side = "SELL"
        BY <2>2, <4>2, Heads DEF HeadSell
      <4>3. QED
        BY <4>1, <4>2 DEF Sides
    <3>2. MatchedSide(b, side) = Executed(b[side], TradeQuantity(b))
      BY <2>2 DEF MatchedSide
    <3>3. /\ Executed(b[side], TradeQuantity(b)) \in Seq(SideOrders(side, least))
          /\ Sorted(Executed(b[side], TradeQuantity(b)))
          /\ NoMarket(b[side]) => NoMarket(Executed(b[side], TradeQuantity(b)))
      BY <2>1, <3>1, ExecutedSorted
    <3>4. QED
      BY <3>2, <3>3, Zenon
  <2>3. CASE ~Crosses(b)
    <3>1. MatchedSide(b, side) \in {PopMarketLevel(b[side]), b[side]}
      BY <2>3 DEF MatchedSide
    <3>2. /\ PopMarketLevel(b[side]) \in Seq(SideOrders(side, least))
          /\ Sorted(PopMarketLevel(b[side])) /\ NoMarket(PopMarketLevel(b[side]))
      BY <2>1, PopMarketLevelSorted
    <3>3. QED
      BY <2>1, <3>1, <3>2, Zenon
  <2>4. QED
    BY <2>2, <2>3, Zenon
<1>2. \A side \in Sides : MatchedBook(b)[side] = MatchedSide(b, side)
  BY DEF MatchedBook
<1>3. MatchedBook(b) \in [Sides -> Seq(Order)]
  BY <1>1, SideOrdersAreOrders DEF MatchedBook
<1>4. QED
  BY <1>1, <1>2, <1>3 DEF Books, OneSided

\* When the heads do not trade, Match leaves nothing that could.
LEMMA MatchedBookQuiet ==
  ASSUME NEW b \in Books(1), ~(Crosses(b) /\ TradeQuantity(b) > 0)
  PROVE  Quiet(MatchedBook(b))
<1> DEFINE m == MatchedBook(b)
<1>1. ~Crosses(b)
  BY Heads
<1>2. /\ b["BUY"] \in Seq(SideOrders("BUY", 1)) /\ Sorted(b["BUY"])
      /\ b["SELL"] \in Seq(SideOrders("SELL", 1)) /\ Sorted(b["SELL"])
  BY DEF Books, Sides
<1>3. /\ m["BUY"] = IF b["SELL"] = << >> THEN PopMarketLevel(b["BUY"]) ELSE b["BUY"]
      /\ m["SELL"] = IF b["BUY"] = << >> THEN PopMarketLevel(b["SELL"]) ELSE b["SELL"]
  BY <1>1 DEF MatchedBook, MatchedSide, EmptySide, Sides
<1>4. m \in Books(1)
  BY MatchedBookSorted
<1> HIDE DEF m
<1>5. CASE b["BUY"] = << >> \/ b["SELL"] = << >>
  <2>1. NoMarket(PopMarketLevel(b["BUY"])) /\ NoMarket(PopMarketLevel(b["SELL"]))
    BY <1>2, PopMarketLevelSorted
  <2>2. /\ b["BUY"] = << >> => m["SELL"] = PopMarketLevel(b["SELL"])
        /\ b["SELL"] = << >> => m["BUY"] = PopMarketLevel(b["BUY"])
        /\ b["BUY"] = << >> /\ b["SELL"] # << >> => m["BUY"] = << >>
        /\ b["SELL"] = << >> /\ b["BUY"] # << >> => m["SELL"] = << >>
    BY <1>3
  <2>3. PopMarketLevel(<< >>) = << >>
    <3>1. << >> \in Seq(Order) /\ Sorted(<< >>) /\ Len(<< >>) = 0
      BY DEF Sorted
    <3>2. PopMarketLevel(<< >>) \in Seq(Order) /\ Len(PopMarketLevel(<< >>)) <= 0
      BY <3>1, PopMarketLevelSorted
    <3>3. QED
      BY <3>2, EmptySeq
  <2>4. m["BUY"] = << >> \/ m["SELL"] = << >>
    BY <1>5, <2>2, <2>3
  <2>5. NoMarket(<< >>)
    BY DEF NoMarket
  <2>6. NoMarket(m["BUY"]) /\ NoMarket(m["SELL"])
    BY <1>5, <2>1, <2>2, <2>3, <2>5
  <2>7. ASSUME NEW i \in 1 .. Len(m["BUY"]), NEW j \in 1 .. Len(m["SELL"])
        PROVE  FALSE
    BY <2>4
  <2>8. QED
    BY <2>6, <2>7 DEF Quiet, Sides, m
<1>6. CASE b["BUY"] # << >> /\ b["SELL"] # << >>
  <2> DEFINE B == b["BUY"]
             A == b["SELL"]
  <2>1. m["BUY"] = B /\ m["SELL"] = A
    BY <1>3, <1>6
  <2>2. /\ 1 \in 1 .. Len(B) /\ Len(B) \in Nat /\ B[1] = HeadBuy(b)
        /\ 1 \in 1 .. Len(A) /\ Len(A) \in Nat /\ A[1] = HeadSell(b)
    BY <1>2, <1>6, EmptySeq, HeadTailProperties DEF HeadBuy, HeadSell
  <2>3. ~IsMarket(B[1]) /\ ~IsMarket(A[1]) /\ ~(B[1].price >= A[1].price)
    BY <1>1, <1>6, <2>2 DEF Crosses, EmptySide
  <2>4. /\ \A i \in 1 .. Len(B) : B[i] \in SideOrders("BUY", 1)
        /\ \A i \in 1 .. Len(A) : A[i] \in SideOrders("SELL", 1)
    BY <1>2, ElementOfSeq
  <2> HIDE DEF B, A
  <2>5. Sorted(B) /\ Sorted(A)
    BY <1>2 DEF B, A
  <2>6. NoMarket(B) /\ NoMarket(A)
    BY <2>2, <2>3, <2>5, MarketsFirst DEF NoMarket
  <2>7. \A i \in 1 .. Len(B) : B[i].price \in Nat /\ B[i].price <= B[1].price
    <3> SUFFICES ASSUME NEW i \in 1 .. Len(B)
                 PROVE  B[i].price \in Nat /\ B[i].price <= B[1].price
      OBVIOUS
    <3>1. /\ B[i].price \in Nat /\ B[1].price \in Nat /\ B[1].buysell = "BUY"
          /\ B[i].buysell = "BUY"
      BY <2>2, <2>4, <2>6, OrderFields DEF NoMarket, Sides
    <3>2. CASE i = 1
      BY <3>1, <3>2
    <3>3. CASE i > 1
      <4>1. Ahead(B[1], B[i])
        BY <2>2, <2>5, <3>3 DEF Sorted
      <4>2. ~IsMarket(B[1]) /\ ~IsMarket(B[i])
        BY <2>2, <2>6 DEF NoMarket
      <4>3. QED
        BY <3>1, <4>1, <4>2 DEF Ahead, BetterLevel, SameLevel
    <3>4. QED
      BY <2>2, <3>2, <3>3
  <2>8. \A i \in 1 .. Len(A) : A[i].price \in Nat /\ A[i].price >= A[1].price
    <3> SUFFICES ASSUME NEW i \in 1 .. Len(A)
                 PROVE  A[i].price \in Nat /\ A[i].price >= A[1].price
      OBVIOUS
    <3>1. /\ A[i].price \in Nat /\ A[1].price \in Nat /\ A[1].buysell = "SELL"
          /\ A[i].buysell = "SELL"
      BY <2>2, <2>4, <2>6, OrderFields DEF NoMarket, Sides
    <3>2. CASE i = 1
      BY <3>1, <3>2
    <3>3. CASE i > 1
      <4>1. Ahead(A[1], A[i])
        BY <2>2, <2>5, <3>3 DEF Sorted
      <4>2. ~IsMarket(A[1]) /\ ~IsMarket(A[i])
        BY <2>2, <2>6 DEF NoMarket
      <4>3. QED
        BY <3>1, <4>1, <4>2 DEF Ahead, BetterLevel, SameLevel
    <3>4. QED
      BY <2>2, <3>2, <3>3
  <2>9. ASSUME NEW i \in 1 .. Len(B), NEW j \in 1 .. Len(A)
        PROVE  B[i].price < A[j].price
    <3>1. /\ B[i].price \in Nat /\ B[1].price \in Nat /\ B[i].price <= B[1].price
          /\ A[j].price \in Nat /\ A[1].price \in Nat /\ A[1].price <= A[j].price
      BY <2>2, <2>7, <2>8
    <3>2. QED
      BY <2>3, <3>1
  <2>10. \A side \in Sides : NoMarket(m[side])
    BY <2>1, <2>6 DEF Sides
  <2>11. QED
    BY <2>1, <2>9, <2>10 DEF Quiet, m
<1>7. QED
  BY <1>5, <1>6 DEF m

\* With market orders on one side only, a trade has a price, and it is one that
\* both limits allow.
LEMMA TradePriceWithinLimits ==
  ASSUME NEW least \in {0, 1}, NEW b \in Books(least), Crosses(b)
  PROVE  /\ TradePrice(b) \in Prices \cup {NoPrice}
         /\ ~IsMarket(HeadSell(b)) \/ ~IsMarket(HeadBuy(b)) => TradePrice(b) \in Prices
         /\ ~IsMarket(HeadSell(b)) => TradePrice(b) >= HeadSell(b).price
         /\ ~IsMarket(HeadBuy(b)) => TradePrice(b) <= HeadBuy(b).price
         /\ OneSided(b) => ~IsMarket(HeadSell(b)) \/ ~IsMarket(HeadBuy(b))
<1> DEFINE B == HeadBuy(b)
           A == HeadSell(b)
<1>1. /\ B \in SideOrders("BUY", least) /\ A \in SideOrders("SELL", least)
      /\ B = b["BUY"][1] /\ A = b["SELL"][1]
      /\ 1 \in 1 .. Len(b["BUY"]) /\ 1 \in 1 .. Len(b["SELL"])
  BY Heads
<1>2. /\ A.timestamp \in Nat /\ A.price \in Prices \cup {NoPrice}
      /\ ~IsMarket(A) => A.price \in Prices /\ A.price \in Nat
  BY <1>1, OrderFields DEF Sides, SideOrders, ProperOrders, Order
<1>3. /\ B.timestamp \in Nat /\ B.price \in Prices \cup {NoPrice}
      /\ ~IsMarket(B) => B.price \in Prices /\ B.price \in Nat
  BY <1>1, OrderFields DEF Sides, SideOrders, ProperOrders, Order
<1>4. OneSided(b) => ~IsMarket(A) \/ ~IsMarket(B)
  BY <1>1 DEF OneSided, NoMarket, Sides
<1>5. ~IsMarket(A) /\ ~IsMarket(B) => B.price >= A.price
  BY DEF Crosses
<1>6. TradePrice(b) = IF IsMarket(A) THEN B.price
                      ELSE IF IsMarket(B) THEN A.price
                      ELSE IF A.timestamp < B.timestamp THEN A.price ELSE B.price
  BY DEF TradePrice
<1> HIDE DEF A, B
<1>7. TradePrice(b) \in Prices \cup {NoPrice}
  BY <1>2, <1>3, <1>6
<1>8. ASSUME ~IsMarket(A) \/ ~IsMarket(B)
      PROVE  /\ TradePrice(b) \in Prices
             /\ ~IsMarket(A) => TradePrice(b) >= A.price
             /\ ~IsMarket(B) => TradePrice(b) <= B.price
  BY <1>2, <1>3, <1>5, <1>6, <1>8
<1>9. QED
  BY <1>4, <1>7, <1>8 DEF A, B

\* An order added to a quiet book leaves market orders on its own side only.
LEMMA AddedOneSided ==
  ASSUME NEW least \in {0, 1}, NEW b \in Books(least),
         NEW o \in ProperOrders(least)
  PROVE  LET c == [b EXCEPT ![o.buysell] = AddOrder(@, o)]
         IN  c \in Books(least) /\ (Quiet(b) => OneSided(c))
<1> DEFINE c == [b EXCEPT ![o.buysell] = AddOrder(@, o)]
<1>1. o.buysell \in Sides /\ o \in SideOrders(o.buysell, least)
  BY DEF ProperOrders, Order, SideOrders
<1>2. /\ b \in [Sides -> Seq(Order)]
      /\ \A side \in Sides :
            b[side] \in Seq(SideOrders(side, least)) /\ Sorted(b[side])
  BY DEF Books
<1>3. /\ AddOrder(b[o.buysell], o) \in Seq(SideOrders(o.buysell, least))
      /\ Sorted(AddOrder(b[o.buysell], o))
  BY <1>1, <1>2, AddOrderSorted
<1>4. \A side \in Sides :
         c[side] = IF side = o.buysell THEN AddOrder(b[o.buysell], o) ELSE b[side]
  BY <1>2
<1>5. c \in [Sides -> Seq(Order)]
  BY <1>1, <1>2, <1>3, SideOrdersAreOrders
<1> HIDE DEF c
<1>6. c \in Books(least)
  BY <1>2, <1>3, <1>4, <1>5 DEF Books
<1>7. Quiet(b) => OneSided(c)
  BY <1>1, <1>4 DEF Quiet, OneSided, Sides
<1>8. QED
  BY <1>6, <1>7 DEF c

\* Taking an order out of a book leaves a quiet book quiet.
LEMMA RemovedQuiet ==
  ASSUME NEW least \in {0, 1}, NEW b \in Books(least),
         NEW side \in Sides, NEW id
  PROVE  LET c == [b EXCEPT ![side] = RemoveOrder(@, id)]
         IN  c \in Books(least) /\ (Quiet(b) => Quiet(c))
<1> DEFINE c == [b EXCEPT ![side] = RemoveOrder(@, id)]
<1>1. /\ b \in [Sides -> Seq(Order)]
      /\ \A x \in Sides : b[x] \in Seq(SideOrders(x, least)) /\ Sorted(b[x])
  BY DEF Books
<1>2. /\ RemoveOrder(b[side], id) \in Seq(SideOrders(side, least))
      /\ Sorted(RemoveOrder(b[side], id))
      /\ Within(RemoveOrder(b[side], id), b[side])
  BY <1>1, RemoveOrderElements
<1>3. \A x \in Sides :
         c[x] = IF x = side THEN RemoveOrder(b[side], id) ELSE b[x]
  BY <1>1
<1>4. c \in [Sides -> Seq(Order)]
  BY <1>1, <1>2, SideOrdersAreOrders
<1> HIDE DEF c
<1>5. c \in Books(least)
  BY <1>1, <1>2, <1>3, <1>4 DEF Books
<1>6. \A x \in Sides : Within(c[x], b[x])
  BY <1>2, <1>3 DEF Within
<1>7. ASSUME Quiet(b) PROVE Quiet(c)
  <2>1. \A x \in Sides : NoMarket(c[x])
    BY <1>6, <1>7 DEF Quiet, NoMarket, Within
  <2>2. ASSUME NEW i \in 1 .. Len(c["BUY"]), NEW j \in 1 .. Len(c["SELL"])
        PROVE  c["BUY"][i].price < c["SELL"][j].price
    <3>1. PICK k \in 1 .. Len(b["BUY"]) : c["BUY"][i] = b["BUY"][k]
      BY <1>6 DEF Within, Sides
    <3>2. PICK l \in 1 .. Len(b["SELL"]) : c["SELL"][j] = b["SELL"][l]
      BY <1>6 DEF Within, Sides
    <3>3. QED
      BY <1>7, <3>1, <3>2 DEF Quiet
  <2>3. QED
    BY <2>1, <2>2 DEF Quiet
<1>8. QED
  BY <1>5, <1>7 DEF c
-----------------------------------------------------------------------------
(* The view of all symbols *)

LEMMA BooksWithOrder ==
  ASSUME NEW least \in {0, 1}, NEW books \in [Symbols -> Books(least)],
         NEW o \in ProperOrders(least)
  PROVE  /\ BooksWith(books, o) \in [Symbols -> Books(least)]
         /\ \A s \in Symbols \ {o.symbol} : BooksWith(books, o)[s] = books[s]
         /\ Quiet(books[o.symbol]) => OneSided(BooksWith(books, o)[o.symbol])
<1> DEFINE b == books[o.symbol]
           c == [b EXCEPT ![o.buysell] = AddOrder(@, o)]
<1>1. o.symbol \in Symbols
  BY DEF ProperOrders, Order
<1>2. b \in Books(least)
  BY <1>1
<1>3. c \in Books(least) /\ (Quiet(b) => OneSided(c))
  BY <1>2, AddedOneSided
<1>4. BooksWith(books, o) = [books EXCEPT ![o.symbol] = c]
  BY DEF BooksWith
<1> HIDE DEF c
<1>5. QED
  BY <1>1, <1>3, <1>4

LEMMA BooksWithoutOrder ==
  ASSUME NEW least \in {0, 1}, NEW books \in [Symbols -> Books(least)],
         NEW o \in ProperOrders(least)
  PROVE  /\ BooksWithout(books, o) \in [Symbols -> Books(least)]
         /\ \A s \in Symbols : Quiet(books[s]) => Quiet(BooksWithout(books, o)[s])
<1> DEFINE b == books[o.symbol]
           c == [b EXCEPT ![o.buysell] = RemoveOrder(@, o.order_id)]
<1>1. o.symbol \in Symbols /\ o.buysell \in Sides
  BY DEF ProperOrders, Order
<1>2. b \in Books(least)
  BY <1>1
<1>3. c \in Books(least) /\ (Quiet(b) => Quiet(c))
  BY <1>1, <1>2, RemovedQuiet
<1>4. BooksWithout(books, o) = [books EXCEPT ![o.symbol] = c]
  BY DEF BooksWithout
<1> HIDE DEF c
<1>5. QED
  BY <1>1, <1>3, <1>4

LEMMA ExceptPriceQuantity ==
  ASSUME NEW o \in Order, NEW price, NEW q
  PROVE  [o EXCEPT !.price = price, !.quantity = q] =
           [order_id |-> o.order_id, order_type |-> o.order_type,
            buysell |-> o.buysell, symbol |-> o.symbol, price |-> price,
            quantity |-> q, timestamp |-> o.timestamp]
<1> DEFINE a == [o EXCEPT !.price = price]
           r == [order_id |-> o.order_id, order_type |-> o.order_type,
                 buysell |-> o.buysell, symbol |-> o.symbol, price |-> price,
                 quantity |-> o.quantity, timestamp |-> o.timestamp]
<1>1. a = r
  BY DEF Order
<1>2. [r EXCEPT !.quantity = q] =
        [order_id |-> o.order_id, order_type |-> o.order_type,
         buysell |-> o.buysell, symbol |-> o.symbol, price |-> price,
         quantity |-> q, timestamp |-> o.timestamp]
  OBVIOUS
<1>3. [o EXCEPT !.price = price, !.quantity = q] = [a EXCEPT !.quantity = q]
  OBVIOUS
<1> HIDE DEF a, r
<1>4. QED
  BY <1>1, <1>2, <1>3

\* A modified order is one of its side, with a quantity that is not zero.
LEMMA ModifiedProper ==
  ASSUME NEW least \in {0, 1}, NEW id \in Ids,
         myorders[id] \in ProperOrders(least),
         NEW price \in Prices, NEW q \in JunkQuantities
  PROVE  /\ Modified(id, price, q) \in ProperOrders(least)
         /\ Modified(id, price, q).symbol = myorders[id].symbol
         /\ Modified(id, price, q).order_id = myorders[id].order_id
<1> DEFINE o == myorders[id]
           m == Modified(id, price, q)
<1>1. o \in Order /\ q \in Nat /\ q >= least
  BY JunkAssumption DEF ProperOrders
<1>2. m = [order_id |-> o.order_id, order_type |-> o.order_type,
           buysell |-> o.buysell, symbol |-> o.symbol, price |-> price,
           quantity |-> q, timestamp |-> o.timestamp]
  BY <1>1, ExceptPriceQuantity DEF Modified
<1> HIDE DEF m
<1>3. m \in Order
  BY <1>1, <1>2 DEF Order
<1>4. /\ m.price = price /\ m.quantity = q /\ m.symbol = o.symbol
      /\ m.order_id = o.order_id
  BY <1>2
<1>5. QED
  BY <1>1, <1>3, <1>4 DEF ProperOrders, m

\* The report of a match names the heads with what they have left.
LEMMA ReportTyped ==
  ASSUME NEW least \in {0, 1}, NEW s \in Symbols,
         mybooks[s] \in Books(least), Crosses(mybooks[s])
  PROVE  /\ ReportOf(s) \in Report
         /\ ReportOf(s).orderA.quantity > 0 =>
              ReportOf(s).orderA \in ProperOrders(least)
         /\ ReportOf(s).orderB.quantity > 0 =>
              ReportOf(s).orderB \in ProperOrders(least)
<1> DEFINE b == mybooks[s]
           q == TradeQuantity(b)
           A == Rest(HeadSell(b), q)
           B == Rest(HeadBuy(b), q)
<1>1. /\ HeadBuy(b) \in SideOrders("BUY", least) /\ q \in 0 .. HeadBuy(b).quantity
      /\ HeadSell(b) \in SideOrders("SELL", least) /\ q \in 0 .. HeadSell(b).quantity
  BY Heads
<1> HIDE DEF q
<1>2. A \in Order /\ (A.quantity > 0 => A \in SideOrders("SELL", least))
  BY <1>1, RestProper DEF Sides
<1>3. B \in Order /\ (B.quantity > 0 => B \in SideOrders("BUY", least))
  BY <1>1, RestProper DEF Sides
<1>4. HeadBuy(b).quantity \in Nat
  BY <1>1, OrderFields DEF Sides
<1>5. q \in Nat /\ TradePrice(b) \in Prices \cup {NoPrice}
  BY <1>1, <1>4, TradePriceWithinLimits
<1>6. ReportOf(s) = [symbol |-> s, price |-> TradePrice(b), quantity |-> q,
                     orderA |-> A, orderB |-> B]
  BY DEF ReportOf, q
<1> HIDE DEF A, B
<1>7. ReportOf(s) \in Report
  BY <1>2, <1>3, <1>5, <1>6 DEF Report
<1>8. ReportOf(s).orderA = A /\ ReportOf(s).orderB = B
  BY <1>6
<1>9. QED
  BY <1>2, <1>3, <1>7, <1>8 DEF SideOrders
-----------------------------------------------------------------------------
(* The tables *)

ProperDB(least) == {d \in DB : d.t1 \in Seq(ProperOrders(least))}

\* Each id in t1 is in t2 as well.
InBoth(d) == \A id : InT1(d, id) => InT2(d, id)

LEMMA AddRowProper ==
  ASSUME NEW least \in {0, 1}, NEW d \in ProperDB(least),
         NEW o \in ProperOrders(least)
  PROVE  AddRow(d, o) \in ProperDB(least)
<1>1. CASE InT1(d, o.order_id) \/ InT2(d, o.order_id)
  BY <1>1 DEF AddRow
<1>2. CASE ~(InT1(d, o.order_id) \/ InT2(d, o.order_id))
  <2>1. /\ d.t1 \in Seq(ProperOrders(least)) /\ d.t2 \in SUBSET Order
        /\ o \in Order
    BY DEF ProperDB, DB, ProperOrders
  <2>2. Append(d.t1, o) \in Seq(ProperOrders(least))
    BY <2>1
  <2>3. Append(d.t1, o) \in Seq(Order)
    BY <2>2, SeqMonotonic, SideOrdersAreOrders
  <2>4. AddRow(d, o) = [t1 |-> Append(d.t1, o), t2 |-> d.t2 \cup {o}]
    BY <1>2 DEF AddRow
  <2>5. AddRow(d, o) \in DB
    BY <2>1, <2>3, <2>4 DEF DB
  <2>6. AddRow(d, o).t1 = Append(d.t1, o)
    BY <2>4
  <2>7. QED
    BY <2>2, <2>5, <2>6 DEF ProperDB
<1>3. QED
  BY <1>1, <1>2

LEMMA DeleteRowProper ==
  ASSUME NEW least \in {0, 1}, NEW d \in ProperDB(least), NEW id
  PROVE  DeleteRow(d, id) \in ProperDB(least)
<1> DEFINE t == RemoveOrder(d.t1, id)
<1>1. d \in DB /\ d.t1 \in Seq(ProperOrders(least)) /\ d.t2 \in SUBSET Order
  BY DEF ProperDB, DB
<1>2. t \in Seq(ProperOrders(least))
  BY <1>1, RemoveOrderElements
<1>3. t \in Seq(Order)
  BY <1>2, SeqMonotonic, SideOrdersAreOrders
<1>4. DeleteRow(d, id) = [t1 |-> t, t2 |-> d.t2]
  BY <1>1 DEF DeleteRow, DB
<1> HIDE DEF t
<1>5. QED
  BY <1>1, <1>2, <1>3, <1>4 DEF ProperDB, DB

\* e is a later database than d: nothing has left t2.
Later(e, d) == InBoth(e) /\ d.t2 \subseteq e.t2

LEMMA AddRowLater ==
  ASSUME NEW least \in {0, 1}, NEW d \in ProperDB(least), InBoth(d),
         NEW o \in ProperOrders(least)
  PROVE  Later(AddRow(d, o), d) /\ InT2(AddRow(d, o), o.order_id)
<1>1. CASE InT1(d, o.order_id) \/ InT2(d, o.order_id)
  BY <1>1 DEF AddRow, InBoth, Later
<1>2. CASE ~(InT1(d, o.order_id) \/ InT2(d, o.order_id))
  <2> DEFINE e == AddRow(d, o)
  <2>1. e.t1 = Append(d.t1, o) /\ e.t2 = d.t2 \cup {o}
    BY <1>2 DEF AddRow
  <2> HIDE DEF e
  <2>2. d.t1 \in Seq(ProperOrders(least))
    BY DEF ProperDB
  <2>3. InT2(e, o.order_id) /\ \A id : InT2(d, id) => InT2(e, id)
    BY <2>1 DEF InT2
  <2>4. ASSUME NEW id, InT1(e, id) PROVE InT2(e, id)
    <3>1. PICK i \in 1 .. Len(e.t1) : e.t1[i].order_id = id
      BY <2>4 DEF InT1, Holds
    <3>2. /\ Len(e.t1) = Len(d.t1) + 1 /\ Len(d.t1) \in Nat
          /\ e.t1[Len(d.t1) + 1] = o
          /\ \A j \in 1 .. Len(d.t1) : e.t1[j] = d.t1[j]
      BY <2>1, <2>2, AppendProperties, LenProperties
    <3>3. CASE i = Len(d.t1) + 1
      BY <2>3, <3>1, <3>2, <3>3
    <3>4. CASE i \in 1 .. Len(d.t1)
      <4>1. InT1(d, id)
        BY <3>1, <3>2, <3>4 DEF InT1, Holds
      <4>2. QED
        BY <2>3, <4>1 DEF InBoth
    <3>5. QED
      BY <3>1, <3>2, <3>3, <3>4
  <2>5. QED
    BY <2>1, <2>3, <2>4 DEF Later, InBoth, e
<1>3. QED
  BY <1>1, <1>2

LEMMA DeleteRowLater ==
  ASSUME NEW least \in {0, 1}, NEW d \in ProperDB(least), InBoth(d), NEW id
  PROVE  Later(DeleteRow(d, id), d)
<1> DEFINE t == RemoveOrder(d.t1, id)
           e == DeleteRow(d, id)
<1>1. d \in DB /\ d.t1 \in Seq(ProperOrders(least))
  BY DEF ProperDB
<1>2. Within(t, d.t1)
  BY <1>1, RemoveOrderElements
<1>3. e.t1 = t /\ e.t2 = d.t2
  BY <1>1 DEF DeleteRow, DB
<1> HIDE DEF t, e
<1>4. \A x : InT1(e, x) => InT1(d, x)
  BY <1>2, <1>3 DEF InT1, Holds, Within
<1>5. \A x : InT2(d, x) => InT2(e, x)
  BY <1>3 DEF InT2
<1>6. QED
  BY <1>3, <1>4, <1>5 DEF Later, InBoth, e
-----------------------------------------------------------------------------
(* Sums of quantities *)

LEMMA LeastElement ==
  ASSUME NEW T \in SUBSET Nat, T # {}
  PROVE  \E m \in T : \A y \in T : m <= y
<1>1. Min(T) \in T /\ \A y \in T : Min(T) <= y
  BY MinIsLeast
<1>2. QED
  BY <1>1

\* The element that a fold takes first.
First(T) == CHOOSE x \in T : TRUE

LEMMA FirstIn == ASSUME NEW T, T # {} PROVE First(T) \in T
  BY DEF First

\* f adds up g over the subsets of S, element by element as First takes them.
Adds(f, g, S) ==
  f = [T \in SUBSET S |->
         IF T = {} THEN 0
         ELSE g[First(T)] + f[T \ {First(T)}]]

\* The total of g over S.
Total(g, S) == (CHOOSE f : Adds(f, g, S))[S]

\* The subsets of at most n elements.
UpTo(S, n) == {T \in SUBSET S : Cardinality(T) <= n}

\* f adds up g over the subsets of at most n elements.
AddsTo(f, g, S, n) ==
  /\ f \in [UpTo(S, n) -> Nat]
  /\ \A T \in UpTo(S, n) :
        f[T] = IF T = {} THEN 0
               ELSE g[First(T)] + f[T \ {First(T)}]

LEMMA Smaller ==
  ASSUME NEW S, IsFiniteSet(S), NEW n \in Nat, NEW T \in UpTo(S, n), NEW x \in T
  PROVE  /\ T \ {x} \in UpTo(S, n) /\ n > 0 /\ T \ {x} \in UpTo(S, n - 1)
         /\ Cardinality(T) \in Nat /\ Cardinality(T \ {x}) = Cardinality(T) - 1
<1>1. T \in SUBSET S /\ Cardinality(T) <= n
  BY DEF UpTo
<1>2. IsFiniteSet(T)
  BY <1>1, FS_Subset
<1>3. Cardinality(T) \in Nat /\ Cardinality(T) # 0
  BY <1>2, FS_CardinalityType, FS_EmptySet
<1>4. Cardinality(T \ {x}) = Cardinality(T) - 1
  BY <1>2, FS_RemoveElement
<1>5. QED
  BY <1>1, <1>3, <1>4 DEF UpTo

LEMMA AddsOneMore ==
  ASSUME NEW S, IsFiniteSet(S), NEW g, \A x \in S : g[x] \in Nat, NEW n \in Nat,
         NEW f, AddsTo(f, g, S, n)
  PROVE  \E h : AddsTo(h, g, S, n + 1)
<1> DEFINE e(T) == IF T = {} THEN 0 ELSE g[First(T)] + f[T \ {First(T)}]
           h == [T \in UpTo(S, n + 1) |-> e(T)]
<1>1. ASSUME NEW T \in UpTo(S, n + 1), T # {}
      PROVE  /\ g[First(T)] \in Nat
             /\ T \ {First(T)} \in UpTo(S, n)
             /\ T \ {First(T)} \in UpTo(S, n + 1)
             /\ f[T \ {First(T)}] \in Nat
  <2> DEFINE x == First(T)
  <2>1. x \in T
    BY <1>1, FirstIn
  <2> HIDE DEF x
  <2>2. x \in S
    BY <2>1 DEF UpTo
  <2>3. \A k \in Nat : T \in UpTo(S, k) =>
                          T \ {x} \in UpTo(S, k - 1) /\ T \ {x} \in UpTo(S, k)
    BY <2>1, Smaller
  <2>4. n + 1 \in Nat /\ (n + 1) - 1 = n
    OBVIOUS
  <2>5. T \ {x} \in UpTo(S, n) /\ T \ {x} \in UpTo(S, n + 1)
    BY <2>3, <2>4
  <2>6. f[T \ {x}] \in Nat
    BY <2>5 DEF AddsTo
  <2>7. QED
    BY <2>2, <2>5, <2>6 DEF x
<1>2. h \in [UpTo(S, n + 1) -> Nat]
  <2>1. ASSUME NEW T \in UpTo(S, n + 1) PROVE e(T) \in Nat
    <3>1. CASE T = {}
      BY <3>1
    <3>2. CASE T # {}
      <4>1. g[First(T)] \in Nat /\ f[T \ {First(T)}] \in Nat
        BY <1>1, <3>2
      <4>2. QED
        BY <3>2, <4>1
    <3>3. QED
      BY <3>1, <3>2
  <2> HIDE DEF e
  <2>2. QED
    BY <2>1
<1>3. \A T \in UpTo(S, n) : h[T] = f[T]
  <2>1. UpTo(S, n) \subseteq UpTo(S, n + 1)
    <3>1. ASSUME NEW T \in UpTo(S, n) PROVE T \in UpTo(S, n + 1)
      <4>1. T \in SUBSET S /\ Cardinality(T) <= n
        BY DEF UpTo
      <4>2. Cardinality(T) \in Nat
        BY <4>1, FS_Subset, FS_CardinalityType
      <4>3. QED
        BY <4>1, <4>2 DEF UpTo
    <3>2. QED
      BY <3>1
  <2>2. QED
    BY <2>1 DEF AddsTo
<1>4. ASSUME NEW T \in UpTo(S, n + 1)
      PROVE  h[T] = IF T = {} THEN 0
                    ELSE g[First(T)] + h[T \ {First(T)}]
  <2>1. T # {} => h[T \ {First(T)}] = f[T \ {First(T)}]
    BY <1>1, <1>3
  <2>2. QED
    BY <2>1
<1> HIDE DEF h
<1>5. AddsTo(h, g, S, n + 1)
  BY <1>2, <1>4 DEF AddsTo
<1>6. QED
  BY <1>5

LEMMA AddsToAll ==
  ASSUME NEW S, IsFiniteSet(S), NEW g, \A x \in S : g[x] \in Nat, NEW n \in Nat
  PROVE  \E f : AddsTo(f, g, S, n)
<1> DEFINE Bad == {m \in Nat : ~\E f : AddsTo(f, g, S, m)}
<1>1. 0 \notin Bad
  <2> DEFINE f == [T \in UpTo(S, 0) |-> 0]
  <2>1. \A T \in UpTo(S, 0) : T = {}
    BY FS_Subset, FS_EmptySet, FS_CardinalityType DEF UpTo
  <2>2. AddsTo(f, g, S, 0)
    BY <2>1 DEF AddsTo
  <2>3. QED
    BY <2>2
<1>2. SUFFICES ASSUME Bad # {} PROVE FALSE
  OBVIOUS
<1>3. PICK m \in Bad : \A y \in Bad : m <= y
  <2>1. Bad \in SUBSET Nat
    OBVIOUS
  <2> HIDE DEF Bad
  <2>2. QED
    BY <1>2, <2>1, LeastElement
<1>4. m \in Nat /\ m # 0 /\ m - 1 \in Nat /\ m - 1 \notin Bad
  BY <1>1, <1>3
<1>5. PICK f : AddsTo(f, g, S, m - 1)
  BY <1>4
<1>6. \E h : AddsTo(h, g, S, (m - 1) + 1)
  BY <1>4, <1>5, AddsOneMore
<1>7. (m - 1) + 1 = m
  BY <1>4
<1>8. QED
  BY <1>3, <1>6, <1>7

LEMMA AddsExists ==
  ASSUME NEW S, IsFiniteSet(S), NEW g, \A x \in S : g[x] \in Nat
  PROVE  \E f : Adds(f, g, S) /\ f \in [SUBSET S -> Nat]
<1> DEFINE n == Cardinality(S)
<1>1. n \in Nat
  BY FS_CardinalityType
<1>2. UpTo(S, n) = SUBSET S
  BY FS_Subset DEF UpTo
<1> HIDE DEF n
<1>3. PICK f : AddsTo(f, g, S, n)
  BY <1>1, AddsToAll
<1>4. QED
  BY <1>2, <1>3 DEF AddsTo, Adds

\* There is one such function.
LEMMA AddsOnce ==
  ASSUME NEW S, IsFiniteSet(S), NEW g, NEW f, NEW h, Adds(f, g, S), Adds(h, g, S)
  PROVE  f = h
<1>1. ASSUME NEW T \in SUBSET S, f[T] # h[T] PROVE FALSE
  <2> DEFINE Bad == {Cardinality(U) : U \in {V \in SUBSET S : f[V] # h[V]}}
  <2>1. Bad \in SUBSET Nat
    BY FS_Subset, FS_CardinalityType
  <2>2. Bad # {}
    BY <1>1
  <2>3. PICK m \in Bad : \A y \in Bad : m <= y
    <3> HIDE DEF Bad
    <3>1. QED
      BY <2>1, <2>2, LeastElement
  <2>4. PICK U \in SUBSET S : f[U] # h[U] /\ Cardinality(U) = m
    OBVIOUS
  <2>5. U # {}
    BY <2>4 DEF Adds
  <2> DEFINE x == First(U)
             V == U \ {x}
  <2>6. x \in U
    BY <2>5, FirstIn
  <2>7. f[U] = g[x] + f[V] /\ h[U] = g[x] + h[V]
    BY <2>5 DEF Adds
  <2> HIDE DEF x
  <2>8. V \in SUBSET S /\ Cardinality(V) = m - 1 /\ m \in Nat
    BY <2>1, <2>4, <2>6, FS_Subset, FS_RemoveElement
  <2>9. f[V] # h[V]
    BY <2>4, <2>7
  <2>10. m - 1 \in Bad
    BY <2>8, <2>9
  <2>11. QED
    BY <2>3, <2>8, <2>10
<1>2. f = [T \in SUBSET S |-> f[T]] /\ h = [T \in SUBSET S |-> h[T]]
  BY DEF Adds
<1>3. QED
  BY <1>1, <1>2

LEMMA AddsTotal ==
  ASSUME NEW S, IsFiniteSet(S), NEW g, NEW f, Adds(f, g, S)
  PROVE  Total(g, S) = f[S]
<1>1. Adds(CHOOSE h : Adds(h, g, S), g, S)
  BY Zenon
<1>2. QED
  BY <1>1, AddsOnce DEF Total

\* Whichever element is taken first, the sum is the same.
AddsUp(f, g, S) == \A T \in SUBSET S : \A x \in T : f[T] = g[x] + f[T \ {x}]

LEMMA AddsAny ==
  ASSUME NEW S, IsFiniteSet(S), NEW g, \A x \in S : g[x] \in Nat,
         NEW f, Adds(f, g, S), f \in [SUBSET S -> Nat]
  PROVE  AddsUp(f, g, S)
<1> DEFINE Bad == {Cardinality(U) : U \in {V \in SUBSET S :
                     \E y \in V : f[V] # g[y] + f[V \ {y}]}}
<1>1. SUFFICES ASSUME NEW T \in SUBSET S, NEW x \in T, f[T] # g[x] + f[T \ {x}]
               PROVE  FALSE
  BY DEF AddsUp
<1>2. Bad \in SUBSET Nat
  BY FS_Subset, FS_CardinalityType
<1>3. Bad # {}
  BY <1>1
<1>4. PICK m \in Bad : \A y \in Bad : m <= y
  <2> HIDE DEF Bad
  <2>1. QED
    BY <1>2, <1>3, LeastElement
<1>5. PICK U \in SUBSET S : /\ Cardinality(U) = m
                            /\ \E y \in U : f[U] # g[y] + f[U \ {y}]
  OBVIOUS
<1>6. PICK y \in U : f[U] # g[y] + f[U \ {y}]
  BY <1>5
<1> DEFINE c == First(U)
           V == U \ {c}
           W == U \ {y}
<1>7. c \in U /\ U # {}
  BY <1>6, FirstIn
<1>8. f[U] = g[c] + f[V]
  BY <1>7 DEF Adds
<1> HIDE DEF c
<1>9. c # y /\ y \in V /\ c \in W /\ V \ {y} = W \ {c}
  BY <1>6, <1>7, <1>8
<1>10. /\ V \in SUBSET S /\ Cardinality(V) = m - 1
       /\ W \in SUBSET S /\ Cardinality(W) = m - 1 /\ m \in Nat
  BY <1>2, <1>5, <1>6, <1>7, FS_Subset, FS_RemoveElement
<1>11. m - 1 \notin Bad
  BY <1>4, <1>10
<1>12. f[V] = g[y] + f[V \ {y}]
  BY <1>9, <1>10, <1>11
<1>13. f[W] = g[c] + f[W \ {c}]
  BY <1>9, <1>10, <1>11
<1>14. /\ g[c] \in Nat /\ g[y] \in Nat /\ f[V \ {y}] \in Nat /\ f[W \ {c}] \in Nat
       /\ f[V \ {y}] = f[W \ {c}]
  BY <1>7, <1>9, <1>10
<1> HIDE DEF V, W, Bad
<1>15. f[U] = g[y] + f[W]
  BY <1>8, <1>12, <1>13, <1>14
<1>16. QED
  BY <1>6, <1>15 DEF W

LEMMA TotalIs ==
  ASSUME NEW S, IsFiniteSet(S), NEW g, \A x \in S : g[x] \in Nat
  PROVE  /\ Total(g, S) \in Nat
         /\ S = {} => Total(g, S) = 0
         /\ \A x \in S : Total(g, S) = g[x] + Total(g, S \ {x})
         /\ \A h : (\A x \in S : h[x] = g[x]) => Total(h, S) = Total(g, S)
<1>1. PICK f : Adds(f, g, S) /\ f \in [SUBSET S -> Nat]
  BY AddsExists
<1>2. Total(g, S) = f[S] /\ f[S] \in Nat
  BY <1>1, AddsTotal
<1>3. S = {} => f[S] = 0
  BY <1>1 DEF Adds
<1>4. ASSUME NEW x \in S PROVE f[S] = g[x] + Total(g, S \ {x})
  <2>1. AddsUp(f, g, S)
    BY <1>1, AddsAny
  <2> DEFINE R == S \ {x}
             h == [T \in SUBSET R |-> f[T]]
  <2>2. f[S] = g[x] + f[R]
    BY <2>1 DEF AddsUp
  <2>3. \A T \in SUBSET R : T # {} => /\ T \in SUBSET S
                                     /\ T \ {First(T)} \in SUBSET R
    OBVIOUS
  <2>4. \A T \in SUBSET R :
           h[T] = IF T = {} THEN 0 ELSE g[First(T)] + h[T \ {First(T)}]
    BY <1>1, <2>3 DEF Adds
  <2>5. h = [T \in SUBSET R |->
               IF T = {} THEN 0 ELSE g[First(T)] + h[T \ {First(T)}]]
    BY <2>4
  <2>6. IsFiniteSet(R) /\ h[R] = f[R]
    BY FS_Subset
  <2> HIDE DEF h, R
  <2>7. Adds(h, g, R)
    BY <2>5 DEF Adds
  <2>8. Total(g, R) = h[R]
    BY <2>6, <2>7, AddsTotal
  <2>9. QED
    BY <2>2, <2>6, <2>8 DEF R
<1>5. ASSUME NEW h, \A x \in S : h[x] = g[x] PROVE Total(h, S) = f[S]
  <2>1. \A T \in SUBSET S : T # {} => h[First(T)] = g[First(T)]
    BY <1>5, FirstIn
  <2>2. \A T \in SUBSET S :
           f[T] = IF T = {} THEN 0 ELSE h[First(T)] + f[T \ {First(T)}]
    BY <1>1, <2>1 DEF Adds
  <2>3. f = [T \in SUBSET S |->
               IF T = {} THEN 0 ELSE h[First(T)] + f[T \ {First(T)}]]
    BY <1>1, <2>2
  <2>4. Adds(f, h, S)
    BY <2>3 DEF Adds
  <2>5. QED
    BY <2>4, AddsTotal
<1>6. QED
  BY <1>2, <1>3, <1>4, <1>5

\* What the orders or trades of s at the places L add up to.
SumOf(s, L) == MapThenSumSet(LAMBDA i : s[i].quantity, L)

\* A sum of the community modules is a total.
LEMMA SumIsTotal ==
  ASSUME NEW s, NEW L, IsFiniteSet(L), \A i \in L : s[i].quantity \in Nat
  PROVE  SumOf(s, L) = Total([i \in L |-> s[i].quantity], L)
<1> DEFINE g == [i \in L |-> s[i].quantity]
           IsIter(f) ==
             f = [T \in SUBSET L |->
                    IF T = {} THEN 0
                    ELSE LET x == CHOOSE x \in T : TRUE
                         IN s[x].quantity + f[T \ {x}]]
<1>1. SumOf(s, L) = (CHOOSE f : IsIter(f))[L]
  BY DEF SumOf, MapThenSumSet, MapThenFoldSet
<1>2. ASSUME NEW f PROVE IsIter(f) <=> Adds(f, g, L)
  <2>1. \A T \in SUBSET L : T # {} => g[First(T)] = s[First(T)].quantity
    BY FirstIn
  <2>2. QED
    BY <2>1 DEF Adds, First
<1>3. PICK f : Adds(f, g, L)
  BY AddsExists
<1>4. IsIter(CHOOSE h : IsIter(h))
  <2>1. IsIter(f)
    BY <1>2, <1>3
  <2> HIDE DEF IsIter
  <2>2. QED
    BY <2>1, Zenon
<1>5. Adds(CHOOSE h : IsIter(h), g, L)
  BY <1>2, <1>4
<1> HIDE DEF IsIter
<1>6. QED
  BY <1>1, <1>5, AddsTotal

LEMMA SumIs ==
  ASSUME NEW s, NEW L, IsFiniteSet(L), \A i \in L : s[i].quantity \in Nat
  PROVE  /\ SumOf(s, L) \in Nat
         /\ L = {} => SumOf(s, L) = 0
         /\ \A i \in L : SumOf(s, L) = s[i].quantity + SumOf(s, L \ {i})
         /\ \A t : (\A i \in L : t[i].quantity = s[i].quantity) =>
                     SumOf(t, L) = SumOf(s, L)
<1> DEFINE g == [i \in L |-> s[i].quantity]
<1>1. SumOf(s, L) = Total(g, L)
  BY SumIsTotal
<1>2. \A i \in L : g[i] = s[i].quantity /\ g[i] \in Nat
  OBVIOUS
<1> HIDE DEF g
<1>3. /\ Total(g, L) \in Nat
      /\ L = {} => Total(g, L) = 0
      /\ \A i \in L : Total(g, L) = g[i] + Total(g, L \ {i})
  BY <1>2, TotalIs
<1>4. ASSUME NEW i \in L PROVE SumOf(s, L \ {i}) = Total(g, L \ {i})
  <2> DEFINE R == L \ {i}
             h == [j \in R |-> s[j].quantity]
  <2>1. IsFiniteSet(R) /\ \A j \in R : s[j].quantity \in Nat
    BY FS_Subset
  <2>2. \A j \in R : h[j] = g[j] /\ g[j] \in Nat
    BY <1>2
  <2> HIDE DEF R
  <2>3. SumOf(s, R) = Total(h, R)
    BY <2>1, SumIsTotal
  <2> HIDE DEF h
  <2>4. Total(h, R) = Total(g, R)
    BY <2>1, <2>2, TotalIs
  <2>5. QED
    BY <2>3, <2>4 DEF R
<1>5. ASSUME NEW t, \A i \in L : t[i].quantity = s[i].quantity
      PROVE  SumOf(t, L) = SumOf(s, L)
  <2> DEFINE h == [i \in L |-> t[i].quantity]
  <2>1. SumOf(t, L) = Total(h, L)
    BY <1>5, SumIsTotal
  <2>2. \A i \in L : h[i] = g[i]
    BY <1>2, <1>5
  <2> HIDE DEF h
  <2>3. QED
    BY <1>1, <1>2, <2>1, <2>2, TotalIs
<1>6. QED
  BY <1>1, <1>2, <1>3, <1>4, <1>5
=============================================================================
