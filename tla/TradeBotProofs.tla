--------------------------- MODULE TradeBotProofs ---------------------------
(***************************************************************************)
(* Proofs about TradeBot, for any number of bots, command lines, places in *)
(* sockets and queues, and whenever the signals come.  A number that is    *)
(* drawn is new unless the signal came inside orderNumber++, so counting   *)
(* the different numbers below the next one bounds the repetitions         *)
(* (FewRepeated); an order that is lost takes its number along.  An order that *)
(* was sent once is in one place at a time   *)
(* on its way through the connection manager (OnceInv), so that the entry  *)
(* in the map is there for its only answer.                                *)
(***************************************************************************)
EXTENDS TradeBot, ConnMgrProofs

(* The numbers of one bot's orders *)

\* Has main, or the handler, drawn a number that is not sent?
Busy(pc) == IF pc \in {"store", "write", "wait"} THEN 1 ELSE 0
Caught(h) == IF h = "write" THEN 1 ELSE 0

\* That number.
Pending(pc, n) == IF pc \in {"store", "write", "wait"} THEN {n} ELSE {}
InHandler(h, m) == IF h = "write" THEN {m} ELSE {}

Numbers(pc, h, n, m, s) == ToSet(s) \cup Pending(pc, n) \cup InHandler(h, m)

\* How many were drawn.
Drawn(pc, h, s) == Len(s) + Busy(pc) + Caught(h)

\* What orderNumber is, or will be when main has stored it.
Following(pc, o, n) == IF pc = "store" THEN n + 1 ELSE o

\* All but k of the numbers drawn are different ones below the next.
FewRepeated(pc, h, o, n, m, s, k) ==
  Drawn(pc, h, s) <=
    k + Cardinality({x \in Numbers(pc, h, n, m, s) : x < Following(pc, o, n)})

\* A bot draws no more numbers than it has orders to send, the lost one among
\* them, nor higher ones.
InBudget(pc, h, o, n, m, s, k, e, c) ==
  LET d == Drawn(pc, h, s) + e
  IN  /\ d + (IF pc = "send" THEN 1 ELSE 0) <= c
      /\ o <= d /\ k <= d
      /\ n # 0 => n + 1 <= d
      /\ m # 0 => m + 1 <= d

BotTyped(pc, h, o, n, m, s, k) ==
  /\ pc \in {"send", "store", "write", "wait", "print", "read"}
  /\ h \in {"off", "write", "hung"}
  /\ o \in Nat /\ n \in Nat /\ m \in Nat /\ k \in Nat /\ s \in Seq(Nat)

LEMMA OneIs ==
  ASSUME NEW pc, NEW h
  PROVE  /\ Busy(pc) \in Nat /\ Caught(h) \in Nat
         /\ pc \in {"store", "write", "wait"} => Busy(pc) = 1
         /\ pc \notin {"store", "write", "wait"} => Busy(pc) = 0
         /\ h = "write" => Caught(h) = 1
         /\ h # "write" => Caught(h) = 0
  BY DEF Busy, Caught

LEMMA DrawnIs ==
  ASSUME NEW pc, NEW h, NEW s \in Seq(Nat)
  PROVE  /\ Drawn(pc, h, s) \in Nat /\ Len(s) \in Nat
         /\ \/ pc \in {"store", "write", "wait"} /\ h = "write" /\ Drawn(pc, h, s) = Len(s) + 2
            \/ pc \in {"store", "write", "wait"} /\ h # "write" /\ Drawn(pc, h, s) = Len(s) + 1
            \/ pc \notin {"store", "write", "wait"} /\ h = "write" /\ Drawn(pc, h, s) = Len(s) + 1
            \/ pc \notin {"store", "write", "wait"} /\ h # "write" /\ Drawn(pc, h, s) = Len(s)
<1> DEFINE a == Busy(pc)
           e == Caught(h)
<1>1. /\ a \in Nat
      /\ pc \in {"store", "write", "wait"} => a = 1
      /\ pc \notin {"store", "write", "wait"} => a = 0
  BY OneIs
<1>2. e \in Nat /\ (h = "write" => e = 1) /\ (h # "write" => e = 0)
  BY OneIs
<1>3. Drawn(pc, h, s) = Len(s) + a + e /\ Len(s) \in Nat
  BY LenProperties DEF Drawn
<1> HIDE DEF a, e
<1>4. QED
  BY <1>1, <1>2, <1>3

LEMMA NumbersFinite ==
  ASSUME NEW pc, NEW h, NEW n \in Nat, NEW m \in Nat, NEW s \in Seq(Nat)
  PROVE  /\ IsFiniteSet(ToSet(s)) /\ ToSet(s) \subseteq Nat /\ Len(s) \in Nat
         /\ IsFiniteSet(Numbers(pc, h, n, m, s)) /\ Numbers(pc, h, n, m, s) \subseteq Nat
         /\ Cardinality(Numbers(pc, h, n, m, s)) <=
              Cardinality(ToSet(s)) + Busy(pc) + Caught(h)
<1> DEFINE T == ToSet(s)
           A == T \cup Pending(pc, n)
<1>1. Len(s) \in Nat /\ s \in [1 .. Len(s) -> Nat] /\ DOMAIN s = 1 .. Len(s)
  BY LenProperties
<1>2. T \subseteq Nat /\ s \in Surjection(1 .. Len(s), T)
  BY <1>1 DEF ToSet, Surjection
<1>3. IsFiniteSet(T)
  <2>1. IsFiniteSet(1 .. Len(s))
    BY <1>1, FS_Interval
  <2>2. QED
    BY <1>2, <2>1, FS_Surjection
<1>4. ToSet(s) = T
  OBVIOUS
<1> HIDE DEF T
<1>5. Cardinality(T) \in Nat
  BY <1>3, FS_CardinalityType
<1>6. A = T \cup Pending(pc, n)
  OBVIOUS
<1> HIDE DEF A
<1>7. /\ IsFiniteSet(A) /\ A \subseteq Nat /\ Cardinality(A) \in Nat
      /\ Cardinality(A) <= Cardinality(T) + Busy(pc)
  <2>1. CASE pc \in {"store", "write", "wait"}
    <3>1. A = T \cup {n}
      BY <1>6, <2>1 DEF Pending
    <3>2. /\ IsFiniteSet(T \cup {n})
          /\ Cardinality(T \cup {n}) = IF n \in T THEN Cardinality(T) ELSE Cardinality(T) + 1
      BY <1>3, FS_AddElement
    <3>3. Busy(pc) = 1
      BY <2>1, OneIs
    <3>4. T \cup {n} \subseteq Nat
      BY <1>2
    <3>5. QED
      BY <1>5, <3>1, <3>2, <3>3, <3>4
  <2>2. CASE pc \notin {"store", "write", "wait"}
    <3>1. A = T
      BY <1>6, <2>2 DEF Pending
    <3>2. Busy(pc) = 0
      BY <2>2, OneIs
    <3>3. QED
      BY <1>2, <1>3, <1>5, <3>1, <3>2
  <2>3. QED
    BY <2>1, <2>2
<1>8. Numbers(pc, h, n, m, s) = A \cup InHandler(h, m)
  BY <1>4, <1>6 DEF Numbers
<1>9. Busy(pc) \in Nat
  BY OneIs
<1>10. CASE h = "write"
  <2>1. Numbers(pc, h, n, m, s) = A \cup {m}
    BY <1>8, <1>10 DEF InHandler
  <2>2. /\ IsFiniteSet(A \cup {m})
        /\ Cardinality(A \cup {m}) = IF m \in A THEN Cardinality(A) ELSE Cardinality(A) + 1
    BY <1>7, FS_AddElement
  <2>3. Caught(h) = 1
    BY <1>10, OneIs
  <2>4. A \cup {m} \subseteq Nat
    BY <1>7
  <2>5. QED
    BY <1>4, <1>1, <1>2, <1>3, <1>5, <1>7, <1>9, <2>1, <2>2, <2>3, <2>4
<1>11. CASE h # "write"
  <2>1. Numbers(pc, h, n, m, s) = A
    BY <1>8, <1>11 DEF InHandler
  <2>2. Caught(h) = 0
    BY <1>11, OneIs
  <2>3. QED
    BY <1>4, <1>1, <1>2, <1>3, <1>5, <1>7, <1>9, <2>1, <2>2
<1>12. QED
  BY <1>10, <1>11

\* What is below a bound, when there are more numbers, or a bound one higher and
\* the old bound among them.
LEMMA MoreBelow ==
  ASSUME NEW U, NEW V, IsFiniteSet(U), IsFiniteSet(V), V \subseteq Nat,
         U \subseteq V, NEW b \in Nat
  PROVE  /\ Cardinality({x \in U : x < b}) \in Nat
         /\ Cardinality({x \in V : x < b}) \in Nat
         /\ Cardinality({x \in V : x < b + 1}) \in Nat
         /\ Cardinality({x \in U : x < b}) <= Cardinality({x \in V : x < b})
         /\ b \in V => Cardinality({x \in U : x < b}) + 1 <= Cardinality({x \in V : x < b + 1})
<1> DEFINE P == {x \in U : x < b}
           Q == {x \in V : x < b}
           R == {x \in V : x < b + 1}
<1>1. IsFiniteSet(P) /\ IsFiniteSet(Q) /\ IsFiniteSet(R)
  BY FS_Subset
<1>2. P \in SUBSET Q /\ b \notin P
  <2>1. ~(b < b)
    OBVIOUS
  <2>2. b \notin P
    BY <2>1
  <2>3. QED
    BY <2>2
<1>3. b \in V => P \cup {b} \in SUBSET R
  <2>1. \A x \in U : x < b => x \in V /\ x < b + 1
    OBVIOUS
  <2>2. b < b + 1
    OBVIOUS
  <2>3. QED
    BY <2>1, <2>2
<1> HIDE DEF P, Q, R
<1>4. Cardinality(P) <= Cardinality(Q)
  BY <1>1, <1>2, FS_Subset
<1>5. Cardinality(P \cup {b}) = Cardinality(P) + 1
  BY <1>1, <1>2, FS_AddElement
<1>6. b \in V => Cardinality(P \cup {b}) <= Cardinality(R)
  BY <1>1, <1>3, FS_Subset
<1>7. Cardinality(P) \in Nat /\ Cardinality(Q) \in Nat /\ Cardinality(R) \in Nat
  BY <1>1, FS_CardinalityType
<1>8. QED
  BY <1>4, <1>5, <1>6, <1>7 DEF P, Q, R

\* With the number loaded, or taken by the handler while main does not store.
LEMMA DrawFresh ==
  ASSUME NEW pc, NEW h, NEW o, NEW n, NEW m, NEW s, NEW k,
         NEW qc, NEW g, NEW p, NEW j, NEW q,
         BotTyped(pc, h, o, n, m, s, k), BotTyped(qc, g, p, j, q, s, k),
         FewRepeated(pc, h, o, n, m, s, k), pc # "store",
         Drawn(qc, g, s) = Drawn(pc, h, s) + 1,
         Following(qc, p, j) = o + 1,
         Numbers(qc, g, j, q, s) = Numbers(pc, h, n, m, s) \cup {o}
  PROVE  FewRepeated(qc, g, p, j, q, s, k)
<1> DEFINE U == Numbers(pc, h, n, m, s)
           V == Numbers(qc, g, j, q, s)
           d == Drawn(pc, h, s)
<1>1. IsFiniteSet(U) /\ IsFiniteSet(V) /\ V \subseteq Nat /\ d \in Nat
  BY NumbersFinite, DrawnIs DEF BotTyped
<1>2. U \subseteq V /\ o \in V /\ Following(pc, o, n) = o /\ o \in Nat /\ k \in Nat
  BY DEF Following, BotTyped
<1>3. Drawn(qc, g, s) = d + 1
  OBVIOUS
<1> HIDE DEF U, V, d
<1>4. /\ Cardinality({x \in U : x < o}) \in Nat
      /\ Cardinality({x \in V : x < o + 1}) \in Nat
      /\ Cardinality({x \in U : x < o}) + 1 <= Cardinality({x \in V : x < o + 1})
  BY <1>1, <1>2, MoreBelow
<1>5. d <= k + Cardinality({x \in U : x < o})
  BY <1>2 DEF FewRepeated, U, d
<1>6. d + 1 <= k + Cardinality({x \in V : x < o + 1})
  BY <1>1, <1>2, <1>4, <1>5
<1>7. QED
  BY <1>3, <1>6 DEF FewRepeated, V

\* The number is taken between main's load and store.
LEMMA DrawBetween ==
  ASSUME NEW h, NEW o, NEW n, NEW m, NEW s, NEW k,
         BotTyped("store", h, o, n, m, s, k), h = "off",
         FewRepeated("store", h, o, n, m, s, k)
  PROVE  FewRepeated("store", "write", o + 1, n, o, s, k + 1)
<1> DEFINE U == Numbers("store", h, n, m, s)
           V == Numbers("store", "write", n, o, s)
           d == Drawn("store", h, s)
           b == n + 1
<1>1. IsFiniteSet(U) /\ IsFiniteSet(V) /\ V \subseteq Nat /\ d \in Nat
  BY NumbersFinite, DrawnIs DEF BotTyped
<1>2. U \subseteq V /\ b \in Nat /\ k \in Nat
  BY DEF Numbers, InHandler, BotTyped
<1>3. Drawn("store", "write", s) = d + 1
  BY DrawnIs DEF BotTyped
<1>4. Following("store", o, n) = b /\ Following("store", o + 1, n) = b
  BY DEF Following
<1> HIDE DEF U, V, d, b
<1>5. /\ Cardinality({x \in U : x < b}) \in Nat
      /\ Cardinality({x \in V : x < b}) \in Nat
      /\ Cardinality({x \in U : x < b}) <= Cardinality({x \in V : x < b})
  BY <1>1, <1>2, MoreBelow
<1>6. d <= k + Cardinality({x \in U : x < b})
  BY <1>4 DEF FewRepeated, U, d
<1>7. d + 1 <= (k + 1) + Cardinality({x \in V : x < b})
  BY <1>1, <1>2, <1>5, <1>6
<1>8. QED
  BY <1>3, <1>4, <1>7 DEF FewRepeated, V

\* A step that draws no number and forgets none.
LEMMA SameNumbers ==
  ASSUME NEW pc, NEW h, NEW o, NEW n, NEW m, NEW s, NEW k,
         NEW qc, NEW g, NEW p, NEW j, NEW q, NEW t,
         FewRepeated(pc, h, o, n, m, s, k),
         Drawn(qc, g, t) = Drawn(pc, h, s),
         Following(qc, p, j) = Following(pc, o, n),
         Numbers(qc, g, j, q, t) = Numbers(pc, h, n, m, s)
  PROVE  FewRepeated(qc, g, p, j, q, t, k)
  BY DEF FewRepeated

LEMMA FewOfSent ==
  ASSUME NEW pc, NEW h, NEW o, NEW n, NEW m, NEW s, NEW k,
         BotTyped(pc, h, o, n, m, s, k), FewRepeated(pc, h, o, n, m, s, k)
  PROVE  Len(s) - Cardinality(ToSet(s)) <= k
<1> DEFINE U == Numbers(pc, h, n, m, s)
           b == Following(pc, o, n)
           a == Busy(pc)
           e == Caught(h)
           N == Cardinality(ToSet(s))
<1>1. /\ IsFiniteSet(U) /\ IsFiniteSet(ToSet(s)) /\ Len(s) \in Nat
      /\ Cardinality(U) <= N + a + e
  BY NumbersFinite DEF BotTyped
<1>2. a \in Nat /\ e \in Nat /\ k \in Nat
  BY OneIs DEF BotTyped
<1>3. Len(s) + a + e <= k + Cardinality({x \in U : x < b})
  BY DEF FewRepeated, Drawn
<1> HIDE DEF U, b, a, e
<1>4. /\ Cardinality({x \in U : x < b}) <= Cardinality(U)
      /\ Cardinality({x \in U : x < b}) \in Nat /\ Cardinality(U) \in Nat /\ N \in Nat
  <2>1. IsFiniteSet({x \in U : x < b})
    BY <1>1, FS_Subset
  <2>2. QED
    BY <1>1, <2>1, FS_Subset, FS_CardinalityType
<1> HIDE DEF N
<1>5. Len(s) - N <= k
  BY <1>1, <1>2, <1>3, <1>4
<1>6. QED
  BY <1>5 DEF N
-----------------------------------------------------------------------------
(* Every bot, step by step *)

Budget == [r : Nat, c : 0 .. MaxMessages]

\* A bot that has not connected has done nothing.
Fine(pc, h, o, n, m, s, k, e, l, w, q, opt) ==
  /\ BotTyped(pc, h, o, n, m, s, k) /\ opt \in Budget /\ q \in Seq(Message)
  /\ opt.r # 0 => opt.c # 0
  /\ w = Len(s) /\ Len(q) <= SocketLimit
  /\ e \in {0, 1}
  /\ e = 1 => opt.r # 0 /\ pc \in {"print", "read"}
  /\ FewRepeated(pc, h, o, n, m, s, k)
  /\ IF l = "none"
     THEN pc = "send" /\ h = "off" /\ s = << >> /\ o = 0 /\ n = 0 /\ m = 0 /\ k = 0
          /\ e = 0
     ELSE InBudget(pc, h, o, n, m, s, k, e, opt.c)

FineBot(c) ==
  Fine(at[c], handler[c], orderNumber[c], number[c], hnumber[c], sent[c], nested[c], lost[c],
       link[c], written[c], socket[c], options[c])

ForBots ==
  /\ options \in CommandLines
  /\ at \in [Clients -> {"send", "store", "write", "wait", "print", "read"}]
  /\ handler \in [Clients -> {"off", "write", "hung"}]
  /\ orderNumber \in [Clients -> Nat] /\ number \in [Clients -> Nat]
  /\ hnumber \in [Clients -> Nat] /\ nested \in [Clients -> Nat]
  /\ sent \in [Clients -> Seq(Nat)] /\ lost \in [Clients -> Nat]

BotsInv == ForBots /\ \A c \in Clients : FineBot(c)

LEMMA BudgetIs ==
  ASSUME NEW opt \in Budget
  PROVE  opt.c \in Nat /\ opt.c <= MaxMessages /\ MaxMessages \in Nat /\ opt.r \in Nat
  BY ConnMgrAssumption DEF Budget

LEMMA ConnectFine ==
  ASSUME NEW o, NEW n, NEW m, NEW s, NEW k, NEW e, NEW pc, NEW h, NEW w, NEW q, NEW opt,
         Fine(pc, h, o, n, m, s, k, e, "none", w, q, opt), opt.r # 0 \/ opt.c # 0
  PROVE  Fine(pc, h, o, n, m, s, k, e, "connecting", w, q, opt)
<1>1. opt.c \in Nat \ {0}
  BY BudgetIs DEF Fine
<1>2. Drawn(pc, h, s) = 0 /\ e = 0
  BY DrawnIs, LenProperties, EmptySeq DEF Fine, BotTyped
<1>3. InBudget(pc, h, o, n, m, s, k, e, opt.c)
  BY <1>1, <1>2 DEF InBudget, Fine
<1>4. QED
  BY <1>3 DEF Fine

LEMMA LoadFine ==
  ASSUME NEW o, NEW n, NEW m, NEW s, NEW k, NEW e, NEW l, NEW w, NEW q, NEW opt,
         Fine("send", "off", o, n, m, s, k, e, l, w, q, opt), l # "none"
  PROVE  Fine("store", "off", o, o, m, s, k, e, l, w, q, opt)
<1>1. /\ BotTyped("send", "off", o, n, m, s, k) /\ BotTyped("store", "off", o, o, m, s, k)
      /\ o \in Nat /\ k \in Nat /\ m \in Nat
  BY DEF Fine, BotTyped
<1>2. /\ Drawn("send", "off", s) = Len(s) /\ Drawn("store", "off", s) = Len(s) + 1
      /\ Len(s) \in Nat
  BY <1>1, DrawnIs DEF BotTyped
<1>3. FewRepeated("store", "off", o, o, m, s, k)
  <2>1. /\ Numbers("store", "off", o, m, s) = Numbers("send", "off", n, m, s) \cup {o}
        /\ Following("store", o, o) = o + 1
    BY DEF Numbers, Pending, InHandler, Following
  <2>2. FewRepeated("send", "off", o, n, m, s, k)
    BY DEF Fine
  <2>3. QED
    BY <1>1, <1>2, <2>1, <2>2, DrawFresh
<1>4. InBudget("store", "off", o, o, m, s, k, e, opt.c)
  BY <1>1, <1>2, BudgetIs DEF Fine, InBudget
<1>5. QED
  BY <1>1, <1>3, <1>4 DEF Fine

LEMMA StoreFine ==
  ASSUME NEW o, NEW n, NEW m, NEW s, NEW k, NEW e, NEW l, NEW w, NEW q, NEW opt,
         Fine("store", "off", o, n, m, s, k, e, l, w, q, opt), l # "none"
  PROVE  Fine("write", "off", n + 1, n, m, s, k, e, l, w, q, opt)
<1>1. /\ BotTyped("store", "off", o, n, m, s, k) /\ BotTyped("write", "off", n + 1, n, m, s, k)
      /\ n \in Nat /\ k \in Nat /\ m \in Nat
  BY DEF Fine, BotTyped
<1>2. /\ Drawn("store", "off", s) = Len(s) + 1 /\ Drawn("write", "off", s) = Len(s) + 1
      /\ Len(s) \in Nat
  BY <1>1, DrawnIs DEF BotTyped
<1>3. FewRepeated("write", "off", n + 1, n, m, s, k)
  <2>1. /\ Numbers("write", "off", n, m, s) = Numbers("store", "off", n, m, s)
        /\ Following("write", n + 1, n) = Following("store", o, n)
    BY DEF Numbers, Pending, InHandler, Following
  <2>2. FewRepeated("store", "off", o, n, m, s, k)
    BY DEF Fine
  <2>3. QED
    BY <1>2, <2>1, <2>2, SameNumbers
<1>4. InBudget("write", "off", n + 1, n, m, s, k, e, opt.c)
  BY <1>1, <1>2, BudgetIs DEF Fine, InBudget
<1>5. QED
  BY <1>1, <1>3, <1>4 DEF Fine

LEMMA WaitFine ==
  ASSUME NEW o, NEW n, NEW m, NEW s, NEW k, NEW e, NEW l, NEW w, NEW q, NEW opt,
         Fine("write", "off", o, n, m, s, k, e, l, w, q, opt), l # "none"
  PROVE  Fine("wait", "off", o, n, m, s, k, e, l, w, q, opt)
<1>1. /\ BotTyped("write", "off", o, n, m, s, k) /\ BotTyped("wait", "off", o, n, m, s, k)
      /\ n \in Nat /\ k \in Nat /\ m \in Nat
  BY DEF Fine, BotTyped
<1>2. /\ Drawn("write", "off", s) = Len(s) + 1 /\ Drawn("wait", "off", s) = Len(s) + 1
      /\ Len(s) \in Nat
  BY <1>1, DrawnIs DEF BotTyped
<1>3. FewRepeated("wait", "off", o, n, m, s, k)
  <2>1. /\ Numbers("wait", "off", n, m, s) = Numbers("write", "off", n, m, s)
        /\ Following("wait", o, n) = Following("write", o, n)
    BY DEF Numbers, Pending, InHandler, Following
  <2>2. FewRepeated("write", "off", o, n, m, s, k)
    BY DEF Fine
  <2>3. QED
    BY <1>2, <2>1, <2>2, SameNumbers
<1>4. InBudget("wait", "off", o, n, m, s, k, e, opt.c)
  BY <1>1, <1>2, BudgetIs DEF Fine, InBudget
<1>5. QED
  BY <1>1, <1>3, <1>4 DEF Fine

\* What Append does to a log of numbers.
LEMMA LoggedNumber ==
  ASSUME NEW s \in Seq(Nat), NEW x \in Nat
  PROVE  /\ Append(s, x) \in Seq(Nat) /\ Len(Append(s, x)) = Len(s) + 1 /\ Len(s) \in Nat
         /\ \A i \in 1 .. Len(s) : Append(s, x)[i] = s[i]
         /\ Append(s, x)[Len(s) + 1] = x
         /\ ToSet(Append(s, x)) = ToSet(s) \cup {x}
<1> DEFINE t == Append(s, x)
<1>1. /\ t \in Seq(Nat) /\ Len(t) = Len(s) + 1 /\ Len(s) \in Nat
      /\ \A i \in 1 .. Len(s) : t[i] = s[i]
      /\ t[Len(s) + 1] = x
  BY AppendProperties, LenProperties
<1>2. DOMAIN t = 1 .. Len(s) + 1 /\ DOMAIN s = 1 .. Len(s)
  BY <1>1, LenProperties
<1> HIDE DEF t
<1>3. ToSet(t) = ToSet(s) \cup {x}
  <2>1. \A i \in 1 .. Len(s) + 1 : i \in 1 .. Len(s) \/ i = Len(s) + 1
    BY <1>1
  <2>2. \A i \in 1 .. Len(s) : i \in 1 .. Len(s) + 1
    BY <1>1
  <2>3. Len(s) + 1 \in 1 .. Len(s) + 1
    BY <1>1
  <2>4. ToSet(t) \subseteq ToSet(s) \cup {x}
    BY <1>1, <1>2, <2>1 DEF ToSet
  <2>5. ToSet(s) \subseteq ToSet(t) /\ x \in ToSet(t)
    BY <1>1, <1>2, <2>2, <2>3 DEF ToSet
  <2>6. QED
    BY <2>4, <2>5
<1>4. QED
  BY <1>1, <1>3 DEF t

LEMMA WriteFine ==
  ASSUME NEW pc \in {"write", "wait"}, NEW o, NEW n, NEW m, NEW s, NEW k, NEW e, NEW l,
         NEW w, NEW q, NEW opt,
         Fine(pc, "off", o, n, m, s, k, e, l, w, q, opt), l # "none",
         NEW p \in Seq(Message), Len(p) <= SocketLimit
  PROVE  /\ w < MaxMessages /\ n + 1 \in 1 .. MaxMessages
         /\ Fine("print", "off", o, 0, m, Append(s, n), k, e, l, w + 1, p, opt)
<1> DEFINE t == Append(s, n)
<1>1. /\ BotTyped(pc, "off", o, n, m, s, k)
      /\ n \in Nat /\ k \in Nat /\ m \in Nat /\ o \in Nat /\ s \in Seq(Nat) /\ e = 0
  BY DEF Fine, BotTyped
<1>2. t \in Seq(Nat) /\ Len(t) = Len(s) + 1 /\ Len(s) \in Nat /\ ToSet(t) = ToSet(s) \cup {n}
  BY <1>1, LoggedNumber
<1> HIDE DEF t
<1>3. Drawn(pc, "off", s) = Len(s) + 1 /\ Drawn("print", "off", t) = Len(s) + 1
  <2>1. Drawn(pc, "off", s) = Len(s) + 1
    BY <1>1, DrawnIs
  <2>2. Drawn("print", "off", t) = Len(t)
    BY <1>2, DrawnIs
  <2>3. QED
    BY <1>2, <2>1, <2>2
<1>4. FewRepeated("print", "off", o, 0, m, t, k)
  <2>1. /\ Numbers("print", "off", 0, m, t) = Numbers(pc, "off", n, m, s)
        /\ Following("print", o, 0) = Following(pc, o, n)
    BY <1>2 DEF Numbers, Pending, InHandler, Following
  <2>2. FewRepeated(pc, "off", o, n, m, s, k)
    BY DEF Fine
  <2>3. QED
    BY <1>3, <2>1, <2>2, SameNumbers
<1>5. opt.c \in Nat /\ opt.c <= MaxMessages /\ MaxMessages \in Nat
  BY BudgetIs DEF Fine
<1>6. InBudget(pc, "off", o, n, m, s, k, e, opt.c)
  BY DEF Fine
<1>7. InBudget("print", "off", o, 0, m, t, k, e, opt.c)
  BY <1>1, <1>2, <1>3, <1>5, <1>6 DEF InBudget
<1>8. w < MaxMessages /\ n + 1 \in 1 .. MaxMessages
  <2>1. w = Len(s) /\ Len(s) + 1 <= opt.c /\ (n # 0 => n + 1 <= Len(s) + 1)
    BY <1>1, <1>2, <1>3, <1>5, <1>6 DEF Fine, InBudget
  <2>2. QED
    BY <1>1, <1>2, <1>5, <2>1
<1>9. BotTyped("print", "off", o, 0, m, t, k)
  BY <1>1, <1>2 DEF BotTyped
<1>10. QED
  BY <1>2, <1>4, <1>7, <1>8, <1>9 DEF Fine, t

LEMMA HandlerWritesFine ==
  ASSUME NEW pc, NEW o, NEW n, NEW m, NEW s, NEW k, NEW e, NEW l, NEW w, NEW q, NEW opt,
         Fine(pc, "write", o, n, m, s, k, e, l, w, q, opt),
         NEW p \in Seq(Message), Len(p) <= SocketLimit
  PROVE  /\ w < MaxMessages /\ m + 1 \in 1 .. MaxMessages
         /\ Fine(pc, "off", o, n, 0, Append(s, m), k, e, l, w + 1, p, opt)
<1> DEFINE t == Append(s, m)
<1>1. /\ BotTyped(pc, "write", o, n, m, s, k) /\ l # "none"
      /\ n \in Nat /\ k \in Nat /\ m \in Nat /\ o \in Nat /\ s \in Seq(Nat) /\ e \in Nat
  BY DEF Fine, BotTyped
<1>2. t \in Seq(Nat) /\ Len(t) = Len(s) + 1 /\ Len(s) \in Nat /\ ToSet(t) = ToSet(s) \cup {m}
  BY <1>1, LoggedNumber
<1> HIDE DEF t
<1>3. /\ Drawn(pc, "write", s) = Drawn(pc, "off", t)
      /\ Drawn(pc, "off", t) \in Nat /\ Drawn(pc, "off", t) >= Len(s) + 1
  <2>1. /\ Len(t) \in Nat /\ Busy(pc) \in Nat /\ Caught("off") = 0 /\ Caught("write") = 1
    BY <1>2, OneIs
  <2>2. QED
    BY <1>2, <2>1 DEF Drawn
<1>4. FewRepeated(pc, "off", o, n, 0, t, k)
  <2>1. Numbers(pc, "off", n, 0, t) = Numbers(pc, "write", n, m, s)
    BY <1>2 DEF Numbers, InHandler
  <2>2. FewRepeated(pc, "write", o, n, m, s, k)
    BY DEF Fine
  <2>3. QED
    BY <1>3, <2>1, <2>2, SameNumbers
<1>5. opt.c \in Nat /\ opt.c <= MaxMessages /\ MaxMessages \in Nat
  BY BudgetIs DEF Fine
<1>6. InBudget(pc, "write", o, n, m, s, k, e, opt.c)
  BY <1>1 DEF Fine
<1>7. InBudget(pc, "off", o, n, 0, t, k, e, opt.c)
  BY <1>1, <1>2, <1>3, <1>5, <1>6 DEF InBudget
<1>8. w < MaxMessages /\ m + 1 \in 1 .. MaxMessages
  <2> DEFINE d == Drawn(pc, "write", s) + e
  <2>1. d \in Nat /\ d >= Len(s) + 1
    BY <1>1, <1>2, <1>3
  <2>2. d <= opt.c /\ (m # 0 => m + 1 <= d)
    BY <1>5, <1>6, <2>1 DEF InBudget
  <2>3. w = Len(s)
    BY DEF Fine
  <2> HIDE DEF d
  <2>4. QED
    BY <1>1, <1>2, <1>5, <2>1, <2>2, <2>3
<1>9. BotTyped(pc, "off", o, n, 0, t, k)
  BY <1>1, <1>2 DEF BotTyped
<1>10. QED
  BY <1>1, <1>2, <1>4, <1>7, <1>8, <1>9 DEF Fine, t

LEMMA TimeoutFine ==
  ASSUME NEW pc, NEW o, NEW n, NEW m, NEW s, NEW k, NEW e, NEW l, NEW w, NEW q, NEW opt,
         Fine(pc, "off", o, n, m, s, k, e, l, w, q, opt), l # "none",
         pc # "wait",
         w + e + (IF pc \in {"send", "store", "write", "wait"} THEN 1 ELSE 0) < opt.c
  PROVE  Fine(pc, "write", o + 1, n, o, s, IF pc = "store" THEN k + 1 ELSE k, e, l, w, q, opt)
<1> DEFINE j == IF pc = "store" THEN k + 1 ELSE k
<1>1. /\ BotTyped(pc, "off", o, n, m, s, k)
      /\ n \in Nat /\ k \in Nat /\ m \in Nat /\ o \in Nat /\ s \in Seq(Nat) /\ e \in Nat
  BY DEF Fine, BotTyped
<1>2. /\ Drawn(pc, "write", s) = Drawn(pc, "off", s) + 1
      /\ Drawn(pc, "off", s) = IF pc \in {"store", "write", "wait"} THEN Len(s) + 1 ELSE Len(s)
      /\ Len(s) \in Nat
  BY <1>1, DrawnIs
<1>3. BotTyped(pc, "write", o + 1, n, o, s, j)
  BY <1>1 DEF BotTyped
<1>4. FewRepeated(pc, "off", o, n, m, s, k)
  BY DEF Fine
<1>5. FewRepeated(pc, "write", o + 1, n, o, s, j)
  <2>1. CASE pc = "store"
    BY <1>1, <1>4, <2>1, DrawBetween
  <2>2. CASE pc # "store"
    <3>1. BotTyped(pc, "write", o + 1, n, o, s, k) /\ j = k
      BY <1>3, <2>2
    <3>2. /\ Numbers(pc, "write", n, o, s) = Numbers(pc, "off", n, m, s) \cup {o}
          /\ Following(pc, o + 1, n) = o + 1
      BY <2>2 DEF Numbers, InHandler, Following
    <3>3. QED
      BY <1>1, <1>2, <1>4, <2>2, <3>1, <3>2, DrawFresh
  <2>3. QED
    BY <2>1, <2>2
<1>6. opt.c \in Nat
  BY BudgetIs DEF Fine
<1>7. InBudget(pc, "off", o, n, m, s, k, e, opt.c) /\ w = Len(s)
  BY DEF Fine
<1>8. InBudget(pc, "write", o + 1, n, o, s, j, e, opt.c)
  BY <1>1, <1>2, <1>6, <1>7 DEF InBudget
<1>9. QED
  BY <1>3, <1>5, <1>8 DEF Fine

\* The signal ends the write that main waits in: one number goes, the handler's
\* comes.
LEMMA GiveUpFine ==
  ASSUME NEW o, NEW n, NEW m, NEW s, NEW k, NEW e, NEW l, NEW w, NEW q, NEW opt,
         Fine("wait", "off", o, n, m, s, k, e, l, w, q, opt), l # "none", opt.r # 0,
         w + e + 1 < opt.c
  PROVE  e = 0 /\ Fine("print", "write", o + 1, 0, o, s, k, 1, l, w, q, opt)
<1>1. /\ BotTyped("wait", "off", o, n, m, s, k) /\ BotTyped("print", "write", o + 1, 0, o, s, k)
      /\ n \in Nat /\ k \in Nat /\ m \in Nat /\ o \in Nat /\ s \in Seq(Nat) /\ e = 0
  BY DEF Fine, BotTyped
<1>2. /\ Drawn("wait", "off", s) = Len(s) + 1 /\ Drawn("print", "write", s) = Len(s) + 1
      /\ Len(s) \in Nat
  BY <1>1, DrawnIs
<1>3. FewRepeated("print", "write", o + 1, 0, o, s, k)
  <2> DEFINE U == ToSet(s)
             V == U \cup {o}
             W == U \cup {n}
             P == {x \in U : x < o}
  <2>1. /\ Numbers("wait", "off", n, m, s) = W /\ Numbers("print", "write", 0, o, s) = V
        /\ Following("wait", o, n) = o /\ Following("print", o + 1, 0) = o + 1
    BY DEF Numbers, Pending, InHandler, Following
  <2>2. /\ IsFiniteSet(U) /\ U \subseteq Nat
        /\ IsFiniteSet(V) /\ V \subseteq Nat /\ IsFiniteSet(W)
    <3>1. IsFiniteSet(U) /\ U \subseteq Nat /\ IsFiniteSet(W)
      <4>1. IsFiniteSet(ToSet(s)) /\ ToSet(s) \subseteq Nat
            /\ IsFiniteSet(Numbers("wait", "off", n, m, s))
        BY <1>1, NumbersFinite
      <4>2. QED
        BY <2>1, <4>1
    <3>2. IsFiniteSet(V)
      BY <3>1, FS_AddElement
    <3>3. QED
      BY <1>1, <3>1, <3>2
  <2>3. U \subseteq V /\ o \in V /\ {x \in W : x < o} \in SUBSET (P \cup {n})
    OBVIOUS
  <2>4. Len(s) + 1 <= k + Cardinality({x \in W : x < o})
    BY <1>2, <2>1 DEF Fine, FewRepeated
  <2>5. IsFiniteSet(P)
    BY <2>2, FS_Subset
  <2> HIDE DEF P, U, V, W
  <2>6. /\ IsFiniteSet(P \cup {n}) /\ Cardinality(P) \in Nat
        /\ Cardinality(P \cup {n}) <= Cardinality(P) + 1
    <3>1. Cardinality(P) \in Nat
      BY <2>5, FS_CardinalityType
    <3>2. /\ IsFiniteSet(P \cup {n})
          /\ Cardinality(P \cup {n}) = Cardinality(P) \/
             Cardinality(P \cup {n}) = Cardinality(P) + 1
      BY <2>5, FS_AddElement
    <3>3. QED
      BY <3>1, <3>2
  <2>7. /\ Cardinality({x \in W : x < o}) <= Cardinality(P \cup {n})
        /\ Cardinality({x \in W : x < o}) \in Nat /\ Cardinality(P \cup {n}) \in Nat
    BY <2>3, <2>6, FS_Subset, FS_CardinalityType
  <2>8. /\ Cardinality(P) + 1 <= Cardinality({x \in V : x < o + 1})
        /\ Cardinality({x \in V : x < o + 1}) \in Nat
    BY <1>1, <2>2, <2>3, MoreBelow DEF P
  <2>9. Len(s) + 1 <= k + Cardinality({x \in V : x < o + 1})
    BY <1>1, <1>2, <2>4, <2>6, <2>7, <2>8
  <2>10. QED
    BY <1>2, <2>1, <2>9 DEF FewRepeated
<1>4. opt.c \in Nat
  BY BudgetIs DEF Fine
<1>5. InBudget("wait", "off", o, n, m, s, k, e, opt.c) /\ w = Len(s)
  BY DEF Fine
<1>6. InBudget("print", "write", o + 1, 0, o, s, k, 1, opt.c)
  BY <1>1, <1>2, <1>4, <1>5 DEF InBudget
<1>7. QED
  BY <1>1, <1>3, <1>6 DEF Fine

\* The handler hangs.
LEMMA HangsFine ==
  ASSUME NEW pc, NEW o, NEW n, NEW m, NEW s, NEW k, NEW e, NEW l, NEW w, NEW q, NEW opt,
         Fine(pc, "off", o, n, m, s, k, e, l, w, q, opt), l # "none"
  PROVE  Fine(pc, "hung", o, n, m, s, k, e, l, w, q, opt)
<1>1. BotTyped(pc, "off", o, n, m, s, k) /\ BotTyped(pc, "hung", o, n, m, s, k)
  BY DEF Fine, BotTyped
<1>2. Drawn(pc, "hung", s) = Drawn(pc, "off", s)
  BY DEF Drawn, Caught
<1>3. FewRepeated(pc, "hung", o, n, m, s, k)
  <2>1. Numbers(pc, "hung", n, m, s) = Numbers(pc, "off", n, m, s)
    BY DEF Numbers, InHandler
  <2>2. FewRepeated(pc, "off", o, n, m, s, k)
    BY DEF Fine
  <2>3. QED
    BY <1>2, <2>1, <2>2, SameNumbers
<1>4. InBudget(pc, "hung", o, n, m, s, k, e, opt.c)
  BY <1>2 DEF Fine, InBudget
<1>5. QED
  BY <1>1, <1>3, <1>4 DEF Fine

\* main goes on to the next order or to reading.
LEMMA MovesFine ==
  ASSUME NEW pc \in {"print", "read"}, NEW o, NEW n, NEW m, NEW s, NEW k, NEW e, NEW l,
         NEW w, NEW q, NEW opt,
         Fine(pc, "off", o, n, m, s, k, e, l, w, q, opt), l # "none",
         NEW qc \in {"send", "print", "read"}, qc = "send" => opt.r = 0 /\ w < opt.c
  PROVE  Fine(qc, "off", o, n, m, s, k, e, l, w, q, opt)
<1>1. /\ BotTyped(pc, "off", o, n, m, s, k)
      /\ n \in Nat /\ k \in Nat /\ m \in Nat /\ o \in Nat /\ s \in Seq(Nat) /\ e \in Nat
  BY DEF Fine, BotTyped
<1>2. pc \notin {"store", "write", "wait"} /\ qc \notin {"store", "write", "wait"}
  OBVIOUS
<1>3. Drawn(pc, "off", s) = Len(s) /\ Drawn(qc, "off", s) = Len(s) /\ Len(s) \in Nat
  BY <1>1, <1>2, DrawnIs
<1>4. BotTyped(qc, "off", o, n, m, s, k)
  BY <1>1 DEF BotTyped
<1>5. FewRepeated(qc, "off", o, n, m, s, k)
  <2>1. /\ Numbers(qc, "off", n, m, s) = Numbers(pc, "off", n, m, s)
        /\ Following(qc, o, n) = Following(pc, o, n)
    BY <1>2 DEF Numbers, Pending, InHandler, Following
  <2>2. FewRepeated(pc, "off", o, n, m, s, k)
    BY DEF Fine
  <2>3. QED
    BY <1>3, <2>1, <2>2, SameNumbers
<1>6. opt.c \in Nat
  BY BudgetIs DEF Fine
<1>7. /\ InBudget(pc, "off", o, n, m, s, k, e, opt.c) /\ w = Len(s)
      /\ e = 1 => opt.r # 0
      /\ e \in {0, 1}
  BY DEF Fine
<1>8. InBudget(qc, "off", o, n, m, s, k, e, opt.c)
  BY <1>1, <1>2, <1>3, <1>6, <1>7 DEF InBudget
<1>9. QED
  BY <1>1, <1>4, <1>5, <1>7, <1>8 DEF Fine
-----------------------------------------------------------------------------
(* Types: what the steps of a bot leave of the manager's *)

ManagerKept ==
  UNCHANGED <<mode, pollVars, mpc, omm, connectionmapper, meVars, bpVars, ackVars,
              forwarded, copied, raced>>

LEMMA ManagerTypes ==
  ASSUME TypeInv, ManagerKept, BotTypes'
  PROVE  TypeInv'
<1>1. /\ UNCHANGED <<fds, ready, mpc, omm, connectionmapper, queue, queue2, meUp, chan, bpUp>>
      /\ UNCHANGED <<apc, ack, it, routed, unrouted, forwarded, copied, raced>>
  BY DEF ManagerKept, pollVars, meVars, bpVars, ackVars
<1>2. MainTypes /\ MapType /\ QueueTypes /\ FlagTypes /\ AckTypes /\ ControlInv
  BY TypeParts DEF TypeInv, Types
<1>3. MainTypes' /\ MapType'
  BY <1>1, <1>2 DEF MainTypes, MapType
<1>4. QueueTypes' /\ FlagTypes'
  BY <1>1, <1>2 DEF QueueTypes, FlagTypes
<1>5. AckTypes'
  BY <1>1, <1>2 DEF AckTypes
<1>6. ControlInv'
  BY <1>1, <1>2 DEF ControlInv, InLoop
<1>7. Types'
  BY <1>3, <1>4, <1>5 DEF Types
<1>8. TypeOK' <=> Types'
  BY TypeParts, PTL
<1>9. QED
  BY <1>6, <1>7, <1>8 DEF TypeInv

LEMMA PutKeepsTypes ==
  ASSUME TypeInv, NEW c \in Clients, NEW n \in Nat, Put(c, n), mode' = mode,
         written[c] < MaxMessages, n + 1 \in 1 .. MaxMessages
  PROVE  /\ TypeInv' /\ ManagerKept
         /\ NewOrder(c, n) \in Message
         /\ socket'[c] = Append(socket[c], NewOrder(c, n))
         /\ \A d \in Clients : d # c => socket'[d] = socket[d] /\ written'[d] = written[d]
         /\ written'[c] = written[c] + 1
         /\ socket'[c] \in Seq(Message) /\ Len(socket'[c]) = Len(socket[c]) + 1
         /\ Len(socket[c]) \in Nat /\ Len(socket[c]) < SocketLimit
         /\ link' = link
<1>1. BotTypes
  BY TypeParts DEF TypeInv, Types
<1>2. NewOrder(c, n) \in Message
  BY DEF NewOrder, Message, Ids
<1>3. /\ socket[c] \in Seq(Message) /\ Len(socket[c]) \in Nat
      /\ Append(socket[c], NewOrder(c, n)) \in Seq(Message)
      /\ Len(Append(socket[c], NewOrder(c, n))) = Len(socket[c]) + 1
  BY <1>1, <1>2, AppendProperties, LenProperties DEF BotTypes
<1>4. written[c] + 1 \in 0 .. MaxMessages
  BY <1>1, ConnMgrAssumption DEF BotTypes
<1>5. /\ socket' = [socket EXCEPT ![c] = Append(socket[c], NewOrder(c, n))]
      /\ written' = [written EXCEPT ![c] = written[c] + 1]
      /\ UNCHANGED <<link, inbox, mode>> /\ ManagerKept
      /\ Len(socket[c]) < SocketLimit
  BY DEF Put, ManagerKept
<1>6. BotTypes'
  BY <1>1, <1>3, <1>4, <1>5 DEF BotTypes
<1>7. /\ socket'[c] = Append(socket[c], NewOrder(c, n))
      /\ \A d \in Clients : d # c => socket'[d] = socket[d] /\ written'[d] = written[d]
      /\ written'[c] = written[c] + 1
  BY <1>1, <1>5 DEF BotTypes
<1>8. QED
  BY <1>2, <1>3, <1>5, <1>6, <1>7, ManagerTypes

\* The steps of the manager and its surroundings are steps of ConnMgr.
LEMMA ExchangeIsNext ==
  ASSUME Exchange
  PROVE  /\ Next /\ UNCHANGED botState
         /\ written' = written
         /\ \A c \in Clients : TypeInv =>
              /\ (link'[c] = "none") <=> (link[c] = "none")
              /\ Len(socket'[c]) <= Len(socket[c])
<1>1. Next /\ UNCHANGED botState
  BY DEF Exchange, Next
<1>2. \/ Accept \/ Receive \/ Send \/ UNCHANGED botVars
  <2>1. CASE Poll \/ Unexpected \/ Insert \/ InsertLost \/ Msgsnd \/ Copy \/ Rcv
             \/ RcvFails \/ Find \/ Erase \/ Answer \/ Publish
    BY <2>1
    DEF Poll, Unexpected, Insert, InsertLost, Msgsnd, Copy, Rcv, RcvFails, Find, Erase,
        Answer, Publish
  <2>2. CASE SlotGone \/ RaceKills \/ BrokenPipe
    BY <2>2 DEF SlotGone, RaceKills, BrokenPipe, Gone
  <2>3. QED
    BY <2>1, <2>2 DEF Exchange, Main, ReadFromMatchingEngine
<1>3. written' = written
  BY <1>2 DEF Accept, Receive, Send, botVars
<1>4. ASSUME TypeInv, NEW c \in Clients
      PROVE  /\ (link'[c] = "none") <=> (link[c] = "none")
             /\ Len(socket'[c]) <= Len(socket[c])
  <2>1. BotTypes
    BY <1>4, TypeParts DEF TypeInv, Types
  <2>2. Len(socket[c]) \in Nat
    BY <2>1, LenProperties DEF BotTypes
  <2>3. CASE Accept
    BY <1>4, <2>2, <2>3 DEF Accept
  <2>4. CASE Receive
    <3>1. socket[c] # << >> => Len(Tail(socket[c])) = Len(socket[c]) - 1
      BY <2>1, HeadTailProperties DEF BotTypes
    <3>2. socket'[c] = socket[c] \/ (socket[c] # << >> /\ socket'[c] = Tail(socket[c]))
      <4>1. \/ socket' = socket
            \/ \E d \in Clients : /\ socket[d] # << >>
                                  /\ socket' = [socket EXCEPT ![d] = Tail(socket[d])]
        BY <1>4, <2>4, ReceiveFrom DEF Receive
      <4>2. QED
        BY <2>1, <4>1 DEF BotTypes
    <3>3. link' = link
      BY <2>4 DEF Receive
    <3>4. CASE socket'[c] = socket[c]
      BY <2>2, <3>3, <3>4
    <3>5. CASE socket[c] # << >> /\ socket'[c] = Tail(socket[c])
      BY <2>2, <3>1, <3>3, <3>5
    <3>6. QED
      BY <3>2, <3>4, <3>5
  <2>5. CASE Send
    <3>1. it \in Clients /\ socket' = socket
      BY <1>4, <2>5 DEF Send, TypeInv, ControlInv
    <3>2. link' = link \/ (link[it] = "closed" /\ link' = [link EXCEPT ![it] = "reset"])
      BY <2>5 DEF Send
    <3>3. (link'[c] = "none") <=> (link[c] = "none")
      BY <2>1, <3>1, <3>2 DEF BotTypes
    <3>4. QED
      BY <2>2, <3>1, <3>3
  <2>6. CASE UNCHANGED botVars
    BY <2>2, <2>6 DEF botVars
  <2>7. QED
    BY <1>2, <2>3, <2>4, <2>5, <2>6
<1>5. QED
  BY <1>1, <1>3, <1>4
-----------------------------------------------------------------------------
(* The bots' own invariant *)

LEMMA InitBots == TbInit => TypeInv /\ BotsInv
<1> SUFFICES ASSUME TbInit PROVE TypeInv /\ BotsInv
  OBVIOUS
<1>1. TypeInv
  BY InitType DEF TbInit
<1>2. << >> \in Seq(Nat) /\ << >> \in Seq(Message) /\ Len(<< >>) = 0
  BY LenProperties, EmptySeq
<1>3. ForBots
  BY <1>2 DEF TbInit, ForBots
<1>4. ASSUME NEW c \in Clients PROVE FineBot(c)
  <2>1. /\ at[c] = "send" /\ handler[c] = "off" /\ orderNumber[c] = 0 /\ number[c] = 0
        /\ hnumber[c] = 0 /\ sent[c] = << >> /\ nested[c] = 0 /\ lost[c] = 0
        /\ link[c] = "none" /\ written[c] = 0 /\ socket[c] = << >>
    BY DEF TbInit, Init
  <2>2. options[c] \in Budget /\ (options[c].r # 0 => options[c].c # 0)
    BY TradeBotAssumption DEF TbInit, Budget
  <2>3. BotTyped("send", "off", 0, 0, 0, << >>, 0)
    BY <1>2 DEF BotTyped
  <2>4. FewRepeated("send", "off", 0, 0, 0, << >>, 0)
    <3> DEFINE U == Numbers("send", "off", 0, 0, << >>)
    <3>1. IsFiniteSet(U) /\ U \subseteq Nat /\ Following("send", 0, 0) = 0
      BY <1>2, NumbersFinite DEF Following
    <3>2. Drawn("send", "off", << >>) = 0
      BY <1>2, DrawnIs
    <3> HIDE DEF U
    <3>3. Cardinality({x \in U : x < 0}) \in Nat
      BY <3>1, MoreBelow
    <3>4. 0 <= 0 + Cardinality({x \in U : x < 0})
      BY <3>3
    <3>5. QED
      BY <3>1, <3>2, <3>4 DEF FewRepeated, U
  <2>5. Len(<< >>) <= SocketLimit
    BY <1>2, TradeBotAssumption
  <2>6. Fine("send", "off", 0, 0, 0, << >>, 0, 0, "none", 0, << >>, options[c])
    BY <1>2, <2>2, <2>3, <2>4, <2>5 DEF Fine
  <2>7. QED
    BY <2>1, <2>6 DEF FineBot
<1>5. QED
  BY <1>1, <1>3, <1>4 DEF BotsInv

\* What is a bot's own, and stays when another one takes a step.
SameBot(d) ==
  /\ at'[d] = at[d] /\ handler'[d] = handler[d] /\ orderNumber'[d] = orderNumber[d]
  /\ number'[d] = number[d] /\ hnumber'[d] = hnumber[d] /\ sent'[d] = sent[d]
  /\ nested'[d] = nested[d] /\ lost'[d] = lost[d] /\ link'[d] = link[d] /\ written'[d] = written[d]
  /\ socket'[d] = socket[d]

LEMMA OneBot ==
  ASSUME BotsInv, NEW c \in Clients, ForBots', FineBot(c)', options' = options,
         \A d \in Clients : d # c => SameBot(d)
  PROVE  BotsInv'
<1>1. ASSUME NEW d \in Clients, d # c PROVE FineBot(d)'
  <2>1. SameBot(d) /\ FineBot(d)
    BY <1>1 DEF BotsInv
  <2>2. QED
    BY <2>1 DEF FineBot, SameBot
<1>2. QED
  BY <1>1 DEF BotsInv

LEMMA ConnectKeeps ==
  ASSUME TypeInv, BotsInv, NEW c \in Clients, OpenSocket(c)
  PROVE  TypeInv' /\ BotsInv'
<1>1. BotTypes /\ ForBots
  BY TypeParts DEF TypeInv, Types, BotsInv
<1>2. /\ UNCHANGED <<socket, written, inbox>> /\ ManagerKept
      /\ link[c] = "none" /\ link' = [link EXCEPT ![c] = "connecting"]
      /\ options[c].r # 0 \/ options[c].c # 0
      /\ UNCHANGED <<options, at, handler, orderNumber, number, hnumber, sent, nested, lost>>
  BY DEF OpenSocket, Connect, ManagerKept, botState
<1>3. BotTypes'
  BY <1>1, <1>2 DEF BotTypes, ManagerKept
<1>4. /\ link'[c] = "connecting"
      /\ \A d \in Clients : d # c => SameBot(d)
  BY <1>1, <1>2 DEF BotTypes, SameBot
<1>5. FineBot(c)'
  <2>1. Fine(at[c], handler[c], orderNumber[c], number[c], hnumber[c], sent[c], nested[c], lost[c],
             "none", written[c], socket[c], options[c])
    BY <1>2 DEF BotsInv, FineBot
  <2>2. Fine(at[c], handler[c], orderNumber[c], number[c], hnumber[c], sent[c], nested[c], lost[c],
             "connecting", written[c], socket[c], options[c])
    BY <1>2, <2>1, ConnectFine
  <2>3. QED
    BY <1>2, <1>4, <2>2 DEF FineBot
<1>6. ForBots'
  BY <1>1, <1>2 DEF ForBots
<1>7. QED
  BY <1>2, <1>3, <1>4, <1>5, <1>6, OneBot, ManagerTypes

\* Steps that leave the connection alone.
LEMMA Quiet ==
  ASSUME TypeInv, UNCHANGED vars
  PROVE  /\ TypeInv' /\ ManagerKept
         /\ UNCHANGED <<link, socket, written>>
<1>1. UNCHANGED <<mode, link, socket, written, inbox>> /\ ManagerKept
  BY DEF vars, botVars, ManagerKept
<1>2. BotTypes'
  BY <1>1, TypeParts DEF TypeInv, Types, BotTypes
<1>3. QED
  BY <1>1, <1>2, ManagerTypes

LEMMA LoadKeeps ==
  ASSUME TypeInv, BotsInv, NEW c \in Clients, LoadNumber(c)
  PROVE  TypeInv' /\ BotsInv'
<1>1. ForBots /\ FineBot(c)
  BY DEF BotsInv
<1>2. /\ TypeInv' /\ UNCHANGED <<link, socket, written>>
      /\ link[c] # "none" /\ handler[c] = "off" /\ at[c] = "send"
      /\ number' = [number EXCEPT ![c] = orderNumber[c]]
      /\ at' = [at EXCEPT ![c] = "store"]
      /\ UNCHANGED <<options, handler, orderNumber, hnumber, sent, nested, lost>>
  BY Quiet DEF LoadNumber, Runs
<1>3. /\ at'[c] = "store" /\ number'[c] = orderNumber[c]
      /\ \A d \in Clients : d # c => SameBot(d)
      /\ ForBots'
  BY <1>1, <1>2 DEF ForBots, SameBot
<1>4. FineBot(c)'
  BY <1>1, <1>2, <1>3, LoadFine DEF FineBot
<1>5. QED
  BY <1>2, <1>3, <1>4, OneBot

LEMMA StoreKeeps ==
  ASSUME TypeInv, BotsInv, NEW c \in Clients, StoreNumber(c)
  PROVE  TypeInv' /\ BotsInv'
<1>1. ForBots /\ FineBot(c)
  BY DEF BotsInv
<1>2. /\ TypeInv' /\ UNCHANGED <<link, socket, written>>
      /\ link[c] # "none" /\ handler[c] = "off" /\ at[c] = "store"
      /\ orderNumber' = [orderNumber EXCEPT ![c] = number[c] + 1]
      /\ at' = [at EXCEPT ![c] = "write"]
      /\ UNCHANGED <<options, handler, number, hnumber, sent, nested, lost>>
  BY Quiet DEF StoreNumber, Runs
<1>3. /\ at'[c] = "write" /\ orderNumber'[c] = number[c] + 1
      /\ \A d \in Clients : d # c => SameBot(d)
      /\ ForBots'
  BY <1>1, <1>2 DEF ForBots, SameBot
<1>4. FineBot(c)'
  BY <1>1, <1>2, <1>3, StoreFine DEF FineBot
<1>5. QED
  BY <1>2, <1>3, <1>4, OneBot

LEMMA WaitKeeps ==
  ASSUME TypeInv, BotsInv, NEW c \in Clients, WaitForRoom(c)
  PROVE  TypeInv' /\ BotsInv'
<1>1. ForBots /\ FineBot(c)
  BY DEF BotsInv
<1>2. /\ TypeInv' /\ UNCHANGED <<link, socket, written>>
      /\ link[c] # "none" /\ handler[c] = "off" /\ at[c] = "write"
      /\ at' = [at EXCEPT ![c] = "wait"]
      /\ UNCHANGED <<options, handler, orderNumber, number, hnumber, sent, nested, lost>>
  BY Quiet DEF WaitForRoom, Runs
<1>3. /\ at'[c] = "wait"
      /\ \A d \in Clients : d # c => SameBot(d)
      /\ ForBots'
  BY <1>1, <1>2 DEF ForBots, SameBot
<1>4. FineBot(c)'
  BY <1>1, <1>2, <1>3, WaitFine DEF FineBot
<1>5. QED
  BY <1>2, <1>3, <1>4, OneBot

LEMMA WriteKeepsBots ==
  ASSUME TypeInv, BotsInv, NEW c \in Clients, WriteOrder(c), mode' = mode
  PROVE  /\ TypeInv' /\ BotsInv'
         /\ written[c] < MaxMessages /\ number[c] \in Nat /\ number[c] + 1 \in 1 .. MaxMessages
<1>1. ForBots /\ FineBot(c) /\ number[c] \in Nat /\ sent[c] \in Seq(Nat)
  BY DEF BotsInv, ForBots
<1>2. /\ Put(c, number[c])
      /\ link[c] # "none" /\ handler[c] = "off" /\ at[c] \in {"write", "wait"}
      /\ at' = [at EXCEPT ![c] = "print"]
      /\ number' = [number EXCEPT ![c] = 0]
      /\ UNCHANGED <<options, handler, orderNumber, hnumber, nested, lost>>
  BY DEF WriteOrder, Runs
<1>3. Fine(at[c], "off", orderNumber[c], number[c], hnumber[c], sent[c], nested[c], lost[c],
           link[c], written[c], socket[c], options[c])
  BY <1>1, <1>2 DEF FineBot
<1>4. written[c] < MaxMessages /\ number[c] + 1 \in 1 .. MaxMessages
  <2>1. << >> \in Seq(Message) /\ Len(<< >>) <= SocketLimit
    BY TradeBotAssumption, LenProperties, EmptySeq
  <2>2. QED
    BY <1>2, <1>3, <2>1, WriteFine
<1>5. /\ TypeInv' /\ socket'[c] \in Seq(Message) /\ Len(socket'[c]) <= SocketLimit
      /\ written'[c] = written[c] + 1 /\ link' = link
      /\ \A d \in Clients : d # c => socket'[d] = socket[d] /\ written'[d] = written[d]
  <2>1. /\ TypeInv' /\ socket'[c] \in Seq(Message) /\ Len(socket'[c]) = Len(socket[c]) + 1
        /\ Len(socket[c]) \in Nat /\ Len(socket[c]) < SocketLimit
        /\ written'[c] = written[c] + 1 /\ link' = link
        /\ \A d \in Clients : d # c => socket'[d] = socket[d] /\ written'[d] = written[d]
    BY <1>1, <1>2, <1>4, PutKeepsTypes
  <2>2. Len(socket[c]) + 1 <= SocketLimit
    BY <2>1, TradeBotAssumption
  <2>3. QED
    BY <2>1, <2>2
<1>6. sent' = [sent EXCEPT ![c] = Append(sent[c], number[c])]
  BY <1>2 DEF Put
<1>7. Append(sent[c], number[c]) \in Seq(Nat)
  BY <1>1, LoggedNumber
<1>8. /\ at'[c] = "print" /\ number'[c] = 0 /\ sent'[c] = Append(sent[c], number[c])
      /\ ForBots'
  BY <1>1, <1>2, <1>6, <1>7 DEF ForBots
<1>9. \A d \in Clients : d # c => SameBot(d)
  BY <1>1, <1>2, <1>5, <1>6 DEF ForBots, SameBot
<1>10. FineBot(c)'
  <2>1. Fine("print", "off", orderNumber[c], 0, hnumber[c], Append(sent[c], number[c]),
             nested[c], lost[c],
             link[c], written[c] + 1, socket'[c], options[c])
    BY <1>2, <1>3, <1>5, WriteFine
  <2>2. QED
    BY <1>2, <1>5, <1>8, <2>1 DEF FineBot
<1>11. QED
  BY <1>1, <1>2, <1>4, <1>5, <1>8, <1>9, <1>10, OneBot

LEMMA HandlerKeepsBots ==
  ASSUME TypeInv, BotsInv, NEW c \in Clients, WriteInHandler(c), mode' = mode
  PROVE  /\ TypeInv' /\ BotsInv'
         /\ written[c] < MaxMessages /\ hnumber[c] \in Nat /\ hnumber[c] + 1 \in 1 .. MaxMessages
<1>1. ForBots /\ FineBot(c) /\ hnumber[c] \in Nat /\ sent[c] \in Seq(Nat)
  BY DEF BotsInv, ForBots
<1>2. /\ Put(c, hnumber[c]) /\ handler[c] = "write"
      /\ handler' = [handler EXCEPT ![c] = "off"]
      /\ hnumber' = [hnumber EXCEPT ![c] = 0]
      /\ UNCHANGED <<options, at, orderNumber, number, nested, lost>>
  BY DEF WriteInHandler
<1>3. Fine(at[c], "write", orderNumber[c], number[c], hnumber[c], sent[c], nested[c], lost[c],
           link[c], written[c], socket[c], options[c])
  BY <1>1, <1>2 DEF FineBot
<1>4. written[c] < MaxMessages /\ hnumber[c] + 1 \in 1 .. MaxMessages
  <2>1. << >> \in Seq(Message) /\ Len(<< >>) <= SocketLimit
    BY TradeBotAssumption, LenProperties, EmptySeq
  <2>2. QED
    BY <1>3, <2>1, HandlerWritesFine
<1>5. /\ TypeInv' /\ socket'[c] \in Seq(Message) /\ Len(socket'[c]) <= SocketLimit
      /\ written'[c] = written[c] + 1 /\ link' = link
      /\ \A d \in Clients : d # c => socket'[d] = socket[d] /\ written'[d] = written[d]
  <2>1. /\ TypeInv' /\ socket'[c] \in Seq(Message) /\ Len(socket'[c]) = Len(socket[c]) + 1
        /\ Len(socket[c]) \in Nat /\ Len(socket[c]) < SocketLimit
        /\ written'[c] = written[c] + 1 /\ link' = link
        /\ \A d \in Clients : d # c => socket'[d] = socket[d] /\ written'[d] = written[d]
    BY <1>1, <1>2, <1>4, PutKeepsTypes
  <2>2. Len(socket[c]) + 1 <= SocketLimit
    BY <2>1, TradeBotAssumption
  <2>3. QED
    BY <2>1, <2>2
<1>6. sent' = [sent EXCEPT ![c] = Append(sent[c], hnumber[c])]
  BY <1>2 DEF Put
<1>7. Append(sent[c], hnumber[c]) \in Seq(Nat)
  BY <1>1, LoggedNumber
<1>8. /\ handler'[c] = "off" /\ hnumber'[c] = 0 /\ sent'[c] = Append(sent[c], hnumber[c])
      /\ ForBots'
  BY <1>1, <1>2, <1>6, <1>7 DEF ForBots
<1>9. \A d \in Clients : d # c => SameBot(d)
  BY <1>1, <1>2, <1>5, <1>6 DEF ForBots, SameBot
<1>10. FineBot(c)'
  <2>1. Fine(at[c], "off", orderNumber[c], number[c], 0, Append(sent[c], hnumber[c]),
             nested[c], lost[c],
             link[c], written[c] + 1, socket'[c], options[c])
    BY <1>3, <1>5, HandlerWritesFine
  <2>2. QED
    BY <1>2, <1>5, <1>8, <2>1 DEF FineBot
<1>11. QED
  BY <1>1, <1>4, <1>2, <1>5, <1>8, <1>9, <1>10, OneBot

LEMMA TimeoutKeeps ==
  ASSUME TypeInv, BotsInv, NEW c \in Clients, Timeout(c)
  PROVE  TypeInv' /\ BotsInv'
<1>1. ForBots /\ FineBot(c)
  BY DEF BotsInv
<1>2. /\ TypeInv' /\ UNCHANGED <<link, socket, written>>
      /\ link[c] # "none" /\ handler[c] = "off" /\ options[c].r # 0
      /\ written[c] + lost[c]
           + (IF at[c] \in {"send", "store", "write", "wait"} THEN 1 ELSE 0) < options[c].c
      /\ handler' = [handler EXCEPT ![c] = "write"]
      /\ hnumber' = [hnumber EXCEPT ![c] = orderNumber[c]]
      /\ orderNumber' = [orderNumber EXCEPT ![c] = orderNumber[c] + 1]
      /\ nested' = [nested EXCEPT ![c] = IF at[c] = "store" THEN nested[c] + 1 ELSE nested[c]]
      /\ UNCHANGED <<options, sent>>
  BY Quiet DEF Timeout, Alarm, Sending
<1>3. Fine(at[c], "off", orderNumber[c], number[c], hnumber[c], sent[c], nested[c], lost[c],
           link[c], written[c], socket[c], options[c])
  BY <1>1, <1>2 DEF FineBot
<1>4. CASE at[c] = "wait"
  <2>1. /\ at' = [at EXCEPT ![c] = "print"] /\ number' = [number EXCEPT ![c] = 0]
        /\ lost' = [lost EXCEPT ![c] = lost[c] + 1]
    BY <1>4 DEF Timeout
  <2>2. /\ lost[c] = 0
        /\ Fine("print", "write", orderNumber[c] + 1, 0, orderNumber[c], sent[c], nested[c], 1,
                link[c], written[c], socket[c], options[c])
    BY <1>2, <1>3, <1>4, GiveUpFine
  <2>3. /\ at'[c] = "print" /\ number'[c] = 0 /\ lost'[c] = 1
        /\ handler'[c] = "write" /\ hnumber'[c] = orderNumber[c]
        /\ orderNumber'[c] = orderNumber[c] + 1 /\ nested'[c] = nested[c]
        /\ \A d \in Clients : d # c => SameBot(d)
        /\ ForBots'
    BY <1>1, <1>2, <1>4, <2>1, <2>2 DEF ForBots, SameBot
  <2>4. FineBot(c)'
    BY <1>2, <2>2, <2>3 DEF FineBot
  <2>5. QED
    BY <1>2, <2>3, <2>4, OneBot
<1>5. CASE at[c] # "wait"
  <2>1. UNCHANGED <<at, number, lost>>
    BY <1>5 DEF Timeout
  <2>2. Fine(at[c], "write", orderNumber[c] + 1, number[c], orderNumber[c], sent[c],
             IF at[c] = "store" THEN nested[c] + 1 ELSE nested[c], lost[c],
             link[c], written[c], socket[c], options[c])
    BY <1>2, <1>3, <1>5, TimeoutFine
  <2>3. /\ handler'[c] = "write" /\ hnumber'[c] = orderNumber[c]
        /\ orderNumber'[c] = orderNumber[c] + 1
        /\ nested'[c] = IF at[c] = "store" THEN nested[c] + 1 ELSE nested[c]
        /\ \A d \in Clients : d # c => SameBot(d)
        /\ ForBots'
    BY <1>1, <1>2, <2>1 DEF ForBots, SameBot
  <2>4. FineBot(c)'
    BY <1>2, <2>1, <2>2, <2>3 DEF FineBot
  <2>5. QED
    BY <1>2, <2>3, <2>4, OneBot
<1>6. QED
  BY <1>4, <1>5

LEMMA HangsKeeps ==
  ASSUME TypeInv, BotsInv, NEW c \in Clients, Hangs(c)
  PROVE  TypeInv' /\ BotsInv'
<1>1. ForBots /\ FineBot(c)
  BY DEF BotsInv
<1>2. /\ TypeInv' /\ UNCHANGED <<link, socket, written>>
      /\ link[c] # "none" /\ handler[c] = "off"
      /\ handler' = [handler EXCEPT ![c] = "hung"]
      /\ UNCHANGED <<options, at, orderNumber, number, hnumber, sent, nested, lost>>
  BY Quiet DEF Hangs, Alarm
<1>3. /\ handler'[c] = "hung"
      /\ \A d \in Clients : d # c => SameBot(d)
      /\ ForBots'
  BY <1>1, <1>2 DEF ForBots, SameBot
<1>4. FineBot(c)'
  BY <1>1, <1>2, <1>3, HangsFine DEF FineBot
<1>5. QED
  BY <1>2, <1>3, <1>4, OneBot

LEMMA PrintedKeeps ==
  ASSUME TypeInv, BotsInv, NEW c \in Clients, Printed(c)
  PROVE  TypeInv' /\ BotsInv'
<1>1. ForBots /\ FineBot(c)
  BY DEF BotsInv
<1>2. /\ TypeInv' /\ UNCHANGED <<link, socket, written>>
      /\ UNCHANGED <<options, handler, orderNumber, number, hnumber, sent, nested, lost>>
      /\ link[c] # "none" /\ handler[c] = "off" /\ at[c] = "print"
  BY Quiet DEF Printed, Runs
<1>3. PICK pc \in {"send", "print", "read"} :
         /\ at' = [at EXCEPT ![c] = pc]
         /\ pc = "send" => options[c].r = 0 /\ written[c] < options[c].c
  BY DEF Printed
<1>4. /\ at'[c] = pc
      /\ \A d \in Clients : d # c => SameBot(d)
      /\ ForBots'
  BY <1>1, <1>2, <1>3 DEF ForBots, SameBot
<1>5. FineBot(c)'
  <2>1. Fine("print", "off", orderNumber[c], number[c], hnumber[c], sent[c], nested[c], lost[c],
             link[c], written[c], socket[c], options[c])
    BY <1>1, <1>2 DEF FineBot
  <2>2. Fine(pc, "off", orderNumber[c], number[c], hnumber[c], sent[c], nested[c], lost[c],
             link[c], written[c], socket[c], options[c])
    BY <1>2, <1>3, <2>1, MovesFine
  <2>3. QED
    BY <1>2, <1>4, <2>2 DEF FineBot
<1>6. QED
  BY <1>2, <1>4, <1>5, OneBot

LEMMA ReadKeeps ==
  ASSUME TypeInv, BotsInv, NEW c \in Clients, ReadAnswer(c)
  PROVE  TypeInv' /\ BotsInv' /\ ManagerKept /\ link' = link /\ socket' = socket /\ sent' = sent
<1>1. ForBots /\ FineBot(c) /\ BotTypes
  BY TypeParts DEF TypeInv, Types, BotsInv
<1>2. /\ UNCHANGED <<link, socket, written>> /\ ManagerKept
      /\ UNCHANGED <<options, handler, orderNumber, number, hnumber, sent, nested, lost>>
      /\ link[c] # "none" /\ handler[c] = "off" /\ at[c] = "read"
      /\ at' = [at EXCEPT ![c] = "print"]
      /\ inbox[c] > 0 /\ inbox' = [inbox EXCEPT ![c] = inbox[c] - 1]
  BY DEF ReadAnswer, Read, Runs, ManagerKept
<1>3. inbox[c] - 1 \in 0 .. BufferLimit
  BY <1>1, <1>2, ConnMgrAssumption DEF BotTypes
<1>4. BotTypes'
  BY <1>1, <1>2, <1>3 DEF BotTypes, ManagerKept
<1>5. /\ at'[c] = "print"
      /\ \A d \in Clients : d # c => SameBot(d)
      /\ ForBots'
  BY <1>1, <1>2 DEF ForBots, SameBot
<1>6. FineBot(c)'
  <2>1. Fine("read", "off", orderNumber[c], number[c], hnumber[c], sent[c], nested[c], lost[c],
             link[c], written[c], socket[c], options[c])
    BY <1>1, <1>2 DEF FineBot
  <2>2. Fine("print", "off", orderNumber[c], number[c], hnumber[c], sent[c], nested[c], lost[c],
             link[c], written[c], socket[c], options[c])
    BY <1>2, <2>1, MovesFine
  <2>3. QED
    BY <1>2, <1>5, <2>2 DEF FineBot
<1>7. QED
  BY <1>2, <1>4, <1>5, <1>6, OneBot, ManagerTypes

LEMMA ExchangeKeeps ==
  ASSUME TypeInv, BotsInv, Exchange
  PROVE  TypeInv' /\ BotsInv'
<1>1. /\ Next /\ UNCHANGED botState /\ written' = written
      /\ \A c \in Clients : /\ (link'[c] = "none") <=> (link[c] = "none")
                            /\ Len(socket'[c]) <= Len(socket[c])
  BY ExchangeIsNext
<1>2. TypeInv'
  BY <1>1, StepType
<1>3. \A c \in Clients : socket'[c] \in Seq(Message) /\ Len(socket'[c]) \in Nat
                           /\ Len(socket[c]) \in Nat
  <2>1. socket' \in [Clients -> Seq(Message)] /\ socket \in [Clients -> Seq(Message)]
    BY <1>2 DEF TypeInv, TypeOK
  <2>2. QED
    BY <2>1, LenProperties
<1>4. UNCHANGED <<options, at, handler, orderNumber, number, hnumber, sent, nested, lost>>
  BY <1>1 DEF botState
<1>5. ForBots'
  BY <1>4 DEF BotsInv, ForBots
<1>6. ASSUME NEW c \in Clients PROVE FineBot(c)'
  <2>1. FineBot(c)
    BY DEF BotsInv
  <2>2. Len(socket'[c]) <= SocketLimit
    <3>1. Len(socket[c]) <= SocketLimit
      BY <2>1 DEF FineBot, Fine
    <3>2. QED
      BY <1>1, <1>3, <3>1, TradeBotAssumption
  <2>3. /\ socket'[c] \in Seq(Message)
        /\ (link'[c] = "none") <=> (link[c] = "none")
    BY <1>1, <1>3
  <2>4. Fine(at[c], handler[c], orderNumber[c], number[c], hnumber[c], sent[c], nested[c], lost[c],
             link'[c], written[c], socket'[c], options[c])
    BY <2>1, <2>2, <2>3 DEF FineBot, Fine
  <2>5. QED
    BY <1>1, <1>4, <2>4 DEF FineBot
<1>7. QED
  BY <1>2, <1>5, <1>6 DEF BotsInv

LEMMA StepBots == TypeInv /\ BotsInv /\ [TbNext]_tbVars => TypeInv' /\ BotsInv'
<1> SUFFICES ASSUME TypeInv, BotsInv, [TbNext]_tbVars PROVE TypeInv' /\ BotsInv'
  OBVIOUS
<1>1. CASE Exchange
  BY <1>1, ExchangeKeeps
<1>2. ASSUME NEW c \in Clients, BotMain(c) \/ Handle(c) \/ Hangs(c) PROVE TypeInv' /\ BotsInv'
  <2>1. CASE WriteOrder(c)
    <3>1. mode' = mode
      BY <2>1 DEF WriteOrder, Put
    <3>2. QED
      BY <2>1, <3>1, WriteKeepsBots
  <2>2. CASE WriteInHandler(c)
    <3>1. mode' = mode
      BY <2>2 DEF WriteInHandler, Put
    <3>2. QED
      BY <2>2, <3>1, HandlerKeepsBots
  <2>3. QED
    BY <1>2, <2>1, <2>2, ConnectKeeps, LoadKeeps, StoreKeeps, WaitKeeps,
       PrintedKeeps, HangsKeeps, ReadKeeps, TimeoutKeeps
    DEF BotMain, Handle
<1>3. CASE UNCHANGED tbVars
  <2>1. UNCHANGED vars /\ UNCHANGED botState
    BY <1>3 DEF tbVars
  <2>2. TypeInv' /\ UNCHANGED <<link, socket, written>>
    BY <2>1, Quiet
  <2>3. UNCHANGED <<options, at, handler, orderNumber, number, hnumber, sent, nested, lost>>
    BY <2>1 DEF botState
  <2>4. ForBots'
    BY <2>3 DEF BotsInv, ForBots
  <2>5. \A c \in Clients : FineBot(c)'
    BY <2>2, <2>3 DEF BotsInv, FineBot
  <2>6. QED
    BY <2>2, <2>4, <2>5 DEF BotsInv
<1>4. QED
  BY <1>1, <1>2, <1>3 DEF TbNext

LEMMA AlwaysBots == TbSpec => [](TypeInv /\ BotsInv)
<1>1. TypeInv /\ BotsInv /\ [TbNext]_tbVars => (TypeInv /\ BotsInv)'
  BY StepBots
<1>2. QED
  BY <1>1, InitBots, PTL DEF TbSpec

LEMMA BotsTyped == BotsInv => TbTypeOK
<1> SUFFICES ASSUME BotsInv PROVE TbTypeOK
  OBVIOUS
<1>1. ForBots
  BY DEF BotsInv
<1>2. ASSUME NEW c \in Clients
      PROVE  /\ orderNumber[c] \in 0 .. MaxMessages /\ number[c] \in 0 .. MaxMessages
             /\ hnumber[c] \in 0 .. MaxMessages /\ nested[c] \in 0 .. MaxMessages
             /\ Len(sent[c]) = written[c] /\ written[c] + lost[c] <= options[c].c
             /\ lost[c] \in 0 .. 1 /\ (options[c].r = 0 => lost[c] = 0)
             /\ Len(socket[c]) <= SocketLimit
  <2>1. FineBot(c)
    BY DEF BotsInv
  <2>2. /\ orderNumber[c] \in Nat /\ number[c] \in Nat /\ hnumber[c] \in Nat
        /\ nested[c] \in Nat /\ sent[c] \in Seq(Nat)
    BY <1>1 DEF ForBots
  <2>3. /\ options[c].c \in Nat /\ options[c].c <= MaxMessages /\ MaxMessages \in Nat
        /\ Len(sent[c]) = written[c] /\ Len(socket[c]) <= SocketLimit
        /\ lost[c] \in 0 .. 1 /\ (options[c].r = 0 => lost[c] = 0)
    BY <2>1, BudgetIs DEF FineBot, Fine
  <2>4. CASE link[c] = "none"
    <3>1. /\ orderNumber[c] = 0 /\ number[c] = 0 /\ hnumber[c] = 0 /\ nested[c] = 0
          /\ sent[c] = << >> /\ lost[c] = 0
      BY <2>1, <2>4 DEF FineBot, Fine
    <3>2. Len(sent[c]) = 0
      BY <3>1, LenProperties, EmptySeq
    <3>3. QED
      BY <2>3, <3>1, <3>2
  <2>5. CASE link[c] # "none"
    <3> DEFINE d == Drawn(at[c], handler[c], sent[c]) + lost[c]
    <3>1. d \in Nat /\ Len(sent[c]) \in Nat /\ Len(sent[c]) + lost[c] <= d
      <4>1. Drawn(at[c], handler[c], sent[c]) \in Nat /\ Len(sent[c]) \in Nat
            /\ Len(sent[c]) <= Drawn(at[c], handler[c], sent[c])
        BY <2>2, DrawnIs
      <4>2. QED
        BY <2>3, <4>1
    <3>2. InBudget(at[c], handler[c], orderNumber[c], number[c], hnumber[c], sent[c], nested[c],
                   lost[c], options[c].c)
      BY <2>1, <2>5 DEF FineBot, Fine
    <3>3. /\ d + (IF at[c] = "send" THEN 1 ELSE 0) <= options[c].c
          /\ orderNumber[c] <= d /\ nested[c] <= d
          /\ number[c] # 0 => number[c] + 1 <= d
          /\ hnumber[c] # 0 => hnumber[c] + 1 <= d
      BY <3>2 DEF InBudget
    <3>4. d <= options[c].c
      BY <2>3, <3>1, <3>3
    <3> HIDE DEF d
    <3>5. d <= MaxMessages
      BY <2>3, <3>1, <3>4
    <3>6. /\ orderNumber[c] \in 0 .. MaxMessages /\ nested[c] \in 0 .. MaxMessages
          /\ number[c] \in 0 .. MaxMessages /\ hnumber[c] \in 0 .. MaxMessages
      BY <2>2, <2>3, <3>1, <3>3, <3>5
    <3>7. written[c] + lost[c] <= options[c].c
      BY <2>3, <3>1, <3>4
    <3>8. QED
      BY <2>3, <3>6, <3>7
  <2>6. QED
    BY <2>4, <2>5
<1>3. QED
  BY <1>1, <1>2 DEF ForBots, TbTypeOK

\* A bot of tradeBot.c at a rate sends no more orders than it may, whatever
\* signals interrupt its main, loses no more than the one that main sends, and no
\* number goes beyond what it was told to send.
THEOREM BotsStayWithin == TbSpec => []TbTypeOK
  BY AlwaysBots, BotsTyped, PTL

\* However the interval timer of tradeBot.c fires: each number that a bot gives
\* to two orders is due to a signal of its own inside orderNumber++, and a signal
\* at any other place, in the handler or while main waits, costs nothing.
THEOREM EachRepetitionHasCause == TbSpec => []RepetitionsHaveCause
<1>1. BotsInv => RepetitionsHaveCause
  <2> SUFFICES ASSUME BotsInv, NEW c \in Clients
               PROVE  Len(sent[c]) - Cardinality(ToSet(sent[c])) <= nested[c]
    BY DEF RepetitionsHaveCause
  <2>1. FineBot(c)
    BY DEF BotsInv
  <2>2. QED
    BY <2>1, FewOfSent DEF FineBot, Fine
<1>2. QED
  BY <1>1, AlwaysBots, PTL
-----------------------------------------------------------------------------
(* The places where an order may be on its way *)

Among(s, K) == \E i \in 1 .. Len(s) : s[i] \in K
OnceIn(s, K) == \A i, j \in 1 .. Len(s) : s[i] \in K /\ s[j] \in K => i = j

LEMMA AppendAmong ==
  ASSUME NEW S, NEW s \in Seq(S), NEW x \in S, NEW K
  PROVE  /\ Append(s, x) \in Seq(S)
         /\ Among(Append(s, x), K) <=> Among(s, K) \/ x \in K
         /\ OnceIn(s, K) /\ (x \in K => ~Among(s, K)) => OnceIn(Append(s, x), K)
<1> DEFINE t == Append(s, x)
<1>1. /\ t \in Seq(S) /\ Len(t) = Len(s) + 1 /\ Len(s) \in Nat
      /\ \A i \in 1 .. Len(s) : t[i] = s[i]
      /\ t[Len(s) + 1] = x
  BY AppendProperties, LenProperties
<1> HIDE DEF t
<1>2. \A i \in 1 .. Len(t) : i \in 1 .. Len(s) \/ i = Len(s) + 1
  BY <1>1
<1>3. Len(s) + 1 \in 1 .. Len(t) /\ \A i \in 1 .. Len(s) : i \in 1 .. Len(t)
  BY <1>1
<1>4. Among(t, K) => Among(s, K) \/ x \in K
  BY <1>1, <1>2 DEF Among
<1>5. Among(s, K) \/ x \in K => Among(t, K)
  BY <1>1, <1>3 DEF Among
<1>6. ASSUME OnceIn(s, K), x \in K => ~Among(s, K) PROVE OnceIn(t, K)
  <2>1. SUFFICES ASSUME NEW i \in 1 .. Len(t), NEW j \in 1 .. Len(t), t[i] \in K, t[j] \in K
                 PROVE  i = j
    BY DEF OnceIn
  <2>2. CASE i \in 1 .. Len(s) /\ j \in 1 .. Len(s)
    BY <1>1, <1>6, <2>1, <2>2 DEF OnceIn
  <2>3. CASE i = Len(s) + 1 \/ j = Len(s) + 1
    BY <1>1, <1>2, <1>6, <2>1, <2>3 DEF Among
  <2>4. QED
    BY <1>2, <2>2, <2>3
<1>7. QED
  BY <1>1, <1>4, <1>5, <1>6 DEF t

LEMMA TailAmong ==
  ASSUME NEW S, NEW s \in Seq(S), s # << >>, NEW K
  PROVE  /\ Tail(s) \in Seq(S) /\ Head(s) \in S
         /\ Among(Tail(s), K) => Among(s, K)
         /\ Head(s) \in K => Among(s, K)
         /\ OnceIn(s, K) => OnceIn(Tail(s), K)
         /\ OnceIn(s, K) /\ Head(s) \in K => ~Among(Tail(s), K)
<1> DEFINE t == Tail(s)
<1>1. /\ t \in Seq(S) /\ Len(t) = Len(s) - 1 /\ Len(s) \in Nat \ {0}
      /\ \A i \in 1 .. Len(t) : t[i] = s[i + 1]
      /\ Head(s) = s[1] /\ Head(s) \in S
  BY HeadTailProperties, LenProperties, EmptySeq
<1> HIDE DEF t
<1>2. \A i \in 1 .. Len(t) : i + 1 \in 1 .. Len(s) /\ i + 1 # 1
  BY <1>1
<1>3. Among(t, K) => Among(s, K)
  BY <1>1, <1>2 DEF Among
<1>4. 1 \in 1 .. Len(s)
  BY <1>1
<1>5. ASSUME OnceIn(s, K), NEW i \in 1 .. Len(t), NEW j \in 1 .. Len(t),
             t[i] \in K, t[j] \in K
      PROVE  i = j
  <2>1. i + 1 = j + 1
    BY <1>1, <1>2, <1>5 DEF OnceIn
  <2>2. QED
    BY <1>1, <2>1
<1>6. ASSUME OnceIn(s, K), Head(s) \in K, NEW i \in 1 .. Len(t), t[i] \in K
      PROVE  FALSE
  BY <1>1, <1>2, <1>4, <1>6 DEF OnceIn
<1>7. Head(s) \in K => Among(s, K)
  BY <1>1, <1>4 DEF Among
<1>8. OnceIn(s, K) => OnceIn(t, K)
  BY <1>5 DEF OnceIn
<1>9. OnceIn(s, K) /\ Head(s) \in K => ~Among(t, K)
  BY <1>6 DEF Among
<1>10. QED
  BY <1>1, <1>3, <1>7, <1>8, <1>9 DEF t

LEMMA NoneAmong ==
  ASSUME NEW K
  PROVE  ~Among(<< >>, K) /\ OnceIn(<< >>, K)
<1>1. Len(<< >>) = 0
  BY LenProperties, EmptySeq
<1>2. QED
  BY <1>1 DEF Among, OnceIn

NewMessages == {m \in Message : IsNew(m)}
NewOf(c) == {m \in NewMessages : m.id[1] = c}

\* Bots only send new orders, their own.
OwnInv ==
  /\ \A c \in Clients : socket[c] \in Seq(NewOf(c))
  /\ omm \in NewMessages \cup {NoMessage}
  /\ queue \in Seq(NewMessages \cup {NoMessage})

About(o) == {m \in Message : m.id = o}

InSocket(o) == Among(socket[o[1]], About(o))
OnHand(o) == mpc \in {"insert", "msgsnd"} /\ omm \in About(o)
InQueue(o) == Among(queue, About(o))
InQueue2(o) == Among(queue2, {o})
LookedUp(o) == apc = "find" /\ ack = o
Answered(o) == IsRouted(o) \/ (apc = "send" /\ ack = o)

Somewhere(o) ==
  InSocket(o) \/ OnHand(o) \/ InQueue(o) \/ InQueue2(o) \/ LookedUp(o) \/ Answered(o)

\* The engine has it, or its answer has not been looked up.
Engaged(o) == InQueue(o) \/ InQueue2(o) \/ LookedUp(o)

InOnePlace(o) ==
  /\ OnceIn(socket[o[1]], About(o)) /\ OnceIn(queue, About(o)) /\ OnceIn(queue2, {o})
  /\ OnHand(o) => ~InSocket(o)
  /\ InQueue(o) => ~InSocket(o) /\ ~OnHand(o)
  /\ InQueue2(o) => ~InSocket(o) /\ ~OnHand(o) /\ ~InQueue(o)
  /\ LookedUp(o) => ~InSocket(o) /\ ~OnHand(o) /\ ~InQueue(o) /\ ~InQueue2(o)
  /\ Answered(o) => ~InSocket(o) /\ ~OnHand(o) /\ ~Engaged(o)

WasSent(o) == o[2] - 1 \in ToSet(sent[o[1]])

SentTwice(o) ==
  \E j, k \in 1 .. Len(sent[o[1]]) :
     j # k /\ sent[o[1]][j] = sent[o[1]][k] /\ sent[o[1]][j] + 1 = o[2]

\* An order that was sent once is in one place at most, and only what was sent
\* is anywhere.
OnceInv ==
  \A o \in Ids : SentTwice(o) \/ (InOnePlace(o) /\ (Somewhere(o) => WasSent(o)))

PlacedInv == \A o \in Ids : Engaged(o) => Placed(o)

\* What a step may do to an order: move it from one place to another.
Moves(o) ==
  /\ InOnePlace(o) => InOnePlace(o)'
  /\ Somewhere(o)' => Somewhere(o)
  /\ Engaged(o)' => Engaged(o) \/ (Msgsnd /\ meUp /\ OnHand(o))

\* No place gains an order.
LEMMA NoneGains ==
  ASSUME NEW o,
         InSocket(o)' => InSocket(o), OnHand(o)' => OnHand(o),
         InQueue(o)' => InQueue(o), InQueue2(o)' => InQueue2(o),
         LookedUp(o)' => LookedUp(o), Answered(o)' => Answered(o),
         OnceIn(socket[o[1]], About(o)) => OnceIn(socket[o[1]], About(o))',
         OnceIn(queue, About(o)) => OnceIn(queue, About(o))',
         OnceIn(queue2, {o}) => OnceIn(queue2, {o})'
  PROVE  Moves(o)
  BY DEF Moves, InOnePlace, Somewhere, Engaged

LEMMA SocketsSame ==
  ASSUME NEW o, socket' = socket
  PROVE  /\ InSocket(o)' <=> InSocket(o)
         /\ OnceIn(socket[o[1]], About(o)) => OnceIn(socket[o[1]], About(o))'
  BY DEF InSocket, About, IsNew

LEMMA QueueSame ==
  ASSUME NEW o, queue' = queue \/ queue' = << >>
  PROVE  /\ InQueue(o)' => InQueue(o)
         /\ OnceIn(queue, About(o)) => OnceIn(queue, About(o))'
<1>1. CASE queue' = queue
  BY <1>1 DEF InQueue, About
<1>2. CASE queue' = << >>
  <2>1. ~Among(queue', About(o)) /\ OnceIn(queue', About(o))
    BY <1>2, NoneAmong
  <2>2. QED
    BY <2>1 DEF InQueue, About
<1>3. QED
  BY <1>1, <1>2

LEMMA Queue2Same ==
  ASSUME NEW o, queue2' = queue2 \/ queue2' = << >>
  PROVE  /\ InQueue2(o)' => InQueue2(o)
         /\ OnceIn(queue2, {o}) => OnceIn(queue2, {o})'
<1>1. CASE queue2' = queue2
  BY <1>1 DEF InQueue2
<1>2. CASE queue2' = << >>
  <2>1. ~Among(queue2', {o}) /\ OnceIn(queue2', {o})
    BY <1>2, NoneAmong
  <2>2. QED
    BY <2>1 DEF InQueue2
<1>3. QED
  BY <1>1, <1>2

LEMMA ReceiveMoves ==
  ASSUME TypeInv, OwnInv, PollInv, AllStay, Receive, NEW o \in Ids
  PROVE  Moves(o)
<1>1. PICK c \in Clients : c = Head(ready).fd
  BY ReceiveFrom
<1>2. socket[c] # << >>
  <2>1. /\ Len(ready) \in Nat \ {0} /\ Head(ready) = ready[1]
        /\ mpc = "scan" /\ Head(ready).revents = "in"
    BY HeadIsEvent DEF Receive, InLoop
  <2>2. QED
    BY <1>1, <2>1 DEF PollInv
<1>3. /\ mpc = "scan" /\ mpc' = "insert" /\ omm' = Head(socket[c])
      /\ socket' = [socket EXCEPT ![c] = Tail(socket[c])]
      /\ UNCHANGED <<queue, queue2, apc, ack, routed>>
  BY <1>1, <1>2 DEF Receive, meVars, ackVars
<1>4. socket \in [Clients -> Seq(Message)]
  BY DEF TypeInv, TypeOK
<1>5. socket'[c] = Tail(socket[c]) /\ \A d \in Clients : d # c => socket'[d] = socket[d]
  BY <1>3, <1>4
<1>6. /\ socket[c] \in Seq(NewOf(c))
      /\ Tail(socket[c]) \in Seq(NewOf(c)) /\ Head(socket[c]) \in NewOf(c)
  BY <1>2, TailAmong DEF OwnInv
<1>7. o[1] \in Clients
  BY DEF Ids
<1>8. /\ ~OnHand(o) /\ OnHand(o)' <=> Head(socket[c]) \in About(o)
  BY <1>3 DEF OnHand, About
<1>9. /\ InQueue(o)' <=> InQueue(o)
      /\ InQueue2(o)' <=> InQueue2(o)
      /\ LookedUp(o)' <=> LookedUp(o)
      /\ Answered(o)' <=> Answered(o)
      /\ OnceIn(queue, About(o))' <=> OnceIn(queue, About(o))
      /\ OnceIn(queue2, {o})' <=> OnceIn(queue2, {o})
  BY <1>3 DEF InQueue, InQueue2, LookedUp, Answered, IsRouted, About
<1>10. CASE Head(socket[c]) \in About(o)
  <2>1. o[1] = c
    BY <1>6, <1>10 DEF NewOf, About
  <2> DEFINE K == About(o)
  <2>2. /\ Among(socket[c], K)
        /\ OnceIn(socket[c], K) => ~Among(Tail(socket[c]), K) /\ OnceIn(Tail(socket[c]), K)
    BY <1>2, <1>6, <1>10, TailAmong
  <2>3. /\ InSocket(o)
        /\ OnceIn(socket[o[1]], About(o)) =>
             ~InSocket(o)' /\ OnceIn(socket[o[1]], About(o))'
    BY <1>5, <2>1, <2>2 DEF InSocket, About
  <2>4. QED
    BY <1>8, <1>9, <2>3 DEF Moves, InOnePlace, Somewhere, Engaged
<1>11. CASE Head(socket[c]) \notin About(o)
  <2>1. /\ InSocket(o)' => InSocket(o)
        /\ OnceIn(socket[o[1]], About(o)) => OnceIn(socket[o[1]], About(o))'
    <3>1. CASE o[1] = c
      <4> DEFINE K == About(o)
      <4>1. /\ Among(Tail(socket[c]), K) => Among(socket[c], K)
            /\ OnceIn(socket[c], K) => OnceIn(Tail(socket[c]), K)
        BY <1>2, <1>6, TailAmong
      <4>2. QED
        BY <1>5, <3>1, <4>1 DEF InSocket, About
    <3>2. CASE o[1] # c
      BY <1>5, <1>7, <3>2 DEF InSocket, About
    <3>3. QED
      BY <3>1, <3>2
  <2>2. QED
    BY <1>8, <1>9, <1>11, <2>1, NoneGains
<1>12. QED
  BY <1>10, <1>11

LEMMA MsgsndMoves ==
  ASSUME TypeInv, OwnInv, Msgsnd, NEW o \in Ids
  PROVE  Moves(o)
<1>1. /\ mpc = "msgsnd" /\ mpc' = "slot" /\ omm' = omm
      /\ queue' = (IF meUp THEN Append(queue, omm) ELSE queue)
      /\ UNCHANGED <<socket, queue2, apc, ack, routed>>
  BY DEF Msgsnd, botVars, ackVars
<1>2. /\ InSocket(o)' <=> InSocket(o)
      /\ InQueue2(o)' <=> InQueue2(o)
      /\ LookedUp(o)' <=> LookedUp(o)
      /\ Answered(o)' <=> Answered(o)
      /\ OnceIn(socket[o[1]], About(o))' <=> OnceIn(socket[o[1]], About(o))
      /\ OnceIn(queue2, {o})' <=> OnceIn(queue2, {o})
  BY <1>1 DEF InSocket, InQueue2, LookedUp, Answered, IsRouted, About
<1>3. ~OnHand(o)'
  BY <1>1 DEF OnHand
<1>4. OnHand(o) <=> omm \in About(o)
  BY <1>1 DEF OnHand
<1>5. CASE meUp
  <2> DEFINE K == About(o)
  <2>1. omm \in NewMessages \cup {NoMessage} /\ queue \in Seq(NewMessages \cup {NoMessage})
    BY DEF OwnInv
  <2>2. /\ Among(Append(queue, omm), K) <=> Among(queue, K) \/ omm \in K
        /\ OnceIn(queue, K) /\ (omm \in K => ~Among(queue, K)) => OnceIn(Append(queue, omm), K)
    BY <2>1, AppendAmong
  <2>3. /\ InQueue(o)' <=> InQueue(o) \/ OnHand(o)
        /\ OnceIn(queue, About(o)) /\ (OnHand(o) => ~InQueue(o)) => OnceIn(queue, About(o))'
    BY <1>1, <1>4, <1>5, <2>2 DEF InQueue, About
  <2>4. QED
    BY <1>2, <1>3, <1>5, <2>3 DEF Moves, InOnePlace, Somewhere, Engaged
<1>6. CASE ~meUp
  <2>1. queue' = queue
    BY <1>1, <1>6
  <2>2. QED
    BY <1>2, <1>3, <2>1, QueueSame, NoneGains
<1>7. QED
  BY <1>5, <1>6

LEMMA RcvMoves ==
  ASSUME TypeInv, Rcv, NEW o \in Ids
  PROVE  Moves(o)
<1>1. /\ queue2 # << >> /\ apc = "rcv" /\ apc' = "find"
      /\ ack' = Head(queue2) /\ queue2' = Tail(queue2)
      /\ UNCHANGED <<socket, mpc, omm, queue, routed>>
  BY DEF Rcv, botVars
<1>2. queue2 \in Seq(Ids)
  BY TypeParts DEF TypeInv, Types, QueueTypes
<1>3. /\ InSocket(o)' <=> InSocket(o)
      /\ InQueue(o)' <=> InQueue(o)
      /\ OnHand(o)' <=> OnHand(o)
      /\ Answered(o)' <=> Answered(o)
      /\ OnceIn(socket[o[1]], About(o))' <=> OnceIn(socket[o[1]], About(o))
      /\ OnceIn(queue, About(o))' <=> OnceIn(queue, About(o))
  BY <1>1 DEF InSocket, InQueue, OnHand, Answered, IsRouted, About
<1>4. ~LookedUp(o) /\ (LookedUp(o)' <=> Head(queue2) \in {o})
  BY <1>1 DEF LookedUp
<1> DEFINE K == {o}
<1>5. /\ Among(Tail(queue2), K) => Among(queue2, K)
      /\ Head(queue2) \in K => Among(queue2, K)
      /\ OnceIn(queue2, K) => OnceIn(Tail(queue2), K)
      /\ OnceIn(queue2, K) /\ Head(queue2) \in K => ~Among(Tail(queue2), K)
  BY <1>1, <1>2, TailAmong
<1>6. /\ InQueue2(o)' => InQueue2(o)
      /\ LookedUp(o)' => InQueue2(o)
      /\ OnceIn(queue2, {o}) => OnceIn(queue2, {o})'
      /\ OnceIn(queue2, {o}) /\ LookedUp(o)' => ~InQueue2(o)'
  BY <1>1, <1>4, <1>5 DEF InQueue2
<1>7. QED
  BY <1>3, <1>4, <1>6 DEF Moves, InOnePlace, Somewhere, Engaged

LEMMA FindMoves ==
  ASSUME TypeInv, Find, NEW o \in Ids
  PROVE  Moves(o)
<1>1. /\ apc = "find" /\ apc' \in {"send", "rcv"} /\ ack' = ack
      /\ UNCHANGED <<socket, mpc, omm, queue, queue2, routed>>
  BY DEF Find, botVars, meVars
<1>2. /\ InSocket(o)' <=> InSocket(o)
      /\ InQueue(o)' <=> InQueue(o)
      /\ InQueue2(o)' <=> InQueue2(o)
      /\ OnHand(o)' <=> OnHand(o)
      /\ OnceIn(socket[o[1]], About(o))' <=> OnceIn(socket[o[1]], About(o))
      /\ OnceIn(queue, About(o))' <=> OnceIn(queue, About(o))
      /\ OnceIn(queue2, {o})' <=> OnceIn(queue2, {o})
  BY <1>1 DEF InSocket, InQueue, InQueue2, OnHand, About
<1>3. /\ ~LookedUp(o)'
      /\ Answered(o)' => Answered(o) \/ LookedUp(o)
  BY <1>1 DEF LookedUp, Answered, IsRouted
<1>4. QED
  BY <1>2, <1>3 DEF Moves, InOnePlace, Somewhere, Engaged

LEMMA SendMoves ==
  ASSUME TypeInv, Send, NEW o \in Ids
  PROVE  Moves(o)
<1>1. /\ apc = "send" /\ apc' = "erase" /\ ack' = ack
      /\ routed' = Append(routed, [order |-> ack, to |-> it])
      /\ UNCHANGED <<socket, mpc, omm, queue, queue2>>
  BY DEF Send, meVars
<1>2. /\ InSocket(o)' <=> InSocket(o)
      /\ InQueue(o)' <=> InQueue(o)
      /\ InQueue2(o)' <=> InQueue2(o)
      /\ OnHand(o)' <=> OnHand(o)
      /\ OnceIn(socket[o[1]], About(o))' <=> OnceIn(socket[o[1]], About(o))
      /\ OnceIn(queue, About(o))' <=> OnceIn(queue, About(o))
      /\ OnceIn(queue2, {o})' <=> OnceIn(queue2, {o})
  BY <1>1 DEF InSocket, InQueue, InQueue2, OnHand, About
<1>3. ~LookedUp(o) /\ ~LookedUp(o)'
  BY <1>1 DEF LookedUp
<1>4. IsRouted(o)' => IsRouted(o) \/ ack = o
  <2>1. /\ routed \in Seq([order : Ids, to : Clients])
        /\ [order |-> ack, to |-> it] \in [order : Ids, to : Clients]
    BY TypeParts DEF Send, TypeInv, ControlInv, Types, AckTypes
  <2>2. /\ Len(routed') = Len(routed) + 1 /\ Len(routed) \in Nat
        /\ \A i \in 1 .. Len(routed) : routed'[i] = routed[i]
        /\ routed'[Len(routed) + 1] = [order |-> ack, to |-> it]
    BY <1>1, <2>1, AppendProperties, LenProperties
  <2>3. \A i \in 1 .. Len(routed') : i \in 1 .. Len(routed) \/ i = Len(routed) + 1
    BY <2>2
  <2>4. QED
    BY <2>2, <2>3 DEF IsRouted
<1>5. Answered(o)' => Answered(o)
  BY <1>1, <1>4 DEF Answered
<1>6. QED
  BY <1>2, <1>3, <1>5 DEF Moves, InOnePlace, Somewhere, Engaged

LEMMA AnswerMoves ==
  ASSUME TypeInv, OwnInv, Answer, NEW o \in Ids
  PROVE  Moves(o)
<1>1. /\ queue # << >> /\ queue' = Tail(queue)
      /\ queue2' = (IF Head(queue) = NoMessage THEN queue2
                    ELSE Append(queue2, Head(queue).order))
      /\ UNCHANGED <<socket, mpc, omm, apc, ack, routed>>
  BY DEF Answer, botVars, ackVars
<1>2. /\ InSocket(o)' <=> InSocket(o)
      /\ OnHand(o)' <=> OnHand(o)
      /\ LookedUp(o)' <=> LookedUp(o)
      /\ Answered(o)' <=> Answered(o)
      /\ OnceIn(socket[o[1]], About(o))' <=> OnceIn(socket[o[1]], About(o))
  BY <1>1 DEF InSocket, OnHand, LookedUp, Answered, IsRouted, About
<1> DEFINE K == About(o)
<1>3. queue \in Seq(NewMessages \cup {NoMessage}) /\ queue2 \in Seq(Ids)
  BY TypeParts DEF OwnInv, TypeInv, Types, QueueTypes
<1>4. /\ Head(queue) \in NewMessages \cup {NoMessage}
      /\ Among(Tail(queue), K) => Among(queue, K)
      /\ Head(queue) \in K => Among(queue, K)
      /\ OnceIn(queue, K) => OnceIn(Tail(queue), K)
      /\ OnceIn(queue, K) /\ Head(queue) \in K => ~Among(Tail(queue), K)
  BY <1>1, <1>3, TailAmong
<1>5. /\ InQueue(o)' => InQueue(o)
      /\ Head(queue) \in About(o) => InQueue(o)
      /\ OnceIn(queue, About(o)) => OnceIn(queue, About(o))'
      /\ OnceIn(queue, About(o)) /\ Head(queue) \in About(o) => ~InQueue(o)'
  BY <1>1, <1>4 DEF InQueue, About
<1>6. CASE Head(queue) = NoMessage
  <2>1. queue2' = queue2
    BY <1>1, <1>6
  <2>2. QED
    BY <1>2, <1>5, <2>1, Queue2Same, NoneGains
<1>7. CASE Head(queue) # NoMessage
  <2>1. /\ Head(queue) \in Message /\ Head(queue).order = Head(queue).id
        /\ Head(queue).id \in Ids
    BY <1>4, <1>7 DEF NewMessages, IsNew, Message
  <2>2. queue2' = Append(queue2, Head(queue).id)
    BY <1>1, <1>7, <2>1
  <2>3. Head(queue).id \in {o} <=> Head(queue) \in About(o)
    BY <2>1 DEF About
  <2> DEFINE L == {o}
             h == Head(queue).id
  <2>4. /\ Among(Append(queue2, h), L) <=> Among(queue2, L) \/ h \in L
        /\ OnceIn(queue2, L) /\ (h \in L => ~Among(queue2, L)) => OnceIn(Append(queue2, h), L)
    BY <1>3, <2>1, AppendAmong
  <2>5. /\ InQueue2(o)' <=> InQueue2(o) \/ Head(queue) \in About(o)
        /\ OnceIn(queue2, {o}) /\ (Head(queue) \in About(o) => ~InQueue2(o))
             => OnceIn(queue2, {o})'
    BY <2>2, <2>3, <2>4 DEF InQueue2
  <2>6. QED
    BY <1>2, <1>5, <2>5 DEF Moves, InOnePlace, Somewhere, Engaged
<1>8. QED
  BY <1>6, <1>7

\* Which steps of the manager and its surroundings touch the places.
LEMMA ExchangeMoves ==
  ASSUME TypeInv, OwnInv, PollInv, AllStay, Exchange, NEW o \in Ids
  PROVE  Moves(o)
<1>1. CASE Receive \/ Msgsnd \/ Rcv \/ Find \/ Send \/ Answer
  BY <1>1, ReceiveMoves, MsgsndMoves, RcvMoves, FindMoves, SendMoves, AnswerMoves
<1>2. ASSUME /\ socket' = socket /\ routed' = routed
             /\ mpc' \in {"insert", "msgsnd"} => mpc \in {"insert", "msgsnd"} /\ omm' = omm
             /\ queue' = queue \/ queue' = << >>
             /\ queue2' = queue2 \/ queue2' = << >>
             /\ apc' \in {"find", "send"} => apc' = apc /\ ack' = ack
      PROVE  Moves(o)
  <2>1. /\ OnHand(o)' => OnHand(o)
        /\ LookedUp(o)' => LookedUp(o)
        /\ Answered(o)' => Answered(o)
    BY <1>2 DEF OnHand, LookedUp, Answered, IsRouted, About
  <2>2. QED
    BY <1>2, <2>1, SocketsSame, QueueSame, Queue2Same, NoneGains
<1>3. CASE Poll \/ Unexpected \/ Insert \/ InsertLost
  BY <1>2, <1>3
  DEF Poll, Unexpected, Insert, InsertLost, Meet, botVars, ackVars, meVars, pollVars
<1>4. CASE Accept \/ Copy
  BY <1>2, <1>4 DEF Accept, Copy, Handled, botVars, ackVars, meVars
<1>5. CASE RcvFails \/ Erase \/ Publish
  BY <1>2, <1>5 DEF RcvFails, Erase, Publish, botVars, ackVars, meVars
<1>6. CASE SlotGone \/ RaceKills \/ BrokenPipe
  BY <1>2, <1>6 DEF SlotGone, RaceKills, BrokenPipe, Gone, botVars
<1>7. QED
  BY <1>1, <1>3, <1>4, <1>5, <1>6 DEF Exchange, Main, ReadFromMatchingEngine

LEMMA ExchangeOwn ==
  ASSUME TypeInv, OwnInv, Exchange
  PROVE  OwnInv'
<1>1. Next
  BY ExchangeIsNext
<1>2. \A c \in Clients : socket'[c] \in Seq(NewOf(c))
  <2>1. CASE Receive
    <3>1. \/ socket' = socket
          \/ \E d \in Clients : /\ socket[d] # << >>
                                /\ socket' = [socket EXCEPT ![d] = Tail(socket[d])]
      BY <2>1, ReceiveFrom DEF Receive
    <3>2. \A d \in Clients : socket[d] # << >> => Tail(socket[d]) \in Seq(NewOf(d))
      BY TailAmong DEF OwnInv
    <3>3. socket \in [Clients -> Seq(Message)]
      BY DEF TypeInv, TypeOK
    <3>4. QED
      BY <3>1, <3>2, <3>3 DEF OwnInv
  <2>2. CASE socket' = socket
    BY <2>2 DEF OwnInv
  <2>3. Receive \/ socket' = socket
    <3>1. CASE \E c \in Clients : \E n \in 1 .. MaxMessages : Write(c, n)
      <4>1. PICK c \in Clients : \E n \in 1 .. MaxMessages : Write(c, n)
        BY <3>1
      <4>2. written'[c] = written[c] + 1 /\ written[c] \in Nat
        BY <4>1, WriteAppends
      <4>3. written' = written
        BY ExchangeIsNext
      <4>4. QED
        BY <4>2, <4>3
    <3>2. QED
      BY <1>1, <3>1, SocketSteps
  <2>4. QED
    BY <2>1, <2>2, <2>3
<1>3. omm' \in NewMessages \cup {NoMessage}
  <2>1. CASE Receive
    <3>1. \/ omm' = omm
          \/ \E d \in Clients : socket[d] # << >> /\ omm' = Head(socket[d])
      BY <2>1, ReceiveFrom DEF Receive
    <3>2. \A d \in Clients : socket[d] # << >> => Head(socket[d]) \in NewOf(d)
      BY TailAmong DEF OwnInv
    <3>3. QED
      BY <3>1, <3>2 DEF OwnInv, NewOf
  <2>2. CASE ~Receive
    <3>1. omm' = omm
      BY <1>1, <2>2, MainSteps DEF MainStays, Poll, Accept, Insert, InsertLost, Msgsnd, Copy
    <3>2. QED
      BY <3>1 DEF OwnInv
  <2>3. QED
    BY <2>1, <2>2
<1>4. queue' \in Seq(NewMessages \cup {NoMessage})
  <2>1. queue \in Seq(NewMessages \cup {NoMessage}) /\ omm \in NewMessages \cup {NoMessage}
    BY DEF OwnInv
  <2>2. CASE Msgsnd
    BY <2>1, <2>2, AppendProperties DEF Msgsnd
  <2>3. CASE Answer
    BY <2>1, <2>3, TailAmong DEF Answer
  <2>4. CASE queue' = queue \/ queue' = << >>
    BY <2>1, <2>4, EmptySeq
  <2>5. QED
    BY <1>1, <2>2, <2>3, <2>4, QueueSteps DEF Copy, Rcv, QueuesKept, meVars
<1>5. QED
  BY <1>2, <1>3, <1>4 DEF OwnInv

\* Who was sent twice stays so.
LEMMA ExchangeOnce ==
  ASSUME TypeInv, OwnInv, PollInv, AllStay, OnceInv, Exchange
  PROVE  OnceInv'
<1>1. sent' = sent
  BY DEF Exchange, botState
<1>2. SUFFICES ASSUME NEW o \in Ids, ~SentTwice(o)'
               PROVE  InOnePlace(o)' /\ (Somewhere(o)' => WasSent(o)')
  BY DEF OnceInv
<1>3. ~SentTwice(o) /\ (WasSent(o) => WasSent(o)')
  BY <1>1, <1>2 DEF SentTwice, WasSent
<1>4. InOnePlace(o) /\ (Somewhere(o) => WasSent(o))
  BY <1>3 DEF OnceInv
<1>5. QED
  BY <1>3, <1>4, ExchangeMoves DEF Moves

LEMMA ExchangePlaced ==
  ASSUME TypeInv, OwnInv, PollInv, AllStay, PlacedInv, Exchange
  PROVE  PlacedInv'
<1>1. SUFFICES ASSUME NEW o \in Ids, Engaged(o)' PROVE Placed(o)'
  BY DEF PlacedInv
<1>2. Next
  BY ExchangeIsNext
<1>3. CASE Engaged(o)
  BY <1>2, <1>3, LogsGrow DEF PlacedInv
<1>4. CASE Msgsnd /\ meUp /\ OnHand(o)
  <2>1. omm \in About(o) /\ omm \in Message /\ omm # NoMessage /\ omm.id = o
    BY <1>4, ConnMgrAssumption DEF OnHand, About
  <2>2. IsNew(omm)
    BY <2>1 DEF OwnInv, NewMessages
  <2>3. forwarded \in Seq(Message \cup {NoMessage}) /\ forwarded' = Append(forwarded, omm)
    BY <1>4, TypeParts DEF Msgsnd, TypeInv, Types, QueueTypes
  <2>4. /\ Len(forwarded') = Len(forwarded) + 1 /\ Len(forwarded) \in Nat
        /\ forwarded'[Len(forwarded) + 1] = omm
    BY <2>1, <2>3, AppendProperties, LenProperties
  <2>5. Len(forwarded) + 1 \in 1 .. Len(forwarded')
    BY <2>4
  <2>6. QED
    BY <2>1, <2>2, <2>4, <2>5 DEF Placed
<1>5. QED
  BY <1>1, <1>3, <1>4, ExchangeMoves DEF Moves

StrayInv == ~raced => \A i \in 1 .. Len(unrouted) : SentTwice(unrouted[i])

LEMMA ExchangeStray ==
  ASSUME TypeInv, NoteInv, OnceInv, PlacedInv, StrayInv, Exchange
  PROVE  StrayInv'
<1>1. sent' = sent
  BY DEF Exchange, botState
<1>2. Next
  BY ExchangeIsNext
<1>3. SUFFICES ASSUME ~raced', NEW i \in 1 .. Len(unrouted')
               PROVE  SentTwice(unrouted'[i])
  BY <1>1 DEF StrayInv, SentTwice
<1>4. ~raced
  BY <1>2, <1>3, NoRace
<1>5. CASE unrouted' = unrouted
  BY <1>3, <1>4, <1>5 DEF StrayInv
<1>6. CASE Find /\ unrouted' # unrouted
  <2>1. /\ apc = "find" /\ ack \in Ids
        /\ connectionmapper[ack] = None /\ unrouted' = Append(unrouted, ack)
    BY <1>6 DEF Find, TypeInv, ControlInv
  <2>2. unrouted \in Seq(Ids)
    BY TypeParts DEF TypeInv, Types, AckTypes
  <2>3. /\ Len(unrouted') = Len(unrouted) + 1 /\ Len(unrouted) \in Nat
        /\ \A j \in 1 .. Len(unrouted) : unrouted'[j] = unrouted[j]
        /\ unrouted'[Len(unrouted) + 1] = ack
    BY <2>1, <2>2, AppendProperties, LenProperties
  <2>4. SentTwice(ack)
    <3>1. LookedUp(ack)
      BY <2>1 DEF LookedUp
    <3>2. Placed(ack)
      BY <2>1, <3>1 DEF PlacedInv, Engaged
    <3>3. IsRouted(ack)
      BY <1>4, <2>1, <3>2 DEF NoteInv, Noted
    <3>4. ~InOnePlace(ack)
      BY <3>1, <3>3 DEF InOnePlace, Answered, Engaged
    <3>5. QED
      BY <2>1, <3>4 DEF OnceInv
  <2>5. i \in 1 .. Len(unrouted) \/ i = Len(unrouted) + 1
    BY <2>3
  <2>6. QED
    BY <1>4, <2>3, <2>4, <2>5 DEF StrayInv
<1>7. Find \/ unrouted' = unrouted
  BY <1>2, AckSteps DEF Rcv, Send, Erase, ackVars
<1>8. QED
  BY <1>5, <1>6, <1>7

StrayParts == AllStay /\ OwnInv /\ PollInv /\ NoteInv /\ OnceInv /\ PlacedInv /\ StrayInv

LEMMA ExchangeParts ==
  ASSUME TypeInv, StrayParts, Exchange
  PROVE  StrayParts'
<1>1. Next
  BY ExchangeIsNext
<1>2. AllStay'
  <2>1. BotTypes
    BY TypeParts DEF TypeInv, Types
  <2>2. CASE Send
    <3>1. it \in Clients /\ link[it] # "closed"
      BY <2>2 DEF Send, TypeInv, ControlInv, StrayParts, AllStay
    <3>2. link' = link
      BY <2>2, <3>1 DEF Send
    <3>3. QED
      BY <3>2 DEF StrayParts, AllStay
  <2>3. CASE Accept
    BY <2>3 DEF Accept, StrayParts, AllStay
  <2>4. CASE link' = link
    BY <2>4 DEF StrayParts, AllStay
  <2>5. CASE Poll \/ Unexpected \/ Receive \/ Insert \/ InsertLost \/ Msgsnd \/ Copy
             \/ Rcv \/ RcvFails \/ Find \/ Erase \/ Answer \/ Publish
    BY <2>4, <2>5
    DEF Poll, Unexpected, Receive, Insert, InsertLost, Msgsnd, Copy, Rcv, RcvFails, Find,
        Erase, Answer, Publish, botVars
  <2>6. CASE SlotGone \/ RaceKills \/ BrokenPipe
    BY <2>4, <2>6 DEF SlotGone, RaceKills, BrokenPipe, Gone, botVars
  <2>7. QED
    BY <2>2, <2>3, <2>5, <2>6 DEF Exchange, Main, ReadFromMatchingEngine
<1>3. PollInv' /\ NoteInv'
  BY <1>1, PollStep, NoteStep DEF StrayParts
<1>4. QED
  BY <1>2, <1>3, ExchangeOwn, ExchangeOnce, ExchangePlaced, ExchangeStray DEF StrayParts

\* A step of a bot that sends nothing.
LEMMA SilentParts ==
  ASSUME TypeInv, StrayParts, ManagerKept, socket' = socket, sent' = sent,
         \/ link' = link
         \/ \E c \in Clients : link[c] = "none" /\ link' = [link EXCEPT ![c] = "connecting"]
  PROVE  StrayParts'
<1>1. /\ UNCHANGED <<fds, ready, mpc, omm, connectionmapper, queue, queue2>>
      /\ UNCHANGED <<apc, ack, routed, unrouted, forwarded, raced>>
  BY DEF ManagerKept, pollVars, meVars, ackVars
<1>2. BotTypes /\ fds \in Seq(Clients)
  BY TypeParts DEF TypeInv, Types, MainTypes
<1>3. AllStay'
  BY <1>2 DEF StrayParts, AllStay, BotTypes
<1>4. PollInv'
  <2>1. ASSUME NEW i \in 1 .. Len(fds)
        PROVE  link'[fds[i]] \notin {"none", "connecting"}
    <3>1. fds[i] \in Clients /\ link[fds[i]] \notin {"none", "connecting"}
      BY <1>2, ElementOfSeq DEF StrayParts, PollInv
    <3>2. QED
      BY <1>2, <3>1 DEF BotTypes
  <2>2. QED
    BY <1>1, <2>1 DEF StrayParts, PollInv
<1>5. OwnInv'
  BY <1>1 DEF StrayParts, OwnInv
<1>6. NoteInv'
  BY <1>1 DEF StrayParts, NoteInv, Noted, IsRouted, Placed
<1>7. ASSUME NEW o
      PROVE  /\ SentTwice(o)' <=> SentTwice(o)
             /\ InOnePlace(o)' <=> InOnePlace(o)
             /\ Somewhere(o)' <=> Somewhere(o)
             /\ WasSent(o)' <=> WasSent(o)
             /\ Engaged(o)' <=> Engaged(o)
             /\ Placed(o)' <=> Placed(o)
  <2>1. /\ InSocket(o)' <=> InSocket(o)
        /\ OnHand(o)' <=> OnHand(o)
        /\ InQueue(o)' <=> InQueue(o)
        /\ InQueue2(o)' <=> InQueue2(o)
        /\ LookedUp(o)' <=> LookedUp(o)
        /\ Answered(o)' <=> Answered(o)
        /\ OnceIn(socket[o[1]], About(o))' <=> OnceIn(socket[o[1]], About(o))
        /\ OnceIn(queue, About(o))' <=> OnceIn(queue, About(o))
        /\ OnceIn(queue2, {o})' <=> OnceIn(queue2, {o})
    BY <1>1 DEF InSocket, OnHand, InQueue, InQueue2, LookedUp, Answered, IsRouted, About
  <2>2. QED
    BY <1>1, <2>1
    DEF SentTwice, WasSent, InOnePlace, Somewhere, Engaged, Placed
<1>8. OnceInv' /\ PlacedInv'
  BY <1>7 DEF StrayParts, OnceInv, PlacedInv
<1>9. StrayInv'
  BY <1>1, <1>7 DEF StrayParts, StrayInv
<1>10. QED
  BY <1>3, <1>4, <1>5, <1>6, <1>8, <1>9 DEF StrayParts

\* A bot writes an order: it is in the socket, or was sent before.
LEMMA PutParts ==
  ASSUME TypeInv, ForBots, StrayParts, NEW c \in Clients, NEW n \in Nat, Put(c, n),
         mode' = mode, written[c] < MaxMessages, n + 1 \in 1 .. MaxMessages
  PROVE  StrayParts'
<1> DEFINE m == NewOrder(c, n)
           x == <<c, n + 1>>
<1>1. /\ ManagerKept /\ m \in Message /\ link' = link
      /\ socket'[c] = Append(socket[c], m)
      /\ \A d \in Clients : d # c => socket'[d] = socket[d]
  BY PutKeepsTypes
<1>2. /\ UNCHANGED <<fds, ready, mpc, omm, connectionmapper, queue, queue2>>
      /\ UNCHANGED <<apc, ack, routed, unrouted, forwarded, raced>>
  BY <1>1 DEF ManagerKept, pollVars, meVars, ackVars
<1>3. m.id = x /\ m.order = x /\ x[1] = c /\ x[2] = n + 1
  BY DEF NewOrder
<1> HIDE DEF m
<1>4. m \in NewOf(c)
  BY <1>1, <1>3 DEF NewOf, NewMessages, IsNew
<1>5. /\ sent[c] \in Seq(Nat) /\ sent'[c] = Append(sent[c], n)
      /\ \A d \in Clients : d # c => sent'[d] = sent[d]
  BY DEF Put, ForBots
<1>6. /\ Len(sent'[c]) = Len(sent[c]) + 1 /\ Len(sent[c]) \in Nat
      /\ \A i \in 1 .. Len(sent[c]) : sent'[c][i] = sent[c][i]
      /\ sent'[c][Len(sent[c]) + 1] = n
      /\ ToSet(sent'[c]) = ToSet(sent[c]) \cup {n}
  BY <1>5, LoggedNumber
<1>7. socket[c] \in Seq(NewOf(c))
  BY DEF StrayParts, OwnInv
<1>8. ASSUME NEW K
      PROVE  /\ socket'[c] \in Seq(NewOf(c))
             /\ Among(socket'[c], K) <=> Among(socket[c], K) \/ m \in K
             /\ OnceIn(socket[c], K) /\ (m \in K => ~Among(socket[c], K)) => OnceIn(socket'[c], K)
  BY <1>1, <1>4, <1>7, AppendAmong
<1>9. AllStay'
  BY <1>1 DEF StrayParts, AllStay
<1>10. \A d \in Clients : socket[d] # << >> => socket'[d] # << >>
  <2>1. socket'[c] # << >>
    BY <1>1, <1>4, <1>7, AppendProperties
  <2>2. QED
    BY <1>1, <2>1
<1>11. PollInv'
  BY <1>1, <1>2, <1>9, <1>10 DEF StrayParts, PollInv
<1>12. OwnInv'
  BY <1>1, <1>2, <1>8 DEF StrayParts, OwnInv
<1>13. NoteInv'
  BY <1>2 DEF StrayParts, NoteInv, Noted, IsRouted, Placed
<1>14. ASSUME NEW o \in Ids
       PROVE  /\ OnHand(o)' <=> OnHand(o)
              /\ InQueue(o)' <=> InQueue(o)
              /\ InQueue2(o)' <=> InQueue2(o)
              /\ LookedUp(o)' <=> LookedUp(o)
              /\ Answered(o)' <=> Answered(o)
              /\ OnceIn(queue, About(o))' <=> OnceIn(queue, About(o))
              /\ OnceIn(queue2, {o})' <=> OnceIn(queue2, {o})
              /\ Engaged(o)' <=> Engaged(o)
              /\ Placed(o)' <=> Placed(o)
  <2>1. /\ OnHand(o)' <=> OnHand(o)
        /\ InQueue(o)' <=> InQueue(o)
        /\ InQueue2(o)' <=> InQueue2(o)
        /\ LookedUp(o)' <=> LookedUp(o)
        /\ Answered(o)' <=> Answered(o)
        /\ OnceIn(queue, About(o))' <=> OnceIn(queue, About(o))
        /\ OnceIn(queue2, {o})' <=> OnceIn(queue2, {o})
    BY <1>2 DEF OnHand, InQueue, InQueue2, LookedUp, Answered, IsRouted, About
  <2>2. QED
    BY <1>2, <2>1 DEF Engaged, Placed
<1>15. PlacedInv'
  BY <1>14 DEF StrayParts, PlacedInv
<1>16. ASSUME NEW o \in Ids, SentTwice(o) PROVE SentTwice(o)'
  <2>1. CASE o[1] = c
    <3>1. \A i \in 1 .. Len(sent[c]) : i \in 1 .. Len(sent'[c])
      BY <1>6
    <3>2. QED
      BY <1>6, <1>16, <2>1, <3>1 DEF SentTwice
  <2>2. CASE o[1] # c
    BY <1>5, <1>16, <2>2 DEF SentTwice, Ids
  <2>3. QED
    BY <2>1, <2>2
<1>17. ASSUME NEW o \in Ids, WasSent(o) PROVE WasSent(o)'
  <2>1. o[1] \in Clients
    BY DEF Ids
  <2>2. QED
    BY <1>5, <1>6, <1>17, <2>1 DEF WasSent
<1>18. ASSUME NEW o \in Ids, o = x, WasSent(o) PROVE SentTwice(o)'
  <2>1. o[1] = c /\ o[2] = n + 1 /\ (n + 1) - 1 = n
    BY <1>3, <1>18
  <2>2. n \in ToSet(sent[c])
    BY <1>18, <2>1 DEF WasSent
  <2>3. PICK j \in 1 .. Len(sent[c]) : sent[c][j] = n
    BY <1>5, <2>2, LenProperties DEF ToSet
  <2>4. /\ j \in 1 .. Len(sent'[c]) /\ Len(sent[c]) + 1 \in 1 .. Len(sent'[c])
        /\ j # Len(sent[c]) + 1
        /\ sent'[c][j] = n /\ sent'[c][Len(sent[c]) + 1] = n
    BY <1>6, <2>3
  <2>5. QED
    BY <2>1, <2>4 DEF SentTwice
<1>19. ASSUME NEW o \in Ids, ~SentTwice(o)'
       PROVE  InOnePlace(o)' /\ (Somewhere(o)' => WasSent(o)')
  <2>1. InOnePlace(o) /\ (Somewhere(o) => WasSent(o))
    BY <1>16, <1>19 DEF StrayParts, OnceInv
  <2>2. CASE o = x
    <3>1. o[1] = c /\ o[2] = n + 1 /\ (n + 1) - 1 = n /\ m \in About(o)
      BY <1>1, <1>3, <2>2 DEF About
    <3>2. ~Somewhere(o)
      BY <1>18, <1>19, <2>1, <2>2
    <3>3. ~Among(socket[c], About(o)) /\ OnceIn(socket[c], About(o))
      BY <2>1, <3>1, <3>2 DEF Somewhere, InSocket, InOnePlace
    <3>4. OnceIn(socket'[c], About(o))
      BY <1>8, <3>3
    <3>5. OnceIn(socket[o[1]], About(o))'
      BY <3>1, <3>4 DEF About
    <3>6. WasSent(o)'
      BY <1>6, <3>1 DEF WasSent
    <3>7. QED
      BY <1>14, <2>1, <3>2, <3>5, <3>6 DEF InOnePlace, Somewhere, Engaged
  <2>3. CASE o # x
    <3>1. m \notin About(o)
      BY <1>3, <2>3 DEF About
    <3>2. /\ InSocket(o)' <=> InSocket(o)
          /\ OnceIn(socket[o[1]], About(o)) => OnceIn(socket[o[1]], About(o))'
      <4>1. CASE o[1] = c
        <5>1. /\ Among(socket'[c], About(o)) <=> Among(socket[c], About(o))
              /\ OnceIn(socket[c], About(o)) => OnceIn(socket'[c], About(o))
          BY <1>8, <3>1
        <5>2. QED
          BY <4>1, <5>1 DEF InSocket, About
      <4>2. CASE o[1] # c
        BY <1>1, <4>2 DEF InSocket, About, Ids
      <4>3. QED
        BY <4>1, <4>2
    <3>3. QED
      BY <1>14, <1>17, <2>1, <3>2 DEF InOnePlace, Somewhere, Engaged
  <2>4. QED
    BY <2>2, <2>3
<1>20. OnceInv'
  BY <1>19 DEF OnceInv
<1>21. StrayInv'
  <2>1. unrouted \in Seq(Ids)
    BY TypeParts DEF TypeInv, Types, AckTypes
  <2>2. \A i \in 1 .. Len(unrouted) : unrouted[i] \in Ids
    BY <2>1, ElementOfSeq
  <2>3. SUFFICES ASSUME ~raced, NEW i \in 1 .. Len(unrouted), NEW o \in Ids, o = unrouted[i]
                 PROVE  SentTwice(o)'
    BY <1>2, <2>2 DEF StrayInv, SentTwice
  <2>4. SentTwice(o)
    BY <2>3 DEF StrayParts, StrayInv
  <2>5. QED
    BY <1>16, <2>4
<1>22. QED
  BY <1>9, <1>11, <1>12, <1>13, <1>15, <1>20, <1>21 DEF StrayParts

LEMMA InitParts == TbInit => StrayParts
<1> SUFFICES ASSUME TbInit PROVE StrayParts
  OBVIOUS
<1>1. Len(<< >>) = 0 /\ \A S : << >> \in Seq(S)
  BY LenProperties, EmptySeq
<1>2. Init
  BY DEF TbInit
<1>3. AllStay /\ PollInv
  BY <1>1, <1>2 DEF Init, AllStay, PollInv
<1>4. OwnInv
  BY <1>1, <1>2 DEF Init, OwnInv
<1>5. NoteInv /\ StrayInv
  BY <1>1, <1>2 DEF Init, NoteInv, StrayInv, Placed
<1>6. ASSUME NEW o \in Ids PROVE InOnePlace(o) /\ ~Somewhere(o)
  <2>1. socket[o[1]] = << >>
    BY <1>2 DEF Init, Ids
  <2>2. ~InSocket(o) /\ OnceIn(socket[o[1]], About(o))
    BY <2>1, NoneAmong DEF InSocket
  <2>3. ~InQueue(o) /\ OnceIn(queue, About(o)) /\ ~InQueue2(o) /\ OnceIn(queue2, {o})
    BY <1>2, NoneAmong DEF Init, InQueue, InQueue2
  <2>4. ~OnHand(o) /\ ~LookedUp(o) /\ ~Answered(o)
    BY <1>1, <1>2 DEF Init, OnHand, LookedUp, Answered, IsRouted
  <2>5. QED
    BY <2>2, <2>3, <2>4 DEF InOnePlace, Somewhere, Engaged
<1>7. OnceInv /\ PlacedInv
  BY <1>6 DEF OnceInv, PlacedInv, Somewhere, Engaged
<1>8. QED
  BY <1>3, <1>4, <1>5, <1>7 DEF StrayParts

LEMMA StepParts == TypeInv /\ BotsInv /\ StrayParts /\ [TbNext]_tbVars => StrayParts'
<1> SUFFICES ASSUME TypeInv, BotsInv, StrayParts, [TbNext]_tbVars PROVE StrayParts'
  OBVIOUS
<1>1. CASE Exchange
  BY <1>1, ExchangeParts
<1>2. ASSUME NEW c \in Clients, BotMain(c) \/ Handle(c) \/ Hangs(c) PROVE StrayParts'
  <2>1. CASE OpenSocket(c)
    <3>1. /\ ManagerKept /\ socket' = socket /\ sent' = sent
          /\ link[c] = "none" /\ link' = [link EXCEPT ![c] = "connecting"]
      BY <2>1 DEF OpenSocket, Connect, ManagerKept, botState
    <3>2. QED
      BY <3>1, SilentParts
  <2>2. CASE ReadAnswer(c)
    BY <2>2, ReadKeeps, SilentParts
  <2>3. CASE LoadNumber(c) \/ StoreNumber(c) \/ WaitForRoom(c) \/ Printed(c)
           \/ Timeout(c) \/ Hangs(c)
    <3>1. UNCHANGED vars /\ sent' = sent
      BY <2>3 DEF LoadNumber, StoreNumber, WaitForRoom, Printed, Timeout, Hangs
    <3>2. QED
      BY <3>1, Quiet, SilentParts
  <2>4. CASE WriteOrder(c)
    <3>1. mode' = mode /\ Put(c, number[c]) /\ ForBots
      BY <2>4 DEF WriteOrder, Put, BotsInv
    <3>2. QED
      BY <2>4, <3>1, WriteKeepsBots, PutParts
  <2>5. CASE WriteInHandler(c)
    <3>1. mode' = mode /\ Put(c, hnumber[c]) /\ ForBots
      BY <2>5 DEF WriteInHandler, Put, BotsInv
    <3>2. QED
      BY <2>5, <3>1, HandlerKeepsBots, PutParts
  <2>6. QED
    BY <1>2, <2>1, <2>2, <2>3, <2>4, <2>5 DEF BotMain, Handle
<1>3. CASE UNCHANGED tbVars
  <2>1. UNCHANGED vars /\ sent' = sent
    BY <1>3 DEF tbVars, botState
  <2>2. QED
    BY <2>1, Quiet, SilentParts
<1>4. QED
  BY <1>1, <1>2, <1>3 DEF TbNext

\* An answer of the engine that connmgr.cpp cannot route is one of two to orders
\* of one bot that bear one number: however the threads, the bots and the signals
\* interleave, unless the threads meet in the map.  An order sent once finds its
\* connection, since only its own answer erases the entry.
THEOREM StraysAreRepetitions == TbSpec => []StrayIsRepeated
<1>1. TbInit => StrayParts
  BY InitParts
<1>2. TypeInv /\ BotsInv /\ StrayParts /\ [TbNext]_tbVars => StrayParts'
  BY StepParts
<1>3. StrayParts => StrayIsRepeated
  BY DEF StrayParts, StrayInv, SentTwice, StrayIsRepeated
<1>4. QED
  BY <1>1, <1>2, <1>3, AlwaysBots, PTL DEF TbSpec
=============================================================================
