------------------------------ MODULE Exchange -------------------------------
(***************************************************************************)
(* The matching engine and the book publisher beside each other.  Each     *)
(* keeps the books, loads t1 into them and processes the messages that the *)
(* connection manager copies for it, in the same order (ConnMgr!SameStream)*)
(* but at its own pace.  They share the semaphore semid5 and, through t1,  *)
(* what is left of an earlier life; nothing compares the two copies.       *)
(*                                                                         *)
(* Between two lives of the exchange every process is stopped and started  *)
(* again, as src/README.txt has it: engine first, then the book publisher. *)
(***************************************************************************)
EXTENDS MatchEng

CONSTANT Depth    \* price levels in a BookMessage: 5 in the code

ASSUME DepthAssumption == Depth \in Nat \ {0}

\* A line without a price is told from every line with one.
ASSUME LineAssumption == None \notin Prices \cup {NoPrice}

VARIABLES
  pubbooks, puborders,   \* mybooks and myorders of the book publisher
  ppc, psym, ptodo, loaded, semid5, up, seen, shown,     \* as in BookPub
  base,                  \* how many requests belong to earlier lives
  mehist, bphist         \* logs: the views each process came to rest with

P == INSTANCE BookPub WITH mybooks <- pubbooks, myorders <- puborders
R == INSTANCE Replicas WITH one <- mehist, two <- bphist

pubOwn == <<pubbooks, puborders, ppc, psym, ptodo, loaded, up, seen, shown>>
exVars == <<vars, pubOwn, semid5, base, mehist, bphist>>

ExInit == Init /\ P!PubInit /\ base = 0 /\ mehist = << >> /\ bphist = << >>

\* The requests of this life that the engine has read.
Read == SubSeq(requests, base + 1, Len(requests))
-----------------------------------------------------------------------------
(* The connection manager's stream, which whoever is first reads from *)

SendableNew ==
  {[type |-> "NEW", order |-> o, filled |-> t = "NEW"] :
     o \in {n \in NewOrders :
              UniqueIds => /\ ~Named(n.order_id)
                           /\ \A i \in 1 .. Len(seen) : seen[i].type = "NEW" =>
                                 seen[i].order.order_id # n.order_id},
     t \in {"NEW", "MALFORMED"} \cap RequestTypes}

SendableModify ==
  {r \in [type : {"MODIFY"}, order_id : Ids, price : Prices,
          quantity : Quantities] : "MODIFY" \in RequestTypes}

SendableCancel ==
  {r \in [type : {"CANCEL"}, order_id : Ids] : "CANCEL" \in RequestTypes}

\* The next message for the publisher: the engine's, if it has read further.
NextMessages ==
  IF Len(seen) < Len(Read) THEN {Read[Len(seen) + 1]}
  ELSE IF base + Len(seen) < MaxRequests
       THEN SendableNew \cup SendableModify \cup SendableCancel
       ELSE {}

\* The engine reads what the publisher has read before it.
InTurn ==
  requests' # requests /\ Len(Read) < Len(seen) =>
    Last(requests') = seen[Len(Read) + 1]
-----------------------------------------------------------------------------
(* Steps *)

EngineRecords ==
  mehist' = IF pc' \in {"wait", "idle"} /\ pc \notin {"wait", "idle"}
            THEN Append(mehist, <<mybooks', myorders'>>) ELSE mehist

PubRecords ==
  bphist' = IF ppc' = "idle" /\ (ppc # "idle" \/ seen' # seen)
            THEN Append(bphist, <<pubbooks', puborders'>>) ELSE bphist

Engine ==
  /\ \/ Progress
     \/ ProcessNew \/ ProcessModify \/ ProcessCancel
     \/ Stop \/ StopInMatch \/ DieDrained
  /\ InTurn
  /\ EngineRecords
  /\ UNCHANGED <<pubOwn, semid5, base, bphist>>

\* Mutant: semop does not wait.
EngineReadyUnchecked ==
  /\ Ready
  /\ semid5' = semid5 - 1
  /\ UNCHANGED <<pubOwn, base, mehist, bphist>>

\* semop on semid5 takes what the publisher put there, at once if it waits.
EngineReady ==
  /\ Ready
  /\ semid5 > 0 /\ semid5' = semid5 - 1
  /\ UNCHANGED <<pubOwn, base, mehist, bphist>>

\* The publisher has removed semid5, with what it put there, before the engine
\* came to wait: semop fails, and main exits.
EngineNotReady ==
  /\ pc = "wait" /\ semid5 > 0 /\ ~up
  /\ Exit
  /\ UNCHANGED <<db, logVars, pubOwn, semid5, base, mehist, bphist>>

\* Everything is started again; the engine makes semid5 anew.
EngineRestart ==
  /\ ppc = "down"
  /\ Restart
  /\ semid5' = 0
  /\ base' = Len(requests)
  /\ mehist' = << >> /\ bphist' = << >>
  /\ UNCHANGED pubOwn

\* The publisher is started once the engine has been.
PubStart ==
  /\ pc \in {"load", "wait"} /\ semid5 = 0
  /\ P!Start(db.t1)
  /\ UNCHANGED <<vars, base, mehist, bphist>>

PubWorks ==
  /\ P!PubProgress
  /\ PubRecords
  /\ UNCHANGED <<vars, base, mehist>>

PubHandles ==
  /\ \E r \in NextMessages : P!Process(r)
  /\ PubRecords
  /\ UNCHANGED <<vars, base, mehist>>

PubEnds ==
  /\ \/ P!Interrupt \/ P!InterruptLoad \/ P!DieDrained
     \/ \E r \in NextMessages : P!DieInModify(r)
  /\ UNCHANGED <<vars, base, mehist, bphist>>

ExNext ==
  \/ Engine \/ EngineReady \/ EngineNotReady \/ EngineRestart
  \/ PubStart \/ PubWorks \/ PubHandles \/ PubEnds

ExSpec == ExInit /\ [][ExNext]_exVars

\* Each process keeps running, and the connection manager has the next message
\* for whoever is behind.
EngineBehind == Len(Read) < Len(seen) /\ Engine
PubBehind == Len(seen) < Len(Read) /\ PubHandles

ExFairSpec ==
  /\ ExSpec
  /\ WF_exVars(Progress /\ Engine) /\ WF_exVars(EngineReady)
  /\ WF_exVars(PubWorks)
  /\ WF_exVars(PubBehind) /\ WF_exVars(EngineBehind /\ pc' # "down")
-----------------------------------------------------------------------------
(* Properties *)

ExTypeOK ==
  /\ TypeOK
  /\ P!PubTypeOK
  /\ base \in 0 .. Len(requests)

\* Both processes are between two messages and have read equally many.
CaughtUp == pc = "idle" /\ ppc = "idle" /\ Len(seen) = Len(Read)

\* Engine and publisher go through the same books, each request leaving both
\* with the same view whichever of them comes to it first; loading t1 gives
\* them the same view to begin with, since no row changes in between.
SameBooks == R!Spec

\* Line k of lines names the kth best of a side's prices, and all that the
\* side's orders ask for at that price.
Shows(lines, side, better(_, _)) ==
  LET prices == {side[i].price : i \in 1 .. Len(side)}
      AtPrice(p) == {i \in 1 .. Len(side) : side[i].price = p}
  IN  \A k \in 1 .. Depth :
         IF k > Cardinality(prices) THEN lines[k].price = None
         ELSE LET p == lines[k].price
              IN  /\ p \in prices
                  /\ Cardinality({q \in prices : better(q, p)}) = k - 1
                  /\ lines[k].quantity =
                       MapThenSumSet(LAMBDA i : side[i].quantity, AtPrice(p))

\* When both have caught up, the message that clients got last for a symbol
\* is what the engine's book of it has; no message since the publisher came up
\* means that the book is empty.  (Positive quantities.)
ClientsSeeTheBook ==
  CaughtUp =>
    \A s \in Symbols :
       IF shown[s] = None THEN mybooks[s] = EmptyBook
       ELSE /\ Shows(shown[s].bid, mybooks[s]["BUY"], >)
            /\ Shows(shown[s].offer, mybooks[s]["SELL"], <)

\* The best bid that clients see is below the best offer, and neither is the
\* garbage in a market order's price, as soon as Update has come to its end;
\* the message before it may show a book that is yet to be matched.
PublishedUncrossed ==
  ppc = "idle" =>
    \A s \in Symbols : shown[s] # None =>
       LET bid == shown[s].bid[1].price
           offer == shown[s].offer[1].price
       IN  /\ NoPrice \notin {bid, offer}
           /\ None \notin {bid, offer} => bid < offer

\* In every message, those within Update included, the levels of a side get
\* strictly worse from line to line: no price is on two lines.
LevelsOrdered ==
  \A s \in Symbols : shown[s] # None =>
     \A i, j \in 1 .. Depth : i < j =>
        LET better(side, worse(_, _)) ==
              {side[i].price, side[j].price} \subseteq Prices =>
                 worse(side[j].price, side[i].price)
        IN  /\ better(shown[s].bid, <)
            /\ better(shown[s].offer, >)

\* Engine and publisher never wait for each other in vain, and no Update goes
\* on for ever.  Once requests stop coming, the engine has gone through t1 and
\* through every request, and the publisher has handled all that the engine
\* has and the other way round; unless the engine is down, or the publisher is
\* and with it what the engine waits for.
AllIsHandled ==
  []<>(\/ pc = "down"
       \/ pc \in {"load", "wait"} /\ ppc = "down"
       \/ pc = "idle" /\ (CaughtUp \/ ppc = "down" \/ ~up))
=============================================================================
