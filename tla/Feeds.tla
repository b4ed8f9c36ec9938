-------------------------------- MODULE Feeds --------------------------------
(***************************************************************************)
(* What becomes of a trade: the matching engine writes it to the database, *)
(* hands it to the trade publisher and then to the reporting engine, which *)
(* has a thread of its own add each report to t3.  The two segments are    *)
(* instances of SharedSlot: its own variables are those of the trade       *)
(* publisher's (src/tradepub.cpp), R's those of the reporting engine's     *)
(* (src/rpteng.cpp).  OrderBook.db is shared by the engine, the threads    *)
(* and src/rpt.cpp; semiddb is meant to let one writer in at a time.       *)
(*                                                                         *)
(* SQLite is external: a statement that finds the database locked by       *)
(* another connection fails at once, and add_row goes on as if it had not. *)
(***************************************************************************)
EXTENDS SharedSlot, Reports

CONSTANT Price     \* Price[m]: at what price trade m was made

ASSUME FeedsAssumption ==
  /\ Messages = 1 .. MaxSends
  /\ Price \in [Messages -> Nat]

VARIABLES
  rexists, rsem0, rsem1, rslot, rwpc, rmsg, rattached, rrpc, rsent, rreceived,
  rdropped,     \* the reporting engine's segment
  epc,          \* the matching engine
  dbset,        \* semiddb has not been removed
  semiddb,
  holder,       \* who has SQLite's write lock, or Nobody
  rpt,          \* is rpt reading?
  tpc,          \* thread |-> where it is
  t2, t3,       \* the tables
  disturbed     \* log: has a lock been removed or rpt been run?

R == INSTANCE SharedSlot WITH
       exists <- rexists, sem0 <- rsem0, sem1 <- rsem1, slot <- rslot,
       wpc <- rwpc, msg <- rmsg, attached <- rattached, rpc <- rrpc,
       sent <- rsent, received <- rreceived, dropped <- rdropped,
       Converts <- FALSE

rvars == <<rexists, rsem0, rsem1, rslot, rwpc, rmsg, rattached, rrpc, rsent,
           rreceived, rdropped>>
dbVars == <<dbset, semiddb, holder, rpt, tpc, t2, t3, disturbed>>
feedVars == <<vars, rvars, epc, dbVars>>

Nobody == 0
EngineWrites == MaxSends + 1
Writers == 1 .. MaxSends + 1     \* the threads, and the engine

\* Trade m is made by order m, which buys from order 0.
OrderRow(m) ==
  [t1key |-> m, side |-> IF m = 0 THEN 1 ELSE 0,
   quantity |-> IF m = 0 THEN MaxSends ELSE 1]

Row(m) == [symbol |-> "MSFT", timestamp |-> m, price |-> Price[m],
           quantity |-> 1, orderid1 |-> 0, orderid2 |-> m]

FeedTypeOK ==
  /\ TypeOK /\ R!TypeOK
  /\ epc \in {"idle", "order", "match", "trade", "traded", "report", "ended"}
  /\ {dbset, rpt, disturbed} \subseteq BOOLEAN
  /\ semiddb \in 0 .. 1
  /\ holder \in Writers \cup {Nobody}
  /\ tpc \in [Writers -> {"none", "lock", "begin", "commit", "done", "dead"}]
  /\ t2 \subseteq {OrderRow(m) : m \in 0 .. MaxSends}
  /\ ToSet(t3) \subseteq {Row(m) : m \in Messages}

FeedInit ==
  /\ Init /\ R!Init
  /\ epc = "idle"
  /\ dbset = TRUE /\ semiddb = 1 /\ holder = Nobody /\ rpt = FALSE
  /\ tpc = [w \in Writers |-> "none"]
  /\ t2 = {OrderRow(0)} /\ t3 = << >> /\ disturbed = FALSE

\* The order in hand.
Current == Len(sent) + dropped + 1
-----------------------------------------------------------------------------
(* A statement on the database, between two semops on semiddb *)

Enter(w) == tpc' = [tpc EXCEPT ![w] = "lock"]

\* Mutant: the semaphore is not taken.
LockNot(w) ==
  /\ tpc[w] = "lock"
  /\ tpc' = [tpc EXCEPT ![w] = "begin"]
  /\ UNCHANGED <<dbset, semiddb, holder, rpt, t2, t3, disturbed>>

\* semop -1; once the set is gone it fails, which nobody notices.
Lock(w) ==
  /\ tpc[w] = "lock"
  /\ dbset => semiddb > 0
  /\ semiddb' = IF dbset THEN semiddb - 1 ELSE semiddb
  /\ tpc' = [tpc EXCEPT ![w] = "begin"]
  /\ UNCHANGED <<dbset, holder, rpt, t2, t3, disturbed>>

\* The statement ends, committed or not: semop +1.
Unlock(w, tables) ==
  /\ semiddb' = IF dbset THEN semiddb + 1 ELSE semiddb
  /\ tpc' = [tpc EXCEPT ![w] = "done"]
  /\ t2' = tables[1] /\ t3' = tables[2]
  /\ UNCHANGED <<dbset, rpt, disturbed>>

Begin(w) ==
  /\ tpc[w] = "begin" /\ holder = Nobody
  /\ holder' = w
  /\ tpc' = [tpc EXCEPT ![w] = "commit"]
  /\ UNCHANGED <<dbset, semiddb, rpt, t2, t3, disturbed>>

\* Someone else writes: SQLITE_BUSY.
BeginFails(w) ==
  /\ tpc[w] = "begin" /\ holder # Nobody
  /\ Unlock(w, <<t2, t3>>)
  /\ UNCHANGED holder

\* Mutant: the thread has a pointer to the segment.
InSegment(w) == Row(rslot.text)

\* The row a thread adds, from its own copy of the message.
Copied(w) == Row(rreceived[w].text)

\* The engine inserts the new order into t1 and, by the trigger, into t2; its
\* later write, for the match, changes t1 only.
Committed(w) ==
  IF w # EngineWrites THEN <<t2, Append(t3, Copied(w))>>
  ELSE IF epc = "order" THEN <<t2 \cup {OrderRow(Current)}, t3>>
  ELSE <<t2, t3>>

\* The commit waits for nobody: with rpt reading it fails.
Commit(w) ==
  /\ tpc[w] = "commit"
  /\ holder' = Nobody
  /\ Unlock(w, IF rpt THEN <<t2, t3>> ELSE Committed(w))

Write(w) == Lock(w) \/ Begin(w) \/ BeginFails(w) \/ Commit(w)
-----------------------------------------------------------------------------
(* The matching engine, from order to order *)

Alive == wpc \notin {"dead", "ended"} /\ rwpc \notin {"dead", "ended"}

At(from, to) == Alive /\ epc = from /\ epc' = to

StartWrite(from, to) ==
  /\ At(from, to)
  /\ Enter(EngineWrites)
  /\ UNCHANGED <<vars, rvars, dbset, semiddb, holder, rpt, t2, t3, disturbed>>

Order == Current <= MaxSends /\ StartWrite("idle", "order")

Matched == tpc[EngineWrites] = "done" /\ StartWrite("order", "match")

EngineWrite ==
  /\ Alive /\ Write(EngineWrites)
  /\ UNCHANGED <<vars, rvars, epc>>

\* CommunicateTrade is called; Writer has its steps.
CommunicateTrade ==
  /\ tpc[EngineWrites] = "done" /\ At("match", "trade")
  /\ Call(Current)
  /\ UNCHANGED <<rvars, dbVars>>

TradeStep ==
  /\ Alive /\ epc = "trade" /\ Writer
  /\ epc' = IF wpc' = "idle" THEN "traded" ELSE epc
  /\ UNCHANGED <<rvars, dbVars>>

CommunicateReportingMsg ==
  /\ At("traded", "report")
  /\ R!Call(Len(sent) + dropped)
  /\ UNCHANGED <<vars, dbVars>>

ReportStep ==
  /\ Alive /\ epc = "report" /\ R!Writer
  /\ epc' = IF rwpc' = "idle" THEN "idle" ELSE epc
  /\ UNCHANGED <<vars, dbVars>>

\* SIGINT: intHandler removes both sets and segments and semiddb, and exits.
EngineLeave ==
  /\ Alive
  /\ WriterLeave /\ R!WriterLeave
  /\ epc' = "ended"
  /\ dbset' = FALSE /\ disturbed' = TRUE
  /\ holder' = IF holder = EngineWrites THEN Nobody ELSE holder
  /\ tpc' = [tpc EXCEPT ![EngineWrites] = "dead"]
  /\ UNCHANGED <<semiddb, rpt, t2, t3>>
-----------------------------------------------------------------------------
(* The trade publisher, the reporting engine and its threads *)

TradePub ==
  /\ Reader \/ ReaderLeave
  /\ UNCHANGED <<rvars, epc, dbVars>>

\* The threads end with the process.
ThreadsEnd ==
  /\ tpc' = [w \in Writers |->
               IF w # EngineWrites /\ tpc[w] \in {"lock", "begin", "commit"}
               THEN "dead" ELSE tpc[w]]
  /\ holder' = IF holder = EngineWrites THEN holder ELSE Nobody

\* What publishing means here: thread t(thread_add, *rm).
RptEng ==
  /\ R!Reader
  /\ IF rrpc' = "gone" THEN ThreadsEnd
     ELSE /\ IF rreceived' # rreceived THEN Enter(Len(rreceived')) ELSE UNCHANGED tpc
          /\ UNCHANGED holder
  /\ UNCHANGED <<vars, epc, dbset, semiddb, rpt, t2, t3, disturbed>>

Thread(w) ==
  /\ w # EngineWrites /\ Write(w)
  /\ UNCHANGED <<vars, rvars, epc>>

\* SIGINT: the handler removes semiddb first ...
RptEngRemovesDb ==
  /\ ReaderLeaves /\ rexists /\ dbset /\ rrpc # "gone"
  /\ dbset' = FALSE /\ disturbed' = TRUE
  /\ UNCHANGED <<vars, rvars, epc, semiddb, holder, rpt, tpc, t2, t3>>

\* ... and then sem_id, and exits.
RptEngLeave ==
  /\ ~dbset
  /\ R!ReaderLeave
  /\ ThreadsEnd
  /\ UNCHANGED <<vars, epc, dbset, semiddb, rpt, t2, t3, disturbed>>

\* Someone runs rpt: its queries share a read lock, and no semaphore.
ReportBegin ==
  /\ ~rpt
  /\ rpt' = TRUE /\ disturbed' = TRUE
  /\ UNCHANGED <<vars, rvars, epc, dbset, semiddb, holder, tpc, t2, t3>>

ReportEnd ==
  /\ rpt
  /\ rpt' = FALSE
  /\ UNCHANGED <<vars, rvars, epc, dbset, semiddb, holder, tpc, t2, t3, disturbed>>
-----------------------------------------------------------------------------
EngineWork ==
  \/ Matched \/ EngineWrite
  \/ CommunicateTrade \/ TradeStep \/ CommunicateReportingMsg \/ ReportStep

FeedNext ==
  \/ Order \/ EngineWork \/ EngineLeave
  \/ TradePub
  \/ RptEng \/ RptEngRemovesDb \/ RptEngLeave
  \/ \E w \in Writers : Thread(w)
  \/ ReportBegin \/ ReportEnd

FeedSpec == FeedInit /\ [][FeedNext]_feedVars

\* The processes and threads run; nobody has to order, to stop anything or to
\* run rpt.
FeedFairSpec ==
  /\ FeedSpec
  /\ WF_feedVars(EngineWork)
  /\ WF_feedVars(TradePub /\ exists' = exists) /\ WF_feedVars(RptEng)
  /\ \A w \in Writers : WF_feedVars(Thread(w))
-----------------------------------------------------------------------------
(* Properties *)

\* While semiddb exists, one writer at a time is at the database: no statement
\* finds it locked by another writer and is lost.
OneWriter ==
  dbset => Cardinality({w \in Writers : tpc[w] \in {"begin", "commit"}}) <= 1

\* The trades in t3 are trades that the engine made and reported, each at most
\* once and as it was, though the segment may hold a later one by the time its
\* thread gets to write.
RowsAreReports ==
  /\ \A i \in 1 .. Len(t3) : \E j \in 1 .. Len(rreceived) :
        t3[i] = Row(rreceived[j].text)
  /\ \A i, j \in 1 .. Len(t3) : t3[i] = t3[j] => i = j

\* The threads have come to their ends, and nobody took their locks away.
Settled == ~disturbed /\ \A w \in Writers : tpc[w] \in {"none", "done"}

\* Once the threads are done, the reports agree with what the engine reported:
\* the closing price is the price of the last trade, whichever thread wrote
\* first, the volume is all that was traded, and every fill is listed with
\* both of its orders.
ReportsAgree ==
  Settled /\ Len(rreceived) > 0 =>
    LET values == summary_rpt(t3, t2).values["MSFT"]
    IN  /\ values.close = Price[Last(rreceived).text]
        /\ values.volume = Len(rreceived)
        /\ Cardinality(trader_rpt(t3, t2)) = 2 * Len(rreceived)

\* Nobody waits for ever, whoever of the others leaves and whenever.  Once no
\* more orders come, the engine is back to read the next one, each trade that
\* it handed over has been multicast, unless the trade publisher's set was
\* removed, and is in t3, unless a lock was removed or rpt was run.
AllIsTold ==
  []<>(/\ epc = "idle" \/ ~Alive
       /\ Len(received) = Len(sent) \/ ~exists
       /\ {Row(rsent[i].text) : i \in 1 .. Len(rsent)} = ToSet(t3) \/ disturbed)
=============================================================================
