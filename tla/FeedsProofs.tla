----------------------------- MODULE FeedsProofs -----------------------------
(***************************************************************************)
(* Proofs about SharedSlot, and about Feeds, which has two segments of its *)
(* kind: for any number of trades and threads, and every choice of who     *)
(* leaves, who ends and who attaches when.                                 *)
(*                                                                         *)
(* One segment: its token is free (semaphore 0), announced (semaphore 1),  *)
(* or in the hands of one of the two processes.  The removal of the set    *)
(* can only take it away, so a sum of at most one is kept by every step,   *)
(* and Exclusion follows.  What the segment holds at each step of the      *)
(* token's round makes the slot a channel.                                 *)
(*                                                                         *)
(* The feeds: OneWriter rests on semiddb, as long as it exists; that it    *)
(* exists says in turn that the reporting engine's set does, so that no    *)
(* thread ends with its process before.  The engine's other work leaves    *)
(* the trade publisher's segment alone, which therefore behaves as         *)
(* SharedSlot by itself.                                                   *)
(* Rows of t3 are trades that were reported (RowsAreReports) because the   *)
(* engine reports in the order of its trades, the other segment hands each *)
(* report to one thread, and a thread writes its own copy, once.  Nothing  *)
(* else takes the lock a writer holds, so none of them is refused and, in  *)
(* the end, the rows are the reports (ReportsAgree).                       *)
(***************************************************************************)
EXTENDS Feeds, TLAPS, SequenceTheorems, FunctionTheorems, FiniteSetTheorems

(* One segment *)

Held(b) == IF b THEN 1 ELSE 0

Tokens == sem0 + sem1 + Held(WriterHolds) + Held(ReaderHolds)

\* At most one token is around; nobody enters once the set is removed.
TokenInv == Tokens \leq 1

\* What the segment holds where the writer, or the reader, has come to.
SlotInv ==
  /\ wpc \in {"wait", "attach", "text", "quantity", "post"} => msg \in Messages
  /\ wpc \in {"quantity", "post"} => slot.text = msg
  /\ wpc = "post" => slot.quantity = msg /\ slot.order = "host"
  /\ InFlight => sent # << >>
  /\ sem1 > 0 \/ rpc = "convert" =>
        slot = [Last(sent) EXCEPT !.order = "host"]
  /\ rpc = "publish" => slot = Last(sent)

SentInv ==
  \A i \in 1 .. Len(sent) :
     \E m \in Messages : sent[i] = Whole(m)

IInv == TypeOK /\ TokenInv /\ SlotInv /\ SentInv

LEMMA WholeIsSegment == \A m \in Messages : Whole(m) \in Segment
  BY SlotAssumption DEF Whole, Segment

LEMMA InitIInv == Init => IInv
  BY SlotAssumption
  DEF Init, IInv, TypeOK, Segment, TokenInv, Tokens, Held, WriterHolds,
      ReaderHolds, SlotInv, SentInv, InFlight

\* The token invariant needs the types only.
LEMMA TypeAndToken ==
  ASSUME TypeOK, TokenInv, SlotInv, [Next]_vars
  PROVE  TypeOK' /\ TokenInv'
<1> USE SlotAssumption DEF writerVars, TypeOK, TokenInv, Tokens, Held, WriterHolds, ReaderHolds
<1>1. ASSUME NEW m \in Messages, Call(m) PROVE TypeOK' /\ TokenInv'
  BY <1>1 DEF Call
<1>2. CASE Acquire
  BY <1>2 DEF Acquire
<1>3. CASE AcquireFails
  BY <1>3 DEF AcquireFails, GiveUp
<1>4. CASE Attach
  BY <1>4 DEF Attach
<1>5. CASE AttachFails
  BY <1>5 DEF AttachFails
<1>6. CASE WriteText
  BY <1>6 DEF WriteText, Segment, SlotInv
<1>7. CASE WriteQuantity
  BY <1>7 DEF WriteQuantity, Segment, SlotInv
<1>8. CASE Post
  BY <1>8, WholeIsSegment DEF Post, SlotInv
<1>9. CASE PostFails
  BY <1>9 DEF PostFails, GiveUp
<1>10. CASE Take
  BY <1>10 DEF Take
<1>11. CASE TakeFails
  BY <1>11 DEF TakeFails
<1>12. CASE Convert
  BY <1>12 DEF Convert, Segment, Swapped
<1>13. CASE Publish
  BY <1>13 DEF Publish
<1>14. CASE Release
  BY <1>14 DEF Release
<1>15. CASE WriterLeave
  <2>1. exists' \in BOOLEAN /\ wpc' = "ended"
    BY <1>15 DEF WriterLeave
  <2>2. UNCHANGED <<sem0, sem1, slot, msg, attached, rpc, sent, received, dropped>>
    BY <1>15 DEF WriterLeave
  <2>3. QED
    BY <2>1, <2>2
<1>16. CASE ReaderLeave
  <2>1. exists' \in BOOLEAN /\ rpc' \in {"gone", rpc}
    BY <1>16 DEF ReaderLeave
  <2>2. UNCHANGED <<sem0, sem1, slot, wpc, msg, attached, sent, received, dropped>>
    BY <1>16 DEF ReaderLeave
  <2>3. QED
    BY <2>1, <2>2
<1>17. CASE UNCHANGED vars
  BY <1>17 DEF vars, writerVars
<1>18. QED
  BY <1>1, <1>2, <1>3, <1>4, <1>5, <1>6, <1>7, <1>8, <1>9, <1>10, <1>11,
     <1>12, <1>13, <1>14, <1>15, <1>16, <1>17
  DEF Next, Writer, Reader

\* What the segment and the log hold, under the same steps.
LEMMA SlotStep ==
  ASSUME IInv, [Next]_vars
  PROVE  SlotInv' /\ SentInv'
<1> USE SlotAssumption DEF IInv, TypeOK, TokenInv, Tokens, Held, WriterHolds,
        ReaderHolds, SlotInv, SentInv, InFlight, writerVars
<1>1. ASSUME NEW m \in Messages, Call(m) PROVE SlotInv' /\ SentInv'
  BY <1>1 DEF Call
<1>2. CASE Acquire
  BY <1>2 DEF Acquire
<1>3. CASE AcquireFails
  BY <1>3 DEF AcquireFails, GiveUp
<1>4. CASE Attach
  BY <1>4 DEF Attach
<1>5. CASE AttachFails
  BY <1>5 DEF AttachFails
<1>6. CASE WriteText
  BY <1>6 DEF WriteText, Segment
<1>7. CASE WriteQuantity
  BY <1>7 DEF WriteQuantity, Segment
<1>8. CASE Post
  <2>1. /\ wpc' = "idle" /\ UNCHANGED <<msg, slot, rpc>>
        /\ sent' = Append(sent, Whole(msg)) /\ msg \in Messages
        /\ Whole(msg) \in Segment
    BY <1>8, WholeIsSegment DEF Post
  <2>2. /\ Len(sent') = Len(sent) + 1 /\ sent' # << >>
        /\ sent'[Len(sent) + 1] = Whole(msg)
        /\ \A i \in 1 .. Len(sent) : sent'[i] = sent[i]
    BY <2>1
  <2>3. SentInv'
    BY <2>1, <2>2
  <2>4. rpc \notin {"convert", "publish", "release"}
    BY <1>8 DEF Post
  <2>5. Last(sent') = Whole(msg)
    BY <2>2 DEF Last
  <2>6. slot = [Whole(msg) EXCEPT !.order = "host"]
    BY <1>8 DEF Post, Segment, Whole
  <2>7. SlotInv'
    BY <2>1, <2>2, <2>4, <2>5, <2>6
  <2>8. QED
    BY <2>3, <2>7
<1>9. CASE PostFails
  BY <1>9 DEF PostFails, GiveUp
<1>10. CASE Take
  BY <1>10 DEF Take
<1>11. CASE TakeFails
  BY <1>11 DEF TakeFails
<1>12. CASE Convert
  <2>1. /\ sent # << >> /\ slot = [Last(sent) EXCEPT !.order = "host"]
        /\ sem1 = 0 /\ ~WriterHolds
        /\ rpc' = "publish" /\ UNCHANGED <<sem1, wpc, msg, sent>>
        /\ slot' = IF Converts THEN [slot EXCEPT !.order = Swapped(@)] ELSE slot
    BY <1>12 DEF Convert
  <2>2. PICK m \in Messages : Last(sent) = Whole(m)
    BY <2>1 DEF Last
  <2>3. slot = [text |-> m, quantity |-> m, order |-> "host"]
    BY <2>1, <2>2 DEF Whole
  <2>4. slot' = Last(sent)
    <3>1. CASE Converts
      <4>1. slot' = [slot EXCEPT !.order = "network"]
        BY <2>1, <2>3, <3>1 DEF Swapped
      <4>2. slot' = [text |-> m, quantity |-> m, order |-> "network"]
        BY <2>3, <4>1
      <4>3. Last(sent) = [text |-> m, quantity |-> m, order |-> "network"]
        BY <2>2, <3>1 DEF Whole
      <4>4. QED
        BY <4>2, <4>3
    <3>2. CASE ~Converts
      BY <2>1, <2>2, <2>3, <3>2 DEF Whole
    <3>3. QED
      BY <3>1, <3>2
  <2>5. sem1' = 0 /\ rpc' = "publish" /\ slot' = Last(sent')
    BY <2>1, <2>4
  <2>6. wpc' \notin {"quantity", "post"} /\ wpc' = wpc /\ msg' = msg
    BY <2>1
  <2>7. SlotInv'
    BY <2>1, <2>5, <2>6
  <2>8. SentInv'
    BY <2>1
  <2>9. QED
    BY <2>7, <2>8
<1>13. CASE Publish
  BY <1>13 DEF Publish
<1>14. CASE Release
  BY <1>14 DEF Release
<1>15. CASE WriterLeave
  BY <1>15 DEF WriterLeave
<1>16. CASE ReaderLeave
  BY <1>16 DEF ReaderLeave
<1>17. CASE UNCHANGED vars
  BY <1>17 DEF vars
<1>18. QED
  BY <1>1, <1>2, <1>3, <1>4, <1>5, <1>6, <1>7, <1>8, <1>9, <1>10, <1>11,
     <1>12, <1>13, <1>14, <1>15, <1>16, <1>17
  DEF Next, Writer, Reader

LEMMA Inductive == Spec => []IInv
<1>1. IInv /\ [Next]_vars => IInv'
  BY TypeAndToken, SlotStep DEF IInv
<1>2. QED
  BY InitIInv, <1>1, PTL DEF Spec

\* Every variable keeps to its range: no step raises a semaphore twice for one
\* wait, or hands on something that is not a segment.
THEOREM TypeCorrect == Spec => []TypeOK
  BY Inductive, PTL DEF IInv

\* Writer and reader are never both at work on the segment, however many
\* messages are sent and whoever removes the set when.
THEOREM MutualExclusion == Spec => []Exclusion
<1>1. IInv => Exclusion
  BY DEF IInv, TypeOK, TokenInv, Tokens, Held, Exclusion
<1>2. QED
  BY Inductive, <1>1, PTL
-----------------------------------------------------------------------------
(* The channel.  Post puts, Publish gets, a reader that exits with the      *)
(* message in hand loses it, and every other step is a stutter.             *)

Put == \E m \in {Whole(m) : m \in Messages} : Channel!Put(m)

Unseen == UNCHANGED <<sent, InFlight, received>>

LEMMA InitChannel == Init => Channel!Init
  BY DEF Init, Channel!Init, InFlight

LEMMA PostPuts ==
  ASSUME IInv, Post
  PROVE  Put
<1> DEFINE w == Whole(msg)
<1>1. /\ msg \in Messages /\ w \in Segment
      /\ sent' = Append(sent, w) /\ sent \in Seq(Segment)
      /\ received' = received
  BY WholeIsSegment DEF Post, IInv, TypeOK, SlotInv
<1>2. ~InFlight
  BY DEF Post, IInv, TypeOK, TokenInv, Tokens, Held, WriterHolds, ReaderHolds,
         InFlight
<1>3. InFlight'
  BY DEF Post, IInv, TypeOK, InFlight
<1>4. Last(sent') = w
  BY <1>1 DEF Last
<1>5. w \in {Whole(m) : m \in Messages}
  BY <1>1
<1>6. Channel!Put(w)
  BY <1>1, <1>2, <1>3, <1>4 DEF Channel!Put
<1>7. QED
  BY <1>5, <1>6 DEF Put

LEMMA PublishGets ==
  ASSUME IInv, Publish
  PROVE  Channel!Get
<1>1. InFlight /\ slot = Last(sent) /\ sent' = sent
      /\ received' = Append(received, slot)
  BY DEF Publish, InFlight, IInv, SlotInv
<1>2. ~InFlight'
  BY DEF Publish, IInv, TypeOK, TokenInv, Tokens, Held, ReaderHolds, InFlight
<1>3. QED
  BY <1>1, <1>2 DEF Channel!Get

LEMMA ReaderLeaveLoses ==
  ASSUME IInv, ReaderLeave
  PROVE  Channel!Lose \/ Unseen
<1>1. UNCHANGED <<sem1, sent, received>> /\ ReaderLeaves
  BY DEF ReaderLeave
<1>2. CASE rpc' = rpc
  BY <1>1, <1>2 DEF Unseen, InFlight
<1>3. CASE rpc' = "gone" /\ HandlerExits /\ rpc \in {"convert", "publish"}
  <2>1. InFlight /\ ~InFlight'
    BY <1>1, <1>3 DEF IInv, TypeOK, TokenInv, Tokens, Held, ReaderHolds, InFlight
  <2>2. QED
    BY <1>1, <1>3, <2>1 DEF Channel!Lose
<1>4. CASE rpc' = "gone" /\ rpc \notin {"convert", "publish"}
  BY <1>1, <1>4 DEF Unseen, InFlight
<1>5. QED
  BY <1>2, <1>3, <1>4 DEF ReaderLeave

LEMMA OthersUnseen ==
  ASSUME IInv, [Next]_vars, ~Post, ~Publish, ~ReaderLeave
  PROVE  Unseen
<1> USE DEF Unseen, InFlight
<1>1. ASSUME NEW m \in Messages, Call(m) PROVE Unseen
  BY <1>1 DEF Call
<1>2. CASE Acquire
  BY <1>2 DEF Acquire
<1>3. CASE AcquireFails
  BY <1>3 DEF AcquireFails
<1>4. CASE Attach
  BY <1>4 DEF Attach
<1>5. CASE AttachFails
  BY <1>5 DEF AttachFails
<1>6. CASE WriteText
  BY <1>6 DEF WriteText
<1>7. CASE WriteQuantity
  BY <1>7 DEF WriteQuantity
<1>8. CASE PostFails
  BY <1>8 DEF PostFails
<1>9. CASE Take
  BY <1>9 DEF Take, IInv, TypeOK
<1>10. CASE TakeFails
  BY <1>10 DEF TakeFails
<1>11. CASE Convert
  BY <1>11 DEF Convert
<1>12. CASE Release
  BY <1>12 DEF Release
<1>13. CASE WriterLeave
  BY <1>13 DEF WriterLeave
<1>14. CASE UNCHANGED vars
  BY <1>14 DEF vars
<1>15. QED
  BY <1>1, <1>2, <1>3, <1>4, <1>5, <1>6, <1>7, <1>8, <1>9, <1>10, <1>11,
     <1>12, <1>13, <1>14
  DEF Next, Writer, Reader

\* The semaphores and the segment are a channel of capacity one: whole
\* messages, in order, none twice, none skipped while the reader stays.
THEOREM ImplementsChannel == Spec => IsChannel
<1> DEFINE chan == IF InFlight THEN <<Last(sent)>> ELSE << >>
<1>1. Unseen => UNCHANGED <<sent, chan, received>>
  BY DEF Unseen
<1>2. IInv /\ [Next]_vars => [Channel!Next]_<<sent, chan, received>>
  BY <1>1, PostPuts, PublishGets, ReaderLeaveLoses, OthersUnseen
  DEF Channel!Next, Put
<1>3. QED
  BY InitChannel, Inductive, <1>2, PTL DEF Spec, IsChannel, Channel!Spec

(* The feeds *)

Places == {"none", "lock", "begin", "commit", "done", "dead"}

InDatabase(w) == tpc[w] \in {"begin", "commit"}

\* The semaphore and the writer inside: one of them at most has the token.
LockInv ==
  /\ semiddb \in Nat
  /\ tpc \in [Writers -> Places]
  /\ dbset => /\ rexists
              /\ semiddb <= 1
              /\ semiddb = 1 => \A w \in Writers : ~InDatabase(w)
              /\ \A v, w \in Writers : InDatabase(v) /\ InDatabase(w) => v = w

LEMMA EngineIsWriter == EngineWrites \in Writers
  BY FeedsAssumption, SlotAssumption DEF EngineWrites, Writers

LEMMA InitLock == FeedInit => LockInv
  BY DEF FeedInit, LockInv, Places, InDatabase, Init, R!Init

\* A writer that has to wait for the semaphore is not in the database.
LEMMA EnterKeeps ==
  ASSUME LockInv, NEW w, Enter(w), UNCHANGED <<dbset, semiddb, rexists>>
  PROVE  LockInv'
  BY DEF LockInv, Enter, InDatabase, Places

LEMMA WriteKeeps ==
  ASSUME LockInv, NEW w \in Writers, Write(w), UNCHANGED rexists
  PROVE  LockInv'
<1> USE DEF LockInv, InDatabase, Places
<1>1. CASE Lock(w)
  BY <1>1 DEF Lock
<1>2. CASE Begin(w)
  BY <1>2 DEF Begin
<1>3. ASSUME tpc[w] \in {"begin", "commit"}, NEW t, Unlock(w, t) PROVE LockInv'
  BY <1>3 DEF Unlock
<1>4. CASE BeginFails(w)
  BY <1>3, <1>4 DEF BeginFails
<1>5. CASE Commit(w)
  BY <1>3, <1>5 DEF Commit
<1>6. QED
  BY <1>1, <1>2, <1>4, <1>5 DEF Write

\* Threads end with the process: only once semiddb is gone.
LEMMA EndKeeps ==
  ASSUME LockInv, ThreadsEnd, ~dbset', semiddb' = semiddb
  PROVE  LockInv'
  BY DEF LockInv, ThreadsEnd, Places

LEMMA ReaderKeepsSet ==
  ASSUME R!Reader
  PROVE  /\ UNCHANGED rexists
         /\ rrpc' = "gone" => ~rexists
  BY DEF R!Reader, R!Take, R!TakeFails, R!Convert, R!Publish, R!Release

LEMMA LockStep ==
  ASSUME LockInv, [FeedNext]_feedVars
  PROVE  LockInv'
<1>1. CASE UNCHANGED <<dbset, semiddb, rexists, tpc>>
  BY <1>1 DEF LockInv, InDatabase
<1>2. CASE Order \/ Matched
  BY <1>2, EnterKeeps DEF Order, Matched, StartWrite, rvars
<1>3. CASE EngineWrite
  BY <1>3, WriteKeeps, EngineIsWriter DEF EngineWrite, rvars
<1>4. CASE CommunicateTrade \/ TradeStep
  BY <1>1, <1>4 DEF CommunicateTrade, TradeStep, rvars, dbVars
<1>5. CASE CommunicateReportingMsg
  BY <1>1, <1>5 DEF CommunicateReportingMsg, R!Call, dbVars
<1>6. CASE ReportStep
  BY <1>1, <1>6 DEF ReportStep, R!Writer, R!Acquire, R!AcquireFails, R!Attach,
       R!AttachFails, R!WriteText, R!WriteQuantity, R!Post, R!PostFails, dbVars
<1>7. CASE EngineLeave
  BY <1>7, EngineIsWriter DEF EngineLeave, LockInv, Places
<1>8. CASE TradePub
  BY <1>1, <1>8 DEF TradePub, rvars, dbVars
<1>9. CASE RptEng
  <2>1. CASE rrpc' = "gone"
    BY <1>9, <2>1, ReaderKeepsSet, EndKeeps DEF RptEng, LockInv
  <2>2. CASE rrpc' # "gone" /\ rreceived' # rreceived
    BY <1>9, <2>2, ReaderKeepsSet, EnterKeeps DEF RptEng
  <2>3. CASE rrpc' # "gone" /\ rreceived' = rreceived
    BY <1>1, <1>9, <2>3, ReaderKeepsSet DEF RptEng
  <2>4. QED BY <2>1, <2>2, <2>3
<1>10. CASE RptEngRemovesDb
  BY <1>10 DEF RptEngRemovesDb, LockInv
<1>11. CASE RptEngLeave
  BY <1>11, EndKeeps DEF RptEngLeave
<1>12. ASSUME NEW w \in Writers, Thread(w) PROVE LockInv'
  BY <1>12, WriteKeeps DEF Thread, rvars
<1>13. CASE ReportBegin \/ ReportEnd
  BY <1>1, <1>13 DEF ReportBegin, ReportEnd, rvars
<1>14. CASE UNCHANGED feedVars
  BY <1>1, <1>14 DEF feedVars, rvars, dbVars
<1>15. QED
  BY <1>2, <1>3, <1>4, <1>5, <1>6, <1>7, <1>8, <1>9, <1>10, <1>11, <1>12,
     <1>13, <1>14 DEF FeedNext, EngineWork

LEMMA LockInvOneWriter == LockInv => OneWriter
<1> SUFFICES ASSUME LockInv, dbset
             PROVE  Cardinality({w \in Writers : InDatabase(w)}) <= 1
  BY DEF OneWriter, InDatabase
<1> DEFINE Inside == {w \in Writers : InDatabase(w)}
<1>1. CASE Inside = {}
  BY <1>1, FS_EmptySet
<1>2. CASE Inside # {}
  <2>1. PICK w : w \in Inside
    BY <1>2
  <2>2. Inside = {w}
    BY <2>1 DEF LockInv
  <2>3. Cardinality(Inside) = 1
    BY <2>2, FS_Singleton
  <2>4. QED BY <2>3
<1>3. QED BY <1>1, <1>2

\* While semiddb exists, engine and threads are in the database one at a time.
THEOREM OneAtATime == FeedSpec => []OneWriter
  BY InitLock, LockStep, LockInvOneWriter, PTL DEF FeedSpec
-----------------------------------------------------------------------------
(* The trade publisher's segment *)

\* A step of the whole is a step of the segment, or does not touch it.
LEMMA FeedStepIsSlotStep ==
  ASSUME TypeOK, [FeedNext]_feedVars
  PROVE  [Next]_vars
<1>1. CASE CommunicateTrade
  <2>1. Call(Current) /\ Len(sent) + dropped < MaxSends
    BY <1>1 DEF CommunicateTrade, Call
  <2>2. Current \in Messages
    BY <2>1, FeedsAssumption, SlotAssumption DEF Current, TypeOK
  <2>3. QED BY <2>1, <2>2 DEF Next
<1>2. CASE TradeStep
  BY <1>2 DEF TradeStep, Next
<1>3. CASE EngineLeave
  BY <1>3 DEF EngineLeave, Next
<1>4. CASE TradePub
  BY <1>4 DEF TradePub, Next
<1>5. CASE Order \/ Matched \/ EngineWrite \/ CommunicateReportingMsg \/ ReportStep
  BY <1>5 DEF Order, Matched, StartWrite, EngineWrite, CommunicateReportingMsg, ReportStep
<1>6. CASE RptEng \/ RptEngRemovesDb \/ RptEngLeave
  BY <1>6 DEF RptEng, RptEngRemovesDb, RptEngLeave
<1>7. ASSUME NEW w \in Writers, Thread(w) PROVE [Next]_vars
  BY <1>7 DEF Thread
<1>8. CASE ReportBegin \/ ReportEnd \/ UNCHANGED feedVars
  BY <1>8 DEF ReportBegin, ReportEnd, feedVars
<1>9. QED
  BY <1>1, <1>2, <1>3, <1>4, <1>5, <1>6, <1>7, <1>8 DEF FeedNext, EngineWork

LEMMA FeedsHaveSlot == FeedSpec => Spec
<1>1. FeedInit => Init /\ IInv
  BY InitIInv DEF FeedInit
<1>2. IInv /\ [FeedNext]_feedVars => [Next]_vars
  BY FeedStepIsSlotStep DEF IInv
<1>3. IInv /\ [Next]_vars => IInv'
  BY TypeAndToken, SlotStep DEF IInv
<1>4. QED
  BY <1>1, <1>2, <1>3, PTL DEF FeedSpec, Spec

\* In the hands of an engine that serves the database and another segment
\* between two trades, the trade publisher's segment still is a channel.
THEOREM TradesAreChannel == FeedSpec => IsChannel
  BY FeedsHaveSlot, ImplementsChannel
-----------------------------------------------------------------------------
(* The reporting engine's segment *)

AtWork == {"wait", "attach", "text", "quantity", "post"}

\* As of the other segment: one token, and the text
\* that the segment holds where writer and reader have come to.
RTokens == rsem0 + rsem1 + Held(R!WriterHolds) + Held(R!ReaderHolds)

RSlotInv ==
  /\ rwpc \in AtWork => rmsg \in Messages
  /\ rwpc \in {"quantity", "post"} => rslot.text = rmsg
  /\ R!InFlight => rsent # << >> /\ rslot.text = Last(rsent).text
  /\ \A i \in 1 .. Len(rsent) : rsent[i].text \in Messages

RInv == R!TypeOK /\ RTokens <= 1 /\ RSlotInv

\* How many trades have been handed over, or given up, and how many reports.
Trades == Len(sent) + dropped
Reports == Len(rsent) + rdropped

CountInv ==
  /\ Trades <= MaxSends
  /\ wpc \in AtWork \/ epc = "order" => Trades < MaxSends
  /\ epc \in {"traded", "report"} => Trades >= 1
  /\ Reports <= MaxSends
  /\ rwpc \in AtWork => Reports < MaxSends

\* The engine reports its trades in their order, and none twice.
ReportInv ==
  /\ epc = "report" => rmsg = Trades
  /\ \A i \in 1 .. Len(rsent) :
       /\ rsent[i].text <= Trades
       /\ epc \in {"traded", "report"} => rsent[i].text < Trades
  /\ \A i, j \in 1 .. Len(rsent) : i < j => rsent[i].text < rsent[j].text

\* So the threads are given different trades, later ones later.
ReceivedInv ==
  /\ Len(rreceived) + (IF R!InFlight THEN 1 ELSE 0) <= Len(rsent)
  /\ \A i \in 1 .. Len(rreceived) :
       /\ \E k \in 1 .. Len(rsent) : rreceived[i].text = rsent[k].text
       /\ R!InFlight => rreceived[i].text < Last(rsent).text
  /\ \A i, j \in 1 .. Len(rreceived) : i < j => rreceived[i].text < rreceived[j].text

\* And each row is the work of one thread that is done.
ThreadInv ==
  /\ t3 \in Seq({Row(m) : m \in Messages})
  /\ \A w \in Messages : tpc[w] # "none" => w <= Len(rreceived)
  /\ \A i \in 1 .. Len(t3) : \E w \in 1 .. Len(rreceived) :
       tpc[w] = "done" /\ t3[i] = Row(rreceived[w].text)
  /\ \A i, j \in 1 .. Len(t3) : t3[i] = t3[j] => i = j

LEMMA InitReports == FeedInit => RInv /\ CountInv /\ ReportInv /\ ReceivedInv /\ ThreadInv
<1> SUFFICES ASSUME FeedInit
             PROVE  RInv /\ CountInv /\ ReportInv /\ ReceivedInv /\ ThreadInv
  OBVIOUS
<1>1. /\ rexists = TRUE /\ rsem0 = 1 /\ rsem1 = 0
      /\ rslot = [text |-> NoMessage, quantity |-> NoMessage, order |-> "host"]
      /\ rwpc = "idle" /\ rmsg = NoMessage /\ rattached = WriterAttached
      /\ rrpc = "wait" /\ rsent = << >> /\ rreceived = << >> /\ rdropped = 0
      /\ wpc = "idle" /\ sent = << >> /\ dropped = 0 /\ epc = "idle" /\ t3 = << >>
      /\ tpc = [w \in Writers |-> "none"]
  BY DEF FeedInit, Init, R!Init
<1>2. Len(<< >>) = 0
  OBVIOUS
<1>3. ~R!InFlight
  BY <1>1 DEF R!InFlight
<1>4. RInv
  <2>1. R!TypeOK
    BY <1>1, SlotAssumption DEF R!TypeOK, R!Segment
  <2>2. RTokens <= 1
    BY <1>1 DEF RTokens, Held, R!WriterHolds, R!ReaderHolds
  <2>3. RSlotInv
    BY <1>1, <1>2, <1>3 DEF RSlotInv, AtWork
  <2>4. QED
    BY <2>1, <2>2, <2>3 DEF RInv
<1>5. CountInv
  BY <1>1, <1>2, SlotAssumption DEF CountInv, Trades, Reports, AtWork
<1>6. ReportInv /\ ReceivedInv
  BY <1>1, <1>2, <1>3 DEF ReportInv, ReceivedInv
<1>7. ThreadInv
  BY <1>1, <1>2, FeedsAssumption, SlotAssumption DEF ThreadInv, Writers
<1>8. QED
  BY <1>4, <1>5, <1>6, <1>7

LEMMA RCallStep ==
  ASSUME RInv, NEW m \in Messages, R!Call(m)
  PROVE  RInv'
  BY DEF RInv, R!TypeOK, RTokens, RSlotInv, AtWork, Held, R!WriterHolds, R!ReaderHolds,
         R!InFlight, R!Call

\* What is in the segment when the engine raises semaphore 1.
LEMMA Posted ==
  ASSUME RInv, R!Post
  PROVE  /\ rsent' = Append(rsent, R!Whole(rmsg)) /\ rsent \in Seq(R!Segment)
         /\ rmsg \in Messages /\ R!Whole(rmsg) \in R!Segment
         /\ Len(rsent') = Len(rsent) + 1 /\ rsent'[Len(rsent) + 1].text = rmsg
         /\ \A i \in 1 .. Len(rsent) : rsent'[i] = rsent[i]
         /\ Last(rsent').text = rmsg /\ rslot.text = rmsg
         /\ ~R!InFlight /\ rrpc \notin {"convert", "publish", "release"}
         /\ rsem1 = 0 /\ rsem1' = 1 /\ rwpc' = "idle" /\ rrpc' = rrpc
         /\ UNCHANGED <<rexists, rsem0, rslot, rmsg, rattached, rreceived, rdropped>>
<1>1. /\ rsent' = Append(rsent, R!Whole(rmsg)) /\ rsent \in Seq(R!Segment)
      /\ rwpc = "post" /\ rmsg \in Messages
      /\ UNCHANGED <<rexists, rsem0, rslot, rmsg, rattached, rrpc, rreceived, rdropped>>
      /\ rsem1' = rsem1 + 1 /\ rwpc' = "idle" /\ rslot.text = rmsg
  BY DEF R!Post, RInv, R!TypeOK, RSlotInv, AtWork
<1>2. R!Whole(rmsg) \in R!Segment /\ R!Whole(rmsg).text = rmsg
  BY <1>1 DEF R!Whole, R!Segment
<1>3. rsem1 = 0 /\ rrpc \notin {"convert", "publish", "release"}
  BY <1>1 DEF RInv, R!TypeOK, RTokens, Held, R!WriterHolds, R!ReaderHolds
<1>4. /\ Len(rsent') = Len(rsent) + 1 /\ rsent'[Len(rsent) + 1] = R!Whole(rmsg)
      /\ \A i \in 1 .. Len(rsent) : rsent'[i] = rsent[i]
  BY <1>1, <1>2
<1>5. Last(rsent') = R!Whole(rmsg)
  BY <1>4 DEF Last
<1>6. QED
  BY <1>1, <1>2, <1>3, <1>4, <1>5 DEF R!InFlight

\* What a thread is started with.
LEMMA Published ==
  ASSUME RInv, R!Publish
  PROVE  /\ rreceived' = Append(rreceived, rslot) /\ rreceived \in Seq(R!Segment)
         /\ rslot \in R!Segment /\ rsent # << >> /\ rslot.text = Last(rsent).text
         /\ Len(rreceived') = Len(rreceived) + 1
         /\ rreceived'[Len(rreceived) + 1] = rslot
         /\ \A i \in 1 .. Len(rreceived) : rreceived'[i] = rreceived[i]
         /\ R!InFlight /\ rsem1 = 0 /\ rrpc' = "release"
         /\ UNCHANGED <<rexists, rsem0, rsem1, rslot, rwpc, rmsg, rattached, rsent, rdropped>>
<1>1. /\ rreceived' = Append(rreceived, rslot) /\ rreceived \in Seq(R!Segment)
      /\ rslot \in R!Segment /\ rrpc = "publish" /\ rrpc' = "release" /\ R!InFlight
      /\ UNCHANGED <<rexists, rsem0, rsem1, rslot, rwpc, rmsg, rattached, rsent, rdropped>>
  BY DEF R!Publish, RInv, R!TypeOK, R!writerVars, R!InFlight
<1>2. rsent # << >> /\ rslot.text = Last(rsent).text
  BY <1>1 DEF RInv, RSlotInv
<1>3. rsem1 = 0
  BY <1>1 DEF RInv, R!TypeOK, RTokens, Held, R!WriterHolds, R!ReaderHolds
<1>4. /\ Len(rreceived') = Len(rreceived) + 1
      /\ rreceived'[Len(rreceived) + 1] = rslot
      /\ \A i \in 1 .. Len(rreceived) : rreceived'[i] = rreceived[i]
  BY <1>1
<1>5. QED
  BY <1>1, <1>2, <1>3, <1>4

\* A step of writer or reader keeps the segment's invariant.
LEMMA RSlotStep ==
  ASSUME RInv, R!Writer \/ R!Reader \/ R!WriterLeave \/ R!ReaderLeave
  PROVE  RInv'
<1>1. CASE R!Post
  <2>1. R!TypeOK'
    BY <1>1, Posted DEF RInv, R!TypeOK
  <2>2. (RTokens <= 1)'
    BY <1>1, Posted DEF RInv, R!TypeOK, RTokens, Held, R!WriterHolds, R!ReaderHolds, R!Post
  <2>3. RSlotInv'
    BY <1>1, Posted DEF RInv, R!TypeOK, RSlotInv, AtWork
  <2>4. QED
    BY <2>1, <2>2, <2>3 DEF RInv
<1>2. CASE R!Publish
  <2>1. R!TypeOK'
    <3>1. rreceived' \in Seq(R!Segment)
      <4>1. rreceived \in Seq(R!Segment) /\ rslot \in R!Segment
        BY DEF RInv, R!TypeOK
      <4>2. QED
        BY <1>2, <4>1, Published
    <3>2. QED
      BY <1>2, <3>1, Published DEF RInv, R!TypeOK
  <2>2. (RTokens <= 1)'
    <3>1. /\ rrpc = "publish" /\ rrpc' = "release" /\ UNCHANGED <<rsem0, rsem1, rwpc>>
      BY <1>2 DEF R!Publish, R!writerVars
    <3>2. QED
      BY <3>1 DEF RInv, RTokens, Held, R!WriterHolds, R!ReaderHolds
  <2>3. RSlotInv'
    BY <1>2, Published DEF RInv, RSlotInv, R!InFlight
  <2>4. QED
    BY <2>1, <2>2, <2>3 DEF RInv
<1> USE SlotAssumption DEF RInv, R!TypeOK, RTokens, RSlotInv, AtWork, Held, R!WriterHolds,
        R!ReaderHolds, R!InFlight
<1>3. CASE R!Acquire
  BY <1>3 DEF R!Acquire
<1>4. CASE R!AcquireFails
  BY <1>4 DEF R!AcquireFails, R!GiveUp
<1>5. CASE R!Attach
  BY <1>5 DEF R!Attach
<1>6. CASE R!AttachFails
  BY <1>6 DEF R!AttachFails
<1>7. CASE R!WriteText
  BY <1>7 DEF R!WriteText, R!Segment
<1>8. CASE R!WriteQuantity
  BY <1>8 DEF R!WriteQuantity, R!Segment
<1>9. CASE R!PostFails
  BY <1>9 DEF R!PostFails, R!GiveUp
<1>10. CASE R!Take
  BY <1>10 DEF R!Take, R!writerVars
<1>11. CASE R!TakeFails
  BY <1>11 DEF R!TakeFails, R!writerVars
<1>12. CASE R!Convert
  BY <1>12 DEF R!Convert, R!writerVars
<1>13. CASE R!Release
  BY <1>13 DEF R!Release, R!writerVars
<1>14. CASE R!WriterLeave
  <2>1. /\ rexists' = FALSE /\ rwpc' = "ended"
        /\ UNCHANGED <<rsem0, rsem1, rslot, rmsg, rattached, rrpc, rsent, rreceived, rdropped>>
    BY <1>14 DEF R!WriterLeave
  <2>2. R!TypeOK'
    BY <2>1
  <2>3. (RTokens <= 1)'
    BY <2>1
  <2>4. RSlotInv'
    BY <2>1
  <2>5. QED
    BY <2>2, <2>3, <2>4
<1>15. CASE R!ReaderLeave
  <2>1. /\ rexists' = FALSE /\ rrpc' \in {"gone", rrpc}
        /\ UNCHANGED <<rsem0, rsem1, rslot, rwpc, rmsg, rattached, rsent, rreceived, rdropped>>
    BY <1>15 DEF R!ReaderLeave, R!writerVars
  <2>2. R!TypeOK'
    BY <2>1
  <2>3. (RTokens <= 1)'
    BY <2>1
  <2>4. RSlotInv'
    BY <2>1
  <2>5. QED
    BY <2>2, <2>3, <2>4
<1>16. QED
  BY <1>1, <1>2, <1>3, <1>4, <1>5, <1>6, <1>7, <1>8, <1>9, <1>10, <1>11, <1>12,
     <1>13, <1>14, <1>15 DEF R!Writer, R!Reader
-----------------------------------------------------------------------------
(* The counts *)

\* A writer's step ends the message it works on, or does not.
LEMMA WriterCounts ==
  ASSUME TypeOK, Writer
  PROVE  /\ wpc \in AtWork
         /\ \/ Trades' = Trades /\ wpc' \in AtWork \cup {"dead"}
            \/ Trades' = Trades + 1 /\ wpc' \in {"idle", "ended"}
<1>1. CASE Acquire \/ Attach \/ AttachFails \/ WriteText \/ WriteQuantity
  BY <1>1
  DEF Acquire, Attach, AttachFails, WriteText, WriteQuantity, AtWork, Trades
<1>2. CASE AcquireFails \/ PostFails
  BY <1>2 DEF AcquireFails, PostFails, GiveUp, AtWork, Trades, TypeOK
<1>3. CASE Post
  <2>1. /\ wpc = "post" /\ wpc' = "idle" /\ dropped' = dropped
        /\ Len(sent') = Len(sent) + 1
    BY <1>3 DEF Post, TypeOK
  <2>2. QED
    BY <2>1 DEF AtWork, Trades, TypeOK
<1>4. QED
  BY <1>1, <1>2, <1>3 DEF Writer

LEMMA RWriterCounts ==
  ASSUME RInv, R!Writer
  PROVE  /\ rwpc \in AtWork
         /\ \/ Reports' = Reports /\ rwpc' \in AtWork \cup {"dead"}
            \/ Reports' = Reports + 1 /\ rwpc' \in {"idle", "ended"}
         /\ UNCHANGED <<rmsg, rreceived>>
         /\ R!Post \/ UNCHANGED <<rsent, rsem1, rrpc>>
<1>1. CASE R!Acquire \/ R!Attach \/ R!AttachFails \/ R!WriteText \/ R!WriteQuantity
  BY <1>1
  DEF R!Acquire, R!Attach, R!AttachFails, R!WriteText, R!WriteQuantity, AtWork, Reports
<1>2. CASE R!AcquireFails \/ R!PostFails
  BY <1>2 DEF R!AcquireFails, R!PostFails, R!GiveUp, AtWork, Reports, RInv, R!TypeOK
<1>3. CASE R!Post
  <2>1. rwpc = "post" /\ rdropped \in Nat /\ Len(rsent) \in Nat
    BY <1>3 DEF R!Post, RInv, R!TypeOK
  <2>2. QED
    BY <1>3, <2>1, Posted DEF AtWork, Reports
<1>4. QED
  BY <1>1, <1>2, <1>3 DEF R!Writer

\* What the reading side of a segment leaves alone.
LEMMA ReaderCounts ==
  /\ Reader \/ ReaderLeave => UNCHANGED <<sent, dropped, wpc>>
  /\ R!Reader \/ R!ReaderLeave => UNCHANGED <<rsent, rdropped, rwpc, rmsg>>
<1>1. Reader \/ ReaderLeave => UNCHANGED <<sent, dropped, wpc>>
  BY DEF Reader, ReaderLeave, Take, TakeFails, Convert, Publish, Release, writerVars
<1>2. R!Reader \/ R!ReaderLeave => UNCHANGED <<rsent, rdropped, rwpc, rmsg>>
  BY DEF R!Reader, R!ReaderLeave, R!Take, R!TakeFails, R!Convert, R!Publish, R!Release,
         R!writerVars
<1>3. QED
  BY <1>1, <1>2

\* The steps of Feeds, by what they do to the logs and to the engine.
LEMMA FeedSteps ==
  ASSUME [FeedNext]_feedVars
  PROVE  \/ Order \/ CommunicateTrade \/ TradeStep \/ CommunicateReportingMsg
         \/ ReportStep \/ EngineLeave \/ RptEng \/ RptEngLeave
         \/ /\ UNCHANGED <<sent, dropped, wpc, rvars>>
            /\ epc' = epc \/ epc' = "match"
<1>1. CASE TradePub
  BY <1>1, ReaderCounts DEF TradePub
<1>2. CASE Matched
  BY <1>2 DEF Matched, StartWrite, At, vars, writerVars
<1>3. CASE EngineWrite \/ RptEngRemovesDb \/ ReportBegin \/ ReportEnd
  BY <1>3 DEF EngineWrite, RptEngRemovesDb, ReportBegin, ReportEnd, vars, writerVars
<1>4. ASSUME NEW w \in Writers, Thread(w)
      PROVE  UNCHANGED <<sent, dropped, wpc, rvars>> /\ epc' = epc
  BY <1>4 DEF Thread, vars, writerVars
<1>5. CASE UNCHANGED feedVars
  BY <1>5 DEF feedVars, vars, writerVars
<1>6. QED
  BY <1>1, <1>2, <1>3, <1>4, <1>5 DEF FeedNext, EngineWork

LEMMA CountTypes ==
  ASSUME TypeOK, RInv
  PROVE  Trades \in Nat /\ Reports \in Nat /\ MaxSends \in Nat
  BY SlotAssumption DEF TypeOK, RInv, R!TypeOK, Trades, Reports

LEMMA CountStep ==
  ASSUME TypeOK, RInv, CountInv, [FeedNext]_feedVars
  PROVE  CountInv'
<1>0. Trades \in Nat /\ Reports \in Nat /\ MaxSends \in Nat
  BY CountTypes
<1>1. CASE Order
  <2>1. /\ UNCHANGED <<sent, dropped, wpc, rsent, rdropped, rwpc>> /\ epc' = "order"
        /\ Trades + 1 <= MaxSends
    BY <1>1 DEF Order, StartWrite, At, vars, writerVars, rvars, Current, Trades
  <2>2. QED
    BY <1>0, <2>1 DEF CountInv, Trades, Reports
<1>2. CASE CommunicateTrade
  <2>1. /\ UNCHANGED <<sent, dropped, rsent, rdropped, rwpc>> /\ epc' = "trade"
        /\ Trades < MaxSends
    BY <1>2 DEF CommunicateTrade, At, Call, rvars, Trades
  <2>2. QED
    BY <1>0, <2>1 DEF CountInv, Trades, Reports
<1>3. CASE TradeStep
  <2>1. /\ UNCHANGED <<rsent, rdropped, rwpc>> /\ Writer /\ epc = "trade"
        /\ epc' = IF wpc' = "idle" THEN "traded" ELSE "trade"
    BY <1>3 DEF TradeStep, rvars
  <2>2. Reports' = Reports /\ Trades < MaxSends
    BY <2>1, WriterCounts DEF Reports, CountInv
  <2>3. QED
    BY <1>0, <2>1, <2>2, WriterCounts DEF CountInv, AtWork
<1>4. CASE CommunicateReportingMsg
  <2>1. /\ UNCHANGED <<sent, dropped, wpc, rsent, rdropped>>
        /\ epc = "traded" /\ epc' = "report" /\ Reports < MaxSends
    BY <1>4 DEF CommunicateReportingMsg, At, R!Call, vars, writerVars, Reports
  <2>2. QED
    BY <1>0, <2>1 DEF CountInv, Trades, Reports
<1>5. CASE ReportStep
  <2>1. /\ UNCHANGED <<sent, dropped, wpc>> /\ R!Writer /\ epc = "report"
        /\ epc' \in {"report", "idle"}
    BY <1>5 DEF ReportStep, vars, writerVars
  <2>2. Trades' = Trades
    BY <2>1 DEF Trades
  <2>3. QED
    BY <1>0, <2>1, <2>2, RWriterCounts DEF CountInv, AtWork
<1>6. CASE EngineLeave
  <2>1. /\ UNCHANGED <<sent, dropped, rsent, rdropped>> /\ epc' = "ended"
        /\ wpc' = "ended" /\ rwpc' = "ended"
    BY <1>6 DEF EngineLeave, WriterLeave, R!WriterLeave
  <2>2. QED
    BY <2>1 DEF CountInv, Trades, Reports, AtWork
<1>7. CASE RptEng \/ RptEngLeave
  <2>1. UNCHANGED <<sent, dropped, wpc, epc, rsent, rdropped, rwpc>>
    BY <1>7, ReaderCounts DEF RptEng, RptEngLeave, vars, writerVars
  <2>2. QED
    BY <2>1 DEF CountInv, Trades, Reports
<1>8. CASE UNCHANGED <<sent, dropped, wpc, rvars>> /\ (epc' = epc \/ epc' = "match")
  BY <1>8 DEF CountInv, Trades, Reports, rvars
<1>9. QED
  BY <1>1, <1>2, <1>3, <1>4, <1>5, <1>6, <1>7, <1>8, FeedSteps

LEMMA RStep ==
  ASSUME TypeOK, RInv, CountInv, [FeedNext]_feedVars
  PROVE  RInv'
<1>1. CASE CommunicateReportingMsg
  <2>1. Trades \in 1 .. MaxSends /\ R!Call(Trades)
    BY <1>1, CountTypes DEF CommunicateReportingMsg, At, CountInv, Trades
  <2>2. QED
    BY <2>1, FeedsAssumption, RCallStep
<1>2. CASE ReportStep \/ EngineLeave \/ RptEng \/ RptEngLeave
  BY <1>2, RSlotStep DEF ReportStep, EngineLeave, RptEng, RptEngLeave
<1>3. CASE UNCHANGED rvars
  BY <1>3
  DEF rvars, RInv, R!TypeOK, RTokens, RSlotInv, R!WriterHolds, R!ReaderHolds, R!InFlight
<1>4. QED
  BY <1>1, <1>2, <1>3, FeedSteps DEF Order, StartWrite, CommunicateTrade, TradeStep
-----------------------------------------------------------------------------
(* RowsAreReports *)

LEMMA ReportInvStep ==
  ASSUME TypeOK, RInv, CountInv, ReportInv, [FeedNext]_feedVars
  PROVE  ReportInv'
<1>0. /\ Trades \in Nat
      /\ \A i \in 1 .. Len(rsent) : rsent[i].text \in Nat
  BY CountTypes, FeedsAssumption DEF RInv, RSlotInv
<1>1. ASSUME UNCHANGED rsent, Trades' \in Nat, Trades' >= Trades,
             epc' \notin {"traded", "report"}
      PROVE  ReportInv'
  BY <1>0, <1>1 DEF ReportInv
<1>2. CASE Order
  BY <1>0, <1>1, <1>2 DEF Order, StartWrite, At, vars, rvars, Trades
<1>3. CASE CommunicateTrade
  BY <1>0, <1>1, <1>3 DEF CommunicateTrade, At, Call, rvars, Trades
<1>4. CASE TradeStep
  <2>1. /\ UNCHANGED <<rsent, rmsg>> /\ Writer /\ epc = "trade"
        /\ epc' = IF wpc' = "idle" THEN "traded" ELSE "trade"
    BY <1>4 DEF TradeStep, rvars
  <2>2. \/ Trades' = Trades /\ wpc' # "idle"
        \/ Trades' = Trades + 1
    BY <2>1, WriterCounts DEF AtWork
  <2>3. QED
    BY <1>0, <2>1, <2>2 DEF ReportInv
<1>5. CASE CommunicateReportingMsg
  <2>1. /\ UNCHANGED rsent /\ Trades' = Trades /\ rmsg' = Trades
        /\ epc = "traded" /\ epc' = "report"
    BY <1>5 DEF CommunicateReportingMsg, At, R!Call, vars, Trades
  <2>2. QED
    BY <1>0, <2>1 DEF ReportInv
<1>6. CASE ReportStep
  <2>1. /\ Trades' = Trades /\ R!Writer /\ epc = "report"
        /\ epc' = IF rwpc' = "idle" THEN "idle" ELSE "report"
    BY <1>6 DEF ReportStep, vars, Trades
  <2>2. CASE UNCHANGED rsent
    <3>1. rmsg' = rmsg
      BY <2>1, RWriterCounts
    <3>2. QED
      BY <1>0, <2>1, <2>2, <3>1 DEF ReportInv
  <2>3. CASE R!Post
    <3>1. /\ Len(rsent') = Len(rsent) + 1 /\ rsent'[Len(rsent) + 1].text = Trades
          /\ \A i \in 1 .. Len(rsent) : rsent'[i] = rsent[i]
          /\ epc' = "idle" /\ Len(rsent) \in Nat
      BY <2>1, <2>3, Posted DEF ReportInv, RInv, R!TypeOK
    <3>2. \A i \in 1 .. Len(rsent') :
             \/ i \in 1 .. Len(rsent) /\ rsent'[i] = rsent[i]
             \/ i = Len(rsent) + 1
      BY <3>1
    <3>3. \A i \in 1 .. Len(rsent) : rsent[i].text < Trades
      BY <2>1 DEF ReportInv
    <3>4. \A i \in 1 .. Len(rsent') : rsent'[i].text <= Trades
      BY <1>0, <3>1, <3>2, <3>3
    <3>5. \A i, j \in 1 .. Len(rsent') : i < j => rsent'[i].text < rsent'[j].text
      BY <1>0, <3>1, <3>2, <3>3 DEF ReportInv
    <3>6. QED
      BY <2>1, <3>1, <3>4, <3>5 DEF ReportInv
  <2>4. QED
    BY <2>1, <2>2, <2>3, RWriterCounts
<1>7. CASE EngineLeave
  BY <1>0, <1>1, <1>7 DEF EngineLeave, WriterLeave, R!WriterLeave, Trades
<1>8. CASE RptEng \/ RptEngLeave
  <2>1. UNCHANGED <<sent, dropped, epc, rsent, rmsg>>
    BY <1>8, ReaderCounts DEF RptEng, RptEngLeave, vars
  <2>2. QED
    BY <2>1 DEF ReportInv, Trades
<1>9. CASE UNCHANGED <<sent, dropped, wpc, rvars>> /\ (epc' = epc \/ epc' = "match")
  BY <1>9 DEF ReportInv, Trades, rvars
<1>10. QED
  BY <1>2, <1>3, <1>4, <1>5, <1>6, <1>7, <1>8, <1>9, FeedSteps

\* No trade is received twice.
LEMMA ReceivedOnce ==
  ASSUME RInv, ReceivedInv
  PROVE  /\ Len(rreceived) \in Nat
         /\ \A i \in 1 .. Len(rreceived) : rreceived[i].text \in Messages
         /\ \A i, j \in 1 .. Len(rreceived) :
               rreceived[i].text = rreceived[j].text => i = j
<1>1. Messages \subseteq Nat
  BY FeedsAssumption
<1>2. Len(rreceived) \in Nat
  BY DEF RInv, R!TypeOK
<1>3. ASSUME NEW i \in 1 .. Len(rreceived) PROVE rreceived[i].text \in Messages
  BY DEF ReceivedInv, RInv, RSlotInv
<1>4. ASSUME NEW i \in 1 .. Len(rreceived), NEW j \in 1 .. Len(rreceived),
             rreceived[i].text = rreceived[j].text
      PROVE  i = j
  <2>1. rreceived[i].text \in Nat
    BY <1>1, <1>3
  <2>2. ~(i < j) /\ ~(j < i)
    BY <1>4, <2>1 DEF ReceivedInv
  <2>3. QED
    BY <1>2, <2>2
<1>5. QED
  BY <1>2, <1>3, <1>4

LEMMA StillReceived ==
  ASSUME ReceivedInv, R!InFlight' => R!InFlight, UNCHANGED <<rsent, rreceived>>,
         Len(rsent) \in Nat, Len(rreceived) \in Nat
  PROVE  ReceivedInv'
  BY DEF ReceivedInv

LEMMA ReceivedStep ==
  ASSUME TypeOK, RInv, CountInv, ReportInv, ReceivedInv, [FeedNext]_feedVars
  PROVE  ReceivedInv'
<1>0. /\ Trades \in Nat /\ Len(rsent) \in Nat /\ Len(rreceived) \in Nat
      /\ \A i \in 1 .. Len(rsent) : rsent[i].text \in Nat
  BY CountTypes, FeedsAssumption DEF RInv, RSlotInv, R!TypeOK
<1>1. CASE CommunicateReportingMsg
  BY <1>0, <1>1, StillReceived DEF CommunicateReportingMsg, R!Call, R!InFlight
<1>2. CASE ReportStep
  <2>1. R!Writer /\ epc = "report" /\ rmsg = Trades
    BY <1>2 DEF ReportStep, ReportInv
  <2>2. CASE UNCHANGED <<rsent, rreceived, rsem1, rrpc>>
    BY <1>0, <2>2, StillReceived DEF R!InFlight
  <2>3. CASE R!Post
    <3>1. /\ Len(rsent') = Len(rsent) + 1 /\ Last(rsent').text = Trades
          /\ \A i \in 1 .. Len(rsent) : rsent'[i] = rsent[i] /\ rsent[i].text < Trades
          /\ rreceived' = rreceived /\ ~R!InFlight
      BY <2>1, <2>3, Posted DEF ReportInv
    <3>2. Len(rreceived) <= Len(rsent)
      BY <1>0, <3>1 DEF ReceivedInv
    <3>3. ASSUME NEW i \in 1 .. Len(rreceived)
          PROVE  /\ \E k \in 1 .. Len(rsent') : rreceived[i].text = rsent'[k].text
                 /\ rreceived[i].text < Last(rsent').text
      <4>1. PICK k \in 1 .. Len(rsent) : rreceived[i].text = rsent[k].text
        BY DEF ReceivedInv
      <4>2. k \in 1 .. Len(rsent') /\ rsent'[k] = rsent[k] /\ rsent[k].text < Trades
        BY <1>0, <3>1
      <4>3. QED
        BY <1>0, <3>1, <4>1, <4>2
    <3>4. QED
      BY <1>0, <3>1, <3>2, <3>3 DEF ReceivedInv
  <2>4. QED
    BY <2>1, <2>2, <2>3, RWriterCounts
<1>3. CASE EngineLeave
  BY <1>0, <1>3, StillReceived DEF EngineLeave, R!WriterLeave, R!InFlight
<1>4. CASE RptEng
  <2>1. CASE R!Publish
    <3>1. /\ Len(rreceived') = Len(rreceived) + 1 /\ rsent' = rsent
          /\ rreceived'[Len(rreceived) + 1].text = Last(rsent).text
          /\ \A i \in 1 .. Len(rreceived) : rreceived'[i] = rreceived[i]
          /\ R!InFlight /\ rsent # << >>
      BY <2>1, Published
    <3>2. ~R!InFlight'
      BY <2>1, Published DEF R!InFlight
    <3>3. Len(rreceived') <= Len(rsent)
      BY <1>0, <3>1 DEF ReceivedInv
    <3>4. /\ \A i \in 1 .. Len(rreceived') :
                \/ i \in 1 .. Len(rreceived) /\ rreceived'[i] = rreceived[i]
                \/ i = Len(rreceived) + 1
          /\ Last(rsent) = rsent[Len(rsent)] /\ Len(rsent) \in 1 .. Len(rsent)
      <4>1. Len(rsent) >= 1
        BY <1>0, <3>1, <3>3
      <4>2. QED
        BY <1>0, <3>1, <4>1 DEF Last
    <3>5. ASSUME NEW i \in 1 .. Len(rreceived')
          PROVE  \E k \in 1 .. Len(rsent) : rreceived'[i].text = rsent[k].text
      BY <3>1, <3>4 DEF ReceivedInv
    <3>6. ASSUME NEW i \in 1 .. Len(rreceived'), NEW j \in 1 .. Len(rreceived'), i < j
          PROVE  rreceived'[i].text < rreceived'[j].text
      <4>1. i \in 1 .. Len(rreceived) /\ rreceived'[i] = rreceived[i]
        BY <1>0, <3>1, <3>6
      <4>2. CASE j \in 1 .. Len(rreceived)
        BY <3>1, <3>6, <4>1, <4>2 DEF ReceivedInv
      <4>3. CASE j = Len(rreceived) + 1
        BY <3>1, <4>1, <4>3 DEF ReceivedInv
      <4>4. QED
        BY <3>4, <4>2, <4>3
    <3>7. QED
      BY <1>0, <3>1, <3>2, <3>3, <3>5, <3>6 DEF ReceivedInv
  <2>2. CASE R!Take
    <3>1. R!InFlight /\ UNCHANGED <<rsent, rreceived>>
      BY <2>2 DEF R!Take, R!InFlight
    <3>2. QED
      BY <1>0, <3>1, StillReceived
  <2>3. CASE R!TakeFails \/ R!Convert \/ R!Release
    BY <1>0, <2>3, StillReceived DEF R!TakeFails, R!Convert, R!Release, R!InFlight
  <2>4. QED
    BY <1>4, <2>1, <2>2, <2>3 DEF RptEng, R!Reader
<1>5. CASE RptEngLeave
  BY <1>0, <1>5, StillReceived DEF RptEngLeave, R!ReaderLeave, R!InFlight
<1>6. CASE UNCHANGED rvars
  BY <1>0, <1>6, StillReceived DEF rvars, R!InFlight
<1>7. QED
  BY <1>1, <1>2, <1>3, <1>4, <1>5, <1>6, FeedSteps
  DEF Order, StartWrite, CommunicateTrade, TradeStep

LEMMA RowsDiffer == \A m, n : Row(m) = Row(n) => m = n
<1> SUFFICES ASSUME NEW m, NEW n, Row(m) = Row(n) PROVE m = n
  OBVIOUS
<1>1. Row(m).orderid2 = m /\ Row(n).orderid2 = n
  BY DEF Row
<1>2. QED
  BY <1>1

\* Threads go on, and no row is added.
LEMMA StillThreads ==
  ASSUME ThreadInv, Len(rreceived) \in Nat, Len(rreceived) <= MaxSends, t3' = t3,
         Len(rreceived') \in Nat, Len(rreceived') >= Len(rreceived),
         \A i \in 1 .. Len(rreceived) : rreceived'[i] = rreceived[i],
         \A w \in Messages :
            /\ tpc[w] = "done" => tpc'[w] = "done"
            /\ tpc'[w] # "none" => tpc[w] # "none" \/ w <= Len(rreceived')
  PROVE  ThreadInv'
<1>1. Messages = 1 .. MaxSends /\ MaxSends \in Nat
  BY FeedsAssumption, SlotAssumption
<1>2. \A w \in Messages : tpc'[w] # "none" => w <= Len(rreceived')
  BY <1>1 DEF ThreadInv
<1>3. ASSUME NEW i \in 1 .. Len(t3)
      PROVE  \E w \in 1 .. Len(rreceived') :
                tpc'[w] = "done" /\ t3[i] = Row(rreceived'[w].text)
  <2>1. PICK w \in 1 .. Len(rreceived) :
           tpc[w] = "done" /\ t3[i] = Row(rreceived[w].text)
    BY DEF ThreadInv
  <2>2. w \in Messages /\ w \in 1 .. Len(rreceived') /\ rreceived'[w] = rreceived[w]
    BY <1>1
  <2>3. QED
    BY <2>1, <2>2
<1>4. QED
  BY <1>2, <1>3 DEF ThreadInv

\* One writer's step.
LEMMA WriteThreads ==
  ASSUME LockInv, RInv, ReceivedInv, ThreadInv, Len(rreceived) <= MaxSends,
         NEW w \in Writers, Write(w), UNCHANGED rreceived
  PROVE  ThreadInv'
<1>0. /\ Messages = 1 .. MaxSends /\ MaxSends \in Nat /\ Writers = 1 .. MaxSends + 1
      /\ Len(rreceived) \in Nat /\ tpc \in [Writers -> Places]
  BY FeedsAssumption, SlotAssumption DEF Writers, RInv, R!TypeOK, LockInv
<1>1. ASSUME t3' = t3, tpc[w] \in {"lock", "begin", "commit"},
             NEW x, tpc' = [tpc EXCEPT ![w] = x]
      PROVE  ThreadInv'
  <2>1. \A v \in Messages :
           /\ tpc[v] = "done" => tpc'[v] = "done"
           /\ tpc'[v] # "none" => tpc[v] # "none"
    BY <1>0, <1>1
  <2>2. QED
    BY <1>0, <1>1, <2>1, StillThreads
<1>2. CASE Lock(w)
  BY <1>1, <1>2 DEF Lock
<1>3. CASE Begin(w)
  BY <1>1, <1>3 DEF Begin
<1>4. CASE BeginFails(w)
  BY <1>1, <1>4 DEF BeginFails, Unlock
<1>5. CASE Commit(w)
  <2>1. /\ tpc[w] = "commit" /\ tpc' = [tpc EXCEPT ![w] = "done"]
        /\ t3' = (IF rpt THEN <<t2, t3>> ELSE Committed(w))[2]
    BY <1>5 DEF Commit, Unlock
  <2>2. CASE t3' = t3
    BY <1>1, <2>1, <2>2
  <2>3. CASE ~rpt /\ w # EngineWrites
    <3> DEFINE r == Copied(w)
    <3>1. t3' = Append(t3, r) /\ w \in Messages
      BY <1>0, <2>1, <2>3 DEF Committed, EngineWrites
    <3>2. w \in 1 .. Len(rreceived) /\ r = Row(rreceived[w].text)
      BY <1>0, <2>1, <3>1 DEF ThreadInv, Copied
    <3>3. r \in {Row(m) : m \in Messages}
      <4>1. PICK k \in 1 .. Len(rsent) : rreceived[w].text = rsent[k].text
        BY <3>2 DEF ReceivedInv
      <4>2. rreceived[w].text \in Messages
        BY <4>1 DEF RInv, RSlotInv
      <4>3. QED
        BY <3>2, <4>2
    <3>4. \A i \in 1 .. Len(t3) : t3[i] # r
      <4> SUFFICES ASSUME NEW i \in 1 .. Len(t3), t3[i] = r PROVE FALSE
        OBVIOUS
      <4>1. PICK v \in 1 .. Len(rreceived) :
               tpc[v] = "done" /\ t3[i] = Row(rreceived[v].text)
        BY DEF ThreadInv
      <4>2. rreceived[v].text = rreceived[w].text
        BY <3>2, <4>1, RowsDiffer
      <4>3. v = w
        BY <3>2, <4>1, <4>2, ReceivedOnce
      <4>4. QED
        BY <2>1, <4>1, <4>3
    <3> HIDE DEF r
    <3>5. /\ t3' \in Seq({Row(m) : m \in Messages})
          /\ Len(t3) \in Nat /\ Len(t3') = Len(t3) + 1 /\ t3'[Len(t3) + 1] = r
          /\ \A i \in 1 .. Len(t3) : t3'[i] = t3[i]
      BY <3>1, <3>3 DEF ThreadInv
    <3>6. \A i \in 1 .. Len(t3') :
             \/ i \in 1 .. Len(t3) /\ t3'[i] = t3[i]
             \/ i = Len(t3) + 1 /\ t3'[i] = r
      BY <3>5
    <3>7. \A i, j \in 1 .. Len(t3') : t3'[i] = t3'[j] => i = j
      BY <3>4, <3>6 DEF ThreadInv
    <3>8. /\ tpc'[w] = "done"
          /\ \A v \in Messages : v # w => tpc'[v] = tpc[v]
      BY <1>0, <2>1
    <3>9. ASSUME NEW i \in 1 .. Len(t3')
          PROVE  \E v \in 1 .. Len(rreceived) :
                    tpc'[v] = "done" /\ t3'[i] = Row(rreceived[v].text)
      <4>1. CASE i \in 1 .. Len(t3) /\ t3'[i] = t3[i]
        <5>1. PICK v \in 1 .. Len(rreceived) :
                 tpc[v] = "done" /\ t3[i] = Row(rreceived[v].text)
          BY <4>1 DEF ThreadInv
        <5>2. v \in Messages
          BY <1>0
        <5>3. QED
          BY <3>8, <4>1, <5>1, <5>2
      <4>2. CASE t3'[i] = r
        BY <3>2, <3>8, <4>2
      <4>3. QED
        BY <3>6, <4>1, <4>2
    <3>10. \A v \in Messages : tpc'[v] # "none" => v <= Len(rreceived)
      BY <3>2, <3>8 DEF ThreadInv
    <3>11. QED
      BY <3>5, <3>7, <3>9, <3>10 DEF ThreadInv
  <2>4. rpt \/ w = EngineWrites => t3' = t3
    BY <2>1 DEF Committed
  <2>5. QED
    BY <2>2, <2>3, <2>4
<1>6. QED
  BY <1>2, <1>3, <1>4, <1>5 DEF Write, Lock, Begin, BeginFails, Unlock

LEMMA ThreadStep ==
  ASSUME LockInv, RInv, CountInv, ReceivedInv, ThreadInv, [FeedNext]_feedVars
  PROVE  ThreadInv'
<1>0. /\ Messages = 1 .. MaxSends /\ MaxSends \in Nat /\ Writers = 1 .. MaxSends + 1
      /\ Len(rreceived) \in Nat /\ Len(rsent) \in Nat /\ Len(rreceived) <= Len(rsent)
      /\ Len(rsent) <= MaxSends /\ tpc \in [Writers -> Places]
      /\ EngineWrites \notin Messages
  BY FeedsAssumption, SlotAssumption
  DEF Writers, RInv, R!TypeOK, LockInv, ReceivedInv, CountInv, Reports, EngineWrites
<1>1. ASSUME UNCHANGED <<t3, rreceived>>,
             \A w \in Messages : tpc'[w] = tpc[w]
      PROVE  ThreadInv'
  BY <1>0, <1>1, StillThreads
<1>2. CASE Order \/ Matched
  <2>1. UNCHANGED <<t3, rreceived>> /\ tpc' = [tpc EXCEPT ![EngineWrites] = "lock"]
    BY <1>2 DEF Order, Matched, StartWrite, Enter, rvars
  <2>2. QED
    BY <1>0, <1>1, <2>1
<1>3. CASE EngineWrite
  BY <1>0, <1>3, WriteThreads, EngineIsWriter DEF EngineWrite, rvars
<1>4. CASE CommunicateTrade \/ TradeStep \/ TradePub
  BY <1>1, <1>4 DEF CommunicateTrade, TradeStep, TradePub, rvars, dbVars
<1>5. CASE CommunicateReportingMsg
  BY <1>1, <1>5 DEF CommunicateReportingMsg, R!Call, dbVars
<1>6. CASE ReportStep
  BY <1>1, <1>6, RWriterCounts DEF ReportStep, dbVars
<1>7. CASE EngineLeave
  <2>1. UNCHANGED <<t3, rreceived>> /\ tpc' = [tpc EXCEPT ![EngineWrites] = "dead"]
    BY <1>7 DEF EngineLeave, R!WriterLeave
  <2>2. QED
    BY <1>0, <1>1, <2>1
<1>8. ASSUME UNCHANGED <<t3, rreceived>>, ThreadsEnd PROVE ThreadInv'
  <2>1. \A w \in Messages :
           /\ tpc[w] = "done" => tpc'[w] = "done"
           /\ tpc'[w] # "none" => tpc[w] # "none"
    BY <1>0, <1>8 DEF ThreadsEnd
  <2>2. QED
    BY <1>0, <1>8, <2>1, StillThreads
<1>9. CASE RptEng
  <2>1. t3' = t3
    BY <1>9 DEF RptEng
  <2>2. CASE R!Publish
    <3>1. /\ Len(rreceived') = Len(rreceived) + 1 /\ rrpc' # "gone"
          /\ \A i \in 1 .. Len(rreceived) : rreceived'[i] = rreceived[i]
          /\ R!InFlight
      BY <2>2, Published
    <3>2. tpc' = [tpc EXCEPT ![Len(rreceived) + 1] = "lock"]
      BY <1>9, <3>1 DEF RptEng, Enter
    <3>3. \A w \in Messages :
             /\ tpc[w] = "done" => tpc'[w] = "done"
             /\ tpc'[w] # "none" => tpc[w] # "none" \/ w <= Len(rreceived')
      BY <1>0, <3>1, <3>2 DEF ThreadInv
    <3>4. QED
      BY <1>0, <2>1, <3>1, <3>3, StillThreads
  <2>3. CASE UNCHANGED rreceived
    BY <1>1, <1>8, <1>9, <2>1, <2>3 DEF RptEng
  <2>4. R!Publish \/ UNCHANGED rreceived
    BY <1>9 DEF RptEng, R!Reader, R!Take, R!TakeFails, R!Convert, R!Release
  <2>5. QED
    BY <2>2, <2>3, <2>4
<1>10. CASE RptEngLeave
  BY <1>8, <1>10 DEF RptEngLeave, R!ReaderLeave
<1>11. CASE RptEngRemovesDb \/ ReportBegin \/ ReportEnd
  BY <1>1, <1>11 DEF RptEngRemovesDb, ReportBegin, ReportEnd, rvars
<1>12. ASSUME NEW w \in Writers, Thread(w) PROVE ThreadInv'
  BY <1>0, <1>12, WriteThreads DEF Thread, rvars
<1>13. CASE UNCHANGED feedVars
  BY <1>1, <1>13 DEF feedVars, rvars, dbVars
<1>14. QED
  BY <1>2, <1>3, <1>4, <1>5, <1>6, <1>7, <1>9, <1>10, <1>11, <1>12, <1>13
  DEF FeedNext, EngineWork

FeedInv ==
  IInv /\ LockInv /\ RInv /\ CountInv /\ ReportInv /\ ReceivedInv /\ ThreadInv

LEMMA FeedInductive == FeedSpec => []FeedInv
<1>1. FeedInit => FeedInv
  BY InitIInv, InitLock, InitReports DEF FeedInit, FeedInv
<1>2. FeedInv /\ [FeedNext]_feedVars => FeedInv'
  <2> SUFFICES ASSUME FeedInv, [FeedNext]_feedVars PROVE FeedInv'
    OBVIOUS
  <2>1. IInv /\ TypeOK
    BY DEF FeedInv, IInv
  <2>2. [Next]_vars
    BY <2>1, FeedStepIsSlotStep
  <2>3. IInv'
    BY <2>1, <2>2, TypeAndToken, SlotStep DEF IInv
  <2>4. QED
    BY <2>1, <2>3, LockStep, RStep, CountStep, ReportInvStep, ReceivedStep, ThreadStep
    DEF FeedInv
<1>3. QED
  BY <1>1, <1>2, PTL DEF FeedSpec

\* The engine calls CommunicateReportingMsg once for each trade, the segment
\* hands each report over whole, and the thread works on a copy of its own: so
\* each row of t3 is a trade that was reported, and no trade has two, whichever
\* thread comes first, whatever SQLite refuses and whoever is stopped.
THEOREM RowsAreTrades == FeedSpec => []RowsAreReports
<1>1. FeedInv => RowsAreReports
  BY DEF FeedInv, ThreadInv, RowsAreReports
<1>2. QED
  BY FeedInductive, <1>1, PTL
-----------------------------------------------------------------------------
(* Types *)

\* What FeedTypeOK says of engine, database and rpt.
TableInv ==
  /\ epc \in {"idle", "order", "match", "trade", "traded", "report", "ended"}
  /\ {dbset, rpt, disturbed} \subseteq BOOLEAN
  /\ semiddb \in 0 .. 1
  /\ holder \in Writers \cup {Nobody}
  /\ t2 \subseteq {OrderRow(m) : m \in 0 .. MaxSends}

\* One writer's step.
LEMMA WriteTables ==
  ASSUME TypeOK, LockInv, CountInv, TableInv, NEW w \in Writers, Write(w), UNCHANGED epc
  PROVE  TableInv'
<1> USE DEF TableInv
<1>1. CASE Lock(w)
  BY <1>1 DEF Lock
<1>2. CASE Begin(w)
  BY <1>2 DEF Begin
<1>3. ASSUME InDatabase(w), holder' \in {holder, Nobody}, NEW t, Unlock(w, t),
             t[1] \subseteq {OrderRow(m) : m \in 0 .. MaxSends}
      PROVE  TableInv'
  <2>1. dbset => semiddb = 0
    BY <1>3 DEF LockInv
  <2>2. semiddb' \in 0 .. 1
    BY <1>3, <2>1 DEF Unlock
  <2>3. QED
    BY <1>3, <2>2 DEF Unlock
<1>4. CASE BeginFails(w)
  BY <1>3, <1>4 DEF BeginFails, InDatabase
<1>5. CASE Commit(w)
  <2> DEFINE t == IF rpt THEN <<t2, t3>> ELSE Committed(w)
  <2>1. epc = "order" => Current \in 0 .. MaxSends
    BY SlotAssumption DEF CountInv, Trades, Current, TypeOK
  <2>2. t[1] \subseteq {OrderRow(m) : m \in 0 .. MaxSends}
    BY <2>1 DEF Committed
  <2> HIDE DEF t
  <2>3. Unlock(w, t) /\ InDatabase(w) /\ holder' = Nobody
    BY <1>5 DEF Commit, InDatabase, t
  <2>4. QED
    BY <1>3, <2>2, <2>3
<1>6. QED
  BY <1>1, <1>2, <1>4, <1>5 DEF Write

LEMMA TableStep ==
  ASSUME TypeOK, LockInv, CountInv, TableInv, [FeedNext]_feedVars
  PROVE  TableInv'
<1>1. ASSUME UNCHANGED <<dbset, rpt, disturbed, semiddb, holder, t2>>,
             epc' \in {"idle", "order", "match", "trade", "traded", "report", "ended"}
      PROVE  TableInv'
  BY <1>1 DEF TableInv
<1>2. CASE Order \/ Matched
  BY <1>1, <1>2 DEF Order, Matched, StartWrite, At
<1>3. CASE EngineWrite
  BY <1>3, WriteTables, EngineIsWriter DEF EngineWrite
<1>4. CASE CommunicateTrade \/ TradeStep \/ CommunicateReportingMsg \/ ReportStep \/ TradePub
  BY <1>1, <1>4
  DEF CommunicateTrade, TradeStep, CommunicateReportingMsg, ReportStep, TradePub, At,
      dbVars, TableInv
<1>5. CASE EngineLeave
  BY <1>5 DEF EngineLeave, TableInv
<1>6. CASE RptEng \/ RptEngLeave
  <2>1. UNCHANGED <<epc, dbset, semiddb, rpt, t2, disturbed>>
    BY <1>6 DEF RptEng, RptEngLeave
  <2>2. holder' \in {holder, Nobody}
    BY <1>6 DEF RptEng, RptEngLeave, ThreadsEnd
  <2>3. QED
    BY <2>1, <2>2 DEF TableInv
<1>7. CASE RptEngRemovesDb \/ ReportBegin \/ ReportEnd
  BY <1>7 DEF RptEngRemovesDb, ReportBegin, ReportEnd, TableInv
<1>8. ASSUME NEW w \in Writers, Thread(w) PROVE TableInv'
  BY <1>8, WriteTables DEF Thread
<1>9. CASE UNCHANGED feedVars
  BY <1>9 DEF feedVars, dbVars, TableInv
<1>10. QED
  BY <1>2, <1>3, <1>4, <1>5, <1>6, <1>7, <1>8, <1>9 DEF FeedNext, EngineWork

LEMMA TablesHold == FeedSpec => []TableInv
<1>1. FeedInit => TableInv
  <2>1. 0 \in 0 .. MaxSends
    BY SlotAssumption
  <2>2. {OrderRow(0)} \subseteq {OrderRow(m) : m \in 0 .. MaxSends}
    BY <2>1
  <2>3. QED
    <3> SUFFICES ASSUME FeedInit PROVE TableInv
      OBVIOUS
    <3>1. /\ epc = "idle" /\ dbset = TRUE /\ rpt = FALSE /\ disturbed = FALSE
          /\ semiddb = 1 /\ holder = Nobody /\ t2 = {OrderRow(0)}
      BY DEF FeedInit
    <3>2. semiddb \in 0 .. 1
      BY <3>1
    <3>3. dbset \in BOOLEAN /\ rpt \in BOOLEAN /\ disturbed \in BOOLEAN
      BY <3>1, Zenon
    <3>4. t2 \subseteq {OrderRow(m) : m \in 0 .. MaxSends}
      BY <2>2, <3>1
    <3>5. QED
      BY <3>1, <3>2, <3>3, <3>4 DEF TableInv
<1>2. FeedInv /\ TableInv /\ [FeedNext]_feedVars => TableInv'
  BY TableStep DEF FeedInv, IInv
<1>3. QED
  BY FeedInductive, <1>1, <1>2, PTL DEF FeedSpec

\* semiddb is a semaphore of one, the tables hold rows that the trades
\* account for, and both segments have at every step what the step uses.
THEOREM FeedsTyped == FeedSpec => []FeedTypeOK
<1>1. FeedInv /\ TableInv => FeedTypeOK
  <2> SUFFICES ASSUME FeedInv, TableInv PROVE FeedTypeOK
    OBVIOUS
  <2>1. TypeOK /\ R!TypeOK
    BY DEF FeedInv, IInv, RInv
  <2>2. ToSet(t3) \subseteq {Row(m) : m \in Messages}
    BY DEF FeedInv, ThreadInv, ToSet
  <2>3. tpc \in [Writers -> {"none", "lock", "begin", "commit", "done", "dead"}]
    BY DEF FeedInv, LockInv, Places
  <2>4. QED
    BY <2>1, <2>2, <2>3 DEF FeedTypeOK, TableInv
<1>2. QED
  BY FeedInductive, TablesHold, <1>1, PTL
-----------------------------------------------------------------------------
(* What rpt prints *)

\* What the rows of s at the places L add up to.
Volume(s, L) == MapThenSumSet(LAMBDA i : s[i].quantity, L)

\* Quantities of one add up to their number, in whatever order a sum takes them.
LEMMA SumOfOnes ==
  ASSUME NEW s, NEW L, IsFiniteSet(L), \A i \in L : s[i].quantity = 1
  PROVE  Volume(s, L) = Cardinality(L)
<1> DEFINE First(T) == CHOOSE x \in T : TRUE
           IsIter(f) ==
             f = [T \in SUBSET L |->
                    IF T = {} THEN 0
                    ELSE LET x == CHOOSE x \in T : TRUE
                         IN s[x].quantity + f[T \ {x}]]
           Size == [T \in SUBSET L |-> Cardinality(T)]
           h == CHOOSE f : IsIter(f)
<1>1. Volume(s, L) = h[L]
  BY DEF Volume, MapThenSumSet, MapThenFoldSet
<1>2. ASSUME NEW T \in SUBSET L
      PROVE  /\ Cardinality(T) \in Nat
             /\ T = {} => Cardinality(T) = 0
             /\ T # {} => /\ First(T) \in T /\ T \ {First(T)} \in SUBSET L
                          /\ s[First(T)].quantity = 1
                          /\ Cardinality(T) = 1 + Cardinality(T \ {First(T)})
  <2>1. IsFiniteSet(T) /\ Cardinality(T) \in Nat
    BY FS_Subset, FS_CardinalityType
  <2>2. T # {} => First(T) \in T
    OBVIOUS
  <2> HIDE DEF First
  <2>3. T # {} => Cardinality(T \ {First(T)}) = Cardinality(T) - 1
    BY <2>1, <2>2, FS_RemoveElement
  <2>4. T = {} => Cardinality(T) = 0
    BY FS_EmptySet
  <2>5. QED
    BY <2>1, <2>2, <2>3, <2>4
<1>3. IsIter(Size)
  <2>1. \A T \in SUBSET L :
           Size[T] = IF T = {} THEN 0 ELSE s[First(T)].quantity + Size[T \ {First(T)}]
    BY <1>2
  <2>2. QED
    BY <2>1
<1>4. IsIter(h)
  <2> HIDE DEF IsIter
  <2>1. QED
    BY <1>3, Zenon
<1>5. /\ \A T \in SUBSET L :
            h[T] = IF T = {} THEN 0 ELSE s[First(T)].quantity + h[T \ {First(T)}]
  <2> HIDE DEF h
  <2>1. QED
    BY <1>4
<1> HIDE DEF h, First, IsIter, Size
<1> DEFINE Bad == {T \in SUBSET L : h[T] # Cardinality(T)}
<1>6. Bad = {}
  <2> SUFFICES ASSUME Bad # {} PROVE FALSE
    OBVIOUS
  <2>1. Bad \subseteq FiniteSubsetsOf(L)
    BY FS_Subset DEF FiniteSubsetsOf
  <2>2. PICK X \in Bad : \A Y \in Bad : ~(<<Y, X>> \in StrictSubsetOrdering(L))
    <3> HIDE DEF Bad
    <3>1. QED
      BY <2>1, WFMin, FS_StrictSubsetOrderingWellFounded
  <2>3. X \in SUBSET L /\ h[X] # Cardinality(X)
    OBVIOUS
  <2>4. X # {} /\ First(X) \in X /\ X \ {First(X)} \in SUBSET L
    BY <1>2, <1>5, <2>3
  <2>5. <<X \ {First(X)}, X>> \in StrictSubsetOrdering(L)
    BY <2>1, <2>3, <2>4, FS_Subset DEF StrictSubsetOrdering, FiniteSubsetsOf
  <2>6. h[X \ {First(X)}] = Cardinality(X \ {First(X)})
    BY <2>2, <2>4, <2>5
  <2>7. h[X] = Cardinality(X)
    BY <1>2, <1>5, <2>3, <2>4, <2>6
  <2>8. QED
    BY <2>3, <2>7
<1>7. QED
  BY <1>1, <1>6

\* The engine has stored an order whose trade it has not handed over.
InHand ==
  /\ Alive
  /\ \/ epc \in {"match", "trade"}
     \/ epc = "order" /\ tpc[EngineWrites] = "done"

\* As long as nobody takes a lock away or runs rpt, nothing is lost: a thread that
\* is done has its row in t3, and an order is in t2 before its trade is made.
AgreeInv ==
  ~disturbed =>
    /\ dbset /\ ~rpt
    /\ holder # Nobody => holder \in Writers /\ tpc[holder] = "commit"
    /\ \A w \in 1 .. Len(rreceived) :
         /\ tpc[w] \notin {"none", "dead"}
         /\ tpc[w] = "done" => \E i \in 1 .. Len(t3) : t3[i] = Row(rreceived[w].text)
    /\ \A m \in 0 .. Trades : OrderRow(m) \in t2
    /\ InHand => OrderRow(Trades + 1) \in t2
    /\ epc \notin {"order", "match"} => tpc[EngineWrites] \in {"none", "done"}

\* One writer's step: with the lock it has nobody refuses its statement.
LEMMA WriteAgrees ==
  ASSUME TypeOK, RInv, LockInv, CountInv, ThreadInv, AgreeInv, Len(rreceived) <= MaxSends,
         NEW w \in Writers, Write(w), UNCHANGED <<vars, rvars, epc>>
  PROVE  AgreeInv'
<1>1. /\ Messages = 1 .. MaxSends /\ MaxSends \in Nat /\ Writers = 1 .. MaxSends + 1
      /\ Len(rreceived) \in Nat /\ tpc \in [Writers -> Places] /\ Trades \in Nat
  BY FeedsAssumption, SlotAssumption, CountTypes DEF Writers, RInv, R!TypeOK, LockInv
<1>2. /\ disturbed' = disturbed /\ dbset' = dbset /\ rpt' = rpt
      /\ rreceived' = rreceived /\ Trades' = Trades /\ Current = Trades + 1
      /\ Alive' = Alive /\ epc' = epc
  <2>1. UNCHANGED <<sent, dropped, wpc, rwpc, rreceived>>
    BY DEF vars, writerVars, rvars
  <2>2. disturbed' = disturbed /\ dbset' = dbset /\ rpt' = rpt
    BY DEF Write, Lock, Begin, BeginFails, Commit, Unlock
  <2>3. QED
    <3>1. Trades' = Trades /\ Current = Trades + 1
      BY <2>1 DEF Trades, Current
    <3>2. Alive' = Alive
      BY <2>1 DEF Alive
    <3>3. QED
      BY <2>1, <2>2, <3>1, <3>2
<1>3. SUFFICES ASSUME ~disturbed PROVE AgreeInv'
  BY <1>2 DEF AgreeInv
<1>4. /\ dbset /\ ~rpt
      /\ holder # Nobody => holder \in Writers /\ tpc[holder] = "commit"
  BY <1>3 DEF AgreeInv
<1>5. \A v \in Writers : InDatabase(v) /\ InDatabase(w) => v = w
  BY <1>4 DEF LockInv
<1>6. \A v \in 1 .. Len(rreceived) : v \in Writers /\ v # EngineWrites
  BY <1>1 DEF EngineWrites
<1>7. ASSUME NEW x \in {"begin", "commit"}, tpc' = [tpc EXCEPT ![w] = x],
             tpc[w] \in {"lock", "begin"}, UNCHANGED <<t2, t3>>,
             holder' # Nobody => holder' \in Writers /\ tpc'[holder'] = "commit"
      PROVE  AgreeInv'
  <2>1. \A v \in Writers : \/ tpc'[v] = tpc[v]
                           \/ tpc'[v] \in {"begin", "commit"}
    BY <1>1, <1>7
  <2>2. InHand' => InHand
    BY <1>1, <1>2, <2>1, EngineIsWriter DEF InHand
  <2>3. epc \notin {"order", "match"} => tpc'[EngineWrites] \in {"none", "done"}
    BY <1>1, <1>3, <1>7, EngineIsWriter DEF AgreeInv
  <2>4. \A v \in 1 .. Len(rreceived) :
           /\ tpc'[v] \notin {"none", "dead"}
           /\ tpc'[v] = "done" => \E i \in 1 .. Len(t3) : t3[i] = Row(rreceived[v].text)
    BY <1>3, <1>6, <2>1 DEF AgreeInv
  <2>5. QED
    BY <1>2, <1>3, <1>4, <1>7, <2>2, <2>3, <2>4 DEF AgreeInv
<1>8. CASE Lock(w)
  <2>1. holder # w
    BY <1>1, <1>4, <1>8 DEF Lock, Nobody
  <2>2. holder # Nobody => tpc'[holder] = tpc[holder]
    BY <1>1, <1>4, <1>8, <2>1 DEF Lock
  <2>3. QED
    BY <1>4, <1>7, <1>8, <2>2 DEF Lock
<1>9. CASE Begin(w)
  <2>1. tpc'[w] = "commit"
    BY <1>1, <1>9 DEF Begin
  <2>2. QED
    BY <1>7, <1>9, <2>1 DEF Begin
<1>10. CASE BeginFails(w)
  <2>1. holder \in Writers /\ tpc[holder] = "commit" /\ tpc[w] = "begin"
    BY <1>4, <1>10 DEF BeginFails
  <2>2. holder = w
    BY <1>5, <2>1 DEF InDatabase
  <2>3. QED
    BY <2>1, <2>2
<1>11. CASE Commit(w)
  <2>1. /\ tpc[w] = "commit" /\ tpc' = [tpc EXCEPT ![w] = "done"] /\ holder' = Nobody
        /\ t2' = Committed(w)[1] /\ t3' = Committed(w)[2]
    BY <1>4, <1>11 DEF Commit, Unlock
  <2>2. \A v \in Writers : tpc'[v] = IF v = w THEN "done" ELSE tpc[v]
    BY <1>1, <2>1
  <2>3. CASE w = EngineWrites
    <3>1. t3' = t3 /\ t2 \subseteq t2' /\ (epc = "order" => OrderRow(Current) \in t2')
      BY <2>1, <2>3 DEF Committed
    <3>2. \A v \in 1 .. Len(rreceived) : tpc'[v] = tpc[v]
      BY <1>6, <2>2, <2>3
    <3>3. \A m \in 0 .. Trades : OrderRow(m) \in t2'
      BY <1>3, <3>1 DEF AgreeInv
    <3>4. InHand' => OrderRow(Trades + 1) \in t2'
      <4>1. CASE epc = "order"
        BY <1>2, <3>1, <4>1
      <4>2. CASE epc # "order"
        BY <1>2, <1>3, <3>1, <4>2 DEF AgreeInv, InHand
      <4>3. QED
        BY <4>1, <4>2
    <3>5. tpc'[EngineWrites] = "done"
      BY <2>2, <2>3, EngineIsWriter
    <3>6. QED
      BY <1>2, <1>3, <1>4, <2>1, <3>1, <3>2, <3>3, <3>4, <3>5 DEF AgreeInv
  <2>4. CASE w # EngineWrites
    <3> DEFINE r == Row(rreceived[w].text)
    <3>1. t3' = Append(t3, r) /\ t2' = t2 /\ t3 \in Seq({Row(m) : m \in Messages})
      BY <2>1, <2>4 DEF Committed, Copied, ThreadInv
    <3>2. tpc'[EngineWrites] = tpc[EngineWrites]
      BY <2>2, <2>4, EngineIsWriter
    <3>3. InHand' => InHand
      BY <1>2, <3>2 DEF InHand
    <3> HIDE DEF r
    <3>4. /\ Len(t3') = Len(t3) + 1 /\ Len(t3) \in Nat
          /\ t3'[Len(t3) + 1] = r
          /\ \A i \in 1 .. Len(t3) : t3'[i] = t3[i]
      BY <3>1
    <3>5. ASSUME NEW v \in 1 .. Len(rreceived)
          PROVE  /\ tpc'[v] \notin {"none", "dead"}
                 /\ tpc'[v] = "done" =>
                      \E i \in 1 .. Len(t3') : t3'[i] = Row(rreceived[v].text)
      <4>1. CASE v = w
        <5>1. Len(t3) + 1 \in 1 .. Len(t3')
          BY <3>4
        <5>2. QED
          BY <1>6, <2>2, <3>4, <4>1, <5>1 DEF r
      <4>2. CASE v # w
        <5>1. tpc'[v] = tpc[v] /\ tpc[v] \notin {"none", "dead"}
          BY <1>3, <1>6, <2>2, <4>2 DEF AgreeInv
        <5>2. ASSUME tpc[v] = "done"
              PROVE  \E i \in 1 .. Len(t3') : t3'[i] = Row(rreceived[v].text)
          <6>1. PICK i \in 1 .. Len(t3) : t3[i] = Row(rreceived[v].text)
            BY <1>3, <5>2 DEF AgreeInv
          <6>2. i \in 1 .. Len(t3') /\ t3'[i] = t3[i]
            BY <3>4
          <6>3. QED
            BY <6>1, <6>2
        <5>3. QED
          BY <5>1, <5>2
      <4>3. QED
        BY <4>1, <4>2
    <3>6. QED
      BY <1>2, <1>3, <1>4, <2>1, <3>1, <3>2, <3>3, <3>5 DEF AgreeInv
  <2>5. QED
    BY <2>3, <2>4
<1>12. QED
  BY <1>8, <1>9, <1>10, <1>11 DEF Write

LEMMA AgreeStep ==
  ASSUME TypeOK, RInv, LockInv, CountInv, ReceivedInv, ThreadInv, AgreeInv,
         [FeedNext]_feedVars
  PROVE  AgreeInv'
<1>1. /\ Messages = 1 .. MaxSends /\ MaxSends \in Nat /\ Writers = 1 .. MaxSends + 1
      /\ Len(rreceived) \in Nat /\ Len(rsent) \in Nat /\ tpc \in [Writers -> Places]
      /\ Trades \in Nat /\ rdropped \in Nat
  BY FeedsAssumption, SlotAssumption, CountTypes DEF Writers, RInv, R!TypeOK, LockInv
<1>2. /\ Len(rreceived) + (IF R!InFlight THEN 1 ELSE 0) <= Len(rsent)
      /\ Len(rsent) <= MaxSends
  BY <1>1 DEF ReceivedInv, CountInv, Reports
<1>3. Len(rreceived) <= MaxSends
  BY <1>1, <1>2
<1>4. ASSUME NEW w \in Writers, Write(w), UNCHANGED <<vars, rvars, epc>>
      PROVE  AgreeInv'
  BY <1>3, <1>4, WriteAgrees
<1>5. disturbed => disturbed'
  BY DEF FeedNext, Order, EngineWork, Matched, StartWrite, EngineWrite, CommunicateTrade,
     TradeStep, CommunicateReportingMsg, ReportStep, EngineLeave, TradePub, RptEng,
     RptEngRemovesDb, RptEngLeave, Thread, ReportBegin, ReportEnd, Write, Lock, Begin,
     BeginFails, Commit, Unlock, dbVars, feedVars
<1>6. SUFFICES ASSUME ~disturbed, ~disturbed' PROVE AgreeInv'
  BY <1>5 DEF AgreeInv
<1>7. /\ dbset /\ ~rpt /\ rexists
      /\ holder # Nobody => holder \in Writers /\ tpc[holder] = "commit"
  BY <1>6 DEF AgreeInv, LockInv
<1>8. EngineWrites \notin 1 .. Len(rreceived) /\ EngineWrites \in Writers
  BY <1>1, <1>3, EngineIsWriter DEF EngineWrites
\* The engine begins a statement.
<1>9. ASSUME tpc' = [tpc EXCEPT ![EngineWrites] = "lock"], tpc[EngineWrites] \in {"none", "done"},
             epc' \in {"order", "match"}, InHand' => InHand,
             UNCHANGED <<vars, rvars, dbset, holder, rpt, t2, t3>>
      PROVE  AgreeInv'
  <2>1. \A v \in Writers : v # EngineWrites => tpc'[v] = tpc[v]
    BY <1>1, <1>9
  <2>2. \A v \in 1 .. Len(rreceived) : tpc'[v] = tpc[v]
    BY <1>1, <1>3, <1>8, <2>1
  <2>3. holder # Nobody => tpc'[holder] = tpc[holder]
    BY <1>7, <1>9, <2>1
  <2>4. rreceived' = rreceived /\ Trades' = Trades
    BY <1>9 DEF rvars, vars, Trades
  <2>5. QED
    BY <1>6, <1>7, <1>9, <2>2, <2>3, <2>4 DEF AgreeInv
<1>10. CASE Order
  <2>1. /\ tpc' = [tpc EXCEPT ![EngineWrites] = "lock"] /\ epc = "idle" /\ epc' = "order"
        /\ UNCHANGED <<vars, rvars, dbset, holder, rpt, t2, t3>>
    BY <1>10 DEF Order, StartWrite, At, Enter
  <2>2. ~InHand'
    BY <1>1, <1>8, <2>1 DEF InHand
  <2>3. QED
    BY <1>6, <1>9, <2>1, <2>2 DEF AgreeInv
<1>11. CASE Matched
  <2>1. /\ tpc' = [tpc EXCEPT ![EngineWrites] = "lock"] /\ epc = "order" /\ epc' = "match"
        /\ UNCHANGED <<vars, rvars, dbset, holder, rpt, t2, t3>>
        /\ Alive /\ tpc[EngineWrites] = "done"
    BY <1>11 DEF Matched, StartWrite, At, Enter
  <2>2. InHand
    BY <2>1 DEF InHand
  <2>3. QED
    BY <1>9, <2>1, <2>2
<1>12. CASE EngineWrite
  BY <1>4, <1>8, <1>12 DEF EngineWrite
\* The engine goes on without a statement.
<1>13. ASSUME UNCHANGED <<dbset, holder, rpt, tpc, t2, t3, rreceived>>,
              epc' \notin {"order", "match"} => tpc[EngineWrites] \in {"none", "done"},
              \/ Trades' = Trades /\ (InHand' => InHand)
              \/ Trades' = Trades + 1 /\ InHand /\ ~InHand'
       PROVE  AgreeInv'
  <2>1. \A m \in 0 .. Trades' : OrderRow(m) \in t2
    BY <1>1, <1>6, <1>13 DEF AgreeInv
  <2>2. InHand' => OrderRow(Trades' + 1) \in t2
    BY <1>6, <1>13 DEF AgreeInv
  <2>3. QED
    BY <1>6, <1>7, <1>13, <2>1, <2>2 DEF AgreeInv
<1>14. CASE CommunicateTrade
  <2>1. /\ tpc[EngineWrites] = "done" /\ Alive /\ epc = "match" /\ epc' = "trade"
        /\ UNCHANGED <<rvars, dbVars, sent, dropped>>
    BY <1>14 DEF CommunicateTrade, At, Call
  <2>2. InHand /\ Trades' = Trades
    BY <2>1 DEF InHand, Trades
  <2>3. QED
    BY <1>13, <2>1, <2>2 DEF dbVars, rvars
<1>15. CASE TradeStep
  <2>1. /\ Alive /\ epc = "trade" /\ Writer /\ UNCHANGED <<rvars, dbVars>>
        /\ epc' = IF wpc' = "idle" THEN "traded" ELSE "trade"
    BY <1>15 DEF TradeStep
  <2>2. \/ Trades' = Trades
        \/ Trades' = Trades + 1 /\ wpc' \in {"idle", "ended"}
    BY <2>1, WriterCounts
  <2>3. InHand /\ tpc[EngineWrites] \in {"none", "done"}
    BY <1>6, <2>1 DEF InHand, AgreeInv
  <2>4. wpc' \in {"idle", "ended"} => ~InHand'
    BY <2>1 DEF InHand, Alive
  <2>5. QED
    BY <1>13, <2>1, <2>2, <2>3, <2>4 DEF dbVars, rvars
<1>16. CASE CommunicateReportingMsg \/ ReportStep
  <2>1. /\ epc \in {"traded", "report"} /\ epc' \in {"report", "idle"}
        /\ UNCHANGED <<vars, dbVars>>
    BY <1>16 DEF CommunicateReportingMsg, ReportStep, At
  <2>2. rreceived' = rreceived
    BY <1>16, RWriterCounts DEF CommunicateReportingMsg, ReportStep, R!Call
  <2>3. Trades' = Trades /\ ~InHand' /\ tpc[EngineWrites] \in {"none", "done"}
    BY <1>6, <2>1 DEF Trades, vars, InHand, AgreeInv
  <2>4. QED
    BY <1>13, <2>1, <2>2, <2>3 DEF dbVars
<1>17. CASE TradePub \/ ReportEnd \/ UNCHANGED feedVars
  <2>1. /\ UNCHANGED <<sent, dropped, wpc, rvars>> /\ epc' = epc
        /\ UNCHANGED <<dbset, holder, tpc, t2, t3>> /\ rpt' \in {rpt, FALSE}
    BY <1>17, ReaderCounts DEF TradePub, ReportEnd, feedVars, dbVars, vars, writerVars
  <2>2. Trades' = Trades /\ (InHand' => InHand) /\ rreceived' = rreceived
    BY <2>1 DEF Trades, InHand, Alive, rvars
  <2>3. QED
    BY <1>6, <1>7, <1>13, <2>1, <2>2 DEF AgreeInv
<1>18. CASE RptEng
  <2>1. rrpc' # "gone"
    BY <1>7, <1>18
    DEF RptEng, R!Reader, R!Take, R!TakeFails, R!Convert, R!Publish, R!Release
  <2>2. /\ R!Reader /\ UNCHANGED <<vars, epc, dbset, rpt, t2, t3, holder>>
        /\ rwpc' = rwpc
        /\ IF rreceived' # rreceived THEN Enter(Len(rreceived')) ELSE tpc' = tpc
    BY <1>18, <2>1, ReaderCounts DEF RptEng
  <2>3. Trades' = Trades /\ Alive' = Alive
    BY <2>2 DEF vars, writerVars, Trades, Alive
  <2>4. CASE rreceived' = rreceived
    BY <1>13, <2>2, <2>3, <2>4, <1>6 DEF AgreeInv, InHand
  <2>5. CASE R!Publish
    <3> DEFINE v == Len(rreceived) + 1
    <3>1. /\ Len(rreceived') = v /\ R!InFlight
          /\ \A i \in 1 .. Len(rreceived) : rreceived'[i] = rreceived[i]
      BY <2>5, Published
    <3>2. v \in Messages /\ v \in Writers /\ v # EngineWrites
      BY <1>1, <1>2, <3>1 DEF EngineWrites
    <3>3. tpc[v] = "none"
      BY <1>1, <3>2 DEF ThreadInv
    <3>4. tpc' = [tpc EXCEPT ![v] = "lock"]
      <4>1. rreceived' # rreceived
        BY <1>1, <3>1
      <4>2. QED
        BY <2>2, <3>1, <4>1 DEF Enter
    <3>5. /\ tpc'[v] = "lock" /\ \A w \in Writers : w # v => tpc'[w] = tpc[w]
      BY <1>1, <3>2, <3>4
    <3>6. holder # Nobody => tpc'[holder] = "commit"
      BY <1>7, <3>3, <3>5
    <3>7. ASSUME NEW w \in 1 .. Len(rreceived')
          PROVE  /\ tpc'[w] \notin {"none", "dead"}
                 /\ tpc'[w] = "done" =>
                      \E i \in 1 .. Len(t3) : t3[i] = Row(rreceived'[w].text)
      <4>1. CASE w = v
        BY <3>5, <4>1
      <4>2. CASE w # v
        <5>1. w \in 1 .. Len(rreceived) /\ w \in Writers
          BY <1>1, <1>3, <3>1, <4>2
        <5>2. QED
          BY <1>6, <3>1, <3>5, <4>2, <5>1 DEF AgreeInv
      <4>3. QED
        BY <4>1, <4>2
    <3>8. tpc'[EngineWrites] = tpc[EngineWrites] /\ (InHand' => InHand)
      BY <1>8, <2>2, <2>3, <3>2, <3>5 DEF InHand
    <3> HIDE DEF v
    <3>9. QED
      BY <1>6, <1>7, <2>2, <2>3, <3>6, <3>7, <3>8 DEF AgreeInv
  <2>6. QED
    BY <2>2, <2>4, <2>5 DEF R!Reader, R!Take, R!TakeFails, R!Convert, R!Release
<1>19. CASE EngineLeave \/ RptEngRemovesDb \/ ReportBegin \/ RptEngLeave
  BY <1>6, <1>7, <1>19 DEF EngineLeave, RptEngRemovesDb, ReportBegin, RptEngLeave
<1>20. ASSUME NEW w \in Writers, Thread(w) PROVE AgreeInv'
  BY <1>4, <1>20 DEF Thread
<1>21. QED
  BY <1>10, <1>11, <1>12, <1>14, <1>15, <1>16, <1>17, <1>18, <1>19, <1>20
  DEF FeedNext, EngineWork

LEMMA CountTo ==
  ASSUME NEW n \in Nat
  PROVE  IsFiniteSet(1 .. n) /\ Cardinality(1 .. n) = n
<1>1. IsFiniteSet(1 .. n) /\ Cardinality(1 .. n) = IF 1 > n THEN 0 ELSE n - 1 + 1
  BY FS_Interval
<1>2. QED
  BY <1>1

\* The rows of t3 and the reports that were received correspond.
LEMMA AllRowsThere ==
  ASSUME RInv, CountInv, ReceivedInv, ThreadInv, AgreeInv, Settled
  PROVE  /\ Len(t3) = Len(rreceived) /\ Len(t3) \in Nat
         /\ \A i \in 1 .. Len(t3) : \E w \in 1 .. Len(rreceived) :
               t3[i] = Row(rreceived[w].text)
         /\ \A w \in 1 .. Len(rreceived) : \E i \in 1 .. Len(t3) :
               t3[i] = Row(rreceived[w].text)
<1> DEFINE S == 1 .. Len(t3)
           T == 1 .. Len(rreceived)
           f == [i \in S |-> CHOOSE w \in T : t3[i] = Row(rreceived[w].text)]
<1>1. /\ Len(rreceived) \in Nat /\ Len(t3) \in Nat /\ Len(rsent) \in Nat
      /\ MaxSends \in Nat /\ rdropped \in Nat
  BY ReceivedOnce, SlotAssumption DEF ThreadInv, RInv, R!TypeOK
<1>2. Len(rreceived) <= MaxSends
  BY <1>1 DEF ReceivedInv, CountInv, Reports
<1>3. ASSUME NEW i \in S PROVE \E w \in T : t3[i] = Row(rreceived[w].text)
  BY DEF ThreadInv
<1>4. ASSUME NEW w \in T PROVE \E i \in S : t3[i] = Row(rreceived[w].text)
  <2>1. w \in Writers
    BY <1>1, <1>2 DEF Writers
  <2>2. tpc[w] \in {"none", "done"} /\ ~disturbed
    BY <2>1 DEF Settled
  <2>3. QED
    BY <2>2 DEF AgreeInv
<1>5. \A i \in S : f[i] \in T /\ t3[i] = Row(rreceived[f[i]].text)
  BY <1>3
<1> HIDE DEF f
<1>6. f \in [S -> T]
  <2>1. f = [i \in S |-> f[i]]
    BY DEF f
  <2>2. QED
    BY <1>5, <2>1
<1>7. \A i, j \in S : f[i] = f[j] => i = j
  BY <1>5 DEF ThreadInv
<1>8. \A w \in T : \E i \in S : f[i] = w
  <2> SUFFICES ASSUME NEW w \in T PROVE \E i \in S : f[i] = w
    OBVIOUS
  <2>1. PICK i \in S : t3[i] = Row(rreceived[w].text)
    BY <1>4
  <2>2. f[i] \in T /\ rreceived[f[i]].text = rreceived[w].text
    BY <1>5, <2>1, RowsDiffer
  <2>3. QED
    BY <2>2, ReceivedOnce
<1>9. IsFiniteSet(S) /\ Cardinality(S) = Len(t3) /\ Cardinality(T) = Len(rreceived)
  BY <1>1, CountTo
<1>10. Cardinality(T) = Cardinality(S)
  <2> HIDE DEF S, T
  <2>1. f \in Bijection(S, T)
    BY <1>6, <1>7, <1>8, Fun_IsBij
  <2>2. QED
    BY <1>9, <2>1, FS_Bijection DEF ExistsBijection
<1>11. QED
  BY <1>1, <1>3, <1>4, <1>9, <1>10

\* What a column of t3 says of the trade.
LEMMA RowIs ==
  ASSUME NEW m
  PROVE  /\ Row(m).symbol = "MSFT" /\ Row(m).timestamp = m /\ Row(m).price = Price[m]
         /\ Row(m).quantity = 1 /\ Row(m).orderid1 = 0 /\ Row(m).orderid2 = m
  BY DEF Row

\* The row of the highest timestamp is that of the last report.
LEMMA CloseIsLast ==
  ASSUME RInv, CountInv, ReceivedInv, ThreadInv, AgreeInv, Settled, Len(rreceived) > 0
  PROVE  Close(1 .. Len(t3), t3) = Price[Last(rreceived).text]
<1> DEFINE n == Len(rreceived)
           T == 1 .. n
           S == 1 .. Len(t3)
           Latest(i) == \A j \in S : t3[j].timestamp <= t3[i].timestamp
           c == CHOOSE i \in S : Latest(i)
<1>1. n \in Nat /\ n \in T /\ Last(rreceived) = rreceived[n] /\ Messages \subseteq Nat
  BY ReceivedOnce, FeedsAssumption DEF Last
<1>2. ASSUME NEW w \in T
      PROVE  /\ rreceived[w].text \in Nat
             /\ w # n => rreceived[w].text < rreceived[n].text
  <2>1. rreceived[w].text \in Messages
    BY ReceivedOnce
  <2>2. w # n => w < n
    BY <1>1
  <2>3. QED
    BY <1>1, <2>1, <2>2 DEF ReceivedInv
<1>3. /\ \A i \in S : \E w \in T :
            /\ t3[i].timestamp = rreceived[w].text
            /\ t3[i].price = Price[rreceived[w].text]
      /\ \A w \in T : \E i \in S : t3[i].timestamp = rreceived[w].text
  <2>1. /\ \A i \in S : \E w \in T : t3[i] = Row(rreceived[w].text)
        /\ \A w \in T : \E i \in S : t3[i] = Row(rreceived[w].text)
    BY AllRowsThere
  <2> HIDE DEF S, T
  <2>2. QED
    BY <2>1, RowIs
<1>4. PICK k \in S : t3[k].timestamp = rreceived[n].text
  BY <1>1, <1>3
<1>5. Latest(k)
  <2> SUFFICES ASSUME NEW j \in S PROVE t3[j].timestamp <= t3[k].timestamp
    OBVIOUS
  <2>1. PICK w \in T : t3[j].timestamp = rreceived[w].text
    BY <1>3
  <2>2. rreceived[w].text \in Nat /\ rreceived[n].text \in Nat
    BY <1>1, <1>2
  <2>3. rreceived[w].text <= rreceived[n].text
    BY <1>2, <2>2
  <2>4. QED
    BY <1>4, <2>1, <2>3
<1>6. c \in S /\ Latest(c)
  <2> HIDE DEF Latest
  <2>1. QED
    BY <1>5
<1>7. Close(S, t3) = t3[c].price
  BY DEF Close
<1> HIDE DEF c
<1>8. PICK w \in T : /\ t3[c].timestamp = rreceived[w].text
                     /\ t3[c].price = Price[rreceived[w].text]
  BY <1>3, <1>6
<1>9. w = n
  <2>1. rreceived[n].text <= rreceived[w].text
    BY <1>4, <1>6, <1>8
  <2>2. QED
    BY <1>1, <1>2, <2>1
<1>10. QED
  BY <1>1, <1>7, <1>8, <1>9

\* Each row lists its two orders, which are in t2.
LEMMA FillsHaveBothOrders ==
  ASSUME RInv, CountInv, ReceivedInv, ThreadInv, AgreeInv, ReportInv, TypeOK, TableInv,
         Settled
  PROVE  Cardinality(trader_rpt(t3, t2)) = 2 * Len(rreceived)
<1> DEFINE S == 1 .. Len(t3)
           A == {<<i, OrderRow(0)>> : i \in S}
           B == {<<i, OrderRow(t3[i].orderid2)>> : i \in S}
           f == [i \in S |-> <<i, OrderRow(0)>>]
           g == [i \in S |-> <<i, OrderRow(t3[i].orderid2)>>]
<1>1. /\ Len(t3) = Len(rreceived) /\ Len(t3) \in Nat /\ ~disturbed
      /\ Messages = 1 .. MaxSends /\ Trades \in Nat
  BY AllRowsThere, FeedsAssumption, CountTypes DEF Settled
<1>2. ASSUME NEW i \in S
      PROVE  /\ t3[i].orderid1 = 0 /\ t3[i].orderid2 \in Nat \ {0}
             /\ OrderRow(0) \in t2 /\ OrderRow(t3[i].orderid2) \in t2
  <2>1. PICK w \in 1 .. Len(rreceived) : t3[i] = Row(rreceived[w].text)
    BY AllRowsThere
  <2>2. PICK j \in 1 .. Len(rsent) : rreceived[w].text = rsent[j].text
    BY DEF ReceivedInv
  <2>3. t3[i].orderid1 = 0 /\ t3[i].orderid2 = rsent[j].text
    BY <2>1, <2>2, RowIs
  <2>4. rsent[j].text \in Messages /\ rsent[j].text <= Trades
    BY DEF ReportInv, RInv, RSlotInv
  <2>5. \A m \in 0 .. Trades : OrderRow(m) \in t2
    BY <1>1 DEF AgreeInv
  <2>6. rsent[j].text \in 1 .. Trades /\ 0 \in 0 .. Trades
    BY <1>1, <2>4
  <2>7. QED
    BY <2>3, <2>5, <2>6
<1>3. \A o \in t2 : \A m : o.t1key = m => o = OrderRow(m)
  <2>1. \A m : OrderRow(m).t1key = m
    BY DEF OrderRow
  <2>2. QED
    BY <2>1 DEF TableInv
<1>4. trader_rpt(t3, t2) = A \cup B
  <2>1. \A m : OrderRow(m).t1key = m
    BY DEF OrderRow
  <2>2. ASSUME NEW line \in trader_rpt(t3, t2) PROVE line \in A \cup B
    <3>1. PICK i \in S, o \in t2 : line = <<i, o>> /\ o.t1key \in {t3[i].orderid1, t3[i].orderid2}
      BY DEF trader_rpt
    <3>2. o \in {OrderRow(0), OrderRow(t3[i].orderid2)}
      BY <1>2, <1>3, <3>1
    <3>3. QED
      BY <3>1, <3>2
  <2>3. ASSUME NEW line \in A \cup B PROVE line \in trader_rpt(t3, t2)
    <3>1. PICK i \in S : \E o \in {OrderRow(0), OrderRow(t3[i].orderid2)} : line = <<i, o>>
      OBVIOUS
    <3>2. \A o \in {OrderRow(0), OrderRow(t3[i].orderid2)} :
             o \in t2 /\ o.t1key \in {t3[i].orderid1, t3[i].orderid2}
      BY <1>2, <2>1
    <3>3. QED
      BY <3>1, <3>2 DEF trader_rpt
  <2>4. QED
    BY <2>2, <2>3
<1>5. IsFiniteSet(S) /\ Cardinality(S) = Len(t3)
  BY <1>1, CountTo
<1>6. f \in Bijection(S, A) /\ g \in Bijection(S, B)
  <2>1. /\ f \in [S -> A] /\ \A i, j \in S : f[i] = f[j] => i = j
        /\ \A x \in A : \E i \in S : f[i] = x
    OBVIOUS
  <2>2. /\ g \in [S -> B] /\ \A i, j \in S : g[i] = g[j] => i = j
        /\ \A x \in B : \E i \in S : g[i] = x
    OBVIOUS
  <2> HIDE DEF f, g, A, B, S
  <2>3. QED
    BY <2>1, <2>2, Fun_IsBij
<1>7. /\ IsFiniteSet(A) /\ Cardinality(A) = Len(t3)
      /\ IsFiniteSet(B) /\ Cardinality(B) = Len(t3)
  <2> HIDE DEF f, g, A, B
  <2>1. QED
    BY <1>5, <1>6, FS_Bijection DEF ExistsBijection
<1>8. A \cap B = {}
  <2> SUFFICES ASSUME NEW line \in A, line \in B PROVE FALSE
    OBVIOUS
  <2>1. PICK i \in S : line = <<i, OrderRow(0)>>
    OBVIOUS
  <2>2. PICK j \in S : line = <<j, OrderRow(t3[j].orderid2)>>
    OBVIOUS
  <2>3. OrderRow(0).t1key = OrderRow(t3[j].orderid2).t1key
    BY <2>1, <2>2
  <2>4. QED
    BY <1>2, <2>3 DEF OrderRow
<1> HIDE DEF A, B
<1>9. Cardinality(A \cup B) = Len(t3) + Len(t3)
  <2>1. Cardinality(A \cup B) = Cardinality(A) + Cardinality(B) - Cardinality(A \cap B)
    BY <1>7, FS_Union
  <2>2. Cardinality(A \cap B) = 0
    BY <1>8, FS_EmptySet
  <2>3. QED
    BY <1>1, <1>7, <2>1, <2>2
<1>10. QED
  BY <1>1, <1>4, <1>9

\* What rpt prints once the reporting threads are done agrees with what the
\* matching engine reported: the closing price is that of the last trade, the
\* volume is all that was traded, and each fill is listed with both its orders;
\* for any number of trades and threads, and whichever thread writes first,
\* unless a lock was removed or rpt was run before.
THEOREM RptPrintsWhatWasTraded == FeedSpec => []ReportsAgree
<1>1. FeedInit => AgreeInv
  <2> SUFFICES ASSUME FeedInit PROVE AgreeInv
    OBVIOUS
  <2>1. /\ rreceived = << >> /\ sent = << >> /\ dropped = 0 /\ epc = "idle"
        /\ dbset /\ ~rpt /\ holder = Nobody /\ t2 = {OrderRow(0)}
        /\ tpc = [w \in Writers |-> "none"]
    BY DEF FeedInit, Init, R!Init
  <2>2. Trades = 0 /\ 1 .. Len(rreceived) = {}
    BY <2>1 DEF Trades
  <2>3. tpc[EngineWrites] = "none"
    BY <2>1, EngineIsWriter
  <2>4. \A m \in 0 .. Trades : OrderRow(m) \in t2
    BY <2>1, <2>2
  <2>5. QED
    BY <2>1, <2>2, <2>3, <2>4 DEF AgreeInv, InHand
<1>2. FeedInv /\ AgreeInv /\ [FeedNext]_feedVars => AgreeInv'
  BY AgreeStep DEF FeedInv, IInv
<1>3. FeedInv /\ TableInv /\ AgreeInv => ReportsAgree
  <2> SUFFICES ASSUME FeedInv, TableInv, AgreeInv, Settled, Len(rreceived) > 0
               PROVE  LET values == summary_rpt(t3, t2).values["MSFT"]
                      IN  /\ values.close = Price[Last(rreceived).text]
                          /\ values.volume = Len(rreceived)
                          /\ Cardinality(trader_rpt(t3, t2)) = 2 * Len(rreceived)
    BY DEF ReportsAgree
  <2> DEFINE S == 1 .. Len(t3)
             v == trade_values(t3)["MSFT"]
  <2>1. /\ TypeOK /\ RInv /\ CountInv /\ ReceivedInv /\ ThreadInv /\ ReportInv
    BY DEF FeedInv, IInv
  <2>2. /\ Len(t3) = Len(rreceived) /\ Len(t3) \in Nat
        /\ \A i \in S : t3[i].symbol = "MSFT" /\ t3[i].quantity = 1
    <3>1. /\ Len(t3) = Len(rreceived) /\ Len(t3) \in Nat
          /\ \A i \in S : \E w \in 1 .. Len(rreceived) : t3[i] = Row(rreceived[w].text)
      BY <2>1, AllRowsThere
    <3>2. QED
      BY <3>1, RowIs
  <2>3. "MSFT" \in {t3[i].symbol : i \in S} /\ RowsOf(t3, "MSFT") = S
    <3>1. 1 \in S
      BY <2>2
    <3>2. QED
      BY <2>2, <3>1 DEF RowsOf
  <2>4. /\ v.close = Close(S, t3)
        /\ v.volume = Volume(t3, S)
    BY <2>3 DEF trade_values, Volume
  <2>5. v.volume = Len(rreceived)
    <3>1. IsFiniteSet(S) /\ Cardinality(S) = Len(t3)
      BY <2>2, CountTo
    <3>2. Volume(t3, S) = Cardinality(S)
      BY <2>2, <3>1, SumOfOnes
    <3>3. QED
      BY <2>2, <2>4, <3>1, <3>2
  <2>6. v.close = Price[Last(rreceived).text]
    BY <2>1, <2>4, CloseIsLast
  <2>7. Cardinality(trader_rpt(t3, t2)) = 2 * Len(rreceived)
    BY <2>1, FillsHaveBothOrders
  <2>8. summary_rpt(t3, t2).values["MSFT"] = v
    BY DEF summary_rpt
  <2>9. QED
    BY <2>5, <2>6, <2>7, <2>8
<1>4. QED
  BY FeedInductive, TablesHold, <1>1, <1>2, <1>3, PTL DEF FeedSpec
=============================================================================
