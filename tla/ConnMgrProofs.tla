---------------------------- MODULE ConnMgrProofs ----------------------------
(***************************************************************************)
(* Proofs about ConnMgr, for any number of bots, messages and places in    *)
(* the queues.  None of the properties is inductive.  SameStream: between  *)
(* the two steps that hand a message on, the engine's stream is the        *)
(* publisher's and the message in omm.  InOrderOnce needs what the sockets *)
(* hold, what poll's snapshot still promises about them and the message in *)
(* hand (OrderInv); the two properties of the answers need what the map    *)
(* says about every message that the engine may be working on.             *)
(***************************************************************************)
EXTENDS ConnMgr, SequenceTheorems, FiniteSetTheorems, TLAPS

Ahead == forwarded = Append(copied, omm)

\* The streams' elements need no type: they are sequences over some set.
StreamInv ==
  /\ mpc \in {"poll", "scan", "insert", "msgsnd", "slot", "ending", "down"}
  /\ \E S : copied \in Seq(S) /\ omm \in S
  /\ meUp => CASE mpc = "slot" -> Ahead
               [] mpc = "down" -> Ahead \/ forwarded = copied
               [] OTHER -> forwarded = copied

LEMMA InitStream == Init => StreamInv
<1> SUFFICES ASSUME Init PROVE StreamInv
  OBVIOUS
<1>1. copied \in Seq({omm}) /\ omm \in {omm}
  BY DEF Init
<1>2. QED
  BY <1>1 DEF Init, StreamInv

\* Steps that leave main's message and both streams alone, and main where it
\* is or between two messages.
Elsewhere ==
  /\ UNCHANGED <<omm, forwarded, copied>>
  /\ meUp' => meUp
  /\ \/ mpc' = mpc
     \/ {mpc, mpc'} \subseteq {"poll", "scan", "insert", "msgsnd", "ending"}

LEMMA ElsewhereKeeps ==
  ASSUME StreamInv, Elsewhere
  PROVE  StreamInv'
  BY DEF StreamInv, Elsewhere, Ahead

\* The process may end at any place.
LEMMA GoneKeeps ==
  ASSUME StreamInv, NEW removes \in BOOLEAN, Gone(removes)
  PROVE  StreamInv'
  BY DEF StreamInv, Gone, Ahead

LEMMA ReceiveKeeps ==
  ASSUME StreamInv, Receive
  PROVE  StreamInv'
<1>1. PICK S : copied \in Seq(S) /\ omm \in S
  BY DEF StreamInv
<1>2. copied' \in Seq(S \cup {omm'}) /\ omm' \in S \cup {omm'}
  BY <1>1, SeqMonotonic DEF Receive
<1>3. QED
  BY <1>2 DEF StreamInv, Receive, meVars

LEMMA CopyKeeps ==
  ASSUME StreamInv, Copy
  PROVE  StreamInv'
<1>1. PICK S : copied \in Seq(S) /\ omm \in S
  BY DEF StreamInv
<1>2. copied' \in Seq(S) /\ omm' \in S
  BY <1>1, AppendProperties DEF Copy
<1>3. mpc = "slot" /\ mpc' \in {"poll", "scan"} /\ forwarded' = forwarded /\ meUp' = meUp
  BY DEF Copy, Handled, meVars
<1>4. meUp' => forwarded' = copied'
  BY <1>3 DEF StreamInv, Copy, Ahead
<1>5. QED
  BY <1>2, <1>3, <1>4 DEF StreamInv

LEMMA MainKeeps ==
  ASSUME StreamInv, Main
  PROVE  StreamInv'
<1>1. CASE Poll \/ Unexpected \/ Accept \/ Insert \/ InsertLost
  BY <1>1, ElsewhereKeeps
  DEF Poll, Unexpected, Accept, Insert, InsertLost, Meet, Handled, Elsewhere, meVars
<1>2. CASE Msgsnd
  <2>1. /\ mpc = "msgsnd" /\ mpc' = "slot"
        /\ UNCHANGED <<omm, copied, meUp>>
        /\ meUp => forwarded' = Append(forwarded, omm)
    BY <1>2 DEF Msgsnd
  <2>2. meUp' => Ahead'
    BY <2>1 DEF StreamInv, Ahead
  <2>3. QED
    BY <2>1, <2>2 DEF StreamInv
<1>3. CASE SlotGone
  BY <1>3, GoneKeeps DEF SlotGone
<1>4. QED
  BY <1>1, <1>2, <1>3, ReceiveKeeps, CopyKeeps DEF Main

LEMMA OthersKeep ==
  ASSUME StreamInv,
         \/ \E c \in Clients : Bot(c)
         \/ PollTimesOut \/ Handler \/ RaceKills \/ ReadFromMatchingEngine
         \/ Answer \/ EngineStops \/ Publish \/ PublisherStops
  PROVE  StreamInv'
<1>1. ASSUME NEW c \in Clients, Bot(c) PROVE StreamInv'
  <2>1. UNCHANGED <<omm, forwarded, copied, meUp, mpc>>
    BY <1>1 DEF Bot, Connect, Read, Leave, Write, meVars
  <2>2. QED
    BY <2>1, ElsewhereKeeps DEF Elsewhere
<1>2. CASE Handler \/ RaceKills \/ BrokenPipe
  BY <1>2, GoneKeeps DEF Handler, RaceKills, BrokenPipe
<1>3. CASE PollTimesOut
  BY <1>3, ElsewhereKeeps DEF PollTimesOut, Elsewhere, meVars
<1>4. CASE Rcv \/ RcvFails \/ Find \/ Send \/ Erase
  BY <1>4, ElsewhereKeeps DEF Rcv, RcvFails, Find, Send, Erase, Elsewhere, meVars
<1>5. CASE Answer \/ EngineStops \/ Publish \/ PublisherStops
  BY <1>5, ElsewhereKeeps
  DEF Answer, EngineStops, Publish, PublisherStops, Elsewhere, meVars
<1>6. QED
  BY <1>1, <1>2, <1>3, <1>4, <1>5 DEF ReadFromMatchingEngine

LEMMA StepStream == StreamInv /\ [Next]_vars => StreamInv'
<1> SUFFICES ASSUME StreamInv, [Next]_vars PROVE StreamInv'
  OBVIOUS
<1>1. CASE UNCHANGED vars
  BY <1>1, ElsewhereKeeps DEF vars, meVars, Elsewhere
<1>2. CASE Next
  BY <1>2, MainKeeps, OthersKeep DEF Next
<1>3. QED
  BY <1>1, <1>2

LEMMA StreamIsSame == StreamInv => SameStream
<1> SUFFICES ASSUME StreamInv, meUp PROVE IsPrefix(copied, forwarded) /\ Len(forwarded) <= Len(copied) + 1
  BY DEF SameStream
<1>1. PICK S : copied \in Seq(S) /\ omm \in S
  BY DEF StreamInv
<1>2. CASE forwarded = copied
  BY <1>1, <1>2, LenProperties DEF IsPrefix
<1>3. CASE Ahead
  <2>1. /\ forwarded \in Seq(S) /\ Len(forwarded) = Len(copied) + 1
        /\ \A i \in 1 .. Len(copied) : forwarded[i] = copied[i]
    BY <1>1, <1>3, AppendProperties DEF Ahead
  <2>2. SubSeq(copied, 1, Len(copied)) = SubSeq(forwarded, 1, Len(copied))
    BY <1>1, <2>1, LenProperties
  <2>3. QED
    BY <1>1, <2>1, <2>2, LenProperties DEF IsPrefix
<1>4. QED
  BY <1>2, <1>3 DEF StreamInv

\* What connmgr.cpp hands on to the book publisher it has queued for the
\* matching engine, in the same order, and is never more than one message
\* ahead of, while the queue exists: whatever the bots, the engine, the
\* publisher and signals do.
THEOREM StreamsAgree == Spec => []SameStream
<1>1. Spec => []StreamInv
  BY InitStream, StepStream, PTL DEF Spec
<1>2. QED
  BY <1>1, StreamIsSame, PTL
-----------------------------------------------------------------------------
(* Types, and what the threads have in hand where they stand *)

Event == [fd : Clients \cup {Listener}, revents : {"none", "in", "other"}]

InLoop == mpc \in {"scan", "insert", "msgsnd", "slot"}

\* A message of c, about an order that c named no later than here.
MessageOf(m, c) ==
  m \in Message /\ m.id[1] = c /\ m.order[1] = c /\ m.order[2] <= m.id[2]

ControlInv ==
  /\ InLoop => ready # << >>
  /\ mpc \in {"insert", "msgsnd", "slot"} => Head(ready).fd \in Clients
  /\ apc \in {"find", "send", "erase"} => ack \in Ids
  /\ apc \in {"send", "erase"} => it \in Clients

TypeInv == TypeOK /\ ControlInv

BotTypes ==
  /\ mode \in Modes
  /\ link \in [Clients -> {"none", "connecting", "open", "closed", "reset"}]
  /\ socket \in [Clients -> Seq(Message)]
  /\ written \in [Clients -> 0 .. MaxMessages]
  /\ inbox \in [Clients -> 0 .. BufferLimit]

MainTypes ==
  /\ fds \in Seq(Clients) /\ ready \in Seq(Event)
  /\ mpc \in {"poll", "scan", "insert", "msgsnd", "slot", "ending", "down"}
  /\ omm \in Message \cup {NoMessage}

MapType == connectionmapper \in [Keys -> Clients \cup {None}]

QueueTypes ==
  /\ queue \in Seq(Message \cup {NoMessage}) /\ queue2 \in Seq(Ids)
  /\ forwarded \in Seq(Message \cup {NoMessage})
  /\ copied \in Seq(Message \cup {NoMessage})
  /\ chan \in Seq(Message \cup {NoMessage})

FlagTypes == meUp \in BOOLEAN /\ bpUp \in BOOLEAN /\ raced \in BOOLEAN

AckTypes ==
  /\ apc \in {"rcv", "find", "send", "erase", "ended", "down"}
  /\ ack \in Ids \cup {None} /\ it \in Clients \cup {None}
  /\ routed \in Seq([order : Ids, to : Clients]) /\ unrouted \in Seq(Ids)

Types == BotTypes /\ MainTypes /\ MapType /\ QueueTypes /\ FlagTypes /\ AckTypes

LEMMA TypeParts == TypeOK <=> Types
  BY DEF TypeOK, Types, BotTypes, MainTypes, MapType, QueueTypes, FlagTypes, AckTypes, Event

LEMMA InitType == Init => TypeInv
<1> SUFFICES ASSUME Init PROVE TypeInv
  OBVIOUS
<1>1. \A S : << >> \in Seq(S)
  OBVIOUS
<1>2. BotTypes
  BY <1>1, ConnMgrAssumption DEF Init, BotTypes
<1>3. MainTypes /\ MapType /\ QueueTypes /\ AckTypes
  BY <1>1 DEF Init, MainTypes, MapType, QueueTypes, AckTypes
<1>4. FlagTypes
  BY DEF Init, FlagTypes
<1>5. ControlInv
  BY DEF Init, ControlInv, InLoop
<1>6. QED
  BY <1>2, <1>3, <1>4, <1>5, TypeParts DEF Types, TypeInv

\* What poll reports, and what is left of it after an entry, is of events.
LEMMA EventsTyped ==
  ASSUME TypeOK
  PROVE  /\ Events \in Seq(Event)
         /\ Len(Events) = Len(fds) + 1
         /\ Events[1].fd = Listener
         /\ \A i \in 1 .. Len(fds) : Events[i + 1].fd = fds[i]
         /\ \A i \in 1 .. Len(Events) : Events[i].revents = Revents(Events[i].fd)
<1> DEFINE array == <<Listener>> \o fds
           K == Clients \cup {Listener}
<1>1. fds \in Seq(K) /\ <<Listener>> \in Seq(K)
  BY SeqMonotonic DEF TypeOK
<1>2. /\ array \in Seq(K) /\ Len(array) = Len(fds) + 1 /\ Len(fds) \in Nat
      /\ array[1] = Listener
      /\ \A i \in 1 .. Len(fds) : array[i + 1] = fds[i]
  BY <1>1, ConcatProperties, LenProperties
<1> HIDE DEF array
<1>3. Events = [i \in 1 .. Len(array) |->
                  [fd |-> array[i], revents |-> Revents(array[i])]]
  BY DEF Events, array
<1>4. \A fd : Revents(fd) \in {"none", "in", "other"}
  BY DEF Revents
<1>5. \A i \in 1 .. Len(array) : array[i] \in K
  BY <1>2, ElementOfSeq
<1>6. Events \in [1 .. Len(array) -> Event]
  BY <1>3, <1>4, <1>5 DEF Event
<1>7. Events \in Seq(Event) /\ Len(Events) = Len(array)
  <2>1. Events \in Seq(Event)
    BY <1>2, <1>6, SeqDef
  <2>2. DOMAIN Events = 1 .. Len(array)
    BY <1>3
  <2>3. DOMAIN Events = 1 .. Len(Events) /\ Len(Events) \in Nat
    BY <2>1, LenProperties
  <2>4. QED
    BY <1>2, <2>1, <2>2, <2>3
<1>8. QED
  BY <1>2, <1>3, <1>7

LEMMA RestOfEvents ==
  ASSUME NEW s \in Seq(Event), NEW k \in 1 .. Len(s)
  PROVE  LET t == SubSeq(s, k, Len(s))
         IN  /\ t \in Seq(Event) /\ t # << >>
             /\ Len(t) = Len(s) - k + 1
             /\ \A i \in 1 .. Len(t) : t[i] = s[k + i - 1]
<1> DEFINE t == SubSeq(s, k, Len(s))
<1>1. Len(s) \in Nat /\ \A i \in k .. Len(s) : s[i] \in Event
  BY LenProperties, ElementOfSeq
<1>2. /\ t \in Seq(Event) /\ Len(t) = Len(s) - k + 1
      /\ \A i \in 1 .. Len(s) - k + 1 : t[i] = s[k + i - 1]
  BY <1>1, SubSeqProperties
<1> HIDE DEF t
<1>3. t # << >>
  BY <1>1, <1>2, EmptySeq
<1>4. QED
  BY <1>2, <1>3 DEF t

\* The entries that are left when one has been handled came after it.
LEMMA AfterHandled ==
  ASSUME TypeInv, InLoop, Handled
  PROVE  /\ ready' \in Seq(Event)
         /\ \/ mpc' = "poll" /\ ready' = << >>
            \/ /\ mpc' = "scan" /\ ready' # << >>
               /\ \E k \in 2 .. Len(ready) :
                     /\ Len(ready') = Len(ready) - k + 1
                     /\ \A i \in 1 .. Len(ready') : ready'[i] = ready[k + i - 1]
<1> DEFINE t == Tail(ready)
<1>1. ready \in Seq(Event) /\ ready # << >>
  BY TypeParts DEF TypeInv, ControlInv, Types, MainTypes
<1>2. /\ t \in Seq(Event) /\ Len(t) = Len(ready) - 1 /\ Len(ready) \in Nat
      /\ \A i \in 1 .. Len(t) : t[i] = ready[i + 1]
  BY <1>1, HeadTailProperties, LenProperties
<1>3. CASE mpc' = "poll" /\ ready' = << >>
  BY <1>3, EmptySeq
<1>4. ASSUME NEW k \in 1 .. Len(t), ready' = SubSeq(t, k, Len(t)), mpc' = "scan"
      PROVE  /\ ready' \in Seq(Event)
             /\ mpc' = "scan" /\ ready' # << >>
             /\ \E j \in 2 .. Len(ready) :
                   /\ Len(ready') = Len(ready) - j + 1
                   /\ \A i \in 1 .. Len(ready') : ready'[i] = ready[j + i - 1]
  <2> HIDE DEF t
  <2>1. /\ ready' \in Seq(Event) /\ ready' # << >>
        /\ Len(ready') = Len(t) - k + 1
        /\ \A i \in 1 .. Len(ready') : ready'[i] = t[k + i - 1]
    BY <1>2, <1>4, RestOfEvents
  <2>2. k + 1 \in 2 .. Len(ready) /\ Len(ready') = Len(ready) - (k + 1) + 1
    BY <1>2, <1>4, <2>1
  <2>3. \A i \in 1 .. Len(ready') : ready'[i] = ready[(k + 1) + i - 1]
    <3> TAKE i \in 1 .. Len(ready')
    <3>1. k + i - 1 \in 1 .. Len(t) /\ (k + i - 1) + 1 = (k + 1) + i - 1
      BY <1>2, <2>1
    <3>2. QED
      BY <1>2, <2>1, <3>1
  <2>4. QED
    BY <1>4, <2>1, <2>2, <2>3
<1>5. QED
  BY <1>3, <1>4 DEF Handled

LEMMA PollFinds ==
  ASSUME TypeInv, Poll
  PROVE  /\ ready' \in Seq(Event) /\ ready' # << >>
         /\ \E k \in 1 .. Len(Events) :
               /\ Len(ready') = Len(Events) - k + 1
               /\ \A i \in 1 .. Len(ready') : ready'[i] = Events[k + i - 1]
<1>1. PICK k \in 1 .. Len(Events) : ready' = SubSeq(Events, k, Len(Events))
  BY DEF Poll
<1>2. Events \in Seq(Event)
  BY EventsTyped DEF TypeInv
<1>3. QED
  BY <1>1, <1>2, RestOfEvents

\* accept appends connections that were not in the array.
LEMMA Accepted ==
  ASSUME TypeInv, Accept
  PROVE  /\ fds' \in Seq(Clients) /\ Len(fds) \in Nat /\ Len(fds') \in Nat
         /\ Len(fds) <= Len(fds')
         /\ \A i \in 1 .. Len(fds) : fds'[i] = fds[i]
         /\ \A i \in Len(fds) + 1 .. Len(fds') : link[fds'[i]] = "connecting"
         /\ \A i, j \in Len(fds) + 1 .. Len(fds') : fds'[i] = fds'[j] => i = j
<1> DEFINE C == {c \in Clients : link[c] = "connecting"}
           n == Cardinality(C)
<1>1. PICK new \in SetToSeqs(C) : fds' = fds \o new
  BY DEF Accept
<1>2. n \in Nat
  BY ConnMgrAssumption, FS_Subset, FS_CardinalityType
<1>3. new \in [1 .. n -> C] /\ \A i, j \in 1 .. n : i # j => new[i] # new[j]
  BY <1>1 DEF SetToSeqs
<1> HIDE DEF n
<1>4. new \in Seq(C) /\ Len(new) = n
  <2>1. new \in Seq(C)
    BY <1>2, <1>3, SeqDef
  <2>2. DOMAIN new = 1 .. n /\ DOMAIN new = 1 .. Len(new) /\ Len(new) \in Nat
    BY <1>3, <2>1, LenProperties
  <2>3. QED
    BY <1>2, <2>1, <2>2
<1>5. fds \in Seq(Clients) /\ new \in Seq(Clients)
  BY <1>4, SeqMonotonic, TypeParts DEF TypeInv, Types, MainTypes
<1>6. /\ fds' \in Seq(Clients) /\ Len(fds') = Len(fds) + n /\ Len(fds) \in Nat
      /\ \A i \in 1 .. Len(fds) + n :
            fds'[i] = IF i <= Len(fds) THEN fds[i] ELSE new[i - Len(fds)]
  BY <1>1, <1>4, <1>5, ConcatProperties, LenProperties
<1>7. \A i \in Len(fds) + 1 .. Len(fds') :
         i - Len(fds) \in 1 .. n /\ fds'[i] = new[i - Len(fds)]
  BY <1>2, <1>6
<1>8. \A i \in 1 .. n : link[new[i]] = "connecting"
  BY <1>3
<1>9. QED
  BY <1>2, <1>3, <1>6, <1>7, <1>8

LEMMA HeadIsEvent ==
  ASSUME TypeInv, InLoop
  PROVE  /\ ready \in Seq(Event) /\ Len(ready) \in Nat \ {0}
         /\ Head(ready) = ready[1] /\ Head(ready) \in Event
<1>1. ready \in Seq(Event) /\ ready # << >>
  BY TypeParts DEF TypeInv, ControlInv, Types, MainTypes
<1>2. QED
  BY <1>1, HeadTailProperties, LenProperties, EmptySeq, ElementOfSeq

\* Which steps touch the connections.
LEMMA BotSteps ==
  ASSUME Next
  PROVE  /\ mode' = mode
         /\ \/ \E c \in Clients : Bot(c)
            \/ Accept \/ Receive \/ Send \/ UNCHANGED botVars
<1>1. CASE Poll \/ Unexpected \/ Insert \/ InsertLost \/ Msgsnd \/ Copy
           \/ PollTimesOut \/ Rcv \/ RcvFails \/ Find \/ Erase
           \/ Answer \/ EngineStops \/ Publish \/ PublisherStops
  BY <1>1
  DEF Next, Poll, Unexpected, Insert, InsertLost, Msgsnd, Copy, PollTimesOut, Rcv,
      RcvFails, Find, Erase, Answer, EngineStops, Publish, PublisherStops
<1>2. CASE SlotGone \/ Handler \/ RaceKills \/ BrokenPipe
  BY <1>2 DEF Next, SlotGone, Handler, RaceKills, BrokenPipe, Gone
<1>3. QED
  BY <1>1, <1>2 DEF Next, Main, ReadFromMatchingEngine

LEMMA SendTypes ==
  ASSUME TypeInv, Send, mode' = mode
  PROVE  BotTypes'
<1>1. it \in Clients /\ BotTypes
  BY TypeParts DEF TypeInv, ControlInv, Types, Send
<1>2. inbox' \in [Clients -> 0 .. BufferLimit]
  <2>1. ASSUME link[it] = "open" PROVE inbox[it] + 1 \in 0 .. BufferLimit
    BY <1>1, <2>1, ConnMgrAssumption DEF Send, BotTypes
  <2>2. QED
    BY <1>1, <2>1 DEF Send, BotTypes
<1>3. link' \in [Clients -> {"none", "connecting", "open", "closed", "reset"}]
  BY <1>1 DEF Send, BotTypes
<1>4. UNCHANGED <<socket, written>>
  BY DEF Send
<1>5. QED
  BY <1>1, <1>2, <1>3, <1>4 DEF BotTypes

LEMMA BotTypesStep ==
  ASSUME TypeInv, [Next]_vars
  PROVE  BotTypes'
<1>1. mode' = mode /\ BotTypes
  BY TypeParts DEF TypeInv, Types, Next, vars
<1>2. CASE UNCHANGED botVars
  BY <1>1, <1>2 DEF BotTypes, botVars
<1>3. ASSUME NEW c \in Clients, Bot(c) PROVE BotTypes'
  <2>1. CASE Connect(c) \/ Leave(c)
    BY <1>1, <2>1 DEF BotTypes, Connect, Leave
  <2>2. CASE Read(c)
    BY <1>1, <2>2, ConnMgrAssumption DEF BotTypes, Read
  <2>3. ASSUME NEW n \in 1 .. MaxMessages, Write(c, n) PROVE BotTypes'
    <3>1. written[c] \in 0 .. MaxMessages /\ mode.messages \in 1 .. MaxMessages
      BY <1>1, ConnMgrAssumption DEF BotTypes
    <3>2. written[c] + 1 \in 1 .. MaxMessages
      BY <2>3, <3>1, ConnMgrAssumption DEF Write
    <3>3. [id |-> <<c, written[c] + 1>>, order |-> <<c, n>>] \in Message
      BY <3>2 DEF Message, Ids
    <3>4. Append(socket[c], [id |-> <<c, written[c] + 1>>, order |-> <<c, n>>])
             \in Seq(Message)
      BY <1>1, <3>3, AppendProperties DEF BotTypes
    <3>5. socket' \in [Clients -> Seq(Message)]
      BY <1>1, <2>3, <3>4 DEF BotTypes, Write
    <3>6. written' \in [Clients -> 0 .. MaxMessages]
      BY <1>1, <2>3, <3>2, ConnMgrAssumption DEF BotTypes, Write
    <3>7. QED
      BY <1>1, <2>3, <3>5, <3>6 DEF BotTypes, Write
  <2>4. QED
    BY <1>3, <2>1, <2>2, <2>3 DEF Bot
<1>4. CASE Accept
  BY <1>1, <1>4 DEF BotTypes, Accept
<1>5. CASE Receive
  <2>1. Head(ready).fd \in Clients
    BY <1>5, HeadIsEvent DEF Receive, InLoop, Event
  <2>2. \A c \in Clients : socket[c] # << >> => Tail(socket[c]) \in Seq(Message)
    BY <1>1, HeadTailProperties DEF BotTypes
  <2>3. socket' \in [Clients -> Seq(Message)]
    BY <1>1, <1>5, <2>1, <2>2 DEF BotTypes, Receive
  <2>4. QED
    BY <1>1, <1>5, <2>3 DEF BotTypes, Receive
<1>6. CASE Send
  BY <1>1, <1>6, SendTypes
<1>7. CASE Next
  BY <1>2, <1>3, <1>4, <1>5, <1>6, <1>7, BotSteps
<1>8. QED
  BY <1>2, <1>7 DEF vars

MainStays ==
  /\ fds' = fds /\ ready' = ready /\ omm' = omm
  /\ \/ mpc' = mpc \/ mpc' = "down"
     \/ mpc \in {"poll", "scan"} /\ mpc' = "ending"

\* Which steps touch what the main thread has in hand.
LEMMA MainSteps ==
  ASSUME Next
  PROVE  \/ Poll \/ Accept \/ Receive \/ Insert \/ InsertLost \/ Msgsnd \/ Copy
         \/ MainStays
<1>1. ASSUME NEW c \in Clients, Bot(c) PROVE MainStays
  BY <1>1 DEF MainStays, Bot, Connect, Read, Leave, Write, pollVars
<1>2. CASE Unexpected \/ PollTimesOut \/ Rcv \/ RcvFails \/ Find \/ Send \/ Erase
  BY <1>2 DEF MainStays, Unexpected, PollTimesOut, Rcv, RcvFails, Find, Send, Erase, pollVars
<1>3. CASE Answer \/ EngineStops \/ Publish \/ PublisherStops
  BY <1>3 DEF MainStays, Answer, EngineStops, Publish, PublisherStops, pollVars
<1>4. CASE SlotGone \/ Handler \/ RaceKills \/ BrokenPipe
  BY <1>4 DEF MainStays, SlotGone, Handler, RaceKills, BrokenPipe, Gone, pollVars
<1>5. QED
  BY <1>1, <1>2, <1>3, <1>4 DEF Next, Main, ReadFromMatchingEngine

LEMMA MainTypesStep ==
  ASSUME TypeInv, [Next]_vars
  PROVE  MainTypes'
<1>1. MainTypes /\ BotTypes
  BY TypeParts DEF TypeInv, Types
<1>2. CASE Poll
  BY <1>1, <1>2, PollFinds DEF Poll, MainTypes
<1>3. CASE Accept
  <2>1. InLoop /\ Handled /\ omm' = omm
    BY <1>3 DEF Accept, InLoop
  <2>2. ready' \in Seq(Event) /\ mpc' \in {"poll", "scan"}
    BY <2>1, AfterHandled
  <2>3. QED
    BY <1>1, <1>3, <2>1, <2>2, Accepted DEF MainTypes
<1>4. CASE Receive
  <2>1. Head(ready).fd \in Clients
    BY <1>4, HeadIsEvent DEF Receive, InLoop, Event
  <2>2. socket[Head(ready).fd] # << >> => Head(socket[Head(ready).fd]) \in Message
    BY <1>1, <2>1, HeadTailProperties DEF BotTypes
  <2>3. omm' \in Message \cup {NoMessage}
    BY <1>1, <1>4, <2>2 DEF Receive, MainTypes
  <2>4. QED
    BY <1>1, <1>4, <2>3 DEF Receive, MainTypes, pollVars
<1>5. CASE Insert \/ InsertLost \/ Msgsnd
  BY <1>1, <1>5 DEF Insert, InsertLost, Msgsnd, MainTypes, pollVars
<1>6. CASE Copy
  <2>1. InLoop /\ Handled /\ UNCHANGED <<omm, fds>>
    BY <1>6 DEF Copy, InLoop
  <2>2. ready' \in Seq(Event) /\ mpc' \in {"poll", "scan"}
    BY <2>1, AfterHandled
  <2>3. QED
    BY <1>1, <2>1, <2>2 DEF MainTypes
<1>7. CASE MainStays
  BY <1>1, <1>7 DEF MainTypes, MainStays
<1>8. QED
  BY <1>2, <1>3, <1>4, <1>5, <1>6, <1>7, MainSteps DEF MainStays, vars, pollVars

\* Which steps touch the map.
LEMMA MapSteps ==
  ASSUME Next
  PROVE  Insert \/ Erase \/ UNCHANGED connectionmapper
<1>1. ASSUME NEW c \in Clients, Bot(c) PROVE UNCHANGED connectionmapper
  BY <1>1 DEF Bot, Connect, Read, Leave, Write
<1>2. CASE Poll \/ Unexpected \/ Accept \/ Receive \/ InsertLost \/ Msgsnd \/ Copy
           \/ PollTimesOut \/ Rcv \/ RcvFails \/ Find \/ Send
           \/ Answer \/ EngineStops \/ Publish \/ PublisherStops
  BY <1>2
  DEF Poll, Unexpected, Accept, Receive, InsertLost, Msgsnd, Copy, PollTimesOut, Rcv,
      RcvFails, Find, Send, Answer, EngineStops, Publish, PublisherStops
<1>3. CASE SlotGone \/ Handler \/ RaceKills \/ BrokenPipe
  BY <1>3 DEF SlotGone, Handler, RaceKills, BrokenPipe, Gone
<1>4. QED
  BY <1>1, <1>2, <1>3 DEF Next, Main, ReadFromMatchingEngine

LEMMA MapTypeStep ==
  ASSUME TypeInv, [Next]_vars
  PROVE  MapType'
<1>1. MapType /\ MainTypes
  BY TypeParts DEF TypeInv, Types
<1>2. CASE Insert
  <2>1. Head(ready).fd \in Clients
    BY <1>2 DEF Insert, TypeInv, ControlInv
  <2>2. QED
    BY <1>1, <1>2, <2>1 DEF Insert, MapType
<1>3. CASE Erase
  BY <1>1, <1>3 DEF Erase, MapType
<1>4. QED
  BY <1>1, <1>2, <1>3, MapSteps DEF MapType, vars

\* Which steps touch the queues, the segment and the logs of both.
QueuesKept ==
  /\ forwarded' = forwarded /\ copied' = copied
  /\ \/ queue' = queue /\ queue2' = queue2
     \/ queue' = << >> /\ queue2' = << >>
  /\ chan' = chan \/ chan' = << >>

LEMMA QueueSteps ==
  ASSUME Next
  PROVE  \/ Msgsnd \/ Copy \/ Rcv \/ Answer
         \/ QueuesKept
<1>1. ASSUME NEW c \in Clients, Bot(c)
      PROVE QueuesKept
  BY <1>1 DEF QueuesKept, Bot, Connect, Read, Leave, Write, meVars, bpVars
<1>2. CASE Poll \/ Unexpected \/ Accept \/ Receive \/ Insert \/ InsertLost
           \/ PollTimesOut
  BY <1>2
  DEF QueuesKept, Poll, Unexpected, Accept, Receive, Insert, InsertLost, PollTimesOut, meVars, bpVars
<1>3. CASE RcvFails \/ Find \/ Send \/ Erase
  BY <1>3 DEF QueuesKept, RcvFails, Find, Send, Erase, meVars, bpVars
<1>4. CASE EngineStops \/ Publish \/ PublisherStops
  BY <1>4 DEF QueuesKept, EngineStops, Publish, PublisherStops, meVars, bpVars
<1>5. ASSUME NEW removes \in BOOLEAN, Gone(removes)
      PROVE  QueuesKept
  BY <1>5 DEF QueuesKept, Gone
<1>6. CASE SlotGone \/ Handler \/ RaceKills \/ BrokenPipe
  BY <1>5, <1>6 DEF SlotGone, Handler, RaceKills, BrokenPipe
<1>7. QED
  BY <1>1, <1>2, <1>3, <1>4, <1>6 DEF Next, Main, ReadFromMatchingEngine

LEMMA QueueTypesStep ==
  ASSUME TypeInv, [Next]_vars
  PROVE  QueueTypes'
<1> DEFINE M == Message \cup {NoMessage}
<1>1. QueueTypes /\ MainTypes
  BY TypeParts DEF TypeInv, Types
<1>2. CASE Msgsnd
  <2>1. Append(queue, omm) \in Seq(M) /\ Append(forwarded, omm) \in Seq(M)
    BY <1>1, AppendProperties DEF QueueTypes, MainTypes
  <2>2. QED
    BY <1>1, <1>2, <2>1 DEF Msgsnd, QueueTypes, bpVars
<1>3. CASE Copy
  <2>1. Append(copied, omm) \in Seq(M) /\ <<omm>> \in Seq(M)
    BY <1>1, AppendProperties DEF QueueTypes, MainTypes
  <2>2. QED
    BY <1>1, <1>3, <2>1 DEF Copy, QueueTypes, meVars
<1>4. CASE Rcv
  BY <1>1, <1>4, HeadTailProperties DEF Rcv, QueueTypes, bpVars
<1>5. CASE Answer
  <2>1. Tail(queue) \in Seq(M) /\ Head(queue) \in M
    BY <1>1, <1>5, HeadTailProperties DEF Answer, QueueTypes
  <2>2. Head(queue) # NoMessage => Append(queue2, Head(queue).order) \in Seq(Ids)
    BY <1>1, <2>1, AppendProperties DEF QueueTypes, Message
  <2>3. QED
    BY <1>1, <1>5, <2>1, <2>2 DEF Answer, QueueTypes, bpVars
<1>6. CASE QueuesKept
  <2>1. \A S : << >> \in Seq(S)
    OBVIOUS
  <2>2. QED
    BY <1>1, <1>6, <2>1 DEF QueueTypes, QueuesKept
<1>7. CASE UNCHANGED vars
  BY <1>1, <1>7 DEF QueueTypes, vars, meVars, bpVars
<1>8. QED
  BY <1>2, <1>3, <1>4, <1>5, <1>6, <1>7, QueueSteps

LEMMA GoneFlags ==
  ASSUME FlagTypes, NEW removes \in BOOLEAN, Gone(removes)
  PROVE  meUp' \in BOOLEAN /\ bpUp' \in BOOLEAN
  BY DEF FlagTypes, Gone

LEMMA FlagTypesStep ==
  ASSUME TypeInv, [Next]_vars
  PROVE  FlagTypes'
<1>1. FlagTypes
  BY TypeParts DEF TypeInv, Types
<1>2. ASSUME NEW c \in Clients, Bot(c) PROVE FlagTypes'
  BY <1>1, <1>2 DEF Bot, Connect, Read, Leave, Write, FlagTypes, meVars, bpVars
<1>3. CASE Poll \/ Unexpected \/ Accept \/ Receive \/ Insert \/ InsertLost
           \/ Msgsnd \/ Copy \/ PollTimesOut
  BY <1>1, <1>3
  DEF Poll, Unexpected, Accept, Receive, Insert, InsertLost, Msgsnd, Copy,
      PollTimesOut, FlagTypes, meVars, bpVars
<1>4. CASE Rcv \/ RcvFails \/ Find \/ Send \/ Erase
  BY <1>1, <1>4 DEF Rcv, RcvFails, Find, Send, Erase, FlagTypes, meVars, bpVars
<1>5. CASE Answer \/ EngineStops \/ Publish \/ PublisherStops
  BY <1>1, <1>5
  DEF Answer, EngineStops, Publish, PublisherStops, FlagTypes, meVars, bpVars
<1>6. CASE SlotGone \/ Handler \/ RaceKills \/ BrokenPipe
  BY <1>1, <1>6, GoneFlags DEF SlotGone, Handler, RaceKills, BrokenPipe, FlagTypes
<1>7. CASE UNCHANGED vars
  BY <1>1, <1>7 DEF vars, meVars, bpVars, FlagTypes
<1>8. QED
  BY <1>2, <1>3, <1>4, <1>5, <1>6, <1>7 DEF Next, Main, ReadFromMatchingEngine

\* Which steps touch what the other thread has in hand.
LEMMA AckSteps ==
  ASSUME Next
  PROVE  \/ Rcv \/ Find \/ Send \/ Erase
         \/ /\ ack' = ack /\ it' = it /\ routed' = routed /\ unrouted' = unrouted
            /\ apc' = apc \/ apc' = "ended" \/ apc' = "down"
<1>1. ASSUME NEW c \in Clients, Bot(c) PROVE UNCHANGED ackVars
  BY <1>1 DEF Bot, Connect, Read, Leave, Write
<1>2. CASE Poll \/ Unexpected \/ Accept \/ Receive \/ Insert \/ InsertLost
           \/ Msgsnd \/ Copy \/ PollTimesOut
           \/ Answer \/ EngineStops \/ Publish \/ PublisherStops
  BY <1>2
  DEF Poll, Unexpected, Accept, Receive, Insert, InsertLost, Msgsnd, Copy,
      PollTimesOut, Answer, EngineStops, Publish, PublisherStops, ackVars
<1>3. CASE RcvFails
  BY <1>3 DEF RcvFails
<1>4. CASE SlotGone \/ Handler \/ RaceKills \/ BrokenPipe
  BY <1>4 DEF SlotGone, Handler, RaceKills, BrokenPipe, Gone
<1>5. QED
  BY <1>1, <1>2, <1>3, <1>4 DEF Next, Main, ReadFromMatchingEngine, ackVars

LEMMA AckTypesStep ==
  ASSUME TypeInv, [Next]_vars
  PROVE  AckTypes'
<1>1. AckTypes /\ QueueTypes /\ MapType
  BY TypeParts DEF TypeInv, Types
<1>2. CASE Rcv
  BY <1>1, <1>2, HeadTailProperties DEF Rcv, QueueTypes, AckTypes
<1>3. CASE Find
  <2>1. ack \in Ids /\ it' \in Clients \cup {None}
    BY <1>1, <1>3 DEF Find, MapType, Keys, TypeInv, ControlInv
  <2>2. Append(unrouted, ack) \in Seq(Ids)
    BY <1>1, <2>1, AppendProperties DEF AckTypes
  <2>3. QED
    BY <1>1, <1>3, <2>1, <2>2 DEF Find, AckTypes
<1>4. CASE Send
  <2>1. [order |-> ack, to |-> it] \in [order : Ids, to : Clients]
    BY <1>4 DEF Send, TypeInv, ControlInv
  <2>2. Append(routed, [order |-> ack, to |-> it]) \in Seq([order : Ids, to : Clients])
    BY <1>1, <2>1, AppendProperties DEF AckTypes
  <2>3. QED
    BY <1>1, <1>4, <2>2 DEF Send, AckTypes
<1>5. CASE Erase
  BY <1>1, <1>5 DEF Erase, AckTypes
<1>6. CASE /\ ack' = ack /\ it' = it /\ routed' = routed /\ unrouted' = unrouted
           /\ apc' = apc \/ apc' = "ended" \/ apc' = "down"
  BY <1>1, <1>6 DEF AckTypes
<1>7. QED
  BY <1>2, <1>3, <1>4, <1>5, <1>6, AckSteps DEF vars, ackVars

LEMMA ControlStep ==
  ASSUME TypeInv, [Next]_vars
  PROVE  ControlInv'
<1> DEFINE A == /\ InLoop => ready # << >>
                /\ mpc \in {"insert", "msgsnd", "slot"} => Head(ready).fd \in Clients
           B == /\ apc \in {"find", "send", "erase"} => ack \in Ids
                /\ apc \in {"send", "erase"} => it \in Clients
<1>1. A /\ B /\ Types
  BY TypeParts DEF TypeInv, ControlInv
<1>2. A'
  <2>1. CASE Poll
    BY <2>1, PollFinds DEF Poll, InLoop
  <2>2. CASE Accept \/ Copy
    <3>1. InLoop /\ Handled
      BY <2>2 DEF Accept, Copy, InLoop
    <3>2. QED
      BY <3>1, AfterHandled DEF InLoop
  <2>3. CASE Receive
    <3>1. Head(ready).fd \in Clients
      BY <2>3, HeadIsEvent DEF Receive, InLoop, Event
    <3>2. QED
      BY <1>1, <2>3, <3>1 DEF Receive, InLoop, pollVars
  <2>4. CASE Insert \/ InsertLost \/ Msgsnd
    BY <1>1, <2>4 DEF Insert, InsertLost, Meet, Msgsnd, InLoop, pollVars
  <2>5. CASE MainStays
    BY <1>1, <2>5 DEF InLoop, MainStays
  <2>6. QED
    BY <2>1, <2>2, <2>3, <2>4, <2>5, MainSteps DEF MainStays, vars, pollVars
<1>3. B'
  <2>1. CASE Rcv
    BY <1>1, <2>1, HeadTailProperties DEF Rcv, Types, QueueTypes
  <2>2. CASE Find
    BY <1>1, <2>2 DEF Find, Types, MapType, Keys
  <2>3. CASE Send \/ Erase
    BY <1>1, <2>3 DEF Send, Erase
  <2>4. CASE /\ ack' = ack /\ it' = it /\ routed' = routed /\ unrouted' = unrouted
             /\ apc' = apc \/ apc' = "ended" \/ apc' = "down"
    BY <1>1, <2>4
  <2>5. QED
    BY <2>1, <2>2, <2>3, <2>4, AckSteps DEF vars, ackVars
<1>4. QED
  BY <1>2, <1>3 DEF ControlInv, InLoop

LEMMA StepType == TypeInv /\ [Next]_vars => TypeInv'
<1> SUFFICES ASSUME TypeInv, [Next]_vars PROVE TypeInv'
  OBVIOUS
<1>1. Types'
  BY BotTypesStep, MainTypesStep, MapTypeStep, QueueTypesStep, FlagTypesStep,
     AckTypesStep DEF Types
<1>2. TypeOK' <=> Types'
  BY TypeParts, PTL
<1>3. QED
  BY <1>1, <1>2, ControlStep DEF TypeInv

LEMMA AlwaysTyped == Spec => []TypeInv
  BY InitType, StepType, PTL DEF Spec

\* Whatever bots, engine, publisher and signals do, each thread of connmgr.cpp
\* has at hand what its next step uses: in the loop an entry of the array, an
\* acknowledgement where it looks one up, a connection where it sends.
THEOREM TypeCorrect == Spec => []TypeOK
<1>1. TypeInv => TypeOK
  BY DEF TypeInv
<1>2. QED
  BY <1>1, AlwaysTyped, PTL
-----------------------------------------------------------------------------
(* What the sockets hold, and what poll has seen of them *)

\* How many messages of c main has received.
Received(c) == written[c] - Len(socket[c])

SocketInv ==
  \A c \in Clients :
     /\ Len(socket[c]) <= written[c]
     /\ \A i \in 1 .. Len(socket[c]) :
           socket[c][i].id = <<c, Received(c) + i>> /\ MessageOf(socket[c][i], c)

\* The array names each connection once.  While no bot ends, what poll found
\* in a socket is there until the loop gets to it.
PollInv ==
  /\ \A i, j \in 1 .. Len(fds) : fds[i] = fds[j] => i = j
  /\ \A i \in 1 .. Len(fds) : link[fds[i]] \notin {"none", "connecting"}
  /\ \A i, j \in 1 .. Len(ready) : ready[i].fd = ready[j].fd => i = j
  /\ AllStay =>
       \A i \in 1 .. Len(ready) :
          ready[i].fd \in Clients /\ ready[i].revents = "in" /\ (i = 1 => mpc = "scan")
            => socket[ready[i].fd] # << >>

\* What main holds was received, and so was what it has queued.
OmmInv ==
  /\ omm # NoMessage =>
       MessageOf(omm, omm.id[1]) /\ omm.id[2] <= Received(omm.id[1])
  /\ \A i \in 1 .. Len(forwarded) : forwarded[i] # NoMessage =>
       forwarded[i].id[2] <= Received(forwarded[i].id[1])

InHand == mpc \in {"insert", "msgsnd"}

IsForwarded(id) == \E i \in 1 .. Len(forwarded) : forwarded[i].id = id

\* While no bot ends, the message in hand is the last one of its bot, and every
\* one before it has been queued.
FlowInv ==
  AllStay =>
    /\ InHand => /\ omm # NoMessage /\ omm.id[2] = Received(omm.id[1])
                 /\ omm.id[1] = Head(ready).fd
                 /\ ~IsForwarded(omm.id)
    /\ meUp /\ mpc # "down" =>
         \A c \in Clients : \A n \in 1 .. Received(c) :
            IsForwarded(<<c, n>>) \/ (InHand /\ omm.id = <<c, n>>)

OrderInv == SocketInv /\ PollInv /\ OmmInv /\ FlowInv

RouteInv ==
  AllStay =>
    /\ \A o \in Ids : connectionmapper[o] \in {None, o[1]}
    /\ apc \in {"send", "erase"} => it = ack[1]

IsRouted(o) == \E i \in 1 .. Len(routed) : routed[i].order = o

\* Main has noted where o came from, and it stays noted until o is answered.
Noted(o) == connectionmapper[o] # None \/ IsRouted(o)

\* The engine has been given a message about o, or the answer is on its way or
\* was dropped.
Asked(o) ==
  \/ \E i \in 1 .. Len(queue) : queue[i] # NoMessage /\ queue[i].order = o
  \/ \E i \in 1 .. Len(queue2) : queue2[i] = o
  \/ apc = "find" /\ ack = o
  \/ \E i \in 1 .. Len(unrouted) : unrouted[i] = o

NoteInv ==
  ~raced =>
    /\ \A o \in Ids : Placed(o) => Noted(o)
    /\ omm # NoMessage /\ IsNew(omm) /\ mpc \notin {"insert", "down"} => Noted(omm.id)
    /\ apc = "erase" => IsRouted(ack)

AskedInv ==
  \A o \in Ids : Asked(o) =>
    /\ o[2] <= Received(o[1])
    /\ omm # NoMessage /\ IsNew(omm) /\ omm.id = o => Placed(o)

LEMMA InitOrder == Init => OrderInv
<1> SUFFICES ASSUME Init PROVE OrderInv
  OBVIOUS
<1>1. Len(<< >>) = 0
  BY LenProperties, EmptySeq
<1>2. \A c \in Clients : Received(c) = 0
  BY <1>1 DEF Init, Received
<1>3. SocketInv
  BY <1>1 DEF Init, SocketInv
<1>4. PollInv /\ OmmInv
  BY <1>1 DEF Init, PollInv, OmmInv
<1>5. FlowInv
  BY <1>2 DEF Init, FlowInv, InHand
<1>6. QED
  BY <1>3, <1>4, <1>5 DEF OrderInv

\* Which steps touch the sockets.
LEMMA SocketSteps ==
  ASSUME Next
  PROVE  \/ \E c \in Clients : \E n \in 1 .. MaxMessages : Write(c, n)
         \/ Receive
         \/ socket' = socket /\ written' = written
<1>1. ASSUME NEW c \in Clients, Bot(c)
      PROVE  \/ \E n \in 1 .. MaxMessages : Write(c, n)
             \/ socket' = socket /\ written' = written
  BY <1>1 DEF Bot, Connect, Read, Leave
<1>2. CASE Accept \/ Send
  BY <1>2 DEF Accept, Send
<1>3. QED
  BY <1>1, <1>2, BotSteps DEF botVars

LEMMA WriteAppends ==
  ASSUME TypeInv, NEW c \in Clients, NEW n \in 1 .. MaxMessages, Write(c, n)
  PROVE  LET m == [id |-> <<c, written[c] + 1>>, order |-> <<c, n>>]
         IN  /\ written[c] \in Nat /\ written[c] + 1 \in 1 .. MaxMessages
             /\ MessageOf(m, c) /\ socket[c] \in Seq(Message)
             /\ socket' = [socket EXCEPT ![c] = Append(socket[c], m)]
             /\ written' = [written EXCEPT ![c] = written[c] + 1]
             /\ written \in [Clients -> Nat] /\ socket \in [Clients -> Seq(Message)]
<1>1. BotTypes
  BY TypeParts DEF TypeInv, Types
<1>2. written[c] \in 0 .. MaxMessages /\ mode.messages \in 1 .. MaxMessages
  BY <1>1, ConnMgrAssumption DEF BotTypes
<1>3. written[c] + 1 \in 1 .. MaxMessages
  BY <1>2, ConnMgrAssumption DEF Write
<1>4. [id |-> <<c, written[c] + 1>>, order |-> <<c, n>>] \in Message
  BY <1>3 DEF Message, Ids
<1>5. n <= written[c] + 1
  BY <1>2 DEF Write
<1>6. MessageOf([id |-> <<c, written[c] + 1>>, order |-> <<c, n>>], c)
  BY <1>4, <1>5 DEF MessageOf
<1>7. \A d \in Clients : written[d] \in Nat
  BY <1>1, ConnMgrAssumption DEF BotTypes
<1>8. QED
  BY <1>1, <1>2, <1>3, <1>6, <1>7 DEF BotTypes, Write

\* What main has received is more only after it received.
LEMMA ReceivedKept ==
  ASSUME TypeInv, Next, ~Receive
  PROVE  \A c \in Clients : Received(c)' = Received(c)
<1>1. CASE socket' = socket /\ written' = written
  BY <1>1 DEF Received
<1>2. ASSUME NEW c \in Clients, NEW n \in 1 .. MaxMessages, Write(c, n)
      PROVE  \A d \in Clients : Received(d)' = Received(d)
  <2> DEFINE m == [id |-> <<c, written[c] + 1>>, order |-> <<c, n>>]
  <2>1. /\ written[c] \in Nat /\ m \in Message
        /\ socket[c] \in Seq(Message)
        /\ socket' = [socket EXCEPT ![c] = Append(socket[c], m)]
        /\ written' = [written EXCEPT ![c] = written[c] + 1]
        /\ written \in [Clients -> Nat] /\ socket \in [Clients -> Seq(Message)]
    BY <1>2, WriteAppends DEF MessageOf
  <2> HIDE DEF m
  <2>2. Len(Append(socket[c], m)) = Len(socket[c]) + 1 /\ Len(socket[c]) \in Nat
    BY <2>1, AppendProperties, LenProperties
  <2>3. TAKE d \in Clients
  <2>4. CASE d = c
    BY <2>1, <2>2, <2>4 DEF Received
  <2>5. CASE d # c
    BY <2>1, <2>5 DEF Received
  <2>6. QED
    BY <2>4, <2>5
<1>3. QED
  BY <1>1, <1>2, SocketSteps

LEMMA ReceiveFrom ==
  ASSUME TypeInv, Receive
  PROVE  Head(ready).fd \in Clients
  BY HeadIsEvent DEF Receive, InLoop, Event

LEMMA ReceiveTakes ==
  ASSUME TypeInv, SocketInv, Receive, NEW c \in Clients, c = Head(ready).fd
  PROVE  \/ /\ socket[c] = << >> /\ omm' = omm
            /\ \A d \in Clients : Received(d)' = Received(d) /\ socket'[d] = socket[d]
         \/ /\ socket[c] # << >>
            /\ MessageOf(omm', c) /\ omm' # NoMessage
            /\ omm'.id = <<c, Received(c) + 1>>
            /\ Received(c)' = Received(c) + 1
            /\ socket'[c] = Tail(socket[c])
            /\ \A d \in Clients \ {c} :
                  Received(d)' = Received(d) /\ socket'[d] = socket[d]
<1>1. BotTypes
  BY TypeParts DEF TypeInv, Types
<1>2. written' = written /\ written[c] \in Nat
  BY <1>1, ConnMgrAssumption DEF Receive, BotTypes
<1>3. CASE socket[c] = << >>
  <2>1. omm' = omm /\ socket' = socket
    BY <1>3 DEF Receive
  <2>2. QED
    BY <1>1, <1>2, <1>3, <2>1 DEF Received
<1>4. CASE socket[c] # << >>
  <2>1. omm' = Head(socket[c]) /\ socket' = [socket EXCEPT ![c] = Tail(socket[c])]
    BY <1>4 DEF Receive
  <2>2. /\ socket[c] \in Seq(Message) /\ Len(socket[c]) \in Nat \ {0}
        /\ Head(socket[c]) = socket[c][1]
        /\ Len(Tail(socket[c])) = Len(socket[c]) - 1
    BY <1>1, <1>4, HeadTailProperties, LenProperties, EmptySeq DEF BotTypes
  <2>3. socket'[c] = Tail(socket[c]) /\ \A d \in Clients \ {c} : socket'[d] = socket[d]
    BY <1>1, <2>1 DEF BotTypes
  <2>4. MessageOf(omm', c) /\ omm'.id = <<c, Received(c) + 1>>
    BY <1>1, <2>1, <2>2 DEF SocketInv
  <2>5. omm' # NoMessage
    BY <2>4, ConnMgrAssumption DEF MessageOf
  <2>6. Received(c)' = Received(c) + 1
    BY <1>2, <2>2, <2>3 DEF Received
  <2>7. \A d \in Clients \ {c} : Received(d)' = Received(d)
    BY <1>2, <2>3 DEF Received
  <2>8. QED
    BY <1>1, <1>4, <2>3, <2>4, <2>5, <2>6, <2>7
<1>5. QED
  BY <1>3, <1>4

LEMMA ReceivedIsNat ==
  ASSUME TypeInv, SocketInv, NEW c \in Clients
  PROVE  /\ Received(c) \in Nat /\ written[c] \in Nat
         /\ socket[c] \in Seq(Message) /\ Len(socket[c]) \in Nat
<1>1. written[c] \in Nat /\ socket[c] \in Seq(Message) /\ Len(socket[c]) \in Nat
  BY TypeParts, ConnMgrAssumption, LenProperties DEF TypeInv, Types, BotTypes
<1>2. QED
  BY <1>1 DEF Received, SocketInv

LEMMA SocketStep ==
  ASSUME TypeInv, SocketInv, [Next]_vars
  PROVE  SocketInv'
<1> DEFINE Fine(d) ==
             /\ Len(socket[d]) <= written[d]
             /\ \A i \in 1 .. Len(socket[d]) :
                   socket[d][i].id = <<d, Received(d) + i>> /\ MessageOf(socket[d][i], d)
<1>1. CASE socket' = socket /\ written' = written
  BY <1>1 DEF SocketInv, Received
<1>2. ASSUME NEW c \in Clients, NEW n \in 1 .. MaxMessages, Write(c, n)
      PROVE  SocketInv'
  <2> DEFINE m == [id |-> <<c, written[c] + 1>>, order |-> <<c, n>>]
  <2>1. /\ written[c] \in Nat /\ MessageOf(m, c)
        /\ socket[c] \in Seq(Message)
        /\ socket' = [socket EXCEPT ![c] = Append(socket[c], m)]
        /\ written' = [written EXCEPT ![c] = written[c] + 1]
        /\ written \in [Clients -> Nat] /\ socket \in [Clients -> Seq(Message)]
    BY <1>2, WriteAppends
  <2>2. m.id = <<c, written[c] + 1>>
    OBVIOUS
  <2> HIDE DEF m
  <2>3. ASSUME NEW d \in Clients \ {c} PROVE Fine(d)'
    BY <2>1 DEF SocketInv, Received
  <2>4. Fine(c)'
    <3>1. /\ socket'[c] = Append(socket[c], m) /\ written'[c] = written[c] + 1
          /\ Len(socket[c]) \in Nat /\ m \in Message
      BY <2>1, LenProperties DEF MessageOf
    <3>2. /\ Len(socket'[c]) = Len(socket[c]) + 1
          /\ \A i \in 1 .. Len(socket[c]) : socket'[c][i] = socket[c][i]
          /\ socket'[c][Len(socket[c]) + 1] = m
      BY <2>1, <3>1, AppendProperties
    <3>3. written'[c] - Len(socket'[c]) = written[c] - Len(socket[c])
      BY <2>1, <3>1, <3>2
    <3>4. ASSUME NEW i \in 1 .. Len(socket'[c])
          PROVE  /\ socket'[c][i].id = <<c, (written'[c] - Len(socket'[c])) + i>>
                 /\ MessageOf(socket'[c][i], c)
      <4>1. CASE i \in 1 .. Len(socket[c])
        BY <3>2, <3>3, <4>1 DEF SocketInv, Received
      <4>2. CASE i = Len(socket[c]) + 1
        BY <2>1, <2>2, <3>1, <3>2, <3>3, <4>2
      <4>3. QED
        BY <3>1, <3>2, <4>1, <4>2
    <3>5. Len(socket'[c]) <= written'[c]
      BY <2>1, <3>1, <3>2 DEF SocketInv
    <3>6. QED
      BY <3>4, <3>5 DEF Received
  <2>5. QED
    BY <2>3, <2>4 DEF SocketInv
<1>3. CASE Receive
  <2>1. PICK c \in Clients : c = Head(ready).fd
    BY <1>3, ReceiveFrom
  <2>2. ASSUME NEW d \in Clients, socket'[d] = socket[d] PROVE Fine(d)'
    <3>1. written' = written
      BY <1>3 DEF Receive
    <3>2. QED
      BY <2>2, <3>1 DEF SocketInv, Received
  <2>3. CASE \A d \in Clients : socket'[d] = socket[d]
    BY <2>2, <2>3 DEF SocketInv
  <2>4. CASE /\ socket[c] # << >> /\ socket'[c] = Tail(socket[c])
             /\ Received(c)' = Received(c) + 1
             /\ \A d \in Clients \ {c} : socket'[d] = socket[d]
    <3>1. /\ socket[c] \in Seq(Message) /\ Len(socket[c]) \in Nat
          /\ Received(c) \in Nat /\ written[c] \in Nat
      BY ReceivedIsNat
    <3>2. /\ Len(socket'[c]) = Len(socket[c]) - 1
          /\ \A i \in 1 .. Len(socket'[c]) : socket'[c][i] = socket[c][i + 1]
      BY <2>4, <3>1, HeadTailProperties
    <3>3. Len(socket'[c]) <= written'[c]
      BY <1>3, <3>1, <3>2 DEF SocketInv, Receive
    <3>4. ASSUME NEW i \in 1 .. Len(socket'[c])
          PROVE  /\ socket'[c][i].id = <<c, (Received(c) + 1) + i>>
                 /\ MessageOf(socket'[c][i], c)
      <4>1. i + 1 \in 1 .. Len(socket[c]) /\ Received(c) + (i + 1) = (Received(c) + 1) + i
        BY <3>1, <3>2
      <4>2. QED
        BY <3>2, <4>1 DEF SocketInv
    <3>5. Fine(c)'
      BY <2>4, <3>3, <3>4
    <3>6. QED
      BY <2>2, <2>4, <3>5 DEF SocketInv
  <2>5. QED
    BY <1>3, <2>1, <2>3, <2>4, ReceiveTakes
<1>4. QED
  BY <1>1, <1>2, <1>3, SocketSteps DEF vars, botVars

\* A connection that was accepted stays so, one that has ended stays ended.
LEMMA LinkStays ==
  ASSUME TypeInv, [Next]_vars, NEW c \in Clients
  PROVE  /\ link[c] \notin {"none", "connecting"} => link'[c] \notin {"none", "connecting"}
         /\ link[c] \in {"closed", "reset"} => link'[c] \in {"closed", "reset"}
<1>1. BotTypes
  BY TypeParts DEF TypeInv, Types
<1>2. ASSUME NEW d \in Clients, Bot(d)
      PROVE  /\ link[c] \notin {"none", "connecting"} => link'[c] \notin {"none", "connecting"}
             /\ link[c] \in {"closed", "reset"} => link'[c] \in {"closed", "reset"}
  BY <1>1, <1>2 DEF Bot, Connect, Read, Leave, Write, BotTypes
<1>3. CASE Accept
  BY <1>3 DEF Accept
<1>4. CASE Receive
  BY <1>4 DEF Receive
<1>5. CASE Send
  BY <1>1, <1>5 DEF Send, BotTypes, TypeInv, ControlInv
<1>6. CASE UNCHANGED botVars
  BY <1>6 DEF botVars
<1>7. CASE UNCHANGED vars
  BY <1>6, <1>7 DEF vars
<1>8. QED
  BY <1>2, <1>3, <1>4, <1>5, <1>6, <1>7, BotSteps

LEMMA AllStayed ==
  ASSUME TypeInv, [Next]_vars, AllStay'
  PROVE  AllStay
  BY LinkStays DEF AllStay

LEMMA FdsStep ==
  ASSUME TypeInv, PollInv, [Next]_vars
  PROVE  /\ \A i, j \in 1 .. Len(fds') : fds'[i] = fds'[j] => i = j
         /\ \A i \in 1 .. Len(fds') : link'[fds'[i]] \notin {"none", "connecting"}
<1>1. fds \in Seq(Clients) /\ BotTypes
  BY TypeParts DEF TypeInv, Types, MainTypes
<1>2. \A i \in 1 .. Len(fds) : fds[i] \in Clients
  BY <1>1, ElementOfSeq
<1>3. CASE Accept
  <2>1. /\ fds' \in Seq(Clients) /\ Len(fds) \in Nat /\ Len(fds') \in Nat
        /\ Len(fds) <= Len(fds')
        /\ \A i \in 1 .. Len(fds) : fds'[i] = fds[i]
        /\ \A i \in Len(fds) + 1 .. Len(fds') : link[fds'[i]] = "connecting"
        /\ \A i, j \in Len(fds) + 1 .. Len(fds') : fds'[i] = fds'[j] => i = j
    BY <1>3, Accepted
  <2>2. \A i \in 1 .. Len(fds') : fds'[i] \in Clients
    BY <2>1, ElementOfSeq
  <2>3. \A i \in 1 .. Len(fds') : i \in 1 .. Len(fds) \/ i \in Len(fds) + 1 .. Len(fds')
    BY <2>1
  <2>4. ASSUME NEW i \in 1 .. Len(fds'), NEW j \in 1 .. Len(fds'), fds'[i] = fds'[j]
        PROVE  i = j
    BY <2>1, <2>3, <2>4 DEF PollInv
  <2>5. ASSUME NEW i \in 1 .. Len(fds')
        PROVE  link'[fds'[i]] \notin {"none", "connecting"}
    <3>1. CASE i \in 1 .. Len(fds)
      BY <1>2, <2>1, <3>1, LinkStays DEF PollInv
    <3>2. CASE i \in Len(fds) + 1 .. Len(fds')
      BY <1>3, <2>1, <2>2, <3>2 DEF Accept
    <3>3. QED
      BY <2>3, <3>1, <3>2
  <2>6. QED
    BY <2>4, <2>5
<1>4. CASE fds' = fds
  BY <1>2, <1>4, LinkStays DEF PollInv
<1>5. CASE Poll \/ Receive \/ Insert \/ InsertLost \/ Msgsnd \/ Copy
  BY <1>4, <1>5 DEF Poll, Receive, Insert, InsertLost, Msgsnd, Copy, pollVars
<1>6. CASE UNCHANGED vars
  BY <1>4, <1>6 DEF vars, pollVars
<1>7. QED
  BY <1>3, <1>4, <1>5, <1>6, MainSteps DEF MainStays

\* What is left of the events after one was handled.
LEMMA HandledKeeps ==
  ASSUME TypeInv, PollInv, InLoop, Handled
  PROVE  /\ \A i, j \in 1 .. Len(ready') : ready'[i].fd = ready'[j].fd => i = j
         /\ AllStay =>
              \A i \in 1 .. Len(ready') :
                 ready'[i].fd \in Clients /\ ready'[i].revents = "in"
                   => socket[ready'[i].fd] # << >>
<1>1. ready \in Seq(Event) /\ Len(ready) \in Nat
  BY HeadIsEvent
<1>2. CASE ready' = << >>
  BY <1>2, EmptySeq
<1>3. ASSUME NEW k \in 2 .. Len(ready), ready' \in Seq(Event),
             Len(ready') = Len(ready) - k + 1,
             \A i \in 1 .. Len(ready') : ready'[i] = ready[k + i - 1]
      PROVE  /\ \A i, j \in 1 .. Len(ready') : ready'[i].fd = ready'[j].fd => i = j
             /\ AllStay =>
                  \A i \in 1 .. Len(ready') :
                     ready'[i].fd \in Clients /\ ready'[i].revents = "in"
                       => socket[ready'[i].fd] # << >>
  <2>1. \A i \in 1 .. Len(ready') : k + i - 1 \in 2 .. Len(ready)
    BY <1>1, <1>3
  <2>2. ASSUME NEW i \in 1 .. Len(ready'), NEW j \in 1 .. Len(ready'),
               ready'[i].fd = ready'[j].fd
        PROVE  i = j
    <3> DEFINE a == k + i - 1
               b == k + j - 1
    <3>1. a \in 1 .. Len(ready) /\ b \in 1 .. Len(ready) /\ ready[a].fd = ready[b].fd
      BY <1>1, <1>3, <2>1, <2>2
    <3> HIDE DEF a, b
    <3>2. a = b
      BY <3>1 DEF PollInv
    <3>3. QED
      BY <1>1, <1>3, <3>2 DEF a, b
  <2>3. ASSUME AllStay, NEW i \in 1 .. Len(ready'),
               ready'[i].fd \in Clients, ready'[i].revents = "in"
        PROVE  socket[ready'[i].fd] # << >>
    <3> DEFINE a == k + i - 1
    <3>1. a \in 1 .. Len(ready) /\ a # 1 /\ ready'[i] = ready[a]
      BY <1>1, <1>3, <2>1
    <3> HIDE DEF a
    <3>2. QED
      BY <2>3, <3>1 DEF PollInv
  <2>4. QED
    BY <2>2, <2>3
<1>4. QED
  BY <1>2, <1>3, AfterHandled

LEMMA PollFresh ==
  ASSUME TypeInv, PollInv, Poll
  PROVE  /\ \A i, j \in 1 .. Len(ready') : ready'[i].fd = ready'[j].fd => i = j
         /\ AllStay =>
              \A i \in 1 .. Len(ready') :
                 ready'[i].fd \in Clients /\ ready'[i].revents = "in"
                   => socket[ready'[i].fd] # << >>
<1>1. /\ Events \in Seq(Event) /\ Len(Events) = Len(fds) + 1 /\ Len(fds) \in Nat
      /\ Events[1].fd = Listener
      /\ \A i \in 1 .. Len(fds) : Events[i + 1].fd = fds[i] /\ fds[i] \in Clients
      /\ \A i \in 1 .. Len(Events) : Events[i].revents = Revents(Events[i].fd)
  <2>1. fds \in Seq(Clients)
    BY TypeParts DEF TypeInv, Types, MainTypes
  <2>2. QED
    BY <2>1, EventsTyped, LenProperties, ElementOfSeq DEF TypeInv
<1>2. \A i \in 2 .. Len(Events) :
         i - 1 \in 1 .. Len(fds) /\ Events[i].fd = fds[i - 1] /\ Events[i].fd \in Clients
  <2>1. TAKE i \in 2 .. Len(Events)
  <2>2. i - 1 \in 1 .. Len(fds) /\ (i - 1) + 1 = i
    BY <1>1
  <2>3. QED
    BY <1>1, <2>2
<1>3. ASSUME NEW i \in 1 .. Len(Events), NEW j \in 1 .. Len(Events),
             Events[i].fd = Events[j].fd
      PROVE  i = j
  <2>1. CASE i = 1
    BY <1>1, <1>2, <1>3, <2>1, ConnMgrAssumption
  <2>2. CASE j = 1
    BY <1>1, <1>2, <1>3, <2>2, ConnMgrAssumption
  <2>3. CASE i # 1 /\ j # 1
    <3>1. fds[i - 1] = fds[j - 1] /\ i - 1 \in 1 .. Len(fds) /\ j - 1 \in 1 .. Len(fds)
      BY <1>1, <1>2, <1>3, <2>3
    <3>2. i - 1 = j - 1
      BY <3>1 DEF PollInv
    <3>3. QED
      BY <1>1, <3>2
  <2>4. QED
    BY <2>1, <2>2, <2>3
<1>4. ASSUME AllStay, NEW i \in 1 .. Len(Events), Events[i].fd \in Clients,
             Events[i].revents = "in"
      PROVE  socket[Events[i].fd] # << >>
  <2>1. Events[i].fd # Listener /\ Revents(Events[i].fd) = "in"
    BY <1>1, <1>4, ConnMgrAssumption
  <2> DEFINE c == Events[i].fd
  <2>2. link[c] # "closed"
    BY <1>4 DEF AllStay
  <2> HIDE DEF c
  <2>3. Revents(c) = "in" /\ c # Listener
    BY <2>1 DEF c
  <2>4. Readable(c)
    BY <2>3 DEF Revents, HasInput
  <2>5. QED
    BY <2>2, <2>4 DEF Readable, c
<1>5. PICK k \in 1 .. Len(Events) :
         /\ Len(ready') = Len(Events) - k + 1
         /\ \A i \in 1 .. Len(ready') : ready'[i] = Events[k + i - 1]
  BY PollFinds
<1>6. \A i \in 1 .. Len(ready') : k + i - 1 \in 1 .. Len(Events)
  BY <1>1, <1>5
<1>7. ASSUME NEW i \in 1 .. Len(ready'), NEW j \in 1 .. Len(ready'),
             ready'[i].fd = ready'[j].fd
      PROVE  i = j
  <2>1. k + i - 1 = k + j - 1
    BY <1>3, <1>5, <1>6, <1>7
  <2>2. QED
    BY <1>1, <1>5, <2>1
<1>8. QED
  BY <1>4, <1>5, <1>6, <1>7

\* Only receiving takes a message out of a socket.
LEMMA SocketFull ==
  ASSUME TypeInv, [Next]_vars, ~Receive, NEW c \in Clients, socket[c] # << >>
  PROVE  socket'[c] # << >>
<1>1. ASSUME NEW d \in Clients, NEW n \in 1 .. MaxMessages, Write(d, n)
      PROVE  socket'[c] # << >>
  <2> DEFINE m == [id |-> <<d, written[d] + 1>>, order |-> <<d, n>>]
  <2>1. /\ m \in Message /\ socket[d] \in Seq(Message)
        /\ socket' = [socket EXCEPT ![d] = Append(socket[d], m)]
        /\ socket \in [Clients -> Seq(Message)]
    BY <1>1, WriteAppends DEF MessageOf
  <2> HIDE DEF m
  <2>2. Append(socket[d], m) # << >>
    BY <2>1, AppendProperties
  <2>3. QED
    BY <2>1, <2>2
<1>2. QED
  BY <1>1, SocketSteps DEF vars, botVars

LEMMA PollStep ==
  ASSUME TypeInv, PollInv, [Next]_vars
  PROVE  PollInv'
<1> DEFINE Distinct == \A i, j \in 1 .. Len(ready) : ready[i].fd = ready[j].fd => i = j
           Fresh == AllStay =>
             \A i \in 1 .. Len(ready) :
                ready[i].fd \in Clients /\ ready[i].revents = "in" /\ (i = 1 => mpc = "scan")
                  => socket[ready[i].fd] # << >>
<1> SUFFICES Distinct' /\ Fresh'
  BY FdsStep DEF PollInv
<1>1. Distinct /\ Fresh
  BY DEF PollInv
<1>2. AllStay' => AllStay
  BY AllStayed
<1>3. CASE Poll
  BY <1>2, <1>3, PollFresh DEF Poll, botVars
<1>4. CASE Accept \/ Copy
  <2>1. InLoop /\ Handled /\ socket' = socket
    BY <1>4 DEF Accept, Copy, InLoop, botVars
  <2>2. QED
    BY <1>2, <2>1, HandledKeeps
<1>5. CASE Receive
  <2>1. PICK c \in Clients : c = Head(ready).fd
    BY <1>5, ReceiveFrom
  <2>2. /\ ready' = ready /\ mpc' = "insert" /\ Head(ready) = ready[1]
        /\ Len(ready) \in Nat \ {0}
    BY <1>5, HeadIsEvent DEF Receive, InLoop, pollVars
  <2>3. \A d \in Clients \ {c} : socket'[d] = socket[d]
    BY <1>5, <2>1, TypeParts DEF Receive, TypeInv, Types, BotTypes
  <2>4. \A i \in 2 .. Len(ready) : ready[i].fd # c
    BY <1>1, <2>1, <2>2
  <2>5. QED
    BY <1>1, <1>2, <2>2, <2>3, <2>4
<1>6. CASE Insert \/ InsertLost \/ Msgsnd
  BY <1>1, <1>2, <1>6 DEF Insert, InsertLost, Msgsnd, Meet, pollVars, botVars
<1>7. CASE MainStays
  <2>1. ~Receive
    BY <1>7 DEF Receive, MainStays
  <2>2. \A c \in Clients : socket[c] # << >> => socket'[c] # << >>
    BY <2>1, SocketFull
  <2>3. QED
    BY <1>1, <1>2, <1>7, <2>2 DEF MainStays
<1>8. CASE UNCHANGED vars
  BY <1>1, <1>2, <1>8 DEF vars, botVars, pollVars
<1>9. QED
  BY <1>3, <1>4, <1>5, <1>6, <1>7, <1>8, MainSteps

LEMMA OmmStep ==
  ASSUME TypeInv, SocketInv, OmmInv, [Next]_vars
  PROVE  OmmInv'
<1> DEFINE Held == omm # NoMessage =>
             MessageOf(omm, omm.id[1]) /\ omm.id[2] <= Received(omm.id[1])
           Queued == \A i \in 1 .. Len(forwarded) : forwarded[i] # NoMessage =>
             forwarded[i].id[2] <= Received(forwarded[i].id[1])
<1> SUFFICES Held' /\ Queued'
  BY DEF OmmInv
<1>1. QueueTypes /\ MainTypes /\ Held /\ Queued
  BY TypeParts DEF TypeInv, Types, OmmInv
<1>2. \A i \in 1 .. Len(forwarded) :
         forwarded[i] # NoMessage => forwarded[i].id[1] \in Clients /\ forwarded[i].id[2] \in Nat
  BY <1>1, ElementOfSeq DEF QueueTypes, Message, Ids
<1>3. omm # NoMessage => omm.id[1] \in Clients /\ omm.id[2] \in Nat
  BY <1>1 DEF MainTypes, Message, Ids
<1>4. CASE Receive
  <2>1. PICK c \in Clients : c = Head(ready).fd
    BY <1>4, ReceiveFrom
  <2>2. \A d \in Clients : Received(d) \in Nat
    BY ReceivedIsNat
  <2>3. forwarded' = forwarded
    BY <1>4 DEF Receive
  <2>4. \A d \in Clients : Received(d)' \in {Received(d), Received(d) + 1}
    BY <1>4, <2>1, ReceiveTakes
  <2>5. Queued'
    <3>1. SUFFICES ASSUME NEW i \in 1 .. Len(forwarded), forwarded[i] # NoMessage,
                          NEW d \in Clients, d = forwarded[i].id[1]
                   PROVE  forwarded[i].id[2] <= Received(d)'
      BY <1>2, <2>3 DEF Received
    <3>2. forwarded[i].id[2] <= Received(d)
      BY <1>1, <3>1
    <3>3. QED
      BY <1>2, <2>2, <2>4, <3>1, <3>2
  <2>6. Held'
    <3>1. CASE omm' = omm /\ \A d \in Clients : Received(d)' = Received(d)
      BY <1>1, <1>3, <3>1 DEF Received
    <3>2. CASE /\ MessageOf(omm', c) /\ omm'.id = <<c, Received(c) + 1>>
               /\ Received(c)' = Received(c) + 1
      <4>1. omm'.id[1] = c /\ omm'.id[2] = Received(c) + 1
        BY <3>2
      <4>2. QED
        BY <2>2, <3>2, <4>1 DEF Received
    <3>3. QED
      BY <1>4, <2>1, <3>1, <3>2, ReceiveTakes
  <2>7. QED
    BY <2>5, <2>6
<1>5. CASE ~Receive
  <2>1. \A d \in Clients : Received(d)' = Received(d)
    <3>1. CASE UNCHANGED vars
      BY <3>1 DEF vars, botVars, Received
    <3>2. QED
      BY <1>5, <3>1, ReceivedKept
  <2>2. omm' = omm
    BY <1>5, MainSteps DEF MainStays, Poll, Accept, Insert, InsertLost, Msgsnd, Copy, vars
  <2>3. CASE forwarded' = forwarded
    BY <1>1, <1>2, <1>3, <2>1, <2>2, <2>3 DEF Received
  <2>4. CASE forwarded' = Append(forwarded, omm)
    <3>1. /\ Len(forwarded') = Len(forwarded) + 1 /\ Len(forwarded) \in Nat
          /\ \A i \in 1 .. Len(forwarded) : forwarded'[i] = forwarded[i]
          /\ forwarded'[Len(forwarded) + 1] = omm
      BY <1>1, <2>4, AppendProperties, LenProperties DEF QueueTypes, MainTypes
    <3>2. \A i \in 1 .. Len(forwarded') :
             i \in 1 .. Len(forwarded) \/ i = Len(forwarded) + 1
      BY <3>1
    <3>3. QED
      BY <1>1, <1>2, <1>3, <2>1, <2>2, <3>1, <3>2 DEF Received
  <2>5. forwarded' \in {forwarded, Append(forwarded, omm)}
    BY QueueSteps DEF Msgsnd, Copy, Rcv, Answer, QueuesKept, vars
  <2>6. QED
    BY <2>3, <2>4, <2>5
<1>6. QED
  BY <1>4, <1>5

LEMMA QueueStaysGone ==
  ASSUME [Next]_vars, meUp'
  PROVE  meUp
<1>1. ASSUME NEW c \in Clients, Bot(c) PROVE meUp' = meUp
  BY <1>1 DEF Bot, Connect, Read, Leave, Write, meVars
<1>2. CASE Poll \/ Unexpected \/ Accept \/ Receive \/ Insert \/ InsertLost
           \/ Msgsnd \/ Copy \/ PollTimesOut
  BY <1>2
  DEF Poll, Unexpected, Accept, Receive, Insert, InsertLost, Msgsnd, Copy,
      PollTimesOut, meVars
<1>3. CASE Rcv \/ RcvFails \/ Find \/ Send \/ Erase
  BY <1>3 DEF Rcv, RcvFails, Find, Send, Erase, meVars
<1>4. CASE Answer \/ EngineStops \/ Publish \/ PublisherStops
  BY <1>4 DEF Answer, EngineStops, Publish, PublisherStops, meVars
<1>5. CASE SlotGone \/ Handler \/ RaceKills \/ BrokenPipe
  BY <1>5 DEF SlotGone, Handler, RaceKills, BrokenPipe, Gone
<1>6. CASE UNCHANGED vars
  BY <1>6 DEF vars, meVars
<1>7. QED
  BY <1>1, <1>2, <1>3, <1>4, <1>5, <1>6 DEF Next, Main, ReadFromMatchingEngine

LEMMA Unreceived ==
  ASSUME TypeInv, [Next]_vars, ~Receive
  PROVE  \A c \in Clients : Received(c)' = Received(c)
<1>1. CASE UNCHANGED vars
  BY <1>1 DEF vars, botVars, Received
<1>2. QED
  BY <1>1, ReceivedKept

\* InOrderOnce for one message, without the set of those before it.
InPlace(i) ==
  /\ forwarded[i] # NoMessage
  /\ \A j \in 1 .. i - 1 : forwarded[j] # forwarded[i]
  /\ \A n \in 1 .. forwarded[i].id[2] - 1 :
        \E j \in 1 .. i - 1 : forwarded[j].id = <<forwarded[i].id[1], n>>

AllInPlace == AllStay => \A i \in 1 .. Len(forwarded) : InPlace(i)

LEMMA InPlaceInOrder == InOrderOnce <=> AllInPlace
<1> DEFINE Before(i) == {forwarded[j] : j \in 1 .. i - 1}
           m(i) == forwarded[i]
           InOrder(i) ==
             /\ m(i) # NoMessage /\ m(i) \notin Before(i)
             /\ \A n \in 1 .. m(i).id[2] - 1 :
                   \E e \in Before(i) : e.id = <<m(i).id[1], n>>
<1>1. ASSUME NEW i PROVE InOrder(i) <=> InPlace(i)
  <2>1. m(i) \notin Before(i) <=> \A j \in 1 .. i - 1 : forwarded[j] # forwarded[i]
    OBVIOUS
  <2>2. \A id : (\E e \in Before(i) : e.id = id)
                  <=> \E j \in 1 .. i - 1 : forwarded[j].id = id
    OBVIOUS
  <2>3. (\A n \in 1 .. m(i).id[2] - 1 : \E e \in Before(i) : e.id = <<m(i).id[1], n>>)
        <=> \A n \in 1 .. m(i).id[2] - 1 :
               \E j \in 1 .. i - 1 : forwarded[j].id = <<m(i).id[1], n>>
    <3> HIDE DEF Before, m
    <3>1. QED
      BY <2>2
  <2>4. QED
    BY <2>1, <2>3 DEF InPlace
<1>2. InOrderOnce <=> (AllStay => \A i \in 1 .. Len(forwarded) : InOrder(i))
  BY DEF InOrderOnce
<1> HIDE DEF InOrder
<1>3. QED
  BY <1>1, <1>2 DEF AllInPlace

FlowOrder == FlowInv /\ AllInPlace

\* Steps that leave the message in hand and the engine's stream alone.
LEMMA FlowKept ==
  ASSUME FlowOrder, AllStay' => AllStay,
         omm' = omm, forwarded' = forwarded,
         \A c \in Clients : Received(c)' = Received(c),
         InHand' => InHand /\ ready' = ready,
         meUp' /\ mpc' # "down" => meUp /\ mpc # "down" /\ (InHand => InHand'),
         omm # NoMessage => omm.id[1] \in Clients
  PROVE  FlowOrder'
<1> SUFFICES ASSUME AllStay' PROVE FlowOrder'
  BY DEF FlowOrder, FlowInv, AllInPlace
<1>1. AllInPlace'
  <2>1. ASSUME NEW i \in 1 .. Len(forwarded), InPlace(i) PROVE InPlace(i)'
    BY <2>1 DEF InPlace
  <2>2. QED
    BY <2>1 DEF FlowOrder, AllInPlace
<1>2. \A id : IsForwarded(id)' <=> IsForwarded(id)
  BY DEF IsForwarded
<1>3. InHand' => /\ omm' # NoMessage /\ omm'.id[1] = Head(ready').fd
                 /\ ~IsForwarded(omm.id)' /\ (omm.id[2] = Received(omm.id[1]))'
  BY <1>2 DEF FlowOrder, FlowInv, Received
<1>4. meUp' /\ mpc' # "down" =>
         \A c \in Clients : \A n \in 1 .. Received(c)' :
            IsForwarded(<<c, n>>)' \/ (InHand' /\ omm'.id = <<c, n>>)
  BY <1>2 DEF FlowOrder, FlowInv
<1>5. FlowInv'
  BY <1>3, <1>4 DEF FlowInv
<1>6. QED
  BY <1>1, <1>5 DEF FlowOrder

LEMMA ReceiveInOrder ==
  ASSUME TypeInv, SocketInv, PollInv, OmmInv, FlowOrder, Receive, AllStay, AllStay'
  PROVE  FlowOrder'
<1>1. PICK c \in Clients : c = Head(ready).fd
  BY ReceiveFrom
<1>2. Head(ready) = ready[1] /\ 1 \in 1 .. Len(ready)
  BY HeadIsEvent DEF Receive, InLoop
<1>3. socket[c] # << >>
  BY <1>1, <1>2 DEF Receive, PollInv
<1>4. /\ omm' # NoMessage /\ omm'.id = <<c, Received(c) + 1>>
      /\ Received(c)' = Received(c) + 1
      /\ \A d \in Clients \ {c} : Received(d)' = Received(d)
  BY <1>1, <1>3, ReceiveTakes
<1>5. /\ mpc' = "insert" /\ ready' = ready /\ forwarded' = forwarded /\ meUp' = meUp
      /\ mpc = "scan"
  BY DEF Receive, pollVars, meVars
<1>6. AllInPlace'
  <2>1. ASSUME NEW i \in 1 .. Len(forwarded), InPlace(i) PROVE InPlace(i)'
    BY <1>5, <2>1 DEF InPlace
  <2>2. QED
    BY <1>5, <2>1 DEF FlowOrder, AllInPlace
<1>7. \A d \in Clients : Received(d) \in Nat
  BY ReceivedIsNat
<1>8. \A id : IsForwarded(id)' <=> IsForwarded(id)
  BY <1>5 DEF IsForwarded
<1>9. ~IsForwarded(<<c, Received(c) + 1>>)
  <2>1. SUFFICES ASSUME NEW i \in 1 .. Len(forwarded),
                        forwarded[i].id = <<c, Received(c) + 1>>
                 PROVE  FALSE
    BY DEF IsForwarded
  <2>2. forwarded[i] # NoMessage
    BY DEF FlowOrder, AllInPlace, InPlace
  <2>3. forwarded[i].id[2] <= Received(forwarded[i].id[1])
    BY <2>2 DEF OmmInv
  <2>4. forwarded[i].id[1] = c /\ forwarded[i].id[2] = Received(c) + 1
    BY <2>1
  <2>5. QED
    BY <1>7, <2>3, <2>4
<1>10. (omm.id[2] = Received(omm.id[1]))'
  <2>1. omm'.id[1] = c /\ omm'.id[2] = Received(c) + 1
    BY <1>4
  <2>2. QED
    BY <1>4, <2>1 DEF Received
<1>11. meUp' => \A d \in Clients : \A n \in 1 .. Received(d)' :
          IsForwarded(<<d, n>>)' \/ omm'.id = <<d, n>>
  <2>1. SUFFICES ASSUME meUp, NEW d \in Clients, NEW n \in 1 .. Received(d)'
                 PROVE  IsForwarded(<<d, n>>) \/ omm'.id = <<d, n>>
    BY <1>5, <1>8
  <2>2. CASE n \in 1 .. Received(d)
    BY <1>5, <2>1, <2>2 DEF FlowOrder, FlowInv, InHand
  <2>3. CASE n \notin 1 .. Received(d)
    <3>1. d = c /\ n = Received(c) + 1
      BY <1>4, <1>7, <2>1, <2>3
    <3>2. QED
      BY <1>4, <3>1
  <2>4. QED
    BY <2>2, <2>3
<1>12. FlowInv'
  <2>1. InHand' /\ omm'.id[1] = Head(ready').fd
    BY <1>1, <1>4, <1>5 DEF InHand
  <2>2. ~IsForwarded(omm.id)'
    BY <1>4, <1>8, <1>9 DEF IsForwarded
  <2>3. QED
    BY <1>4, <1>10, <1>11, <2>1, <2>2 DEF FlowInv
<1>13. QED
  BY <1>6, <1>12 DEF FlowOrder

LEMMA MsgsndInOrder ==
  ASSUME TypeInv, SocketInv, OmmInv, FlowOrder, Msgsnd, AllStay, AllStay', meUp
  PROVE  FlowOrder'
<1>1. /\ forwarded' = Append(forwarded, omm) /\ omm' = omm /\ mpc = "msgsnd"
      /\ mpc' = "slot" /\ UNCHANGED <<socket, written>>
  BY DEF Msgsnd, botVars
<1>2. \A c \in Clients : Received(c)' = Received(c) /\ Received(c) \in Nat
  BY <1>1, ReceivedIsNat DEF Received
<1>3. QueueTypes /\ MainTypes
  BY TypeParts DEF TypeInv, Types
<1>4. /\ Len(forwarded') = Len(forwarded) + 1 /\ Len(forwarded) \in Nat
      /\ \A i \in 1 .. Len(forwarded) : forwarded'[i] = forwarded[i]
      /\ forwarded'[Len(forwarded) + 1] = omm
  BY <1>1, <1>3, AppendProperties, LenProperties DEF QueueTypes, MainTypes
<1>5. /\ omm # NoMessage /\ omm.id[2] = Received(omm.id[1]) /\ ~IsForwarded(omm.id)
      /\ \A c \in Clients : \A n \in 1 .. Received(c) :
            IsForwarded(<<c, n>>) \/ omm.id = <<c, n>>
  BY <1>1 DEF FlowOrder, FlowInv, InHand
<1>6. omm.id \in Ids
  BY <1>3, <1>5 DEF MainTypes, Message
<1>7. PICK c \in Clients, k \in 1 .. MaxMessages : omm.id = <<c, k>>
  BY <1>6 DEF Ids
<1>8. omm.id[1] = c /\ omm.id[2] = k /\ k = Received(c) /\ k \in Nat
  BY <1>2, <1>5, <1>7
<1>9. ASSUME NEW i \in 1 .. Len(forwarded) PROVE InPlace(i)'
  <2>1. InPlace(i)
    BY DEF FlowOrder, AllInPlace
  <2>2. \A j \in 1 .. i - 1 : j \in 1 .. Len(forwarded)
    BY <1>4
  <2>3. QED
    BY <1>4, <2>1, <2>2 DEF InPlace
<1>10. ASSUME NEW l, l = Len(forwarded) + 1 PROVE InPlace(l)'
  <2>1. l - 1 = Len(forwarded) /\ forwarded'[l] = omm
    BY <1>4, <1>10
  <2>2. \A j \in 1 .. Len(forwarded) : forwarded'[j] # omm
    BY <1>4, <1>5 DEF IsForwarded
  <2>3. ASSUME NEW n \in 1 .. k - 1
        PROVE  \E j \in 1 .. Len(forwarded) : forwarded'[j].id = <<c, n>>
    <3>1. n \in 1 .. Received(c) /\ <<c, k>> # <<c, n>>
      BY <1>8
    <3>2. IsForwarded(<<c, n>>)
      BY <1>5, <1>7, <3>1
    <3>3. QED
      BY <1>4, <3>2 DEF IsForwarded
  <2>4. /\ forwarded'[l] # NoMessage
        /\ \A j \in 1 .. l - 1 : forwarded'[j] # forwarded'[l]
        /\ \A n \in 1 .. forwarded'[l].id[2] - 1 :
              \E j \in 1 .. l - 1 : forwarded'[j].id = <<forwarded'[l].id[1], n>>
    BY <1>5, <1>8, <2>1, <2>2, <2>3
  <2>5. QED
    BY <2>4 DEF InPlace
<1>11. AllInPlace'
  <2>1. \A i \in 1 .. Len(forwarded') :
           i \in 1 .. Len(forwarded) \/ i = Len(forwarded) + 1
    BY <1>4
  <2>2. \A i \in 1 .. Len(forwarded') : InPlace(i)'
    BY <1>9, <1>10, <2>1
  <2>3. QED
    BY <2>2 DEF AllInPlace
<1>12. FlowInv'
  <2>1. ~InHand'
    BY <1>1 DEF InHand
  <2>2. \A id : IsForwarded(id) \/ omm.id = id => IsForwarded(id)'
    BY <1>4 DEF IsForwarded
  <2>3. \A d \in Clients : \A n \in 1 .. Received(d)' : IsForwarded(<<d, n>>)'
    BY <1>2, <1>5, <2>2
  <2>4. QED
    BY <2>1, <2>3 DEF FlowInv
<1>13. QED
  BY <1>11, <1>12 DEF FlowOrder

LEMMA FlowStep ==
  ASSUME TypeInv, OrderInv, FlowOrder, [Next]_vars
  PROVE  FlowOrder'
<1>1. AllStay' => AllStay
  BY AllStayed
<1>2. omm # NoMessage => omm.id[1] \in Clients
  BY TypeParts DEF TypeInv, Types, MainTypes, Message, Ids
<1>3. meUp' => meUp
  BY QueueStaysGone
<1>4. SUFFICES ASSUME AllStay' PROVE FlowOrder'
  BY DEF FlowOrder, FlowInv, AllInPlace
<1>5. CASE Receive
  BY <1>1, <1>4, <1>5, ReceiveInOrder DEF OrderInv
<1>6. CASE Msgsnd /\ meUp
  BY <1>1, <1>4, <1>6, MsgsndInOrder DEF OrderInv
<1>7. CASE ~Receive /\ ~(Msgsnd /\ meUp)
  <2>1. \A c \in Clients : Received(c)' = Received(c)
    BY <1>7, Unreceived
  <2>2. forwarded' = forwarded
    BY <1>7, QueueSteps DEF QueuesKept, Msgsnd, Copy, Rcv, Answer, vars
  <2>3. CASE MainStays
    BY <1>1, <1>2, <1>3, <2>1, <2>2, <2>3, FlowKept DEF MainStays, InHand
  <2>4. CASE Poll \/ Accept \/ Insert \/ InsertLost \/ Copy
    <3>1. /\ omm' = omm
          /\ InHand' => InHand /\ ready' = ready
          /\ mpc # "down" /\ (InHand => InHand')
      BY <2>4 DEF Poll, Accept, Insert, InsertLost, Meet, Copy, Handled, InHand, pollVars
    <3>2. QED
      BY <1>1, <1>2, <1>3, <2>1, <2>2, <3>1, FlowKept
  <2>5. CASE Msgsnd
    <3>1. /\ omm' = omm /\ ~InHand' /\ ~meUp'
      BY <1>3, <1>7, <2>5 DEF Msgsnd, InHand
    <3>2. QED
      BY <1>1, <1>2, <2>1, <2>2, <3>1, FlowKept
  <2>6. CASE UNCHANGED vars
    BY <2>3, <2>6 DEF MainStays, vars, pollVars
  <2>7. QED
    BY <1>7, <2>3, <2>4, <2>5, <2>6, MainSteps
<1>8. QED
  BY <1>5, <1>6, <1>7

LEMMA AlwaysInOrder == Spec => [](TypeInv /\ OrderInv /\ AllInPlace)
<1> DEFINE I == TypeInv /\ OrderInv /\ AllInPlace
<1>1. Init => I
  <2> SUFFICES ASSUME Init PROVE I
    OBVIOUS
  <2>1. AllInPlace
    BY LenProperties, EmptySeq DEF Init, AllInPlace
  <2>2. QED
    BY <2>1, InitType, InitOrder
<1>2. I /\ [Next]_vars => I'
  <2> SUFFICES ASSUME I, [Next]_vars PROVE I'
    OBVIOUS
  <2>1. TypeInv'
    BY StepType
  <2>2. FlowOrder'
    BY FlowStep DEF FlowOrder, OrderInv
  <2>3. SocketInv' /\ PollInv' /\ OmmInv'
    BY SocketStep, PollStep, OmmStep DEF OrderInv
  <2>4. QED
    BY <2>1, <2>2, <2>3 DEF OrderInv, FlowOrder
<1>3. QED
  BY <1>1, <1>2, PTL DEF Spec

\* What the bots wrote reaches the matching engine in the order of each bot,
\* nothing left out and nothing twice, as long as none of them ends: poll's
\* snapshot of the array, the loop over it and recv lose and repeat nothing,
\* however many bots write in whatever order and wherever the process is ended.
THEOREM BotsInOrder == Spec => []InOrderOnce
  BY AlwaysInOrder, InPlaceInOrder, PTL
-----------------------------------------------------------------------------
(* The map: whom an order came from *)

LEMMA InsertRoutes ==
  ASSUME TypeInv, OrderInv, RouteInv, Insert, AllStay
  PROVE  \A o \in Ids : connectionmapper'[o] \in {None, o[1]}
<1> DEFINE k == OrderIdOf(omm)
<1>1. omm # NoMessage /\ omm.id[1] = Head(ready).fd
  BY DEF Insert, OrderInv, FlowInv, InHand
<1>2. k \in Keys /\ connectionmapper \in [Keys -> Clients \cup {None}]
  BY TypeParts DEF TypeInv, Types, MapType, MainTypes, OrderIdOf, Keys, Message
<1>3. k \in Ids => k = omm.id
  BY <1>1, ConnMgrAssumption DEF OrderIdOf, IsNew
<1> HIDE DEF k
<1>4. \A o \in Ids : o \in Keys
  BY DEF Keys
<1>5. connectionmapper' = connectionmapper
        \/ connectionmapper' = [connectionmapper EXCEPT ![k] = Head(ready).fd]
  BY DEF Insert, k
<1>6. \A o \in Ids : connectionmapper'[o] = connectionmapper[o]
                       \/ (o = k /\ connectionmapper'[o] = Head(ready).fd)
  BY <1>2, <1>4, <1>5
<1>7. QED
  BY <1>1, <1>3, <1>6 DEF RouteInv

LEMMA RouteStep ==
  ASSUME TypeInv, OrderInv, RouteInv, RoutedToSender, [Next]_vars
  PROVE  RouteInv' /\ RoutedToSender'
<1>1. SUFFICES ASSUME AllStay' PROVE RouteInv' /\ RoutedToSender'
  BY DEF RouteInv, RoutedToSender
<1>2. AllStay
  BY <1>1, AllStayed
<1>3. MapType /\ AckTypes
  BY TypeParts DEF TypeInv, Types
<1>4. \A o \in Ids : connectionmapper'[o] \in {None, o[1]}
  <2>1. CASE Erase
    BY <1>2, <1>3, <2>1 DEF Erase, RouteInv, MapType, Keys
  <2>2. QED
    BY <1>2, <2>1, InsertRoutes, MapSteps DEF vars, RouteInv
<1>5. apc' \in {"send", "erase"} => it' = ack'[1]
  <2>1. CASE Find
    BY <1>2, <2>1 DEF Find, RouteInv, TypeInv, ControlInv
  <2>2. QED
    BY <1>2, <2>1, AckSteps DEF Rcv, Send, Erase, RouteInv, vars, ackVars
<1>6. RoutedToSender'
  <2>1. CASE Send
    <3>1. /\ routed' = Append(routed, [order |-> ack, to |-> it])
          /\ it = ack[1] /\ it \in Clients /\ ack \in Ids
      BY <1>2, <2>1 DEF Send, RouteInv, TypeInv, ControlInv
    <3>2. /\ Len(routed') = Len(routed) + 1 /\ Len(routed) \in Nat
          /\ \A i \in 1 .. Len(routed) : routed'[i] = routed[i]
          /\ routed'[Len(routed) + 1] = [order |-> ack, to |-> it]
      BY <1>3, <3>1, AppendProperties, LenProperties DEF AckTypes
    <3>3. \A i \in 1 .. Len(routed') : i \in 1 .. Len(routed) \/ i = Len(routed) + 1
      BY <3>2
    <3>4. QED
      BY <1>2, <3>1, <3>2, <3>3 DEF RoutedToSender
  <2>2. CASE routed' = routed
    BY <1>2, <2>2 DEF RoutedToSender
  <2>3. QED
    BY <2>1, <2>2, AckSteps DEF Rcv, Find, Erase, vars, ackVars
<1>7. QED
  BY <1>4, <1>5, <1>6 DEF RouteInv

\* While no bot ends, an acknowledgement is sent to the bot that placed the
\* order, although nothing protects the map and poll's order of the connections
\* is not the order of the queue: the entry is the connection main has just
\* read from, and the thread that answers reads it once.
THEOREM AnswersReachSender == Spec => []RoutedToSender
<1> DEFINE I == RouteInv /\ RoutedToSender
<1>1. Init => I
  <2> SUFFICES ASSUME Init PROVE I
    OBVIOUS
  <2>1. RouteInv
    BY DEF Init, RouteInv, Keys
  <2>2. RoutedToSender
    BY LenProperties, EmptySeq DEF Init, RoutedToSender
  <2>3. QED
    BY <2>1, <2>2
<1>2. TypeInv /\ OrderInv /\ I /\ [Next]_vars => I'
  BY RouteStep
<1>3. QED
  BY <1>1, <1>2, AlwaysInOrder, PTL DEF Spec

LEMMA NoRace ==
  ASSUME [Next]_vars, ~raced', TypeInv
  PROVE  ~raced /\ ~InsertLost
<1>1. ASSUME NEW c \in Clients, Bot(c) PROVE raced' = raced
  BY <1>1 DEF Bot, Connect, Read, Leave, Write
<1>2. CASE Poll \/ Unexpected \/ Accept \/ Receive \/ Insert \/ Msgsnd \/ Copy
           \/ PollTimesOut
  BY <1>2 DEF Poll, Unexpected, Accept, Receive, Insert, InsertLost, Msgsnd, Copy,
              PollTimesOut
<1>3. CASE Rcv \/ RcvFails \/ Find \/ Send \/ Erase
  BY <1>3 DEF Rcv, RcvFails, Find, Send, Erase, InsertLost
<1>4. CASE Answer \/ EngineStops \/ Publish \/ PublisherStops
  BY <1>4 DEF Answer, EngineStops, Publish, PublisherStops, InsertLost
<1>5. CASE SlotGone \/ Handler \/ RaceKills \/ BrokenPipe
  BY <1>5 DEF SlotGone, Handler, RaceKills, BrokenPipe, Gone, InsertLost
<1>6. CASE UNCHANGED vars
  BY <1>6 DEF vars, InsertLost
<1>7. CASE InsertLost
  BY <1>7 DEF InsertLost
<1>8. ~InsertLost
  BY <1>7 DEF InsertLost
<1>9. QED
  BY <1>1, <1>2, <1>3, <1>4, <1>5, <1>6, <1>8 DEF Next, Main, ReadFromMatchingEngine

\* What is answered stays answered, what was queued stays queued.
LEMMA LogsGrow ==
  ASSUME TypeInv, [Next]_vars, NEW o \in Ids
  PROVE  /\ IsRouted(o) => IsRouted(o)'
         /\ Placed(o) => Placed(o)'
         /\ Placed(o)' => \/ Placed(o)
                          \/ Msgsnd /\ omm # NoMessage /\ IsNew(omm) /\ omm.id = o
<1>1. QueueTypes /\ AckTypes /\ MainTypes
  BY TypeParts DEF TypeInv, Types
<1>2. IsRouted(o) => IsRouted(o)'
  <2>1. CASE routed' = routed
    BY <2>1 DEF IsRouted
  <2>2. CASE Send
    <3>1. [order |-> ack, to |-> it] \in [order : Ids, to : Clients]
      BY <2>2 DEF Send, TypeInv, ControlInv
    <3>2. /\ Len(routed') = Len(routed) + 1 /\ Len(routed) \in Nat
          /\ \A i \in 1 .. Len(routed) : routed'[i] = routed[i]
      BY <1>1, <2>2, <3>1, AppendProperties, LenProperties DEF AckTypes, Send
    <3>3. QED
      BY <3>2 DEF IsRouted
  <2>3. QED
    BY <2>1, <2>2, AckSteps DEF Rcv, Find, Erase, vars, ackVars
<1>3. CASE forwarded' = forwarded
  BY <1>2, <1>3 DEF Placed
<1>4. CASE Msgsnd /\ forwarded' = Append(forwarded, omm)
  <2>1. /\ Len(forwarded') = Len(forwarded) + 1 /\ Len(forwarded) \in Nat
        /\ \A i \in 1 .. Len(forwarded) : forwarded'[i] = forwarded[i]
        /\ forwarded'[Len(forwarded) + 1] = omm
    BY <1>1, <1>4, AppendProperties, LenProperties DEF QueueTypes, MainTypes
  <2>2. \A i \in 1 .. Len(forwarded') : i \in 1 .. Len(forwarded) \/ i = Len(forwarded) + 1
    BY <2>1
  <2>3. Placed(o) => Placed(o)'
    BY <2>1 DEF Placed
  <2>4. Placed(o)' => Placed(o) \/ (omm # NoMessage /\ IsNew(omm) /\ omm.id = o)
    BY <2>1, <2>2 DEF Placed
  <2>5. QED
    BY <1>2, <1>4, <2>3, <2>4
<1>5. QED
  BY <1>3, <1>4, QueueSteps DEF Msgsnd, Copy, Rcv, Answer, QueuesKept, vars

LEMMA NotedStays ==
  ASSUME TypeInv, NoteInv, [Next]_vars, ~raced, NEW o \in Ids, Noted(o)
  PROVE  Noted(o)'
<1>1. IsRouted(o) => IsRouted(o)'
  BY LogsGrow
<1>2. MapType
  BY TypeParts DEF TypeInv, Types
<1>3. CASE Insert
  <2>1. \/ connectionmapper' = connectionmapper
        \/ (connectionmapper[OrderIdOf(omm)] = None /\ connectionmapper' =
                [connectionmapper EXCEPT ![OrderIdOf(omm)] = Head(ready).fd])
    BY <1>3 DEF Insert
  <2>2. connectionmapper[o] # None => connectionmapper'[o] # None
    BY <1>2, <2>1 DEF MapType, Keys
  <2>3. QED
    BY <1>1, <2>2 DEF Noted
<1>4. CASE Erase
  <2>1. o # ack => connectionmapper'[o] = connectionmapper[o]
    BY <1>2, <1>4 DEF Erase, MapType, Keys
  <2>2. o = ack => IsRouted(o)
    BY <1>4 DEF Erase, NoteInv
  <2>3. QED
    BY <1>1, <2>1, <2>2 DEF Noted
<1>5. CASE connectionmapper' = connectionmapper
  BY <1>1, <1>5 DEF Noted
<1>6. QED
  BY <1>3, <1>4, <1>5, MapSteps DEF vars

LEMMA InsertNotes ==
  ASSUME TypeInv, Insert, omm # NoMessage, IsNew(omm)
  PROVE  connectionmapper'[omm.id] # None
<1>1. omm.id \in Keys /\ OrderIdOf(omm) = omm.id /\ MapType
  BY TypeParts DEF TypeInv, Types, MainTypes, Message, Keys, OrderIdOf, IsNew
<1>2. Head(ready).fd \in Clients
  BY DEF Insert, TypeInv, ControlInv
<1>3. QED
  BY <1>1, <1>2, ConnMgrAssumption DEF Insert, MapType

LEMMA NoteStep ==
  ASSUME TypeInv, NoteInv, [Next]_vars
  PROVE  NoteInv'
<1>1. SUFFICES ASSUME ~raced' PROVE NoteInv'
  BY DEF NoteInv
<1>2. ~raced /\ ~InsertLost
  BY <1>1, NoRace
<1>3. omm # NoMessage => omm.id \in Ids
  BY TypeParts DEF TypeInv, Types, MainTypes, Message
<1>4. ASSUME NEW o \in Ids, Placed(o)' PROVE Noted(o)'
  <2>1. CASE Placed(o)
    BY <1>2, <2>1, NotedStays DEF NoteInv
  <2>2. CASE Msgsnd /\ omm # NoMessage /\ IsNew(omm) /\ omm.id = o
    <3>1. Noted(o)
      BY <1>2, <2>2 DEF NoteInv, Msgsnd
    <3>2. QED
      BY <1>2, <3>1, NotedStays
  <2>3. QED
    BY <1>4, <2>1, <2>2, LogsGrow
<1>5. ASSUME NEW o, omm' # NoMessage, IsNew(omm'), mpc' \notin {"insert", "down"},
             o = omm'.id
      PROVE  Noted(o)'
  <2>1. CASE Insert
    <3>1. omm' = omm
      BY <2>1 DEF Insert
    <3>2. QED
      BY <1>5, <2>1, <3>1, InsertNotes DEF Noted
  <2>2. CASE ~Insert
    <3>1. omm' = omm /\ mpc \notin {"insert", "down"}
      BY <1>2, <1>5, <2>2, MainSteps
      DEF MainStays, Poll, Accept, Receive, Msgsnd, Copy, vars, pollVars
    <3>2. Noted(o) /\ o \in Ids
      BY <1>2, <1>3, <1>5, <3>1 DEF NoteInv
    <3>3. QED
      BY <1>2, <3>2, NotedStays
  <2>3. QED
    BY <2>1, <2>2
<1>6. ASSUME NEW o, apc' = "erase", o = ack' PROVE IsRouted(o)'
  <2>1. CASE Send
    <3>1. /\ routed \in Seq([order : Ids, to : Clients])
          /\ [order |-> ack, to |-> it] \in [order : Ids, to : Clients]
          /\ routed' = Append(routed, [order |-> ack, to |-> it]) /\ ack' = ack
      BY <2>1, TypeParts DEF Send, TypeInv, ControlInv, Types, AckTypes
    <3>2. /\ Len(routed') = Len(routed) + 1 /\ Len(routed) \in Nat
          /\ routed'[Len(routed) + 1] = [order |-> ack, to |-> it]
      BY <3>1, AppendProperties, LenProperties
    <3>3. QED
      BY <1>6, <3>1, <3>2 DEF IsRouted
  <2>2. CASE ~Send
    <3>1. apc = "erase" /\ ack' = ack
      BY <1>6, <2>2, AckSteps DEF Rcv, Find, Erase, vars, ackVars
    <3>2. IsRouted(o) /\ o \in Ids
      BY <1>2, <1>6, <3>1 DEF NoteInv, TypeInv, ControlInv
    <3>3. QED
      BY <3>2, LogsGrow
  <2>3. QED
    BY <2>1, <2>2
<1>7. (omm # NoMessage /\ IsNew(omm) /\ mpc \notin {"insert", "down"} => Noted(omm.id))'
  BY <1>5 DEF IsNew, Noted, IsRouted
<1>8. (apc = "erase" => IsRouted(ack))'
  BY <1>6 DEF IsRouted
<1>9. QED
  BY <1>4, <1>7, <1>8 DEF NoteInv

\* Nothing is asked about that a message main has queued does not name.
LEMMA AskedFrom ==
  ASSUME TypeInv, [Next]_vars, NEW o \in Ids, Asked(o)'
  PROVE  Asked(o) \/ (Msgsnd /\ omm # NoMessage /\ omm.order = o)
<1> DEFINE InQueue == \E i \in 1 .. Len(queue) : queue[i] # NoMessage /\ queue[i].order = o
           InQueue2 == \E i \in 1 .. Len(queue2) : queue2[i] = o
           InUnrouted == \E i \in 1 .. Len(unrouted) : unrouted[i] = o
<1>1. QueueTypes /\ AckTypes /\ MainTypes
  BY TypeParts DEF TypeInv, Types
<1>2. CASE UNCHANGED <<unrouted, ack, apc>> /\ Msgsnd
  <2>1. CASE queue' = queue
    BY <1>2, <2>1 DEF Msgsnd, Asked
  <2>2. CASE queue' = Append(queue, omm)
    <3>1. /\ Len(queue') = Len(queue) + 1 /\ Len(queue) \in Nat
          /\ \A i \in 1 .. Len(queue) : queue'[i] = queue[i]
          /\ queue'[Len(queue) + 1] = omm
      BY <1>1, <2>2, AppendProperties, LenProperties DEF QueueTypes, MainTypes
    <3>2. \A i \in 1 .. Len(queue') : i \in 1 .. Len(queue) \/ i = Len(queue) + 1
      BY <3>1
    <3>3. InQueue' => InQueue \/ (omm # NoMessage /\ omm.order = o)
      BY <3>1, <3>2
    <3>4. queue2' = queue2
      BY <1>2 DEF Msgsnd
    <3>5. QED
      BY <1>2, <3>3, <3>4 DEF Asked
  <2>3. QED
    BY <1>2, <2>1, <2>2 DEF Msgsnd
<1>3. CASE Rcv
  <2>1. /\ ack' = queue2[1] /\ 1 \in 1 .. Len(queue2) /\ Len(queue2) \in Nat
        /\ Len(queue2') = Len(queue2) - 1
        /\ \A i \in 1 .. Len(queue2') : queue2'[i] = queue2[i + 1]
    BY <1>1, <1>3, HeadTailProperties, LenProperties, EmptySeq DEF Rcv, QueueTypes
  <2>2. InQueue2' => InQueue2
    <3>1. \A i \in 1 .. Len(queue2') : i + 1 \in 1 .. Len(queue2)
      BY <2>1
    <3>2. QED
      BY <2>1, <3>1
  <2>3. queue' = queue /\ unrouted' = unrouted
    BY <1>3 DEF Rcv
  <2>4. QED
    BY <2>1, <2>2, <2>3 DEF Asked
<1>4. CASE Answer
  <2>1. /\ Head(queue) = queue[1] /\ 1 \in 1 .. Len(queue) /\ Len(queue) \in Nat
        /\ Len(queue') = Len(queue) - 1
        /\ \A i \in 1 .. Len(queue') : queue'[i] = queue[i + 1]
    BY <1>1, <1>4, HeadTailProperties, LenProperties, EmptySeq DEF Answer, QueueTypes
  <2>2. InQueue' => InQueue
    <3>1. \A i \in 1 .. Len(queue') : i + 1 \in 1 .. Len(queue)
      BY <2>1
    <3>2. QED
      BY <2>1, <3>1
  <2>3. InQueue2' => InQueue2 \/ InQueue
    <3>1. CASE queue2' = queue2
      BY <3>1
    <3>2. CASE Head(queue) # NoMessage /\ queue2' = Append(queue2, Head(queue).order)
      <4>1. Head(queue) \in Message /\ Head(queue).order \in Ids
        BY <1>1, <1>4, <3>2, HeadTailProperties DEF Answer, QueueTypes, Message
      <4>2. /\ Len(queue2') = Len(queue2) + 1 /\ Len(queue2) \in Nat
            /\ \A i \in 1 .. Len(queue2) : queue2'[i] = queue2[i]
            /\ queue2'[Len(queue2) + 1] = Head(queue).order
        BY <1>1, <3>2, <4>1, AppendProperties, LenProperties DEF QueueTypes
      <4>3. \A i \in 1 .. Len(queue2') : i \in 1 .. Len(queue2) \/ i = Len(queue2) + 1
        BY <4>2
      <4>4. QED
        BY <2>1, <3>2, <4>2, <4>3
    <3>3. QED
      BY <1>4, <3>1, <3>2 DEF Answer
  <2>4. unrouted' = unrouted /\ ack' = ack /\ apc' = apc
    BY <1>4 DEF Answer, ackVars
  <2>5. QED
    BY <2>2, <2>3, <2>4 DEF Asked
<1>5. CASE Find
  <2>1. ack \in Ids /\ apc = "find" /\ queue' = queue /\ queue2' = queue2 /\ apc' # "find"
    BY <1>5 DEF Find, TypeInv, ControlInv, meVars
  <2>2. CASE unrouted' = unrouted
    BY <2>1, <2>2 DEF Asked
  <2>3. CASE unrouted' = Append(unrouted, ack)
    <3>1. /\ Len(unrouted') = Len(unrouted) + 1 /\ Len(unrouted) \in Nat
          /\ \A i \in 1 .. Len(unrouted) : unrouted'[i] = unrouted[i]
          /\ unrouted'[Len(unrouted) + 1] = ack
      BY <1>1, <2>1, <2>3, AppendProperties, LenProperties DEF AckTypes
    <3>2. \A i \in 1 .. Len(unrouted') : i \in 1 .. Len(unrouted) \/ i = Len(unrouted) + 1
      BY <3>1
    <3>3. QED
      BY <2>1, <3>1, <3>2 DEF Asked
  <2>4. QED
    BY <1>5, <2>2, <2>3 DEF Find
<1>6. ASSUME ~Msgsnd, ~Rcv, ~Answer, ~Find
      PROVE  Asked(o)
  <2>1. /\ unrouted' = unrouted
        /\ apc' = "find" => apc = "find" /\ ack' = ack
    BY <1>6, AckSteps DEF Send, Erase, vars, ackVars
  <2>2. \/ queue' = queue /\ queue2' = queue2
        \/ queue' = << >> /\ queue2' = << >>
    BY <1>6, QueueSteps DEF Copy, QueuesKept, vars, meVars
  <2>3. InQueue' => InQueue
    BY <2>2, EmptySeq, LenProperties
  <2>4. InQueue2' => InQueue2
    BY <2>2, EmptySeq, LenProperties
  <2>5. QED
    BY <2>1, <2>3, <2>4 DEF Asked
<1>7. Msgsnd => UNCHANGED <<unrouted, ack, apc>>
  BY DEF Msgsnd, ackVars
<1>8. QED
  BY <1>2, <1>3, <1>4, <1>5, <1>6, <1>7

LEMMA AskedStep ==
  ASSUME TypeInv, OrderInv, AskedInv, [Next]_vars
  PROVE  AskedInv'
<1>1. SUFFICES ASSUME NEW o \in Ids, Asked(o)'
               PROVE  /\ o[2] <= Received(o[1])'
                      /\ omm' # NoMessage /\ IsNew(omm') /\ omm'.id = o => Placed(o)'
  BY DEF AskedInv, Received, IsNew, Placed
<1>2. PICK c \in Clients, n \in 1 .. MaxMessages : o = <<c, n>>
  BY DEF Ids
<1>3. o[1] = c /\ o[2] = n /\ n \in Nat
  BY <1>2
<1>4. Asked(o) \/ (Msgsnd /\ omm # NoMessage /\ omm.order = o)
  BY <1>1, AskedFrom
<1>5. \A d \in Clients : Received(d) \in Nat
  BY ReceivedIsNat DEF OrderInv
<1>6. n <= Received(c)
  <2>1. CASE Asked(o)
    BY <1>3, <2>1 DEF AskedInv
  <2>2. CASE omm # NoMessage /\ omm.order = o
    <3>1. /\ omm \in Message /\ omm.order[1] = omm.id[1] /\ omm.order[2] <= omm.id[2]
          /\ omm.id[2] <= Received(omm.id[1])
      BY <2>2 DEF OrderInv, OmmInv, MessageOf
    <3>2. omm.id[2] \in 1 .. MaxMessages
      BY <3>1 DEF Message, Ids
    <3>3. QED
      BY <1>3, <1>5, <2>2, <3>1, <3>2
  <2>3. QED
    BY <1>4, <2>1, <2>2
<1>7. CASE Receive
  <2>1. PICK d \in Clients : d = Head(ready).fd
    BY <1>7, ReceiveFrom
  <2>2. \A e \in Clients : Received(e)' \in {Received(e), Received(e) + 1}
    BY <1>7, <2>1, ReceiveTakes DEF OrderInv
  <2>3. n <= Received(c)'
    BY <1>3, <1>5, <1>6, <2>2
  <2>4. Asked(o)
    BY <1>4, <1>7 DEF Receive, Msgsnd
  <2>5. omm' = omm \/ omm'.id = <<d, Received(d) + 1>>
    BY <1>7, <2>1, ReceiveTakes DEF OrderInv
  <2>6. omm'.id = o /\ omm'.id = <<d, Received(d) + 1>> => FALSE
    <3>1. SUFFICES ASSUME <<c, n>> = <<d, Received(d) + 1>> PROVE FALSE
      BY <1>2
    <3>2. c = d /\ n = Received(d) + 1
      BY <3>1
    <3>3. QED
      BY <1>5, <1>6, <3>2
  <2>7. omm' # NoMessage /\ IsNew(omm') /\ omm'.id = o => Placed(o)'
    BY <2>4, <2>5, <2>6, LogsGrow DEF AskedInv
  <2>8. QED
    BY <1>3, <2>3, <2>7 DEF Received
<1>8. CASE ~Receive
  <2>1. \A d \in Clients : Received(d)' = Received(d)
    BY <1>8, Unreceived
  <2>2. omm' = omm
    BY <1>8, MainSteps DEF MainStays, Poll, Accept, Insert, InsertLost, Msgsnd, Copy, vars
  <2>3. ASSUME omm # NoMessage, IsNew(omm), omm.id = o PROVE Placed(o)'
    <3>1. CASE Asked(o)
      BY <2>3, <3>1, LogsGrow DEF AskedInv
    <3>2. CASE Msgsnd /\ meUp
      <4>1. /\ forwarded \in Seq(Message \cup {NoMessage})
            /\ omm \in Message \cup {NoMessage} /\ forwarded' = Append(forwarded, omm)
        BY <3>2, TypeParts DEF Msgsnd, TypeInv, Types, QueueTypes, MainTypes
      <4>2. /\ Len(forwarded') = Len(forwarded) + 1 /\ Len(forwarded) \in Nat
            /\ forwarded'[Len(forwarded) + 1] = omm
        BY <4>1, AppendProperties, LenProperties
      <4>3. QED
        BY <2>3, <4>2 DEF Placed
    <3>3. CASE Msgsnd /\ ~meUp
      <4>1. Asked(o)
        BY <1>1, <3>3 DEF Msgsnd, Asked, ackVars
      <4>2. QED
        BY <3>1, <4>1
    <3>4. QED
      BY <1>4, <3>1, <3>2, <3>3
  <2>4. QED
    BY <1>3, <1>6, <2>1, <2>2, <2>3 DEF Received
<1>9. QED
  BY <1>7, <1>8

AnswerInv ==
  ~raced => \A o \in Ids :
     Placed(o) /\ (\E i \in 1 .. Len(unrouted) : unrouted[i] = o) => IsRouted(o)

LEMMA AnswerStep ==
  ASSUME TypeInv, NoteInv, AskedInv, AnswerInv, [Next]_vars
  PROVE  AnswerInv'
<1>1. SUFFICES ASSUME ~raced', NEW o \in Ids, Placed(o)',
                      NEW i \in 1 .. Len(unrouted'), unrouted'[i] = o
               PROVE  IsRouted(o)'
  BY DEF AnswerInv, IsRouted, Placed
<1>2. ~raced
  BY <1>1, NoRace
<1>3. CASE \E j \in 1 .. Len(unrouted) : unrouted[j] = o
  <2>1. Placed(o)
    <3>1. CASE Msgsnd /\ omm # NoMessage /\ IsNew(omm) /\ omm.id = o
      BY <1>3, <3>1 DEF AskedInv, Asked
    <3>2. QED
      BY <1>1, <3>1, LogsGrow
  <2>2. IsRouted(o)
    BY <1>2, <1>3, <2>1 DEF AnswerInv
  <2>3. QED
    BY <2>2, LogsGrow
<1>4. CASE Find /\ ack = o /\ connectionmapper[ack] = None
  <2>1. Placed(o)
    BY <1>1, <1>4 DEF Find, Placed
  <2>2. IsRouted(o)
    BY <1>2, <1>4, <2>1 DEF NoteInv, Noted
  <2>3. QED
    BY <2>2, LogsGrow
<1>5. unrouted' = unrouted
        \/ (Find /\ connectionmapper[ack] = None /\ unrouted' = Append(unrouted, ack))
  <2>1. CASE Find
    <3>1. it' = connectionmapper[ack]
            /\ (it' = None => unrouted' = Append(unrouted, ack))
            /\ (it' # None => unrouted' = unrouted)
      BY <2>1 DEF Find
    <3>2. QED
      BY <2>1, <3>1
  <2>2. QED
    BY <2>1, AckSteps DEF Rcv, Send, Erase, vars, ackVars
<1>6. CASE unrouted' = unrouted
  BY <1>1, <1>3, <1>6
<1>7. CASE Find /\ connectionmapper[ack] = None /\ unrouted' = Append(unrouted, ack)
  <2>1. unrouted \in Seq(Ids) /\ ack \in Ids
    BY <1>7, TypeParts DEF Find, TypeInv, ControlInv, Types, AckTypes
  <2>2. /\ Len(unrouted') = Len(unrouted) + 1 /\ Len(unrouted) \in Nat
        /\ \A j \in 1 .. Len(unrouted) : unrouted'[j] = unrouted[j]
        /\ unrouted'[Len(unrouted) + 1] = ack
    BY <1>7, <2>1, AppendProperties, LenProperties
  <2>3. i \in 1 .. Len(unrouted) \/ i = Len(unrouted) + 1
    BY <2>2
  <2>4. QED
    BY <1>1, <1>3, <1>4, <1>7, <2>2, <2>3
<1>8. QED
  BY <1>5, <1>6, <1>7

LEMMA AnswerIsRouted ==
  ASSUME TypeInv, AnswerInv
  PROVE  FirstAnswerRouted
<1>1. unrouted \in Seq(Ids)
  BY TypeParts DEF TypeInv, Types, AckTypes
<1>2. SUFFICES ASSUME ~raced, NEW o \in ToSet(unrouted), Placed(o)
               PROVE  \E i \in 1 .. Len(routed) : routed[i].order = o
  BY DEF FirstAnswerRouted
<1>3. PICK i \in 1 .. Len(unrouted) : unrouted[i] = o
  BY <1>1, LenProperties DEF ToSet
<1>4. o \in Ids
  BY <1>1, <1>3, ElementOfSeq
<1>5. QED
  BY <1>2, <1>3, <1>4 DEF AnswerInv, IsRouted

\* An order that was queued for the engine is answered to a connection before
\* any answer about it is dropped, whether bots stay or leave: main notes the
\* connection before it queues the order, and nothing asked of the engine before
\* that can be about it.  What two threads do to the map at once is left out.
THEOREM FirstAnswerFinds == Spec => []FirstAnswerRouted
<1> DEFINE I == NoteInv /\ AskedInv /\ AnswerInv
<1>1. Init => I
  <2> SUFFICES ASSUME Init PROVE I
    OBVIOUS
  <2>1. Len(<< >>) = 0
    BY LenProperties, EmptySeq
  <2>2. NoteInv /\ AskedInv /\ AnswerInv
    BY <2>1 DEF Init, NoteInv, AskedInv, AnswerInv, Placed, Asked
  <2>3. QED
    BY <2>2
<1>2. TypeInv /\ OrderInv /\ I /\ [Next]_vars => I'
  BY NoteStep, AskedStep, AnswerStep
<1>3. TypeInv /\ I => FirstAnswerRouted
  BY AnswerIsRouted
<1>4. QED
  BY <1>1, <1>2, <1>3, AlwaysInOrder, PTL DEF Spec
=============================================================================
