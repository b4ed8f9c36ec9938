------------------------------- MODULE ConnMgr -------------------------------
(***************************************************************************)
(* The connection manager process: src/connmgr.cpp.  Its main thread polls *)
(* the sockets of the trade bots, notes in connectionmapper which of them  *)
(* an order came from, queues the message for the matching engine and      *)
(* copies it to the book publisher.  Its thread readfrommatchingengine     *)
(* takes the acknowledgements off the other queue and sends each to the    *)
(* socket that connectionmapper names.  Nothing protects that map.         *)
(*                                                                         *)
(* The environment is what the process relies on: bots, the matching       *)
(* engine as a source of one acknowledgement for each message, and the     *)
(* shared segment as the channel of capacity one that SharedSlot is.       *)
(***************************************************************************)
EXTENDS Integers, Sequences, FiniteSets, SequencesExt

CONSTANTS
  Clients,      \* trade bots, one connection each
  MaxMessages,  \* bound: messages a client sends
  Modes,        \* what may happen in a behaviour besides new orders
  QueueLimit,   \* messages that fit in a message queue
  BufferLimit,  \* answers that fit between the process and a bot
  MaxForwards,  \* bound: messages main handles in one behaviour
  Listener,     \* the listening socket
  NoMessage,    \* omm before anything was received
  Garbage,      \* text of a field that the sender left unfilled
  None          \* no such thing

\* The nth message of client c; tradeBot numbers its orders like this.
Ids == Clients \X (1 .. MaxMessages)

\* order is the order a message is about; a new order is about itself.
Message == [id : Ids, order : Ids]

ASSUME ConnMgrAssumption ==
  /\ MaxMessages \in Nat /\ MaxForwards \in Nat /\ QueueLimit \in Nat \ {0}
  /\ BufferLimit \in Nat \ {0}
  /\ Modes \subseteq [messages : 1 .. MaxMessages, \* of each client
                      amends : BOOLEAN, \* clients modify and cancel, too
                      leaves : BOOLEAN, \* a client closes its connection
                      stops  : BOOLEAN] \* SIGINT, end of engine or publisher
  /\ IsFiniteSet(Clients) /\ Listener \notin Clients /\ None \notin Clients
  /\ NoMessage \notin Message /\ Garbage \notin Ids

IsNew(m) == m.order = m.id

\* What main reads as the order id of any message: the bytes at the place of
\* payload.order.order_id, which lies beyond the end of a Modify or a Cancel.
OrderIdOf(m) == IF m # NoMessage /\ IsNew(m) THEN m.order ELSE Garbage

VARIABLES
  mode,    \* what may happen in this behaviour
  link,    \* client |-> its connection: none, connecting, open, closed, reset
  socket,  \* client |-> messages it wrote and main has not received
  written, \* client |-> how many it wrote
  inbox,   \* client |-> how many answers it has not read
  fds,     \* the accepted connections, in order
  ready,   \* what poll found and the loop has yet to handle
  mpc,     \* the main thread
  omm,     \* its message
  connectionmapper, \* order id |-> client, or None
  queue, queue2,    \* message queues to and from the matching engine
  meUp, bpUp,       \* are the queues, the semaphores of the segment there?
  chan,    \* the segment: at most one message
  apc, ack, it,     \* the other thread, its acknowledgement, what find found
  forwarded, copied, routed, unrouted,  \* logs: queued, copied, answered, not
  raced    \* did the threads meet in connectionmapper?

botVars  == <<link, socket, written, inbox>>
pollVars == <<fds, ready>>
ackVars  == <<apc, ack, it, routed, unrouted>>
meVars   == <<queue, queue2, meUp>>
bpVars   == <<chan, bpUp>>
vars == <<mode, botVars, pollVars, mpc, omm, connectionmapper, meVars, bpVars,
          ackVars, forwarded, copied, raced>>

Keys == Ids \cup {Garbage}

TypeOK ==
  /\ mode \in Modes
  /\ link \in [Clients -> {"none", "connecting", "open", "closed", "reset"}]
  /\ socket \in [Clients -> Seq(Message)]
  /\ written \in [Clients -> 0 .. MaxMessages]
  /\ inbox \in [Clients -> 0 .. BufferLimit]
  /\ fds \in Seq(Clients)
  /\ ready \in Seq([fd : Clients \cup {Listener}, revents : {"none", "in", "other"}])
  /\ mpc \in {"poll", "scan", "insert", "msgsnd", "slot", "ending", "down"}
  /\ omm \in Message \cup {NoMessage}
  /\ connectionmapper \in [Keys -> Clients \cup {None}]
  /\ {queue, forwarded, copied, chan} \subseteq Seq(Message \cup {NoMessage})
  /\ {queue2, unrouted} \subseteq Seq(Ids)
  /\ {meUp, bpUp, raced} \subseteq BOOLEAN
  /\ apc \in {"rcv", "find", "send", "erase", "ended", "down"}
  /\ ack \in Ids \cup {None} /\ it \in Clients \cup {None}
  /\ routed \in Seq([order : Ids, to : Clients])

Init ==
  /\ mode \in Modes
  /\ link = [c \in Clients |-> "none"]
  /\ socket = [c \in Clients |-> << >>]
  /\ written = [c \in Clients |-> 0]
  /\ inbox = [c \in Clients |-> 0]
  /\ fds = << >> /\ ready = << >>
  /\ mpc = "poll" /\ omm = NoMessage
  /\ connectionmapper = [k \in Keys |-> None]
  /\ queue = << >> /\ queue2 = << >> /\ meUp = TRUE
  /\ chan = << >> /\ bpUp = TRUE
  /\ apc = "rcv" /\ ack = None /\ it = None
  /\ routed = << >> /\ unrouted = << >>
  /\ forwarded = << >> /\ copied = << >> /\ raced = FALSE
-----------------------------------------------------------------------------
(* The trade bots *)

Connect(c) ==
  /\ link[c] = "none"
  /\ link' = [link EXCEPT ![c] = "connecting"]
  /\ UNCHANGED <<socket, written, inbox, pollVars, mpc, omm, connectionmapper,
                 meVars, bpVars, ackVars, forwarded, copied, raced>>

\* The kernel completes the connection: a bot writes without waiting for accept.
Write(c, n) ==
  /\ link[c] \in {"connecting", "open"}
  /\ written[c] < mode.messages
  /\ mode.amends \/ n = written[c] + 1
  /\ n \in 1 .. written[c] + 1
  /\ socket' = [socket EXCEPT ![c] =
                  Append(@, [id |-> <<c, written[c] + 1>>, order |-> <<c, n>>])]
  /\ written' = [written EXCEPT ![c] = @ + 1]
  /\ UNCHANGED <<link, inbox, pollVars, mpc, omm, connectionmapper, meVars,
                 bpVars, ackVars, forwarded, copied, raced>>

Read(c) ==
  /\ link[c] = "open" /\ inbox[c] > 0
  /\ inbox' = [inbox EXCEPT ![c] = @ - 1]
  /\ UNCHANGED <<link, socket, written, pollVars, mpc, omm, connectionmapper,
                 meVars, bpVars, ackVars, forwarded, copied, raced>>

\* The bot ends: its connection is reset when it leaves answers unread.
Leave(c) ==
  /\ mode.leaves /\ link[c] = "open"
  /\ link' = [link EXCEPT ![c] = IF inbox[c] > 0 THEN "reset" ELSE "closed"]
  /\ UNCHANGED <<socket, written, inbox, pollVars, mpc, omm, connectionmapper,
                 meVars, bpVars, ackVars, forwarded, copied, raced>>
-----------------------------------------------------------------------------
(* The main thread *)

Readable(c) == socket[c] # << >> \/ link[c] = "closed"

\* A connection waits to be accepted, or there is something to receive.
HasInput(fd) ==
  \/ fd = Listener /\ \E c \in Clients : link[c] = "connecting"
  \/ fd \in Clients /\ link[fd] # "reset" /\ Readable(fd)

\* revents is 0, POLLIN or anything else.
Revents(fd) ==
  IF HasInput(fd) THEN "in"
  ELSE IF fd \in Clients /\ link[fd] = "reset" THEN "other" ELSE "none"

\* What poll reports, in the order of the array.
Events ==
  LET array == <<Listener>> \o fds
  IN  [i \in 1 .. Len(array) |-> [fd |-> array[i], revents |-> Revents(array[i])]]

\* The kth entry of s is the first one that poll has found something for.
FirstEvent(s, k) ==
  s[k].revents # "none" /\ \A i \in 1 .. k - 1 : s[i].revents = "none"

\* It is a snapshot: more may arrive while the loop works through it.
Poll ==
  /\ mpc = "poll"
  /\ \E k \in 1 .. Len(Events) :
        FirstEvent(Events, k) /\ ready' = SubSeq(Events, k, Len(Events))
  /\ mpc' = "scan"
  /\ UNCHANGED <<botVars, fds, omm, connectionmapper, meVars, bpVars, ackVars,
                 forwarded, copied, raced>>

\* Three minutes without an event.
PollTimesOut ==
  /\ mode.stops /\ mpc = "poll"
  /\ \A i \in 1 .. Len(Events) : Events[i].revents = "none"
  /\ mpc' = "ending"
  /\ UNCHANGED <<botVars, pollVars, omm, connectionmapper, meVars, bpVars,
                 ackVars, forwarded, copied, raced>>

\* Any event but POLLIN ends the server.
Unexpected ==
  /\ mpc = "scan" /\ Head(ready).revents = "other"
  /\ mpc' = "ending"
  /\ UNCHANGED <<botVars, pollVars, omm, connectionmapper, meVars, bpVars,
                 ackVars, forwarded, copied, raced>>

\* The loop passes over entries without an event.
Handled ==
  \/ \E k \in 1 .. Len(Tail(ready)) :
        /\ FirstEvent(Tail(ready), k)
        /\ ready' = SubSeq(Tail(ready), k, Len(Tail(ready)))
        /\ mpc' = "scan"
  \/ /\ \A i \in 1 .. Len(Tail(ready)) : Tail(ready)[i].revents = "none"
     /\ ready' = << >>
     /\ mpc' = "poll"

\* accept, until no connection is waiting.
Accept ==
  /\ mpc = "scan" /\ Head(ready).fd = Listener
  /\ \E new \in SetToSeqs({c \in Clients : link[c] = "connecting"}) :
        fds' = fds \o new
  /\ link' = [c \in Clients |-> IF link[c] = "connecting" THEN "open" ELSE link[c]]
  /\ Handled
  /\ UNCHANGED <<socket, written, inbox, omm, connectionmapper, meVars, bpVars,
                 ackVars, forwarded, copied, raced>>

\* Mutant: recv leaves the message in the socket (MSG_PEEK).
ReceivePeeks ==
  /\ mpc = "scan" /\ Head(ready).fd # Listener /\ Head(ready).revents = "in"
  /\ Len(copied) < MaxForwards
  /\ LET c == Head(ready).fd
     IN  omm' = IF socket[c] = << >> THEN omm ELSE Head(socket[c])
  /\ mpc' = "insert"
  /\ UNCHANGED <<botVars, pollVars, connectionmapper, meVars, bpVars,
                 ackVars, forwarded, copied, raced>>

\* recv.  Its result is not checked: at the end of a connection omm still
\* holds the message before, and is handled once more.
Receive ==
  /\ mpc = "scan" /\ Head(ready).fd # Listener /\ Head(ready).revents = "in"
  /\ Len(copied) < MaxForwards
  /\ LET c == Head(ready).fd
     IN  IF socket[c] = << >> THEN UNCHANGED <<omm, socket>>
         ELSE /\ omm' = Head(socket[c])
              /\ socket' = [socket EXCEPT ![c] = Tail(@)]
  /\ mpc' = "insert"
  /\ UNCHANGED <<link, written, inbox, pollVars, connectionmapper, meVars, bpVars,
                 ackVars, forwarded, copied, raced>>

\* Mutant: the connection accepted last in place of the one just read.
InsertLast ==
  /\ mpc = "insert"
  /\ connectionmapper' =
       IF connectionmapper[OrderIdOf(omm)] # None THEN connectionmapper
       ELSE [connectionmapper EXCEPT ![OrderIdOf(omm)] = Last(fds)]
  /\ mpc' = "msgsnd"
  /\ UNCHANGED <<botVars, pollVars, omm, meVars, bpVars, ackVars, forwarded,
                 copied, raced>>

\* insert leaves an entry that is there alone.
Insert ==
  /\ mpc = "insert"
  /\ connectionmapper' =
       IF connectionmapper[OrderIdOf(omm)] # None THEN connectionmapper
       ELSE [connectionmapper EXCEPT ![OrderIdOf(omm)] = Head(ready).fd]
  /\ mpc' = "msgsnd"
  /\ UNCHANGED <<botVars, pollVars, omm, meVars, bpVars, ackVars, forwarded,
                 copied, raced>>

\* Both threads are in connectionmapper, which is not made for that.
Meet == mpc = "insert" /\ apc \in {"find", "erase"}

InsertLost ==
  /\ Meet
  /\ raced' = TRUE
  /\ mpc' = "msgsnd"
  /\ UNCHANGED <<botVars, pollVars, omm, connectionmapper, meVars, bpVars,
                 ackVars, forwarded, copied>>

\* msgsnd waits for room, and fails unnoticed when the queue is gone.
Msgsnd ==
  /\ mpc = "msgsnd" /\ (meUp => Len(queue) < QueueLimit)
  /\ IF meUp THEN /\ queue' = Append(queue, omm)
                  /\ forwarded' = Append(forwarded, omm)
     ELSE UNCHANGED <<queue, forwarded>>
  /\ mpc' = "slot"
  /\ UNCHANGED <<botVars, pollVars, omm, connectionmapper, queue2, meUp, bpVars,
                 ackVars, copied, raced>>

\* Mutant: with IPC_NOWAIT a message is skipped while the segment is in use.
CopyNow ==
  /\ mpc = "slot" /\ bpUp
  /\ IF chan = << >> THEN chan' = <<omm>> /\ copied' = Append(copied, omm)
     ELSE UNCHANGED <<chan, copied>>
  /\ Handled
  /\ UNCHANGED <<botVars, fds, omm, connectionmapper, meVars, bpUp, ackVars,
                 forwarded, raced>>

Copy ==
  /\ mpc = "slot" /\ bpUp /\ chan = << >>
  /\ chan' = <<omm>>
  /\ copied' = Append(copied, omm)
  /\ Handled
  /\ UNCHANGED <<botVars, fds, omm, connectionmapper, meVars, bpUp, ackVars,
                 forwarded, raced>>

\* The process ends and takes the queues and semaphores along, or not.
Gone(removes) ==
  /\ mpc' = "down" /\ apc' = "down"
  /\ meUp' = (meUp /\ ~removes) /\ bpUp' = (bpUp /\ ~removes)
  /\ IF removes THEN queue' = << >> /\ queue2' = << >>
     ELSE UNCHANGED <<queue, queue2>>
  /\ UNCHANGED <<botVars, pollVars, omm, connectionmapper, chan, ack, it,
                 routed, unrouted, forwarded, copied>>

\* semop fails: main returns past a thread it never joined, which aborts.
SlotGone == mpc = "slot" /\ ~bpUp /\ Gone(FALSE) /\ UNCHANGED raced

\* The threads corrupt the map.
RaceKills == Meet /\ Gone(FALSE) /\ raced' = TRUE

\* my_handler, at the end of main and for SIGINT.
Handler ==
  /\ mpc = "ending" \/ (mode.stops /\ mpc # "down")
  /\ Gone(TRUE) /\ UNCHANGED raced
-----------------------------------------------------------------------------
(* readfrommatchingengine *)

\* Mutant: the answers are read by main, when poll is waiting.
RcvInMain ==
  /\ apc = "rcv" /\ mpc = "poll" /\ queue2 # << >>
  /\ ack' = Head(queue2) /\ queue2' = Tail(queue2)
  /\ apc' = "find"
  /\ UNCHANGED <<botVars, pollVars, mpc, omm, connectionmapper, queue, meUp,
                 bpVars, it, routed, unrouted, forwarded, copied, raced>>

Rcv ==
  /\ apc = "rcv" /\ queue2 # << >>
  /\ ack' = Head(queue2) /\ queue2' = Tail(queue2)
  /\ apc' = "find"
  /\ UNCHANGED <<botVars, pollVars, mpc, omm, connectionmapper, queue, meUp,
                 bpVars, it, routed, unrouted, forwarded, copied, raced>>

\* msgrcv fails and the thread returns.
RcvFails ==
  /\ apc = "rcv" /\ ~meUp
  /\ apc' = "ended"
  /\ UNCHANGED <<botVars, pollVars, mpc, omm, connectionmapper, meVars, bpVars,
                 ack, it, routed, unrouted, forwarded, copied, raced>>

Find ==
  /\ apc = "find"
  /\ it' = connectionmapper[ack]
  /\ IF it' # None THEN apc' = "send" /\ UNCHANGED unrouted
     ELSE apc' = "rcv" /\ unrouted' = Append(unrouted, ack)
  /\ UNCHANGED <<botVars, pollVars, mpc, omm, connectionmapper, meVars, bpVars,
                 ack, routed, forwarded, copied, raced>>

\* Mutant: send does not wait.
SendAnyway ==
  /\ apc = "send"
  /\ inbox' = [inbox EXCEPT ![it] = IF link[it] = "open" THEN @ + 1 ELSE @]
  /\ routed' = Append(routed, [order |-> ack, to |-> it])
  /\ link' = IF link[it] = "closed" THEN [link EXCEPT ![it] = "reset"] ELSE link
  /\ apc' = "erase"
  /\ UNCHANGED <<socket, written, pollVars, mpc, omm, connectionmapper, meVars,
                 bpVars, ack, it, unrouted, forwarded, copied, raced>>

\* send waits for a bot that does not read.  A connection that the bot has
\* closed is reset by what is sent to it.
Send ==
  /\ apc = "send"
  /\ link[it] = "open" => inbox[it] < BufferLimit
  /\ inbox' = [inbox EXCEPT ![it] = IF link[it] = "open" THEN @ + 1 ELSE @]
  /\ routed' = Append(routed, [order |-> ack, to |-> it])
  /\ link' = IF link[it] = "closed" THEN [link EXCEPT ![it] = "reset"] ELSE link
  /\ apc' = "erase"
  /\ UNCHANGED <<socket, written, pollVars, mpc, omm, connectionmapper, meVars,
                 bpVars, ack, it, unrouted, forwarded, copied, raced>>

\* Sending to a reset connection raises SIGPIPE, which nothing handles.
BrokenPipe ==
  /\ apc = "send" /\ link[it] = "reset"
  /\ Gone(FALSE) /\ UNCHANGED raced

\* Mutant: clear for erase.
EraseAll ==
  /\ apc = "erase"
  /\ connectionmapper' = [k \in Keys |-> None]
  /\ apc' = "rcv"
  /\ UNCHANGED <<botVars, pollVars, mpc, omm, meVars, bpVars, ack, it, routed,
                 unrouted, forwarded, copied, raced>>

Erase ==
  /\ apc = "erase"
  /\ connectionmapper' = [connectionmapper EXCEPT ![ack] = None]
  /\ apc' = "rcv"
  /\ UNCHANGED <<botVars, pollVars, mpc, omm, meVars, bpVars, ack, it, routed,
                 unrouted, forwarded, copied, raced>>
-----------------------------------------------------------------------------
(* The matching engine and the book publisher *)

\* A message that is no request gets no answer.
Answer ==
  /\ meUp /\ queue # << >> /\ Len(queue2) < QueueLimit
  /\ queue' = Tail(queue)
  /\ queue2' = IF Head(queue) = NoMessage THEN queue2
               ELSE Append(queue2, Head(queue).order)
  /\ UNCHANGED <<botVars, pollVars, mpc, omm, connectionmapper, meUp, bpVars,
                 ackVars, forwarded, copied, raced>>

\* The engine's handler removes both queues.
EngineStops ==
  /\ mode.stops /\ meUp
  /\ meUp' = FALSE /\ queue' = << >> /\ queue2' = << >>
  /\ UNCHANGED <<botVars, pollVars, mpc, omm, connectionmapper, bpVars, ackVars,
                 forwarded, copied, raced>>

Publish ==
  /\ chan # << >>
  /\ chan' = << >>
  /\ UNCHANGED <<botVars, pollVars, mpc, omm, connectionmapper, meVars, bpUp,
                 ackVars, forwarded, copied, raced>>

PublisherStops ==
  /\ mode.stops /\ bpUp
  /\ bpUp' = FALSE
  /\ UNCHANGED <<botVars, pollVars, mpc, omm, connectionmapper, meVars, chan,
                 ackVars, forwarded, copied, raced>>
-----------------------------------------------------------------------------
\* With the process its connections end.
Bot(c) ==
  /\ mpc # "down"
  /\ Connect(c) \/ Read(c) \/ Leave(c) \/ \E n \in 1 .. MaxMessages : Write(c, n)

Main ==
  \/ Poll \/ Unexpected \/ Accept \/ Receive \/ Insert \/ InsertLost
  \/ Msgsnd \/ Copy \/ SlotGone

ReadFromMatchingEngine == Rcv \/ RcvFails \/ Find \/ Send \/ BrokenPipe \/ Erase

Next ==
  /\ \/ \E c \in Clients : Bot(c)
     \/ Main \/ PollTimesOut \/ Handler \/ RaceKills
     \/ ReadFromMatchingEngine
     \/ Answer \/ EngineStops \/ Publish \/ PublisherStops
  /\ UNCHANGED mode

Spec == Init /\ [][Next]_vars
-----------------------------------------------------------------------------
(* Properties *)

\* No bot has ended.
AllStay == \A c \in Clients : link[c] \notin {"closed", "reset"}

\* The matching engine is given what each bot wrote, in that order, without a
\* gap and without a repetition, as long as no bot ends.
InOrderOnce ==
  AllStay => \A i \in 1 .. Len(forwarded) :
     LET before == {forwarded[j] : j \in 1 .. i - 1}
         m == forwarded[i]
     IN  /\ m # NoMessage /\ m \notin before
         /\ \A n \in 1 .. m.id[2] - 1 : \E e \in before : e.id = <<m.id[1], n>>

\* The book publisher follows the matching engine: it is given the same
\* messages in the same order and is at most one behind.
SameStream ==
  meUp => IsPrefix(copied, forwarded) /\ Len(forwarded) <= Len(copied) + 1

\* An acknowledgement goes to the bot that placed the order, as long as no bot
\* ends.
RoutedToSender ==
  AllStay => \A i \in 1 .. Len(routed) : routed[i].to = routed[i].order[1]

\* An order that the engine was sent.
Placed(o) ==
  \E i \in 1 .. Len(forwarded) :
     forwarded[i] # NoMessage /\ IsNew(forwarded[i]) /\ forwarded[i].id = o

\* The first answer about an order finds the connection it came from: main
\* notes it before the engine can know of the order.  What is no order, but
\* was named by a modify or a cancel, has none.  (Unless the threads meet in
\* the map.)
FirstAnswerRouted ==
  ~raced => \A o \in ToSet(unrouted) :
              Placed(o) => \E i \in 1 .. Len(routed) : routed[i].order = o

Down == mpc = "down"

\* The thread that answers waits for a bot that does not read.
HeldUp ==
  \E c \in Clients : apc = "send" /\ it = c /\ inbox[c] = BufferLimit
-----------------------------------------------------------------------------
(* What the repository says and the code does not do *)

\* src/connmgr.cpp:139, where each of the six kinds of answer is listed:
\* "extract the OrderIDs for routing".  Each answer is routed.
EachAnswerRouted == ~raced => unrouted = << >>

\* src/messages.h:49: "a unique ID identifying this order at the client".  Bots
\* keep to it; the engine then never gets two orders of one id.
OrdersAreUnique ==
  \A i, j \in 1 .. Len(forwarded) :
     i # j /\ NoMessage \notin {forwarded[i], forwarded[j]} =>
       forwarded[i].id # forwarded[j].id
=============================================================================
