------------------------------ MODULE TradeBot ------------------------------
(***************************************************************************)
(* The trade bots: src/tradeBot/tradeBot.c, composed with the connection   *)
(* manager.  A bot started with a rate arms an interval timer, sends one   *)
(* order itself and then only reads and prints answers; its signal handler *)
(* sends the other orders, wherever it interrupts main.  A bot started     *)
(* with a count sends all its orders before it reads the first answer.     *)
(*                                                                         *)
(* The signal is masked while its handler runs, so that nothing comes      *)
(* between the handler's steps; main is suspended meanwhile.  A write in   *)
(* which main waits is over then: the handler is installed without         *)
(* SA_RESTART.                                                             *)
(***************************************************************************)
EXTENDS ConnMgr

CONSTANTS
  CommandLines, \* the ways to start the bots: bot |-> its options -r and -c,
                \* where c also bounds the orders that a bot sends at a rate
  SocketLimit   \* messages that fit between a bot and the process

ASSUME TradeBotAssumption ==
  /\ CommandLines \subseteq [Clients -> [r : Nat, c : 0 .. MaxMessages]]
  /\ \A o \in CommandLines, b \in Clients : o[b].r # 0 => o[b].c # 0
  /\ SocketLimit \in Nat \ {0}

VARIABLES
  options,     \* the command lines
  at,          \* where main is
  handler,     \* where timeoutHandler is
  orderNumber, \* the next order's number
  number,      \* the one main has loaded
  hnumber,     \* the one the handler has
  sent,        \* log: the numbers of the orders written
  nested,      \* signals taken between load and store of orderNumber
  lost         \* orders given up in write

botState ==
  <<options, at, handler, orderNumber, number, hnumber, sent, nested, lost>>
tbVars == <<vars, botState>>

TbTypeOK ==
  /\ options \in CommandLines
  /\ at \in [Clients -> {"send", "store", "write", "wait", "print", "read"}]
  /\ handler \in [Clients -> {"off", "write", "hung"}]
  /\ {orderNumber, number, hnumber, nested} \subseteq [Clients -> 0 .. MaxMessages]
  /\ lost \in [Clients -> 0 .. 1] /\ \A c \in Clients : options[c].r = 0 => lost[c] = 0
  /\ \A c \in Clients : Len(sent[c]) = written[c] /\ written[c] + lost[c] <= options[c].c
  /\ \A c \in Clients : Len(socket[c]) <= SocketLimit

TbInit ==
  /\ Init
  /\ options \in CommandLines
  /\ at = [c \in Clients |-> "send"]
  /\ handler = [c \in Clients |-> "off"]
  /\ sent = [c \in Clients |-> << >>]
  /\ LET zero == [c \in Clients |-> 0]
     IN  /\ orderNumber = zero /\ number = zero /\ hnumber = zero
         /\ nested = zero /\ lost = zero
-----------------------------------------------------------------------------
(* The timer *)

\* setitimer wants microseconds below a second; it refuses 1000000, and 0 stops
\* the timer.  Nothing looks at its result.
TimerRuns(rate) == rate # 0 /\ 1000000 \div rate \in 1 .. 999999

\* How many orders a bot is to send.
Wanted(c) == IF options[c].r = 0 \/ TimerRuns(options[c].r) THEN options[c].c ELSE 1

\* Is main about to send an order, or at it?
Sending(c) == IF at[c] \in {"send", "store", "write", "wait"} THEN 1 ELSE 0

\* Mutant: the handler is interrupted, too (SA_NODEFER).
AlarmInHandler(c) ==
  /\ link[c] # "none"
  /\ options[c].r # 0 /\ TimerRuns(options[c].r)
  /\ written[c] + lost[c] + Sending(c) < options[c].c

\* main arms the timer after it has connected.
Alarm(c) ==
  /\ link[c] # "none" /\ handler[c] = "off"
  /\ options[c].r # 0 /\ TimerRuns(options[c].r)
  /\ written[c] + lost[c] + Sending(c) < options[c].c

\* timeoutHandler is sendOrder; up to its write it has nothing to wait for.  If
\* main waits in its own write, that returns -1 (EINTR), whether or not there is
\* room by now: main will print the error, and its order is gone.
Timeout(c) ==
  /\ Alarm(c)
  /\ handler' = [handler EXCEPT ![c] = "write"]
  /\ hnumber' = [hnumber EXCEPT ![c] = orderNumber[c]]
  /\ orderNumber' = [orderNumber EXCEPT ![c] = @ + 1]
  /\ nested' = [nested EXCEPT ![c] = IF at[c] = "store" THEN @ + 1 ELSE @]
  /\ IF at[c] = "wait"
     THEN /\ at' = [at EXCEPT ![c] = "print"]
          /\ number' = [number EXCEPT ![c] = 0]
          /\ lost' = [lost EXCEPT ![c] = @ + 1]
     ELSE UNCHANGED <<at, number, lost>>
  /\ UNCHANGED <<vars, options, sent>>

\* localtime_r, malloc, getpwuid and random hold locks and lists that the handler
\* wants as well, random also between orderNumber++ and write.  The handler may
\* wait for main, which it has suspended.
Hangs(c) ==
  /\ Alarm(c) /\ at[c] \in {"send", "write", "print"}
  /\ handler' = [handler EXCEPT ![c] = "hung"]
  /\ UNCHANGED <<vars, options, at, orderNumber, number, hnumber, sent, nested, lost>>
-----------------------------------------------------------------------------
(* sendOrder *)

Runs(c, pc) == link[c] # "none" /\ handler[c] = "off" /\ at[c] = pc

\* orderNumber++ is a load and a store.
LoadNumber(c) ==
  /\ Runs(c, "send")
  /\ number' = [number EXCEPT ![c] = orderNumber[c]]
  /\ at' = [at EXCEPT ![c] = "store"]
  /\ UNCHANGED <<vars, options, handler, orderNumber, hnumber, sent, nested, lost>>

StoreNumber(c) ==
  /\ Runs(c, "store")
  /\ orderNumber' = [orderNumber EXCEPT ![c] = number[c] + 1]
  /\ at' = [at EXCEPT ![c] = "write"]
  /\ UNCHANGED <<vars, options, handler, number, hnumber, sent, nested, lost>>

\* The order with number n: its order_id is the bot's prefix and the number.
NewOrder(c, n) == [id |-> <<c, n + 1>>, order |-> <<c, n + 1>>]

\* Mutant: the number is read where it is sent.
PutLatest(c, n) ==
  /\ Len(socket[c]) < SocketLimit
  /\ socket' = [socket EXCEPT ![c] = Append(@, NewOrder(c, orderNumber[c] - 1))]
  /\ sent' = [sent EXCEPT ![c] = Append(@, orderNumber[c] - 1)]
  /\ written' = [written EXCEPT ![c] = @ + 1]
  /\ UNCHANGED <<mode, link, inbox, pollVars, mpc, omm, connectionmapper, meVars,
                 bpVars, ackVars, forwarded, copied, raced>>

\* write, when there is room in the socket.  (A message fits or it does not: the
\* short write of a part of one is below what the sockets here are made of.)
Put(c, n) ==
  /\ Len(socket[c]) < SocketLimit
  /\ socket' = [socket EXCEPT ![c] = Append(@, NewOrder(c, n))]
  /\ sent' = [sent EXCEPT ![c] = Append(@, n)]
  /\ written' = [written EXCEPT ![c] = @ + 1]
  /\ UNCHANGED <<mode, link, inbox, pollVars, mpc, omm, connectionmapper, meVars,
                 bpVars, ackVars, forwarded, copied, raced>>

\* There is no room: main waits in write.
WaitForRoom(c) ==
  /\ Runs(c, "write") /\ Len(socket[c]) = SocketLimit
  /\ at' = [at EXCEPT ![c] = "wait"]
  /\ UNCHANGED <<vars, options, handler, orderNumber, number, hnumber, sent, nested, lost>>

WriteOrder(c) ==
  /\ Runs(c, "write") \/ Runs(c, "wait")
  /\ Put(c, number[c])
  /\ at' = [at EXCEPT ![c] = "print"]
  /\ number' = [number EXCEPT ![c] = 0]
  /\ UNCHANGED <<options, handler, orderNumber, hnumber, nested, lost>>

\* The handler waits for room until there is some: its own signal is masked.
WriteInHandler(c) ==
  /\ handler[c] = "write"
  /\ Put(c, hnumber[c])
  /\ handler' = [handler EXCEPT ![c] = "off"]
  /\ hnumber' = [hnumber EXCEPT ![c] = 0]
  /\ UNCHANGED <<options, at, orderNumber, number, nested, lost>>
-----------------------------------------------------------------------------
(* main *)

\* What was sent or received, or that nothing was, is printed; with a count
\* sendOrders then goes on, else printMessages.
Printed(c) ==
  /\ Runs(c, "print")
  /\ at' = [at EXCEPT ![c] = IF options[c].r = 0 /\ written[c] < options[c].c
                             THEN "send" ELSE "read"]
  /\ UNCHANGED <<vars, options, handler, orderNumber, number, hnumber, sent, nested, lost>>

\* A signal only makes read start again.
ReadAnswer(c) ==
  /\ Runs(c, "read") /\ Read(c)
  /\ at' = [at EXCEPT ![c] = "print"]
  /\ UNCHANGED <<mode, options, handler, orderNumber, number, hnumber, sent, nested, lost>>

\* A bot with neither option would only read; it is left out.
OpenSocket(c) ==
  /\ options[c].r # 0 \/ options[c].c # 0
  /\ Connect(c)
  /\ UNCHANGED <<mode, botState>>

BotMain(c) ==
  \/ OpenSocket(c)
  \/ LoadNumber(c) \/ StoreNumber(c) \/ WaitForRoom(c) \/ WriteOrder(c)
  \/ Printed(c) \/ ReadAnswer(c)

Handle(c) == Timeout(c) \/ WriteInHandler(c)

Exchange ==
  /\ Main \/ RaceKills \/ ReadFromMatchingEngine \/ Answer \/ Publish
  /\ UNCHANGED <<mode, botState>>

TbNext == Exchange \/ \E c \in Clients : BotMain(c) \/ Handle(c) \/ Hangs(c)

TbSpec == TbInit /\ [][TbNext]_tbVars

\* The processes run and the timer goes off; whether a handler hangs is chance.
TbFairSpec ==
  /\ TbSpec
  /\ WF_tbVars(Main /\ UNCHANGED <<mode, botState>>)
  /\ WF_tbVars(ReadFromMatchingEngine /\ UNCHANGED <<mode, botState>>)
  /\ WF_tbVars(Answer /\ UNCHANGED <<mode, botState>>)
  /\ WF_tbVars(Publish /\ UNCHANGED <<mode, botState>>)
  /\ \A c \in Clients : WF_tbVars(BotMain(c)) /\ WF_tbVars(Handle(c))
-----------------------------------------------------------------------------
(* Properties *)

\* Two orders of a bot bear one number only when the signal came inside
\* orderNumber++, and each such signal makes one repetition at most.
\* (src/tradeBot/tradeBot.c:347)
RepetitionsHaveCause ==
  \A c \in Clients : Len(sent[c]) - Cardinality(ToSet(sent[c])) <= nested[c]

\* An answer goes astray only when its bot gave two orders one number: the
\* first answer erases the entry that the second one needs.
StrayIsRepeated ==
  ~raced => \A i \in 1 .. Len(unrouted) :
              LET c == unrouted[i][1]
              IN  \E j, k \in 1 .. Len(sent[c]) :
                    j # k /\ sent[c][j] = sent[c][k] /\ sent[c][j] + 1 = unrouted[i][2]

\* The bot that the answering thread waits for does not read: its handler
\* hangs, or it waits in write for the very process that waits for it.
Jammed ==
  HeldUp /\ \/ handler[it] = "hung"
            \/ handler[it] = "write" /\ Len(socket[it]) = SocketLimit
            \/ at[it] = "wait" /\ Len(socket[it]) = SocketLimit

\* Every order was sent and answered, and every answer read; but for the first
\* order of a bot at a rate, the one main sends itself, if the timer went off
\* while main waited in write.
AllAnswered ==
  /\ \A c \in Clients : handler[c] = "hung" \/
                          (written[c] + lost[c] >= Wanted(c) /\ inbox[c] = 0)
  /\ \A c \in Clients : socket[c] = << >>
  /\ Len(routed) + Len(unrouted) = Len(forwarded)
  /\ apc = "rcv" /\ queue = << >> /\ queue2 = << >> /\ chan = << >>

\* Whatever the sizes of queues and buffers, every order that is not given up in
\* write gets its answer, unless the threads of the manager corrupt their map or
\* a bot jams the exchange.
AnsweredOrJammed == []<>(Down \/ Jammed \/ AllAnswered)
=============================================================================
