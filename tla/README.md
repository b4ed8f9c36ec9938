# Specifications of ucee

ucee is a small electronic exchange: trade bots send orders over TCP, one
process matches them by price and time, others publish the book and the trades
and keep a record in SQLite. It is made of processes that talk through System V
queues, shared memory and semaphores, and through one database file. This
directory holds TLA+ models of it, TLC configurations, and proofs checked by
TLAPS. `src/...` below is the repository; line numbers refer to it.

1. The system
2. The hard parts
3. Modules, and how they correspond to the code
4. What is checked, with which bounds
5. What is proved, and how
6. Where the code and what is said of it part
7. Not modelled
8. What could come next

## 1. The system

```
 trade bots --TCP--> connection manager --queue 1--> matching engine --t1,t2--> OrderBook.db <-- rpt
     ^                 |      ^                        |   |   |                     ^
     |                 |      +------queue 2 (acks)----+   |   +--segment--> reporting engine (t3)
     |                 |                                   |
     |                 +--segment--> book publisher        +--segment--> trade publisher
     +------------------- multicast --------+----------------------------------+
```

| Component | Source | State | Operations | What makes it correct |
|---|---|---|---|---|
| order book | `orderbookview.h:84-426` | per symbol two lists of price levels, each a list of orders | AddOrder, RemoveOrder, Match, TopBook | price-time priority; best price first; a trade within both limits; lines of TopBook are the best levels |
| order book view | `orderbookview.h:431-630` | `mybooks`, `myorders` | Process(Order / Modify / Cancel), Update | nothing left crossed; `myorders` agrees with the book |
| matching engine | `matcheng.cpp`, `matcheng.h` | an order book view; `writetodatabase`; tables t1, t2 | load t1, wait for the publisher, read queue 1, acknowledge on queue 2, write two segments | one answer for each request; acknowledged is stored; a restart goes on where it stopped |
| database access | `db.cpp`, `database.sh`, `triggers.sql` | t1 (resting), t2 (all orders), t3 (trades); the semaphore `semiddb` | add_row, delete_row, get_db | t1 is the book, t2 and t3 lose nothing; one writer at a time |
| connection manager | `connmgr.cpp` | sockets, `connectionmapper`, both queues, one segment; two threads | accept, receive, forward, copy; take an ack and send it | each message to engine and publisher once and in order; each answer to the bot it is for |
| segment with two semaphores | `matcheng.h:16-49`, `connmgr.cpp:509-541`, `tradepub.cpp`, `bookpub.cpp`, `rpteng.cpp` | the segment, semaphores 0 and 1 | fill, announce, take, release; removal by a handler | a channel of capacity one |
| book publisher | `bookpub.cpp`, `bookpub.h` | its own order book view | load t1, release the engine, replay each message, multicast the top of the book | its books equal the engine's; what is shown last is the book |
| trade publisher | `tradepub.cpp` | none | take a trade, swap bytes, multicast | each trade published once |
| reporting engine | `rpteng.cpp` | table t3, one detached thread for each trade | insert rows | each trade in t3 once |
| reports | `rpt.cpp` | none | queries on t2, t3 | agree with the trades, whatever the order of rows |
| trade bot | `tradeBot/tradeBot.c` | order number, socket | send orders by a timer or all at once, read answers | one number for each order; every order answered |
| start and shared ids | all `main`s, `keys.h`, `README.txt` | ten keys: what exists under them; who holds which id | look up, remove, make, raise, wait | all hold the same, fresh objects |
| others | `printing.h`, `tradeBot/md_receiver.c`, build and deployment files | none | output | |

The engine and the book publisher run the *same* code on the same requests and
are meant to hold the same books; the publisher never tells trades. Whoever gets
SIGINT removes the queues, segments and semaphores it knows, and the others
notice by a call that fails.

## 2. The hard parts

The hazards are listed one by one in `PROJECT.json`. They fall into eight groups.

- **The book's order under change.** AddOrder searches from the front and relies
  on the list being sorted; remainders of partial fills and modified orders are
  inserted by the same search. `Update` has to repeat `Match` until nothing
  crosses, and `myorders`, a copy of each order, has to follow.
- **Undefined behaviour with a bounded effect.** `Match` on two empty lists
  looks at, and may pop, the front of an empty list (line 348). A modification
  copies `REASON_SIZE` bytes over a `PRICE_SIZE` field (line 550), and so over
  the quantity and the stack. Market orders carry garbage as price. They are
  choices in the model: go on or die, any of `JunkQuantities`, `NoPrice`.
- **Database and process.** Each change of the book is one or more statements
  outside any transaction, SIGINT can come between any two, and t2's primary key
  makes the trigger refuse a second insertion of an id. t1 is loaded at start.
- **Two copies of the books.** Engine and publisher load t1 and process the
  stream at their own pace, each with its own `Update`; nothing compares them.
- **Hand-over by semaphores.** Fields are written one after the other and worked
  on in place; either side may remove the set while the other holds it. The
  semaphore of the database is removed by whichever of two processes ends first.
- **Two threads, one map.** `connectionmapper` is shared without a lock; `poll`
  returns a snapshot; `recv`'s result is ignored; `msgsnd`, `semop` and `send`
  can all block, each on another process.
- **A signal handler that sends.** The bot's SIGALRM handler runs `sendOrder`
  wherever main is, inside `sendOrder` too.
- **Start and end.** Queues and semaphores are removed and created again by
  several processes in no fixed order; `RESULTS/connmgr.txt:29-42` records an
  acknowledgement left from an earlier run.

## 3. Modules, and how they correspond to the code

| Module | Models | Built on |
|---|---|---|
| `OrderBook` | OrderList, OrderBook: pure operators on sequences | |
| `OrderBookView` | OrderBookView: `mybooks`, `myorders`, and the part of each Process and Update that changes them | OrderBook |
| `Database` | tables t1, t2, trigger: pure operators on a record | OrderBook |
| `MatchEng` | the matching engine process | OrderBookView, Database |
| `BookPub` | the book publisher process, TopBook | OrderBookView |
| `Exchange` | engine and book publisher side by side | MatchEng, an instance of BookPub |
| `Replicas` | what those two promise together: two copies of one state machine | abstract |
| `SharedSlot` | one segment with its two semaphores, writer and reader; constants select the pair of processes | |
| `Handoff` | what SharedSlot promises: a channel of capacity one | abstract |
| `Reports` | the queries of rpt.cpp: pure operators on t2, t3 | |
| `Feeds` | what becomes of a trade: engine, trade publisher, reporting engine and threads, database, rpt | SharedSlot (twice), Reports |
| `ConnMgr` | the connection manager, both threads; engine, publisher and bots as environment | |
| `TradeBot` | the bots of tradeBot.c in place of that environment's | ConnMgr |
| `Startup` | how all processes find each other | |
| `MC*` | values of constants and symmetry for TLC | |
| `OrderBookProofs`, `MatchEngProofs`, `CancelProofs`, `ExchangeProofs`, `FeedsProofs` (with those about `SharedSlot`), `ConnMgrProofs`, `TradeBotProofs`, `StartupProofs` | theorems (section 5) | the module of that name |

**OrderBook.** A side of a book is *one* sequence of orders, best first, in place
of a list of levels of lists: a level is a maximal run of equal type and price,
never empty. AddOrder is insertion behind the last order that is not worse; that
is where the two nested searches of the code end. A price is an integer (the
code compares doubles with a tolerance of .00001; prices have two decimals).
`RemoveOrder` takes the first order of the id. In the code the sell side's
emptied level is erased through `buybook.erase` (lines 310-330): libstdc++
unlinks the node all the same, which is what the model does. `Match` is split
into `TradeQuantity`, `TradePrice`, `Rest` and `MatchedBook`, named for what they
return.

**MatchEng.** `pc` is where the process calls out. Everything between two such
points is one action, because the process has one thread and nobody else reads
its memory; the database, which survives it, is the exception, and there
`StopInMatch` and `DieInModify` have the states in between. Each `Process`
overload is one action per outcome (accept, reject; modify unknown, gone,
resting; cancel unknown, resting), each of which also sets the acknowledgement
that `CommunicateAck` then sends. `MatchTrades` and `MatchEnds` are a call of
`Match` and what the loop in `Update` does with the result. `requests`, `acks`,
`trades`, `reports` are logs that properties read; no guard does, except the
bound on `requests` and the one that makes ids unique. Its database writes
succeed: that they do, as long as everyone uses `semiddb`, is `Feeds!OneWriter`.

**BookPub and Exchange.** `BookPub` has the same two operators of the view per
request, without answers and writes, and `CommunicateBookMsg` where the code has
it: after the order is added and *before* `Update`, and after each `Match` but
the first. `shown` is the last message per symbol. `TopBook` finds the levels
again in the one sequence: `LevelNo` counts the places where type or price
changes. The handler of this process returns instead of ending it, in spite of its
comment (`bookpub.cpp:41`), so that `Interrupt` and `TakeFails` are two steps with a
message between them. `Exchange` puts both beside each other. Whoever is first
draws the next request, and the other must read the same one (`NextMessages`,
`InTurn`); that the connection manager does give both one stream is
`ConnMgr!SameStream`. `semid5` is shared; the publisher can remove it before the
engine has come to wait for it, and the engine then exits (`EngineNotReady`). A
restart starts everything again, in the order of `src/README.txt`.
The overrun of a modification writes bytes of the message itself, so that both
processes get the same quantity; `JunkQuantities` therefore has one element in
this composition.

**SharedSlot.** `wpc` and `rpc` stop at every semop and at every access to the
segment. `exists` is the set *and* the segment, which every handler removes
together; `attached` is there because a removed segment lives until the last
process detaches it, and a `shmat` that fails is then written through. The
constants: `Converts` and `HandlerExits` for the reader, `WriterEnds` and
`WriterAttached` for the writer, so that (connection manager, book publisher),
(matching engine, trade publisher) and (matching engine, reporting engine) are
instances.

**Feeds.** The engine goes from order to order: it inserts the order, writes the
match, hands the trade to the trade publisher, then to the reporting engine. The two
segments are SharedSlot itself and its instance `R`, whose `Publish` is the
creation of a detached thread with its own copy of the message. A statement on the
database is `Lock`, `Begin`, `Commit`: SQLite answers "busy" at once when another
connection writes (no timeout is set, and `sqlite3_step`'s result is only compared with
100), or, at the commit, when `rpt` reads; the row is then lost in silence. `dbset` says
whether `semiddb` is there: after that `semop` fails and nobody looks. The
reporting engine's handler is two steps, because others can run between the
removal of `semiddb` and that of its own set; the engine's is one, as the engine
itself, which could notice, is what it interrupts.

**Reports.** The queries, each as the set or the record it reads. `ORDER BY` only
lays out lines. `Close` is SQLite's rule for a plain column beside `MAX`: the
value of a row where the maximum is.

**ConnMgr.** `mpc` is `main`, `apc` is `readfrommatchingengine`; each stops where it
can block or touch the map. `Handler` is one step, though the other thread runs on while it
removes queues and semaphores one by one: what it could still do in between is what it
can do before the handler, or find gone after it. `Poll` puts one event for each entry of the array, with or
without input, into `ready`, which shrinks as the loop goes on: connections and
messages that come meanwhile are seen by the next `poll` only. `Meet` is the data race on the map: when both threads are in it, an
insertion may be lost (`InsertLost`) or the process may die (`RaceKills`); `raced`
remembers, so that properties can say what holds when they do not meet.
`ConnMgrAssumption` says that `Garbage`, what memory behind a short message holds, is
no order's id.
`OrderIdOf` is the field `main` reads as order id, whatever the message is. `mode`,
fixed for a behaviour, says what the environment does in it: amend orders, leave,
stop processes. The engine (`Answer`), the publisher (`Publish`) and the bots are
environment; the segment is the channel that `SharedSlot` is proved to be.

**TradeBot.** `at` is main, `handler` is the signal handler; the kernel masks
SIGALRM while the handler runs, so main waits for its end. `orderNumber++` is a load
and a store (`LoadNumber`, `StoreNumber`), with the handler possible between them.
`Put` is `write` of a whole message. On a full socket it blocks, in main
(`WaitForRoom`) as in the handler. SIGALRM is installed with `sa_flags` 0, without
SA_RESTART (line 385): if it comes while main waits there, main's `write` returns -1 with
EINTR, `perror` is all that follows (line 362), and the order, whose number is used, is
never sent (`Timeout`, `lost`). In `read` the same error starts it again (line 418).
`Hangs` is what POSIX allows and the program invites: `localtime_r`, `malloc`, `random` and
`printf` called from a handler that interrupted the same calls. The manager, engine and
publisher are ConnMgr's actions unchanged. A bot started with a rate has no
number of orders to stop at (`-c` is then ignored); `c` is its bound in the model.

**Startup.** A process is a sequence of operations on ten keys (`Program`), read
off its `main`: `Get` is msgget/shmget/semget with IPC_CREAT, `Renew` is get,
remove, get. `object` has, per key, the number of the object found under it, whether
it is there, whether it was made in this run, and its first semaphore. `Start`
follows `src/README.txt`, one process when the one before says that it waits; one
process per run may be `astray`, started at any time. The connection manager
prints "Waiting on poll" before its thread has renewed the queue of answers, so
that to wait for that line is not enough (`RESULTS/connmgr.txt` has it in that
order); `Waits` includes the thread. `StopAll` leaves behind what is left by kills,
or by handlers that remove what their processes hold.

## 4. What is checked, with which bounds

`tlc -config X.cfg M` for each; all runs say `CHECK_DEADLOCK FALSE`, because the
bounds on requests, sends, forwards and rounds let every behaviour come to an end,
and because a stopped process is a legal end of the system.

| Run | Module, configuration | Question |
|---|---|---|
| core | MCMatchEng, `MatchEng_core` | is the book right after any three new orders? |
| requests | MCMatchEng, `MatchEng_requests` | and after any three requests of any kind, with orderly restarts between? |
| crash | MCMatchEng, `MatchEng_crash` | what survives a stop at any step? |
| exchange | Exchange, `Exchange_books` | are the published books the engine's, and does the exchange get and keep going? |
| feeds | MCFeeds, `Feeds_trades` | does each trade reach the publisher, t3 and the reports, and does nobody wait for ever? |
| routing | MCConnMgr, `ConnMgr_routing` | who gets which message, with queues always at their limit, while bots leave and processes end? |
| bots | MCTradeBot, `TradeBot_bots` | is every order numbered once and answered? |
| startup | MCStartup, `Startup` | do the processes find each other? |
| t1_missing, t1_filled, amend_routing, left_bot | | section 6 |

**Engine.** `PriceTimePriority`: any two orders of a side are in order, whatever was
added, executed in part or modified. `Uncrossed`: between requests no market order
rests and no bid reaches an offer. `Cancelable`: between requests `myorders` has
each resting order as it rests. `TradesWithinLimits`: no trade is worse than a
limit, or at a market order's price unless two market orders meet. `Conservation`: what an order traded and what
rests of it add up to what was ordered, restarts included. `LimitRowsRest`,
`LoadNeverTrades`: a restart brings back no limit order that should be gone, and
executes nothing. `AckedIsDurable`, `CancelIsFinal`: what a client was told stays
true through a stop at any step.

*Bounds.* Two prices are enough for better, equal and worse; two ages for older,
same and younger; quantities up to 3 (2 in the other runs) for full and partial
fills on either side and for an order that is filled in two parts, and in `core` 0 for
an order that asks for nothing; three orders for a remainder that meets a third order,
and for two market orders that meet because the first order was of quantity 0. Two symbols in `crash`, one elsewhere: books
of different symbols share only `myorders` and the database. `JunkQuantities` is
one quantity. Two restarts show what a load does to the rows that the load
before left. `StopsOnlyWhenIdle` separates the question of orderly restarts, for
which `Conservation` and `LoadNeverTrades` hold, from that of stops inside a
handler, for which `LoadNeverTrades` does not (section 6, t1_filled).

*Clients.* Ids are unique (`UniqueIds`). An order of quantity 0 — `tradeBot.c:357` can
send one, and nothing refuses it — makes `Match` return quantity 0, which `Update`
takes for "no match" (`ZeroOrdered`). Two properties depend on it. `Uncrossed`: while the
order stands at the head of its side, the orders behind it do not trade; and if a market
order meets it, `Match` removes the one, puts the other back, and the loop ends, so that
a market order rests. `TradesWithinLimits`: the next market order of the other side then
trades with the one that rests, at the garbage in a price field
(`orderbookview.h:366`): LIMIT SELL 0, MARKET BUY 1, MARKET SELL 1. The formulas name
both exceptions; `core`, with quantity 0, reaches the second and shows that there is no
other. In the other runs quantities are positive: there a market order that rests would
not be in `myorders` (`Cancelable`), and would be loaded again.

**Exchange.** `SameBooks`: Exchange implements `Replicas`, two copies that go
through the same sequence of views, either of them ahead. `ClientsSeeTheBook`: once
both have caught up, the last message shown for a symbol is the engine's book —
the message contains the best levels with their whole quantity, and every path
through `Process` and `Update` that changes a book is followed by a message.
`PublishedUncrossed`: when `Update` has ended the shown book is not crossed and
shows no market order; the message before it may be crossed
(`orderbookview.h:522`). `LevelsOrdered`: no price is on two lines, in those
intermediate messages either. `AllIsHandled`: neither process waits for the other
in vain and no `Update` or load goes on for ever. Two requests, of any of two
orders of two prices and quantities, and one restart: enough for a level of two
orders, a partial fill, and a load of a row that the earlier life left; `Depth` 2
shows lines with and without a level. After a restart clients keep the last
book of a symbol until its next message; `shown` starts anew.

**Feeds.** `Exclusion`, `IsChannel`: the segment is a channel, through removals by
either side. `OneWriter`: while `semiddb` exists, no two statements meet.
`RowsAreReports`: t3 has only reported trades, each as it was and once, though threads
run late and in any order. `ReportsAgree`: closing price, volume and fills come out
right whatever the order of rows. `AllIsTold`: liveness, with the exceptions it
names. Two trades let two threads and the engine compete for the database, and let
the second message overwrite the first one's segment before its thread runs. The
second trade has the lower price: a closing price taken for the highest, or from the
row added last, would be found. (That it is not the lowest by chance either takes a
third trade, which only the theorem has.)

**Connection manager.** `InOrderOnce`, `SameStream`: the engine gets what each bot
wrote, and the publisher the same stream, at most one behind. `RoutedToSender`,
`FirstAnswerRouted`: answers go where they belong, and the first one about an
order always finds its connection. That is said of messages whose `order_id` an
earlier one has placed as an order (`Placed`): an amend that names an earlier
*amend* is answered about an id nobody was entered for. It takes three messages of
one bot, more than the run has; the attempt to prove the property without the
condition found it. Two bots and queues of one place make every
call that can block, block. `MaxForwards` bounds how often `main` handles a
message, which without it is unbounded once a bot has left. Two modes: two
messages each that may amend, and one message each from bots that may leave; any
process may stop in both.

**Bots.** `RepetitionsHaveCause`: an order number is used twice only if the signal
came between load and store of `orderNumber`. `StrayIsRepeated`: an answer
finds no connection only if its order's number was used twice.
`AnsweredOrJammed`: whatever the sizes of queues and buffers, every order that a
bot was to send is sent and answered, and every answer read; otherwise the
threads of the manager met, or the bot that the manager waits for is *jammed*: its
handler hangs, or it waits in `write` for the process that waits for it. One order
is excepted: the first one of a bot at a rate, which main sends, if the timer goes off while
main waits for room in the socket. That it is one at most, and none of a bot with a
count, is in `TbTypeOK`. With all
queues and buffers of one place a bot with `-c 7` gets there: it reads nothing before it
has sent everything. In the program the queues take some tens of messages
and the sockets some hundreds, so it needs larger counts, not another reason. The
four command lines are a bot at a rate beside one with a count; three orders at a rate,
so that a signal can interrupt main at its send and at its read; the count that
fills everything; and the two rates that `setitimer` refuses or takes for "stop".
That a handler fills every buffer by itself needs more orders at a rate than
these have.

**Startup.** `Connected`: started in README.txt's order, all hold the same objects,
none of them removed. `Fresh`: no object of an earlier run is used, and each first
semaphore is up exactly once, after a clean stop, a kill and a second start.
`LoadedFirst`: in *any* order the engine handles no request before both books are
loaded. `EveryoneReady`: in that order everyone gets to its loop — even if the queue of
answers belongs to another user, so that its removal fails, as in
`RESULTS/connmgr.txt:42`. Two starts are enough for everything a first start can leave.

**Fairness.** Each process that can run does: weak fairness of the steps of the
engine, of the publisher, of each thread and of each reader; none of requests,
handlers (except the timer's, which goes off), stops, `rpt` or a data race.
`ExFairSpec` assumes that a process that is behind gets the message its other half
has had, which is what the connection manager's copy gives it; nobody needs to send
a new one, nor to start the publisher. `FairSpec` of Startup: the operator goes
on. Weak fairness is enough as no two processes compete for one place: each queue
and each semaphore has one writer and one reader, except `semiddb`, where with
finitely many statements nobody can be passed over for ever. It is justified as
long as processes are scheduled and none is killed by a signal without handler; a
reader killed with the slot in its hands leaves semaphore 0 at zero (there is no
SEM_UNDO) and the engine waiting.

## 5. What is proved, and how

All proofs are for every value of the constants, every number of requests,
messages, trades and restarts. The only assumptions are those named in the modules
(`SlotAssumption`, `FeedsAssumption`, `ConnMgrAssumption`, `TradeBotAssumption`,
`StartupAssumption`, `MatchEngAssumption`, `JunkAssumption`, `DepthAssumption`, `LineAssumption`, and
those of `OrderBook`) and, where a theorem states it, that no client asks for
quantity 0, that clients name each order differently (`UniqueIds`), or that the text
which overruns a quantity leaves the same quantity in each process (`OneJunk`); and
`NoneIsNoMessage`, that the model value `None` is no book message.

| Theorem | States | Argument |
|---|---|---|
| `FeedsProofs!TypeCorrect` | `[]TypeOK` | |
| `FeedsProofs!MutualExclusion` | `[]Exclusion` | one token |
| `FeedsProofs!ImplementsChannel` | `Spec => IsChannel` | step simulation |
| `FeedsProofs!OneAtATime` | `FeedSpec => []OneWriter` | `LockInv` |
| `FeedsProofs!TradesAreChannel` | `FeedSpec => IsChannel` | every step is one of SharedSlot |
| `FeedsProofs!RowsAreTrades` | `[]RowsAreReports` | `FeedInv` |
| `FeedsProofs!FeedsTyped` | `[]FeedTypeOK` | `FeedInv`, `TableInv` |
| `FeedsProofs!RptPrintsWhatWasTraded` | `[]ReportsAgree` | `FeedInv`, `TableInv`, `AgreeInv` |
| `ConnMgrProofs!TypeCorrect` | `[]TypeOK` | `ControlInv` |
| `ConnMgrProofs!StreamsAgree` | `[]SameStream` | `StreamInv` |
| `ConnMgrProofs!BotsInOrder` | `[]InOrderOnce` | `OrderInv`, `AllInPlace` |
| `ConnMgrProofs!AnswersReachSender` | `[]RoutedToSender` | `RouteInv` |
| `ConnMgrProofs!FirstAnswerFinds` | `[]FirstAnswerRouted` | `NoteInv`, `AskedInv`, `AnswerInv` |
| `TradeBotProofs!BotsStayWithin` | `TbSpec => []TbTypeOK` | `BotsInv` |
| `TradeBotProofs!EachRepetitionHasCause` | `[]RepetitionsHaveCause` | `FewRepeated` in `BotsInv` |
| `TradeBotProofs!StraysAreRepetitions` | `[]StrayIsRepeated` | `OnceInv`, `PlacedInv` |
| `StartupProofs!BooksLoadFirst` | `[]LoadedFirst` | `LoadInv` |
| `StartupProofs!OneObjectEach` | `[]Connected` | `ConnectInv` |
| `StartupProofs!NothingOld` | `[]Fresh` | `ConnectInv` |
| `StartupProofs!TypeCorrect` | `[]TypeOK` | `BoundInv` |
| `MatchEngProofs!TypeCorrect` | `[]TypeOK` | |
| `MatchEngProofs!PriorityKept` | `[]PriceTimePriority` | sortedness lemmas |
| `MatchEngProofs!NothingLeftCrossed` | `[]Uncrossed` | `QuietInv` |
| `MatchEngProofs!TradesKeepLimits` | `[]TradesWithinLimits` | `TradeInv`, `QuietInv` |
| `MatchEngProofs!AcksAreDurable` | `[]AckedIsDurable` | `DurableInv` |
| `CancelProofs!CancelsAreFinal` | `UniqueIds`: `CancelIsFinal` | `CancelInv` |
| `CancelProofs!RestingOrdersKnown` | `UniqueIds`, `0 \notin Quantities`: `[]Cancelable` | `StandInv` |
| `CancelProofs!LimitRowsFound` | those and `StopsOnlyWhenIdle`: `[]LimitRowsRest` | `RowsInv` |
| `CancelProofs!LoadsAreSilent` | the same: `[]LoadNeverTrades` | `RowsInv` |
| `CancelProofs!QuantitiesAddUp` | the same: `[]Conservation` | `BalanceInv` |
| `ExchangeProofs!ReplicasAgree` | `OneJunk`: `ExSpec => SameBooks` | `ReplicaInv` |
| `ExchangeProofs!ClientsSeeNoCross` | `OneJunk`, `0 \notin Quantities`: `[]PublishedUncrossed` | `CleanInv` |
| `ExchangeProofs!LinesFallOff` | those and `UniqueIds`: `[]LevelsOrdered` | `ClientInv` |
| `ExchangeProofs!ClientsSeeBooks` | those and `NoneIsNoMessage`: `[]ClientsSeeTheBook` | `ShowInv` |
| `ExchangeProofs!ExchangeTyped` | `[]ExTypeOK` | `ExInv` |

**SharedSlot.** `Exclusion` is not inductive: it says nothing of the semaphores.
`TokenInv` adds them up — free, announced, in the writer's hands, in the
reader's — and says the sum is at most one; removal of the set can only lose
the token. Not *exactly* one: `Release` after removal does nothing. `SlotInv` says
what the segment holds at each step of the token's way, from which `Post` is a
`Put` of a whole message and `Publish` a `Get` of that very one.

**Feeds.** `OneWriter` needs that the semaphore is at most one, is zero while a
writer is inside, *and* that the reporting engine's set exists as long as `semiddb`
does (`LockInv`): its handler removes `semiddb` first, so a reporting engine that
ends because its semop fails cannot take a thread and the thread's token with it
while others still count on the semaphore. `TradesAreChannel` is composition: with the
types of SharedSlot, a step of Feeds is a step of SharedSlot or leaves its
variables alone, and what was proved of SharedSlot holds in the whole.

`RowsAreReports` follows a trade through four hands. The engine reports its trades in
their order, each at most once (`CountInv`, `ReportInv`); the second segment holds what
was filled in last and hands each message to one reader (`RInv`, `ReceivedInv`: one
token, as in SharedSlot, and the announced message is not among those received); the
thread that is made for it has its own copy; and it writes one row, when it is done
(`ThreadInv`). None of the four is inductive without the one before. Trades may be
lost at each hand; the theorem says that none is doubled or altered.

`ReportsAgree` says when none is lost. As long as `semiddb` is there and `rpt` does not
read, SQLite's lock is free or with the one writer that the semaphore has let in, so
that no statement is refused; a thread that is done has its row in t3, and an order's
row is in t2 before its trade is handed over (`AgreeInv`). So rows and reports
correspond one to one (`AllRowsThere`). Threads write in any order: that the row of the highest
timestamp is the last trade's needs that trades are received in ascending order, which is
why `ReportInv` and `ReceivedInv` say "ascending" and not merely "different"
(`CloseIsLast`). The volume is a sum of the community modules (`SumOfOnes`, by the
smallest set that would add up wrongly); that a fill has two lines needs both
orders' rows (`FillsHaveBothOrders`).

**ConnMgr.** Between `Msgsnd` and `Copy` the engine's stream is the publisher's and
the message in `omm`; a process that ended there leaves it so, hence the case for
"down" in `StreamInv`. The elements of the streams need no type: a copy that is
appended on both sides keeps them equal, whatever `recv` left in `omm`.

The other theorems are for any number of bots, messages and places in queues and
buffers. `InOrderOnce` needs what a socket holds — the last messages written, in
order (`SocketInv`) —, that `poll`'s snapshot names each connection once and that what
it promised is still there when the loop comes to it (`PollInv`), and that every message
before the one in hand has been queued (`FlowInv`). With a bot that has left,
the promise of `poll` is empty and `recv` leaves the old message in `omm`: hence
`AllStay`. `RoutedToSender` says of the map that it sends an order nowhere but to its
bot (`RouteInv`). `FirstAnswerRouted` is about two threads: `main` enters an order
*before* the engine can know of it (`NoteInv`), whatever is asked of the engine was
received before (`AskedInv`), and an entry is erased only after its answer was sent, so
that the first answer finds it. The theorem has the exception of the property: after
the data race nothing is claimed.

**TradeBot.** That a bot repeats a number no more often than signals came inside its
`orderNumber++` is a statement about how many *different* numbers it has sent, and not
inductive: main may have drawn a number it has not sent, and so may the handler.
`FewRepeated` counts all numbers that were drawn, and only the different ones *below
what `orderNumber` is or will be*: a number drawn undisturbed is the next one, hence
new, and raises the bound by one; when the handler draws the number that main has
loaded, main's store sets `orderNumber` back, and it is this one signal that pays for
the loss. What lies above the bound then is counted as if it were repeated already,
as it will be. `InBudget` has it that bots stop: the numbers drawn are never more than
`c`, which is what keeps them, and the signals that count, within bounds. A number drawn for
an order that `write` gave up counts among the drawn ones (`lost`), and a bot whose main has
passed its first order loses none.

`StrayIsRepeated` is the end-to-end claim: the connection manager's map is keyed by
bot and number, so an order whose number is its own must find its connection. An order
that was sent once is in *one* place — in the socket, in `main`'s hands, in the engine's
queue, in the queue of answers, in the thread's hands, or answered (`OnceInv`) — and a
step moves it from one to the next; from before it is queued until it is looked up, its
entry is in the map (`PlacedInv`), because only its own answer erases it. What `poll`
and the map owe to each other is taken over from `ConnMgrProofs`; every bot here stays,
and every message is a new order of the bot that wrote it (`OwnInv`). `TradeBotAssumption`
says that a bot started at a rate sends at least one order, as it does.

**Startup.** The argument is about the set under `SEMKEY3`. From its 22nd step on
the engine has removed what it found, so that a set which is there is of this run;
a set of this run begins at zero, and of all programs only `BookPub` raises it, as
its fifth step, after its load (`OnlyPublisherRaises`). None of this depends on the
order of starts. If another user owns the set, the removal fails and what an earlier
run left in it lets the engine go: hence the exception in `LoadedFirst`.

`Connected` and `Fresh` are about all ten keys. A table read off the five programs
says who makes the object under a key anew, at which of its steps, and who raises it
(`StepOf`, checked step by step); from there no program matters any more. Until its
maker is past that step nobody else holds the object, because whoever uses it is
started later (`InOrder`); while the maker looks it up and removes it nothing can come
between; from then on what is there is the maker's, and its semaphore is as high as the
steps that were done make it (`MadeInv`). `TypeOK` has no hypothesis about the order: an
object is made at most twice a run, and raised once (`CountInv`).

**OrderBook.** `OrderBookProofs` has what a reader of the code takes for granted:
AddOrder keeps a side sorted and puts nothing but the order into it
(`AddOrderSorted`), RemoveOrder keeps it sorted and puts nothing into it
(`RemoveAtSorted`, `RemoveOrderElements`), `Match` keeps both sides sorted
(`MatchedBookSorted`), a Match that trades nothing leaves the book quiet — no
market order, nothing crossed — when quantities are positive (`MatchedBookQuiet`),
and the trade price is within both limits, and a real one unless two market orders meet
(`TradePriceWithinLimits`).
They are lifted to `mybooks`, and there are lemmas on what AddRow and DeleteRow
preserve.

**MatchEng.** `IInv` is `DataInv`, `ControlInv`, `RestTypeOK`. Types alone are not
inductive: `LoadRow` puts a row of t1 into a book, so rows must be well-formed
orders; `ModifyOrder` puts what is in `myorders` there. `DataInv` says that all of
these are well-formed and of quantity at least `Least` (0, or 1 if clients ask for
positive quantities), and that books are sorted; `DataIn(least)` says it of any bound,
and a step keeps each bound that the requests keep (`DataStep`). `ControlInv` says what each step
finds where an earlier one left it. `PriceTimePriority` is a part of it.
`QuietInv` is the strengthening of `Uncrossed`: as long as nobody has ordered a quantity
of 0, everything has a positive one (`DataIn(1)`), every book but the one a handler
works on is quiet, and even in that one market orders are on one side only
(`SidesInv`) — without this last part two market orders could meet and trade at the
garbage in their price fields. Once an order of 0 is among the requests it stays there
(`ZeroStep`), and nothing more is claimed. `TradeInv` adds the trade about to be
communicated to those that were; that a trade keeps both limits does not need
`QuietInv`, that its price is a real one does. `DurableInv` strengthens `AckedIsDurable` by the acknowledgement that is on
its way and by "nothing is in t1 only", without which the trigger's refusal could
lose a row.

A cancel takes *one* order out of *one* book and one row out of t1. That this is
final needs that there was no second one (`PlacesInv`: an id stands once in all
books, once in the rows still to be loaded, once in t1, and no row to be loaded
is in a book already), that no row is waiting when a request is handled and a stopped
process keeps nothing (`PhaseInv`), and that no request brings the id back
(`FinalInv`: what is alive was named and is not cancelled, what is cancelled was
named, hence with `UniqueIds` not named again). `CancelInv` is the three; a modify,
which removes and adds, is the step that needs all of them.

`Cancelable` is the half of the data that `CancelInv` leaves out: what stands in a book is
what `myorders` has (`StandInv`), except for market orders, which are popped without
it. `UniqueIds` is needed, since a second order of one id overwrites the first one's
entry; positive quantities are, since a remainder of 0 would not be told from "filled".

`LimitRowsRest` and `LoadNeverTrades` compare the table with the books. While the engine
works, each limit row of t1 stands in a book, and a row of a market order that comes
after a limit row of the other side does as well (`WorkInv`): a market order that met
that limit order was executed, or popped, before it could wait behind it. Between
requests the books are not crossed, so the rows are *harmless*: loaded one after the
other, in t1's order, no two of them trade. `LoadInv` carries that through the load, row
by row. Both theorems need `StopsOnlyWhenIdle`: a SIGINT between the acknowledgement and
the match leaves two rows that cross (run t1_filled). Market rows are the reason why
the invariant is about the *order* of rows: the row of a popped market order stays in
t1 for ever, and is loaded and popped again at each start.

`Conservation` speaks of trades and books; `BalanceInv` adds what lies between them: a
trade that a match has made and nobody has been told of counts as dealt (`Untold`), and
an order is present in a book, as a row that is still to be loaded, or as a row of t1,
so that a remainder is the same wherever it waits. An id nobody has named has dealt
nothing, hence a new order starts even. A match is balanced because the two heads are
different orders (`CancelInv`); a load adds no trade (`RowsInv`). The sums are no
recursion of ours: `Traded` folds with the community modules' `MapThenSumSet`, defined by
CHOOSE over a function on the subsets. That one element more adds its summand, whatever
order the fold takes, is `SumOf`'s lemma in `OrderBookProofs`, proved with a *least*
counterexample in place of an induction.

**Exchange.** `SameBooks` compares two processes that never meet: one may be a whole
life's requests ahead, or in the middle of an `Update`, while the other waits. What they
share is what determines their steps. `Continue` says what one step makes of rows still
to load, symbol at work, books and map; it is a function, and both processes' steps are
its steps (`EngineLoads` … `PublisherEndsMatch`). So both walk along *paths*, and of two
paths from one place that have both come to rest the ends are equal (`OneEnd`).
`EngineInv` and `PublisherInv` say that each process is on the path that begins where
the last request it read was added to the view before; `HistInv` and `AgreeInv`, that
the two histories agree as far as both go; `FirstInv`, that both begin with what the load of
the same t1 leaves; `MeetInv`, that no row changes between the two loads, because the
engine waits for `semid5`; the process that is behind reads what the other has read
(`InTurn`, proved of the stream as `StreamsAgree`). The one place where a request does
not determine what follows is a modification: its price overruns the quantity. What
overruns it are blanks and the text behind the price in the message (`nstrcpy`,
`printing.h:57`), which both processes have copied whole: hence the hypothesis `OneJunk`, which the run has as well.

`PublishedUncrossed` needs to know which message is the last of an `Update`
(`CleanInv`): between requests every message shows a *quiet* book, and before the first
Match it may instead show the book as it is, if that has no market order in it; a Match
that then neither pops nor trades leaves just this book (`NothingToMatch`). A market
order is not announced when it comes in, which is what keeps its price out of the message.

`LevelsOrdered` is about the messages within `Update` too, where market orders may be
shown. On a sorted side orders of one level stand together (`OneRun`), the level number
never falls (`NoGrows`), and of two levels the earlier is the better
(`EarlierIsBetter`) — provided that an order with a price is a limit order. Only a
modification could break that, by giving a market order's remainder a price; with unique ids
none can: no id is of a market and of a limit order (`Decided`, from `NameInv`), every
order in rows, books and maps of both processes is of a kind that was named
(`EngineKindInv`, `PubKindInv`), and between requests books have no market order, so
what a modification finds is a limit order (`RestingIsLimit`).

`ClientsSeeTheBook` is a claim about the one moment when nothing is left to do, and
holds because of what is true at every moment before (`ShowInv`): for each symbol that
`Update` is not working on, the last message shows the publisher's book, or there was
no message and the book is empty; for the symbol it works on, before the first Match
the message shows the book unless the Match will change it. Then `SameBooks` makes the
publisher's book the engine's. That a message shows its book — the kth line the kth
best *price*, with all that is asked for at it — is a fact about how `OrderBook`
cuts a side into lists: on a sorted side of limit orders the level number of an order is
the number of prices at least as good as its own (`NoCounts`), each number up
to the number of prices occurs (`EveryNo`), so a level is a price (`LineShows`).

`ExTypeOK` needs none of these hypotheses. That the publisher's view keeps its type does not
follow from the engine's, which `SameBooks` gives it only with `OneJunk`; `ExInv` has it
directly: books are in order and rows proper wherever the publisher is (`PubHasInv`), and
it has a symbol exactly while `Update` is at work. Every line of every message then has the
price of an order, or none, and a sum of quantities (`LineTyped`).

**Only model-checked.** The four liveness properties `AllIsHandled`, `AllIsTold`,
`AnsweredOrJammed` and `EveryoneReady`: liveness under fairness is out of the prover's
reach. Every other property of a passing run is stated by a theorem.

## 6. Where the code and what is said of it part

| Run | Said | Done |
|---|---|---|
| t1_missing | `database.sh:4`: t1 "Reflects State of the Order Book at any given time" | after a partial fill the remainder is inserted again, the trigger's copy into t2 meets the primary key, and the whole insertion fails (`T1ReflectsBook`). A restart loses the order |
| t1_filled | `database.sh:4`: "orders will be deleted when filled" | a stop between storing an order and matching it leaves two rows that cross; the next start executes them while `writetodatabase` is 0, and their rows stay (`FilledOrdersDeleted`): each later start executes them again |
| amend_routing | `connmgr.cpp:139`: "extract the OrderIDs for routing", before all six kinds of answer | `main` notes `payload.order.order_id` for every message; for Modify and Cancel that is memory behind the message, and the answer finds no connection (`EachAnswerRouted`) |
| left_bot | `messages.h:49`: order_id is "a unique ID identifying this order at the client" | `recv`'s result is not checked; a closed connection is readable for ever and the last message is forwarded each time (`OrdersAreUnique`) |

Smaller ones, met while modelling, without a run of their own:

- a market order without counterpart is popped and keeps its row in t1;
- a modification of an unknown id is answered MODIFY_ACK (`orderbookview.h:538`) with
  the reason "order id is invalid";
- a head order of quantity 0 stops `Update`, and two market orders can then trade at
  the garbage in a price field (section 4);
- a bot at a rate loses its first order if the timer goes off while `write` waits for
  room (`tradeBot.c:385`, without SA_RESTART), and does not send it again;
- a connection that is reset raises SIGPIPE in `send` (`connmgr.cpp:177`), which ends the
  connection manager (`BrokenPipe`); no property says that it should not;
- a modification that is acknowledged with one quantity rests with another
  (`orderbookview.h:550`), and one during which the process dies has lost its order
  (`orderbookview.h:542`, `DieInModify`): both are in `MatchEng`, promised otherwise nowhere;
- `database.sh:6` says that t3 "Records All Trades": those whose threads have not
  written when the reporting engine ends are lost, those that meet `rpt` reading are, and
  so is the engine's own write that does;
- `bookpub.cpp:41` says that the handler "closes IPCs and exits": it returns, and the
  process ends when its next semop fails;
- a bot with rate 1, or above 1000000, sends one order (`tradeBot.c:396`);
- a book message within `Update` may show a market order's price field as a level;
- before the connection manager's thread has made the queue of answers, the
  handler's `msgctl` on id 0 (`connmgr.cpp:93`) names an object of whoever has that id.

## 7. Not modelled

- `kill -9` of one process while the others go on, machine crashes, and SQLite's own
  recovery: a statement is taken to be atomic and durable.
- TCP below whole messages: `recv`, `send`, `read` and `write` transfer one message or
  nothing. `connmgr` does not handle less, so a split message would be read as two; nor does
  the bot, whose short `write` (lines 365-366, a signal after a part of the message
  included) leaves the rest unsent.
- `isommvalid` (`connmgr.cpp`), which finds nothing invalid: the quantity it compares
  with 0 is unsigned. The start times next to `connectionmapper`, which are only
  measured. `SIMULATE_CONNMGR`, which `keys.h` sets to 0. The overrun of `fds[200]`
  by a 201st connection, after which anything can happen.
- Lost or reordered multicast datagrams: publishers send and forget, and the one
  receiver in the repository, `md_receiver.c`, prints each datagram and keeps nothing.
- `printing.h`, `md_receiver.c`, the build and deployment files: no state of the
  exchange. `sqlite3.h`, by far the longest file (7298 of some
  11000 lines), is a third-party interface: what `db.cpp` uses of it is in `Database`.

## 8. What could come next

In the models: a process killed without its handler while the others go on, and
quantities of zero in `Exchange`, where the shown book can then stay behind.

The runs are kept to one for each question; as processes are composed, the
questions of their parts move into the run of the composition.
