# A verification project for the WNC world server

WNC is a World of Warcraft server of the AzerothCore family, in C++: the
`worldserver`, which holds the whole game in one process, the `authserver`, which
logs accounts in, and the libraries both share (`src/src/common`,
`src/src/server/database`, `src/src/server/shared`). This directory holds TLA+ models
of the parts where its own core logic is hard to test - threads, queues with and without
locks, barriers, transactions and their retries, sockets and sessions that outlive their
connection, a two-party exchange, mail and auctions across crashes - with TLC runs on small
instances and TLAPS proofs for all instances.

Paths below are relative to `src/src/` unless they begin with `src/`.

Contents: 1 the system, 2 the modules and the code, 3 the runs, 4 deadlock and
fairness, 5 the proofs, 6 disagreements with comments of the code, 7 what is
abstracted and what is left out, 8 the plan, 9 how to run it.

## 1. The system

### 1.1 Threads and how they interact

    network threads --(addSessQueue, _recvQueue)--> world thread --(PCQueue)--> map workers
         ^                                          |       ^
         |                                          |       | futures, polled once per loop
         +----------------(MPSCQueue, packets)------+       |
                                                    +--(PCQueue)--> database workers --> MySQL

The **world thread** loops over `World::Update` (`server/game/World/World.cpp`): it
updates the sessions, then the maps through `MapMgr::Update`, and polls the database
callbacks. Within one loop the **map workers** (`CONFIG_NUMTHREADS`) update the maps;
the world thread waits for all of them before it goes on. **Database workers**, each
with a connection of its own, execute what the world thread enqueues; their answers
are futures it polls. **Network threads** own the sockets, write what the other threads
put into a socket's lock-free queue, and hand authenticated connections over in a queue;
any thread may close a socket. Nearly everything else (trades,
auctions, groups, guilds) is single-threaded code that runs in handlers of the world
thread, each to its end; the difficulty there lies in long sequences of legal calls and
in state checked in one handler and used in a later one.

### 1.2 Modelled components

| Component | State it keeps | Operations | What makes it hard | What makes it correct |
|---|---|---|---|---|
| Producer/consumer queue (`common/Threading/PCQueue.h`) | the queue, a mutex, a condition variable, `_shutdown` | `Push`, `Pop`, `WaitAndPop`, `Cancel` | one wakeup per push; wakeups for nothing; cancel against sleeping and waking consumers | FIFO, nothing lost or taken twice; no element waits while every consumer sleeps; all consumers return after a cancel |
| Map update barrier (`server/game/Maps/MapUpdater.cpp`, `MapMgr.cpp`, `MapInstanced.cpp`) | the queue of requests, `pending_requests`, the cancelation token, the maps | `schedule_update`, `wait`, `deactivate`, the worker loop, the destruction and hand-over of instances | requests are added by the workers while the world thread already waits; the count is the only barrier between the two | no worker touches a map past `wait()`; each map is updated once a tick; the tick and the shutdown end |
| Map update turns (`MapMgr::Update`, `SetMapUpdateInterval`) | `mapUpdateStep` and four timers | one turn per tick; a reload | ticks longer than the interval; an interval set below the time collected | no kind of map loses time, gets it twice or starves |
| Database workers (`server/database/Database/DatabaseWorkerPool.cpp`, `DatabaseWorker.cpp`, `QueryCallback.cpp`, `common/Utilities/AsyncCallbackProcessor.h`) | the queue of operations, workers and tokens, futures, pending callbacks | enqueue, pop, execute, poll, chain, close | order over several workers; callbacks that add callbacks while they are processed; closing with work queued | no operation lost or done twice while running; each callback runs once, after its query; closing returns |
| SQL transactions (`MySQLConnection.cpp`, `Transaction.cpp`) | a transaction on a connection, the global `_deadlockLock` | execute, retry, commit, roll back, reconnect | deadlocks reported by MySQL, retries for a minute, connections that break and are opened again in the middle | all or nothing; the reported result is the database's; one retry at a time; nothing left open |
| World sessions (`World.cpp`, `WorldSession.cpp`, `Handlers/CharacterHandler.cpp`, `WorldSocket.cpp`) | `addSessQueue`, `m_sessions`, `m_offlineSessions`, `m_QueuedPlayer`, each session's socket, player and flags, `account.online` | hand-over, admission, login, logout, offline, kick, shutdown | five containers with raw pointers; connections come and break at any step; a player moves from one session to another | each session has one owner; a character is in the world once; limits and queue agree; all are logged out at the end |
| Trade (`Handlers/TradeHandler.cpp`, `Entities/Player/TradeData.cpp`, `PlayerStorage.cpp`) | two `TradeData` that point at each other, items, money | begin, set items, money and spell, accept, unaccept, cancel, exchange | acceptance is taken in one handler and used in another; items and money go on changing in between | trades are pairs; an acceptance is of the current terms; money is neither made nor destroyed; each gets what was agreed |
| Mail (`Handlers/MailHandler.cpp`, `Mails/Mail.cpp`, `Player::_SaveMail`, `ObjectMgr::ReturnOrDeleteOldMails`) | rows of `mail` and their items; of players online the same mails in memory, with a mark each and `m_mailsUpdated` | send, read, delete, return, take item, take money, load, save, expiry | two copies of a mail; marks that wait for the next save; an expiry that works on the database alone; a crash between any two handlers | what was done survives a crash; an item is in one place; cash on delivery is paid once or the mail goes back whole |
| Auction house (`AuctionHouse/AuctionHouseMgr.cpp`, `Handlers/AuctionHouseHandler.cpp`) | auctions in memory and in `auctionhouse`; everything it settles goes out by mail | sell, bid, buy out, cancel, expiry | one bid may pay, refund, raise or buy out; up to three mails settle one sale, to players online or not | the item has one place; no gold is made; all have lost what the sale says |
| Lock-free queue (`common/Threading/MPSCQueue.h`) | an intrusive list with a dummy node, `_head`, `_tail` | `Enqueue` by many threads, `Dequeue` by one | a push is two steps, and the consumer meets it in between | nothing lost, doubled or reordered; no deleted node is touched |
| World sockets and authentication (`Server/WorldSocket.cpp`, `shared/Network/Socket.h`) | `_closed`, `_closing`, the send buffer, `_writeQueue`, the callbacks and states of the login, `_worldSession` | send, update, write, read, refuse, authenticate, close, delete the session | the world thread, the map workers and the network thread use one socket; writes are cut, blocked and fail; a refused client is closed by its last write | the peer gets the bytes in order; no deleted session is touched; a refused client is closed |

### 1.3 Components not modelled yet, or not at all

| Component | State and operations | Hard behaviour | What would make it correct | Decision |
|---|---|---|---|---|
| Packet dispatch (`WorldSession::Update`) | `_recvQueue`, two filters | read by map workers and by the world thread | order of the packets of one session; requeued ones are not lost | planned |
| Groups and loot rolls | members, leader, rolls | a member leaves in a roll; timeouts | one winner, who is a member | planned |
| Battleground queue, dungeon finder | queued groups, invitations, proposals | an invitation expires while it is accepted | team limits; nobody is invited twice | planned |
| Instance saves and binds | saves, player and group binds, reset schedule | a reset while somebody is inside | binds and saves agree | planned |
| Event processor | a multimap of events | events that add or abort events as the list runs | each runs or is aborted, once | planned, small |
| Maps and grids, pools, game events | object lists, loading states | removal while iterating | lists and grids agree | later |
| Authserver's sessions | `AuthSession`'s states | callbacks of a closed socket | a state is entered only from the one before | later: the same `Socket.h`; SRP6 and encryption are out of scope |
| Guild bank, channels, arena teams, Warden, battlefields | mostly stored data, some timers | limits | arithmetic | candidates |
| Spells, auras, combat, movement | hundreds of effect types, floats, splines | data-driven rules | - | not modelled: no faithful model is shorter than the code |
| Collision, scripts, SQL data, tools, updater, logging, configuration, process set-up | - | - | - | not modelled: geometry, content, sequential I/O |

`PROJECT.json` lists each with its files. The unit tests (`src/src/test`) cover formulas
and string helpers only and none of the components above.

## 2. The modules and the code

One module per component; `MC*` modules give values to constants a `.cfg` cannot
write; `*Proofs` modules hold the theorems. "Mutants" - definitions named
`X_Something` before `X` - are the variants of `X` a plausible bug would make; no
specification uses them. They show that the property they belong to can fail.

**`ProducerConsumerQueue`** is the queue with the mutex, and is instantiated by three others. A critical
section is one action, because the mutex makes it one. `sleeping` is the set of
threads in `_condition.wait`: `Push` removes one of them, any one; `Cancel` all;
a thread may also be woken for nothing. `WaitAndPop`'s loop is the pair *GoToSleep*
(queue empty, not shut down) and *Receive*. **`PCQueueClients`** closes it with consumers,
a producer and an owner that cancels, and keeps the history the properties need.

**`MapTick`** is an abstract specification: in a tick the world thread hands the maps
over and takes them back when all due ones are updated, none twice, none by two
workers at a time; an update may find instances. **`MapUpdater`** is the code: the world
thread's places (schedule, wait, delayed updates, unloading, and `deactivate` with token,
wait, cancel and join), the workers' loop (pop, look at the token, `call`, `update_finished`),
`pending_requests` with its own condition variable, and `MapInstanced::Update`, run by
whichever worker has the parent map, which destroys instances or schedules them one at
a time. It uses the queue above through `INSTANCE`, and `TickRefined` says that it
implements `MapTick` under the mapping at its end (`handedOver` is "not past `wait()`";
what is queued or popped is due; what is being run is updating).

**`MapUpdateCycle`** is the part of `MapMgr::Update` that decides which kind of map is
updated with how much time: `Update(diff)` is a whole tick, `SetMapUpdateInterval` a reload
with the `%` of `IntervalTimer::Reset`.

**`DatabasePool`** is the asynchronous half of a pool. Workers pop, look at the token,
execute, answer the future. The world thread enqueues (a write has no callback, a query
has one), and polls: `AsyncCallbackProcessor::ProcessReadyCallbacks` moves the vector
aside (`batch`), keeps what is not ready (`kept`), runs what is, and each that runs may
enqueue a query of its own (`SetNextQuery`, or a new callback), up to `MaxChain`. `Close`
destroys the workers one after another: the first destructor cancels the shared queue.

**`SqlTransaction`** is one transaction per thread against a server. Each statement, rollback
and commit is one action, with what the server may answer: done, a deadlock (which
rolls the session back), another error, a lost connection. `MySQLConnection::Execute`
reconnects and runs the statement again on the new session, outside the transaction;
`ExecuteTransaction`, the retry loop of `TransactionTask` under `_deadlockLock`, and
`DirectCommitTransaction`'s loop without it are as in the code. The server is external:
deadlock victims, autocommit, and a session that ends with its connection are modelled from
what the code expects of it.

**`WorldSessions`** has the five containers, sessions as records of the fields that matter
(socket, kicked, in queue, loading, login query, player, on a taxi), and `UpdateSessions` in the
three phases of the code: `addSessQueue`; every session in `m_sessions`; every offline one.
Each visit of a session is an action, so connections come and break between visits.
`AddSession_` is one action with all that it does: kicking or moving the old session aside,
taking an offline one's place in the queue, the limit and the tolerance after a disconnect.
Logins are `HandlePlayerLoginOpcode`'s outcomes: refused, taking over the player of the offline
session, another character than the offline one, or an asynchronous load.

**`Trade`** has both `TradeData`, owners, tradable items and money. `HandleAcceptTradeOpcode` is
six disjoint outcomes: money gone, an item no longer tradable, the first acceptance, a spell
that fails, no room, the exchange. The exchange moves items slot by slot, in the order of
`moveItems`, with the attempts to give back; it is a recursive function, `MoveItems`. What
players do besides - use items, bind them, spend and earn - may happen between any two opcodes.

**`Mail`** has players, their money and bags, the mails in memory (`inbox`, `state`, `mailsUpdated`)
and the database's copy of all of it. Each opcode's handler is one action and commits one
transaction, so it changes both copies; *Save* and *Logout* are the periodic save, which writes
the mails only when `m_mailsUpdated` says so; *ReturnOrDeleteOldMails* is the expiry, with any
set of mails too old; *MailCrash* leaves what the database has. `SendMailTo` draws ids for a
sequence of drafts, writes rows, and puts the mails of those online into their memory.

**`AuctionHouse`** EXTENDS `Mail`: its handlers move the item and the money and send the
mails of `AuctionHouseMgr` (refund, profit, won, expired, cancelled). `paid` is a history variable, what
each player has lost by an auction so far; no action reads it. *Update* ends any set of auctions in one
transaction, and *Crash* is that of both.

**`MPSCQueue`** is `MPSCQueueIntrusive`, step by step: *Exchange* and *Link* are the halves of
`Enqueue`; `Dequeue` is taken apart at each load of `_head` or of a link, with the dummy node that
takes over when the last element is taken. **`SocketChannel`** is the abstract specification of a socket for
those who send: packets are accepted one after another, and the peer gets their bytes in that
order until the connection goes down. **`WorldSocket`** EXTENDS the queue: senders (the world thread, the map
workers inside the barrier `MapUpdater` is about), `WorldSocket::Update` with its
buffer, `Socket::Update`, `HandleQueue` and the write handler with writes of any length, the
callbacks of the login (IP check, challenge, account, refusal, `DelayedCloseSocket`),
reading, `CloseSocket` and `OnClose` as the two steps they are, and the session the socket points at,
which the world thread deletes. `ChannelRefined` says that it implements `SocketChannel`.

Each definition's lines are in `PROJECT.json`, "map".

## 3. The runs

| Run | Instance | Shows |
|---|---|---|
| `pcqueue` | 3 consumers, 4 pushes, one cancel | `FIFO`; `WakeupsSuffice`; every element leaves |
| `mapupdater` | 2 workers, a continent, a dungeon with 2 instances, the LFG request, 3 ticks | `Barrier`, `TickRefined` (implements `MapTick`), `TickCompletes`, `ShutdownCompletes` |
| `mapcycle` | ticks of 0..2, intervals 1..6, 2 reloads, 22 units of time | `NoTimeLost`, `WaitBounded` |
| `dbpool` | 2 workers, 3 operations, chains of 2 | `NoOvertaking`, `CallbackOnce`, `CallbackRuns`, `CloseReturns` |
| `dbpool_shutdown` | 1 worker, 2 operations | `SavedOnShutdown` does not hold (section 6) |
| `sqltransaction` | asynchronous transactions of 2, 1 and 0 statements, a synchronous one of 1; the first may lose its connection once; one retry | `Atomic`, `ResultHonest`, `DamageBounded`, `EveryTaskEnds` |
| `world_queue` | 3 accounts, one exempt, limit 1, 4 connections | `QueueAlive`, `LimitHolds`, `NoRoomUnused` |
| `world_players` | one account with 2 characters, 4 connections | `OneOwner`, `CharacterOnce`, `OnePlayerPerAccount`, `AllLoggedOut`, `ClosedGoes` |
| `trade` | 3 players, 2 items, 2 traded slots and the other one, money up to 2 | `Mutual`, `AcceptanceCurrent`, `GoldConserved`, `DealAsAgreed` |
| `auctions` | a seller who also sends mail, two bidders, one item, 3 mail ids, crashes | `ItemsOnce`, `NoGoldMade`, `SaleSettled` |
| `mail` | 3 players, 2 items, 3 mail ids, one writer, one who spends, no auctions, crashes | `CrashSafe`, `NothingUnsaved`, `CODHonoured` |
| `world_socket` | 4 packets (of 1, 1, 3, 1 bytes), a buffer of 2, 2 map workers, reads of 2 packets | `NodesAlive`, `SessionAlive`, `ChannelRefined` (implements `SocketChannel`), `EveryPacketWritten`, `RefusedIsClosed` |

Why these bounds are enough for the interesting cases:

- *pcqueue*: three consumers are needed for one to be awake, one asleep and one just woken;
  four pushes are more than there are consumers.
- *mapupdater*: two workers, one of which runs the parent map while the other already runs
  one of its instances; two instances, so that one may be destroyed or held as the other is
  scheduled; three ticks let a map be created, updated and its instance destroyed.
- *mapcycle*: a tick may be the whole interval and twice as long; the longest cycle, seven units,
  fits three times.
- *dbpool*: two workers may hold operations while a third waits; a chain of two exercises a
  callback that adds a callback that adds one.
- *sqltransaction*: two retrying threads compete for the lock, a third passes through it with an
  empty transaction, a fourth runs outside it. `MaxTries` stands for the minute of retries,
  `LoopBreaker` for the five of the synchronous form; the code's numbers only add repetitions.
- *world_queue*: one active, one queued, one exempt, and a fourth connection that replaces any of
  them. The two ordinary accounts are symmetric, which is sound as no temporal property is checked.
- *world_players*: four connections are an offline session, the one in its place, one that
  replaces that, and one still to be handed over.
- *trade*: a third player can begin a trade with either; money 2 lets an offer be more than one
  has after spending, and the receiver be full; `p1` has room for one item and `p2` for two, so
  that exchanges fit, fail, and fail on one side only.

- *auctions*: two bidders are one who is outbid and one who wins; the prices 1 and 2 are a first bid
  and a raise, or a bid and a buyout; a sale by buyout sends three mails, which is the number of ids. A mail
  that lies in a box takes an id away, so the sales run both with and without room.
- *mail*: a mail between two players, its return, and the payment for it are three mails; two items
  make a mail that is emptied in two steps, of which only the first pays.
- *world_socket*: the first packet is the challenge, the third does not fit any buffer; two workers can
  both be between the halves of a push while the network thread dequeues, and the fourth finds what they left.

The bounds themselves are constants named as bounds where they are declared.

## 4. Deadlock and fairness

Deadlock is checked where the system never stops by itself: in `mapcycle` the interval can be
reloaded or a tick last no time, in `trade`, `auctions` and `mail` something can always happen, and in
`world_socket` the world thread goes on with its ticks. The other runs say
`CHECK_DEADLOCK FALSE` because they end for good: the consumers have gone, the updater has been
deactivated, the pool closed, every transaction is done, the server is halted. That none of
them stops *earlier* is what their liveness properties say.

Fairness assumes only that threads are scheduled:

- weak fairness for each consumer, map worker and database worker, of its own steps (a sleeping one
  has none until it is woken, so a lost wakeup is not repaired by fairness), and for each
  thread that runs a transaction (MySQL answers, one way or another; the mutex is released by
  its holder, and no other thread can hold it for ever as the retries are bounded);
- weak fairness for the world thread inside what it has begun: a tick, the polling of callbacks, a
  `Close`, `UpdateSessions`;
- strong fairness for dropping an offline session, whose sixty seconds end: the model lets each
  update keep it or drop it, and strong fairness says that it is not kept in every one;
- in `WorldSocket`, weak fairness for what the network thread has begun, for a half-done push and for
  a half-done close; strong fairness for the update of the socket and for the write handler: the
  `io_context` runs the handlers that are ready in their order, so that the timer, a write and a read that are
  ready again and again all get their turn. The write handler is ready when the peer takes bytes or the
  connection has failed; a peer that does neither for ever is outside `EveryPacketWritten` and
  `RefusedIsClosed`.

Nothing forces a tick, a push, an operation, a connection, a shutdown or a wakeup without reason.

## 5. The proofs

TLAPS checks the following for every value of the constants that the named `ASSUME`s allow.
They are as weak as the code justifies: sets of threads are finite where they are counted, players and mails where their
gold is added up (`FiniteAssumption`, cited by these proofs only), the values that stand for "none" are not members,
bounds are natural numbers.

**`PCQueueProofs`.** `FIFOHolds`: the inductive invariant adds that nothing has been deleted before
the shutdown, since `Cancel` appends the queue to `deleted` and a `Pop` after it would break the
order. `WakeupsHold`: `WakeupsSuffice` is inductive with the type invariant; a `Push` adds one
element and one waking consumer, a consumer sleeps only when the queue is empty.

**`MapMgrProofs`** has the barrier, its refinement and the turns.
`Inv`: `pending` counts the queue and the workers that hold a request; it is zero whenever the world thread is
not between scheduling and the end of `wait()`; a worker that runs holds a request, one that has left or is
calling does not; and the shutdown flags are set only after the last wait. The last is needed because the token makes a
worker leave with what it popped: it is harmless only because nothing is queued by then. From
it follow `BarrierHolds`, `PendingHolds`, `WorkersSafe` (no call through a null request, no request dropped).

`TickHolds` proves that the updater implements `MapTick`: initial states and each step, under the mapping by
which queued and popped requests are due. `Inv` says nothing about *which* requests there are, and the abstract
specification lets a map be updated once. `OnceInv` says it: a request is in the queue once, or with one worker, or still
to be scheduled, and its update has not begun before it runs; an instance comes after the map it belongs to,
in whose iteration it is met once. That the workers may add requests while the world thread already waits is an abstract
step of its own, and at the end of `wait()` `pending = 0` gives that all that was due is updated.

`TimeKept` (`MapUpdateCycle`) is inductive. `WaitsBounded` needs a bound on the time of the
cycle at each step: before the last step it is at most the ticks so far; a cycle that goes on in the
last step is shorter than the interval.

**`DatabasePoolProofs`.** `Segment(n)` says what the single queue gives: what was taken from it is
the operations 1 to n, and it holds the others in their order, unless it was cancelled. With `HandsInv` (what a worker holds is
held by it alone and not yet executed) and `DoneInv` it gives `NothingOvertakes`. For `CallbacksOnce` each query is counted in
the three lists in which it can be while the processor moves its vector aside, keeps some and runs others, and among
those answered: the sum is one for
what has a callback, and zero for what is a write or not yet enqueued (`PollInv`); the answers are of executed
operations (`AnswerInv`).

**`SqlTransactionProofs`.** `RetriesExclude`: whoever retries holds the lock. `SessionsClosed`: a thread
that has ended its attempt is in no transaction, also when the connection was lost.
`TransactionsAtomic` and `ResultsHonest` follow from `Whole`: a thread that has kept its connection has,
at each place, exactly the statements before `next` uncommitted, and committed nothing before its
commit succeeds; for transactions of any length. `DamageIsBounded` is about those that did not keep it. How often a statement
was applied is not bounded by the losses in an inductive way: one more loss may be used by the
statement itself. `Damage` adds that in a session that is in no transaction the statements still to come were
applied once less than the connection was lost, and that the success of the thread is worth one.

**`WorldSessionsProofs`.** Ownership: sessions handed over are as they were created and nowhere else (`HandedInv`), those in
`m_sessions` have a socket and those offline have none, so that the two maps share nothing (`MapsInv`), and a session that is
nowhere is destroyed (`PlacedInv`): `NobodyLeaked`. The loops of `UpdateSessions` are interrupted by connections that
come and break; `LoopInv` keeps what is still to visit inside the map it is from. `QueueIsAlive` needs that who is in the
queue waits, and the converse while the server runs. `LimitKept` and `RoomUsed` count: the sessions that do not wait are `m_sessions`
less the queue, so that each handler is one more or one less in one of the two (`ActiveCount`). `CharacterIsOnce` rests on
`CharInv`, that an account's session never has or loads the character of its own offline session, and `OnePlayer` on `OneInv`: a
character next to an offline session exists only between the visit that let it in and the end of the same `UpdateSessions`, which
then drops the other one. `KickedInv` does the same for those kicked, up to the last update: `EverybodyLoggedOut`.

**`TradeProofs`.** `TradesArePairs` from the type invariant and `Mutual` together. `TradesConserveGold`: an
exchange happens only after both sums were found to fit. `AcceptancesAreCurrent`: each action changes
the terms of one pair and takes back both its acceptances, or leaves an offer as it was but for
items that have gone, which the property allows for; the terms of other pairs are untouched as pairs are
disjoint. `MoveItems` is a recursive function; that it exists, and that it gives
items only to the two or to nobody, is proved by induction over `Nat` in set form: the
set of numbers for which the claim fails has no least element (`SetInduction`, from `WFMin` and
`NatLessThanWellFounded`), because the induction theorems that take a predicate cannot be
used with the provers at hand. No module has a `RECURSIVE` operator. `DealsAreAsAgreed` needs what `MoveItems` computes exactly:
by the same induction, after n slots the items of the first n have changed sides and those of the others are nobody's for the
moment (`SoFar`). A slot never fails, because what `CanStoreItems` counted at the beginning is at least what the receiver has by
then and the item that comes; this counts an item once only because no item lies in two slots (`AllApart`), an
invariant of its own which setting an item must keep.

**`WorldSocketProofs`.** The invariant has three parts besides the types. `NameInv`: packets are numbered in
the order of their exchanges, and only numbers up to the last one occur anywhere. `QueueInv`: the list, read with
the missing links of the half-done pushes put in (`Chain`), runs from the tail through consecutive numbers to
the head, each element once, the dummy at most once; whatever lies before the tail is freed. A consumer that meets a
missing link meets exactly a half-done push, so `Dequeue` never passes it: `QueueNodesAlive`, `QueueInOrder`.
`SessionInv`: a socket whose session is being deleted is closed, and whoever is between `_closed`
and `OnClose` is either the deleter or will be waited for; hence `SessionsAlive`. It holds for any number of
threads, packets and sizes.

`ChannelHolds` proves the refinement of `SocketChannel` on top of it. `StreamInv`: the packets taken from the lock-free queue are the
first k, and while the connection is up their bytes, one after another, are those written, then those of `_writeQueue`, then
those of the send buffer (`InFlight`); after it broke, those written are still the beginning. Both sides are compared
byte by byte, by position, so that a write that stops inside a packet is a matter of arithmetic; the bytes of a list of packets are
`FlattenSeq`, and that it takes `\o` apart is proved by the same set induction (`FlattenAppend`).

**`AuctionHouseProofs`.** The operations of mail are proved first, for any set of items in auctions, and then composed with the
auctions. `AlwaysCrashSafe` rests on `SyncInv`: bags are equal in memory and database, a mail in
memory equals its row, and its receiver is online. That mails in memory belong to players online is what lets the expiry
work on the database alone. `AlwaysItemsOnce` rests on `Placed`: there *is* a function from items to
places that agrees with all the bags, rows, auctions and with what was thrown away (`Located`). Each
handler moves a set of items from one place to another and leaves the rest (`Relocated`), so it gives a new
such function; counting the places of an item is needed only in the last step. The auctions add that a bid stays below the buyout
(`Priced`), or a buyout by the highest bidder would be charged a negative amount, and
that the house's cut is at most the price (`CutBound`).

`MoneyIsSaved`: whoever pays or is paid by a handler is saved by it (`GapSaved`), in every handler of both modules.
`PaidOrSentBack`: a mail to be paid for is, wherever it lies, a normal one that was never returned, with items and
without money (`Letters`), and is never marked deleted (`MarksInv`): the payment clears its price in the same handler that
may empty it. Without the second, a save could delete the row unpaid. So of all actions only `TakeItem`, the
return by hand and the return by expiry can change such a row, and each does it as the property says.

`NoGold` and `AlwaysSettled` are about sums over players, mails and auctions, `MapThenSumSet` in the specification. The first
part of the module proves what they need of sums (`Total`): that the recursive function behind the fold exists, that its value
does not depend on the elements `CHOOSE` picks, and what happens to it when one term changes, when terms are added where there was
nothing, or when only a part of the set counts. The induction is over the number of elements, again in set form (`SubsetInduction`).
`NoGold` splits `Wealth` into what players have, mails carry and the house holds (`Purse`, `Post`, `House`), which is
possible because a loaded mail carries what its row does (`SyncInv`). For each handler it shows how much the three change:
a mail sent adds what its drafts carry (`Term`), a save writes no mail with more gold than it has in memory, a sale
mails no more than deposit and bid. `AlwaysSettled` needs an invariant of its own, `SaleInv`: as long as an item is on sale its
owner has paid the deposit, the highest bidder his bid, and nobody else anything on balance (`Share`), and the
owner never leads his own auction, in which a bid is at least the starting one (`Fair`). It is what makes a refund exact at each
outbidding; TLC checked it first, on the bounds of the run `auctions`. Then the ways a sale ends (buyout, cancel, expiry) settle it. `AllTyped` completes the types with `paid`.

The `TypeCorrect`/`Typed`/`AllTyped` theorems prove the type invariant of each of these; the runs do not repeat it. Some
invariants of these modules are only proved and no longer run: `PendingCountsWork`, `NoRequestDropped`, `RetryAlone`,
`NothingLeftOpen`.

**Model-checked only.** Every liveness property and the deadlock checks, since fairness and `ENABLED` are out of
reach of the prover: `EveryElementLeaves`, `TickCompletes`, `ShutdownCompletes`, `CallbackRuns`, `CloseReturns`, `EveryTaskEnds`,
`ClosedGoes`, `EveryPacketWritten`, `RefusedIsClosed`. All invariants, transition properties and refinements of
the runs that are expected to pass are theorems.

## 6. Where the code does something else than it says

One has a run whose counterexample shows it; each was met while the code was read for the model.

- **Saves lost at shutdown** (`dbpool_shutdown`). The world server's shutdown is meant to "save and kick all
  players" (`worldserver/Main.cpp:375`). The saves are asynchronous, and `~DatabaseWorker` cancels the shared queue
  (`DatabaseWorker.cpp:34`), which deletes every operation still in it. `Close` is not preceded by a wait for the
  queue to run empty.

The models contain the following too; the properties of the runs are stated so that they allow for it, and no
run repeats it.

- **A failed transaction that leaves a statement behind.** A transaction is to "automatically
  rollback if not commited" (`DatabaseWorkerPool.h:169`). After a lost connection the current statement
  alone is executed again (`MySQLConnection.cpp:251`), on a session in autocommit mode; when a later one fails, the
  rollback has nothing to undo. `DamageBounded` limits what this can do.
- **An account marked offline while it is connected.** The comment at `World.cpp:2875` wants to
  avoid just that, but a session created and not yet taken from `addSessQueue` is not looked for.
- **An item that is nobody's after a trade.** The items already removed are to be returned to "the
  original owner" (`TradeHandler.cpp:176`); when the owner's bags have been filled by the slots before, the item
  is only logged. It needs a slot that fails after `CanStoreItems` said yes: that function compares each item of a limit
  category with what the receiver has, not with the others he gets (`PlayerStorage.cpp:1639`).
- **A returned mail is returned again.** The handler's return (`MailHandler.cpp:404`) does not look at
  `MAIL_CHECK_MASK_RETURNED`, only the expiry does: two players may send one mail to and fro by hand.
- **A refusal that is not sent.** When the challenge is blocked, the write handler empties `_writeQueue` and closes the socket
  (`Socket.h:239`) while the refusal is still in the lock-free queue. `RefusedIsClosed` asks for the closing only.
- **`m_playerLoading`**, set before the refusals of `HandlePlayerLoginOpcode` (`CharacterHandler.cpp:665`), stays set
  after them, so the account's next connection is refused though nothing is loading.

## 7. Abstractions, and what is left out

- *Queue*: `Size()` reads the queue without the lock; its value is only displayed.
- *MapUpdater*: updating a map is a step without content, except for an instanced map. Loading a map is one step (the
  insertion into `i_maps` by a worker while the world thread iterates is below this model). The branch without workers is
  sequential and left out.
- *DatabasePool*: one pool; the synchronous connections, `KeepAlive`, prepared statements and query holders are
  left out. An operation is executed in one step; how a transaction is executed is `SqlTransaction`.
- *SqlTransaction*: a statement is its number. That a result may say "committed" when the `COMMIT` itself was lost for good
  (`MySQLConnection.cpp:437` ignores the result) is in the model; `ResultHonest` is about threads that kept
  their connection.
- *WorldSessions*: the logout timer is the freedom of `Logout` to happen; a login comes from the character list only.
  Writes of `account.online` take effect in the order in which they are enqueued. Left out: the closed realm,
  the kick of a character that fails its checks, deletion of accounts, the updates under `MapSessionFilter`, `~World`.
- *Trade*: an item is one thing in one place: stacks, their merging and bag positions are a number of free places. Refusals
  that leave everything as it was (dead, stunned, too far, another faction, too low a level) are stutters.
  What the spell does to the item in the last slot, the save of both inventories and the log are left out. An item that is
  used, sold or sent leaves for good. `Bindable` and `Spenders` bound who does what besides.
  An item used after the other has accepted is just missing from the deal: `AcceptanceCurrent` and `DealAsAgreed` say
  "those still held", which is what the code does.

- *Mail*: a mail that carries nothing is not kept (its text is not modelled, and no handler moves anything with it);
  ids of mails that are gone are drawn again, the lowest free first. Time is the freedom of delivery and expiry to happen. All items can be sent and
  auctioned; each player has an account of his own; a mail goes to another player. Mails with an unknown template, from
  creatures or game masters, the letter made of a mail's text, the limit of mails in a box, and the deletion of a
  character are left out. `Spenders` earn and spend a coin without a save. `m_mailsUpdated` is cleared by every
  save of the mails, as in `_SaveMail`, whether or not there were any.
- *AuctionHouse*: a sale is of whole stacks; `Deposit` is one amount; searching and listing change nothing.
- *MPSCQueue*: the atomics are sequentially consistent in the model; the code's acquire and release orders are enough for that
  on the one link and the one head that threads share, but this is an argument, not a check. The variant that
  allocates its nodes is used by the metrics only.
- *WorldSocket*: the branch of `Socket.h` for Windows' completion ports is left out. Bytes stand for the parts of a
  packet: what matters is whether one fits the buffer, and that a write may stop inside it. A second
  `CMSG_AUTH_SESSION`, malformed packets and pings that come too fast are `RefusePacket`. Encryption and headers are
  left out; so is `_worldSessionLock`, whose critical sections are single actions.

Hazards without a property are in `PROJECT.json` with the reason.

## 8. The plan

Order: what everything else stands on first (queue, barrier, database), then the state most exposed to
interleavings (sessions), then the economy.

1. Done: `ProducerConsumerQueue`, `PCQueueClients`, `MapTick`, `MapUpdater`, `MapUpdateCycle`, `DatabasePool`,
   `SqlTransaction`, `WorldSessions`, `Trade`, `Mail`, `AuctionHouse`, `MPSCQueue`, `SocketChannel`, `WorldSocket`, and the proofs of section 5.
2. Further models, each with bounds of two or three of everything:
   - `PacketQueue`: `_recvQueue` under two filters; order and requeueing;
   - `LootRoll`, with members that come and go; `BattlegroundQueue`, with invitations that expire;
   - `EventProcessor`; `InstanceSaves`;
   - `Login` of `Mail` in two steps, as in `WorldSessions`, against the expiry;
   - the locked insertion into `i_maps` in `MapUpdater`.
3. Nothing the runs check and the prover can reach is left to prove; what is added under 2 comes with its proofs.

## 9. Running it

    tlc -workers 2 -config MapUpdater.cfg MCMapUpdater      # a run: PROJECT.json names module and cfg
    tlapm MapMgrProofs.tla                                  # a module of proofs

Most runs take seconds; `trade` (727,000 states), `mail` (591,000), `auctions` (520,000), `sqltransaction` (331,000,
with liveness) and `world_socket` (115,000, with liveness) one to two minutes each. When
nothing of them is cached, most of the proofs take about a minute per module; `TradeProofs`, `WorldSessionsProofs`,
`WorldSocketProofs` and `AuctionHouseProofs` take a few.
