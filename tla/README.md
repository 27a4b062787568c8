# A verification development for TwsApiC++

This directory holds TLA+ models of the client library in `src/` (EClientL0, a
portable layer on the POSIX client of Interactive Brokers' TWS API) and of the
trading application built on it, the TLC configurations that check them on small
instances, and theorems that TLAPS proves for every value of the constants.

## Inventory

| Component | State | Operations | Interacts through |
|---|---|---|---|
| Client stream (`EClientL0Impl` without thread, `EPosixClientSocket`, buffers of `EClientSocketBase`) | `m_fd`, `m_connected`, `m_outBuffer`, `m_inBuffer`, `errno`, `m_NextHeartbeat` | `eConnect`, `eDisconnect`, requests, `checkMessages` | system calls; calls `EWrapper` |
| Client threads (`EClientL0Interface`, reader thread) | the critical section, `m_ThreadIsRunning`, `m_Enabled`, and the shared members above | the calls of the interface, `checkMessagesLoop` | shared memory, a mutex, callbacks |
| Incoming messages (`processMsg`, decoders) | `m_inBuffer` | decode, dispatch, clean up | calls `EWrapper` |
| Requests (`EClientSocketBase`) | `m_connected`, `m_serverVersion`, `m_extraAuth` | 47 calls that encode a message, each behind version gates | `bufferedSend` |
| Trading application (`IBAPI.cpp`, `myEWrapper.cpp`) | result flags and lists, `m_orderId`, open orders, ticks | queries with a timeout, order placement, repair, splitting, closing | requests on one thread, callbacks on the reader |
| Order arithmetic (`IBAPI.cpp`) | none but the lists it is given | `roundNum`, `genANOrder`, `genOrder`, `splitLOOVWAPOrders`, ... | composed by the programs in `Main.cpp` |
| CSV and configuration, samples, test programs, data types | | reading files, calling the client | not modelled |

What is hard in this code:

- *partial failure*: `send` takes a part of the data, would block, or fails; `select`
  is interrupted; `eConnect` fails half-way. `handleSocketError` reads the global
  `errno`, which may be stale or belong to somebody else.
- *interleaving*: the reader thread runs outside the critical section; it is stopped
  by flags and a wait of 100 ms, and `eDisconnect` may run on several threads.
- *liveness*: a backlog is sent, a lost connection noticed and `eConnect` left only
  because something is called again and again.
- *late answers* in the application: a reply that comes after the timeout, an order
  id that another thread resets, a tick for a ticker id that is used again.
- *versions*: a test at the top of a request and one hundreds of lines later must agree on
  what an old TWS is refused and sent.
- *sums*: orders are scaled, rounded, hedged and split one by one, and must still stay
  within a limit or add up.

`PROJECT.json` lists each hazard at its line, with the properties that cover it.

## Modules

| Module | Models | State and actions |
|---|---|---|
| `RequestStream` | what the client promises of the bytes TWS reads | `stage`, `due`; `Open`, `Greet`, `Submit`, `Receive`, `Close` |
| `ClientStream` | EClientL0 without reader thread, one action per system call | see below |
| `ClientStreamProofs`, `ClientThreadsProofs`, `InBufferProofs`, `QuotesProofs`, `QueryReplyProofs`, `OrderIdsProofs`, `TradingDayProofs` | theorems about the module of that name | |
| `SequenceFacts` | the lemmas those need about sequences, queues, sets of numbers, induction up to a number and `FlattenSeq` | |
| `ClientThreads` | the critical section, start and stop of readers | see below |
| `TwsMessages` | where each message of TWS ends | pure operators, one per message |
| `InBuffer` | `m_inBuffer` between `recv` and the EWrapper | see below |
| `QueryReply` | the queries of IBAPI that wait for a flag, and the callbacks that answer | see below |
| `OrderIds` | order ids, and the calls of IBAPI that send orders | see below |
| `Quotes` | `queryQuote` and `queryClose`, and the ticks that answer | see below |
| `Requests` | what each request refuses and sends, by server version | see below |
| `OrderArithmetic` | how orders are computed | pure operators, named for the functions |
| `TradingDay` | the programs of `Main.cpp`, with the account | see below |
| `MC...` | the small instance of each | |

### ClientStream

`phase` is the call being executed (`eConnect` or `checkMessages`; `eDisconnect` and the
requests are one step), `todo` what `select` reported and `checkMessagesOnce` has not
served. `fd`, `connected`, `outBuf`, `errno` and `hbDue` are `m_fd >= 0`,
`m_connected`, `m_outBuffer`, `errno` and `time(0) > m_NextHeartbeat`. `told` is what
the application heard last. `pipe`, `peer`, `inbox`, `heard` and `answer` are the
kernel and TWS. Between two system calls TWS may read, answer, send, close or reset.

The POSIX build is modelled: `handleSocketError` reads `errno`, which the socket
functions of Windows do not set. `SIGPIPE` is taken to be ignored, as otherwise the
first send on a broken connection ends the program. The socket is blocking until
`eConnect` returns, so a send in it takes everything.

`RequestStream` states what all this is for: the bytes TWS has still to read on a
connection are changed only by appending a whole message and by TWS reading from the
front. `ClientStream` implements it with `due` = the bytes in the kernel followed by
`m_outBuffer`. The promise admits one message left over from the previous connection,
because the code does (see findings).

### ClientThreads

A step writes at most one of the shared members, so other threads see what is between two
writes: `EPosixClientSocket::eDisconnect` closes the descriptor (`CloseSocket`), resets
`m_fd` (`ClearSocket`), and `eDisconnectBase` resets `m_connected` (`DisconnectBase`). `pc`
says where each thread is: program threads hold the mutex from `Enter` to `Leave`, readers
take it only in a callback that calls the client. `ret` is where the virtual `eDisconnect`
returns to, as it is called from `eDisconnect`, from a failing send, `select` or `recv`, and
from `processMsg`. `peer` is the connection on the descriptor, as TWS and the network leave
it; `session` counts the connections. The wait of `eDisconnect` for a reader may end at any
time, as a reader need not stop within the 100 ms.

`eConnect` is refused if the client has a socket, whatever `m_connected` says (`Open`); one
that finds `m_connected` set and no socket opens one and returns without calling
`connectionOpened()` and without a reader (`reopen`). `processConnectAck` sets `m_connected`
before it sends the client id, which may fail; a TWS that is too old leaves the program in
the loop of `eConnect`, as `eDisconnect` does nothing for a client that is not connected
(`TooOld`), until TWS closes the connection. `SelfCall` is an EWrapper that calls the client
from `connectionOpened()`, `connectionClosed()` or `error()` on the thread that holds the
mutex: the thread is stuck. Left out are a `recv` that blocks on a socket another thread
closes, and a `connectionClosed()` on the reader, outside the mutex, that calls the client.

### TwsMessages and InBuffer

The messages of TWS carry no length: only decoding a message, with its version, its
counts and its flags, tells where it ends. `TwsMessages` has this for all 43 messages of
`processMsg`: `End(f, server)` is the number of fields it decodes of the message at the
front of `f`. A message is a sequence of fields, and a field is the number that steers
the decoding. `FindFieldEnd` looks for the end of a field within the buffer, so a field
of which the end is missing is as good as not there, and the stream is cut between
fields only. A missing field reads as 0 and counts, so an incomplete message has
`End > Len`.

`inBuf` and `pos` are `m_inBuffer` and `ptr - beginPtr`; `decoding` is the loop of
`checkMessages`, in which each step decodes one message. `stream` are the fields under
way, `sent` and `passed` the messages TWS has sent and the EWrapper has got on this
connection. `eConnect` does not touch `m_inBuffer`, so what a connection left there
would be seen by the next. The several calls that one message makes (`tickPrice` and
`tickSize`, a `historicalData` per bar) are one element of `passed`. A negative count in
HISTORICAL_DATA or SCANNER_DATA, and a callback that disconnects and connects again
within `checkMessages`, are left out.

### QueryReply

A query is a list of statements (`Steps`): clear what the answer will be stored in (the
account values are not cleared), clear the flag, send the request, poll the flag or give
up, cancel a subscription, read. `kind` and `pc` say which query is at which statement,
`flag` and `data` are the members of `MyEWrapper` that the reader thread writes. Queries
share them: `queryMinTick` and `queryPriExch` have one flag and each is answered by a
`contractDetails` that stores for both; the account queries have one flag. `asked` and
`coming` are the requests and callbacks under way, so an answer may come in any later
query. TWS may answer with an error only, on which no flag is set.

A value is the number of the query that was answered; all values of before the current
query are 0, as the properties only ask whether a value is the current one. `clean` and
`answered` are history: whether something with the same flag was under way when the
query began, and whether its own answer is complete. A position that changes between
`positionEnd` and `cancelPositions`, and the data races inside `allPos` and
`combOpenOrd`, are not modelled.

### OrderIds

A call sends a list of orders: `queryNextOrderId`, which may give up, then for each order
`EW.m_orderId++`, a read and a write, and `placeOrder`, then a wait and the keys of
`combOpenOrd`. `nextValidId` is two steps of the reader, as its flag is set before the id
is stored. The wait after the orders is for `b_openOrdReady`, which only
`openOrderEnd` sets, so it ends at its limit (or early, if one is left over from
`queryOrd`). TWS gives ids above those of the orders it has got. `settled` is history:
the wait for the id ended with no `nextValidId` under way. A connected client gets one
`nextValidId` unasked.

### Quotes

`kind`, `list`, `pc` and `index` are the query, its tickers, its statement and the index of
the loop it is in. `tickData` and `counted` are `tickData` and `n_quoteStatus > 0`; a value
is named by the ticker it is of. `Store` and `Count` are the two statements of `tickPrice`
or `tickSize`. `requests`, `subs` and `ticks` are the requests under way, what TWS sends
ticks for, and the ticks under way; a request for no ticker cancels. The bid, the ask and
their sizes are stored, counted and waited for alike, so one field (`ask`) stands for
them. As the ids are the indices of the list, a tick of the query before is stored for
another ticker: `clean` is history and says that nothing of the kind was under way when
`init_tickData` ran. The counters only grow while the program looks at them one after the
other, so the look (`Ready`) is one step.

### Requests

The program sets arguments, one after the other, and calls any request; `outcome` is what
it hears and `sent` the message. `Call` has the order of the tests of every request: not
connected; then the refusals, with the id the error is reported for; then the message.
`Older(v)` is `m_serverVersion < v` and `Since(v, ..)` the fields sent from v on. A field is
`<<name, value>>`: 0 is the default of `Contract()` or `Order()`, a list is its length.
Fields in a row that are always sent and that no test reads are one field (`Always`).
`arg` keeps the contract, the order and the parameters together, as no name is used twice.

`NothingDropped` is what the tests at the top of a request are for. The arguments in
`Unguarded` are left out for an old TWS without an error, and excepted. `Meant` names what
another argument completes: the parameters of a scale order without an increment, for example,
are not sent to any TWS. `Decodable` compares a message with the next one of the connection,
of the same program with the same or more arguments: at the first field in which they differ
they must have the same name there, as TWS cannot know otherwise which field it reads. Two
lists of different length are not compared with each other.

### OrderArithmetic and TradingDay

`OrderArithmetic` translates each function of `IBAPI.cpp` into one operator on sequences of
orders. Prices and values are integers, in tenths of a cent, so that the rounding of a
price to cents shows; the products of prices and quantities are then exact, which they are
not quite in the code. Where the code adds doubles up and takes them off again, in `genOrder`,
the model has what remains of rounding (`sizing.residue`).

`TradingDay` puts them together as `Main.cpp` does: `job` is the program, `pc` the next
call, `ord` its lists of orders. Of the programs `Main.cpp` has the one with two signal
lists (`genOrder`, hedge, split) and the closing of all stocks in comments at present; the
calls are there, and the model keeps them. `genOrder` is a step that sorts, sizes and
scales (any order of equal scores), and a loop that takes orders off, with the running
values the code keeps (`sizing`). A residue may make a value that is exactly nine tenths of the
buying power count as more: of a power of 0 when the list is empty. The buying power may also
be negative, as `queryBuyingPower` returns what the member held before if it gives up. Then
`back()` of an empty vector is reached (`RemoveFromNone`), and what follows is undefined.
`held` and `open` are the account: TWS fills or cancels each order of the opening auction at
any time, whole; closing orders are taken as filled whole. `shown` are the positions of 0 that
TWS lists with the others, for which `genANOrder` buys only what is worth 100 shares or more,
as if the stock was held. `queryPos` and `queryOrd` are what
`QueryReply` shows of them: the whole answer, or a part if the query gives up, the rest of
which is then in front of the next (`late`). `gaveUp` remembers that this happened.

The positions are matched by ticker, and by type only in `closeAllStock..`; so
`FlatAtEnd` and `AdjustedToTarget` ask that other types are not held in the tickers of the
file, and `AdjustedToTarget` that they are not listed either (`SeesStocks`), as the first
position of a ticker hides the others.

## Runs

| Run | Question | Result |
|---|---|---|
| `stream` | types, `AtRest`, `ConnectIsAllOrNothing`, refinement of `RequestStream`; `BacklogIsFlushed`, `BrokenIsNoticed`, `ConnectReturns` | hold |
| `stream_version_first` | is the version the first thing TWS reads? | violated |
| `in_messages` | `TypeOK`, `PassedInOrderOnce`, `NothingWaits`, `NothingIsLost` for every message id and every way to cut the stream | hold |
| `threads` | types and mutex; `FirstClosedIsReported`, `FirstConnectedHasSocket` on the first connection; `CallsReturn`, `ThreadStops`, `BreakIsNoticed`, `EndIsNoticed` | hold |
| `threads_reported` | is a closed connection reported, over two connections? | violated |
| `queries` | `TypeOK`, `AnswerIsRight`, `AnswerIsNotLost`, `QueryReturns` | hold |
| `quotes` | `TypeOK`, `QuotesAreOfTicker`, `NoSubscriptionStays` | hold |
| `orders_settled` | `TypeOK`; `SettledIdsAreNew` and `ReportedAreReturned` if no `nextValidId` is under way | hold |
| `orders_new_ids` | is an id ever used for two orders? | violated |
| `requests` | `TypeOK`, `NothingDropped`, `Decodable` for every request and 28 versions of TWS | hold |
| `trading_day` | `TypeOK`; sizing: `RemovalFindsOrder`, `WithinBuyingPower`; prices: `RoundedForTrader`; hedge and split: `HedgeLeavesLittle`, `SplitAddsUp`, `AuctionWithinVolume`; positions: `AdjustedToTarget`, `FlatAtEnd` | hold |
| `max_per_stock` | is a position brought down to the maximum of genANOrder's comment? | violated |

Bounds. `ClientStream`: a kernel buffer of 2 bytes and messages of 1 and 2 bytes, so
that a send takes all, part or none of its data; two requests, each made once per
connection; no new second while `MaxBacklog` bytes are buffered, or `MaxStalled` while TWS has not read
what was sent, which bounds the heartbeats; `MaxInbox` messages unread. Connections are not
bounded. `MaxBacklog = 8` is more than two requests can leave in the buffer, so a heartbeat is
always possible on a broken connection; `MaxStalled = 1`, or else the heartbeats alone can
keep the buffer full for ever. The safety properties are proved for any of these bounds. `ClientThreads`: two connections and two readers, enough for a reader to
outlive its connection, and one program thread: program threads are alike and meet only where
they enter the critical section. (With two connections `ClosedIsReported` fails, see findings;
`First..` are about the first.) A thread whose callback called the client is stuck, with all
that wait for the critical section, so deadlock is not checked: `CallsReturn` and
`ThreadStops` say what else must go on.
`in_messages`: an acknowledgement of one field
(TWS 19) and of two, too old (19, 37) and accepted; behind it one message of any id, in
the message versions at which a case adds fields and those below, with 0, 1 or 2 for
every other field (39 and 51 are the TWS versions that PORTFOLIO_VALUE and OPEN_ORDER
test for), or two messages of fixed length, with a list, with optional fields or of an
unknown id, so that a read holds none, a part, one, one and a part, or both. The number
of connections is not bounded.
`QueryReply`: up to `MaxQueries` = 2 queries have something under way at once, so the
answer of one that gave up meets the next; the number of queries is not bounded. A query
without and with the same flag and result as another, and all ways to clear, are there. A
list has two items, so that it can be incomplete and doubled. Orders report events of
their own only while nothing is under way (`MaxComing` = 1). `OrderIds`: calls with none, one or two
orders, ids to 6, enough for a second and third call; a call begins while at most one
message is under way (`MaxComing` = 2), which is enough for a `nextValidId` of the call
before. There the program may end when the ids are used up, so deadlock is not checked.
`Quotes`: the lists `<<a>>` and `<<b, a>>`, so that id 0 is used for another ticker and a
ticker moves to another id; one tick and one request of the query before under way. The
number of queries is not bounded.
`Requests`: every version of TWS that a test names and the one below it. A behaviour has one
kind of program (`use`, one of the sets of arguments that requests read), which sets up to
`MaxSet` = 2 arguments beside `secType`: enough for an argument and the one it completes,
and, in a BAG, for two lists. Lists have one or two items. `extraAuth` varies only for the
programs that set nothing, one of whose calls reads it.
`TradingDay`: files of up to three signal rows of eight kinds (strong, weak, long, short,
cheap, thinly traded, hedging each other, with a limit above the price), buying powers below 0,
of 0 and from little to more than enough, so that `genOrder` takes each branch; announcements
on both sides of each day the code tests, with targets below and above 100 shares; ticks of
none and five cents; accounts with nothing, with stocks, with an option, and with more than
the target, and listed with or without positions of 0. The tickers of a file are distinct,
and the weights whole numbers. `MaxPolls` = 2 stands for the 45 rounds. The programs end,
so deadlock is not checked.

Fairness. The documentation says `checkMessages()` MUST be called periodically without
the reader thread: `WF(CheckMessages)`. A system call returns, and seconds pass. With
threads, each thread runs on; a thread waiting for the mutex gets it if it is free again
and again (strong fairness), and `select` reports data that stays there. TWS answers the
version (`WF(PeerAnswers)`), as a silent one keeps `eConnect` for ever; `CallsReturn` asks in
its premise that a TWS that is too old does not stay silent (`mute`) for good, and each
property excepts a thread that is stuck (`SelfBlocked`). `EndIsNoticed` is about a program
that goes on making requests.
`queries` asks only that the program runs on (`WF(Program)`); TWS and the
reader may stop at any time, so a query returns by its limit alone.

## Findings

Shown by a run:

1. `bufferedSend` stores a message after a failing send has disconnected; the next
   connection starts with it (`stream_version_first`).
2. A reader that was not stopped goes on with the next connection, and its own disconnect
   can close that before `connectionOpened()` is called for it, which is then what the
   program heard last (`threads_reported`).
3. `nextValidId` sets `m_orderId` back between two uses of `EW.m_orderId++`, and an id is
   used twice (`orders_new_ids`); ids are new while no `nextValidId` is under way
   (`SettledIdsAreNew`).
4. `genANOrder` never reduces a position of more than 20000 dollars before the last days,
   although its comment calls them the maximum: `abs(adjShare >= 100)` is true for purchases
   only (`max_per_stock`, which grants 110 shares above the target). `AdjustedToTarget` holds
   for what is below the target.

Further behaviours of the models, of which no run is made:

- with the reader thread no heartbeat is sent, although the documentation says that every
  second one is, and `receive` ignores the 0 of a closed stream: TWS closing its end is
  noticed only by a request of the program (`Recv`, `PeerCloses`, `EndIsNoticed`);
- a TWS that is too old and stays connected keeps `eConnect`, and the critical section, for
  ever (`TooOld`);
- an EWrapper that calls the client from `error()`, `connectionOpened()` or
  `connectionClosed()` on a thread in the critical section waits for itself (`SelfCall`);
- `eConnect` between the reader's reset of `m_fd` and of `m_connected` opens a socket and
  returns true without `connectionOpened()` and without a reader (`EConnect`, `Open`);
- without buying power, or with the value of a query that gave up, `genOrder` may take an order
  off an empty list (`RemoveFromNone`);
- a position of 0 that TWS lists keeps `genANOrder` from buying fewer than 100 shares of that
  stock, and one of another type hides the stock that is held (`Positions`, `AnAdjustment`);
- a call that sends orders returns, and counts, orders of earlier calls too (`Collect`);
- a tick under way for a ticker id is stored for the next query's ticker: `QuotesAreOfTicker`
  needs its premise `clean`;
- the arguments in `Unguarded` are dropped for an old TWS without an error (`Requests`);
- an order of `ly` that scaling has left without shares counts as a sale when `lt` is split,
  so that an auction order may be on the wrong side (`RestForLOO`); orders for no shares are
  placed;
- `closePart..` and `closeAllPos` close an option with an order for its stock (`ClosePart`);
- a `queryOrd` that gives up ends the wait for the opening orders (`Poll`), and late
  positions are closed twice (`Answers`);
- an unknown message id reports `connectionClosed()` twice (`ReadUnknown`);
- `eDisconnect` closes the socket under a reader that has been created and has not set
  `m_ThreadIsRunning` yet (`StartThread`, `DisconnectCheck`);
- the `openOrderEnd` of a `queryOrd` that has given up ends the next one, which returns
  an incomplete map: `AnswerIsRight` needs its premise `clean`;
- `nextValidId` sets its flag before it stores the id, so `waitForNextValidId` may return
  with `m_orderId` = -1.

## Proofs

A module `XProofs` proves theorems about `X` from the assumption that `X` states on its
constants, and from nothing else. Each defines an inductive invariant (`Inv`, or `IInv`),
proves that it always holds, one step or lemma per action, and the properties from it. Each
was checked by TLC on the instances of the runs before.

**ClientStream** (messages are non-empty byte strings, the kernel buffer holds at least a
byte). `TypeCorrect`, `RestCorrect`, `ConnectCorrect`: `[]TypeOK`, `[]AtRest` and
`ConnectIsAllOrNothing`; `StreamCorrect`: `ClientStream` implements `RequestStream`.
`AtRest` speaks of the state between calls only and is not inductive. `Inv` adds what
holds inside: in `eConnect` nothing has been announced and `m_connected` implies an open
socket with nothing left to serve; outside `eConnect` the socket, `m_connected` and what
was announced agree; without a socket at most one message is in `m_outBuffer`. Most steps
rest on `SendOutcome`: a send leaves the bytes in the kernel and in the buffer equal to the
bytes before followed by the data, or a closed client. The same lemma gives the steps of
the refinement.

**ClientThreads** (any program threads and readers, any number of connections).
`TypeCorrect`, `EndIsReported` and `SocketOfFirst`: `[]TypeOK`, `[]FirstClosedIsReported`,
`[]FirstConnectedHasSocket`. `TypeOK` has a part about the mutex, which is inductive only
with `LockInv`: a reader in a callback that has entered the critical section owns it,
in its `eDisconnect` too, and what it returns to releases it. `FirstInv` holds until a
second connection is made: calls are disabled only while some thread is in its wait, a
program that takes a closed connection for an open one is about to be told, a thread that
has reset `m_fd` of a connected client is about to reset `m_connected`, a socket without
`m_connected` belongs to an `eConnect` under way, and while one is there is no
reader. It is false from the second connection on (finding 2), and says why: a reader of the
first is then still there. `SocketOfFirst` speaks of a state between two writes, so it shows
that nothing but a closing thread makes it, and that it does not last.

**InBuffer** (any versions of TWS; any messages that `processMsg` decodes to their end; any
way `recv` cuts the stream; any number of connections). `TypeCorrect`, `InOrderOnce`,
`NoneLost` and `NoneWaits`: `[]TypeOK`, `[]PassedInOrderOnce`, `[]NothingIsLost` and
`[]NothingWaits`. They rest on `EndLocal`: if `f` holds the whole message that its own
decoding finds, then that message ends at the same field in everything that begins like `f`;
so what has been received, the message itself and all that comes agree on the end
(`EndOfFirst`). The proof goes through the layouts of all 43 messages, as each field that
steers the decoding must lie before the end that it decides about. `ComingInv` then says
what comes: TWS' answer and all it has sent, until it is accepted, and from then on the
messages not passed on, concatenated. `FlattenSeq` concatenates (`FlattenAppend`,
`FlattenFirst`): as the induction theorems cannot be used, these are proved from a least
counterexample (`Smallest`).

**Quotes** (any tickers, any lists of them, up to the 30 entries of `tickData`).
`TypeCorrect`, `NothingStaysSubscribed` and `QuotesAreRight`. For the subscriptions,
`SubsInv` says of each id that it is one the query has asked for and has yet to cancel, or
that TWS has no subscription or has its cancellation behind every request for it. For the
quotes, `CleanInv` follows the data of a clean query: what is under way, what is being
stored, `tickData`, what is counted, and the map copied from it agree with the list.

**QueryReply** (any queries, any size of an answer, any number of queries).
`TypeCorrect`, `AnswerNotLost` and `AnswerRight`. A clean query has asked and its request is
the only one of its number (`InAsked`), or the rest of its answer, from item j on, stands in
one block among what comes and the j - 1 items before it are stored (`InComing`), or all of
it is stored if its flag is set (`Gone`). `OwnInv` says that nothing with the number of a query
exists before it asks.

**OrderIds** (any number of orders in a call; there are more ids than orders in a call, so
that the first call gets them). `TypeCorrect`, `SettledAreNew` and `ReportedReturned`; the
properties of unsettled calls are false (finding 3). `WaitInv` follows the answer to `reqIds`:
the request is the last of what TWS has yet to handle, or its answer is the last
`nextValidId` that comes, or is being stored, or is stored, and it is then above every order
placed. It needs `Known` (a callback is about an order that was placed) and `Bounds` (the ids
suffice for the rest of the call). `SettledInv` and `MineInv` go on from there to the orders.

**TradingDay** (any files with one row for a ticker, any number of rows; any budgets, buying
powers, negative ones too, ticks, closing prices, holdings, positions of 0 that are listed; any
residue of rounding; any fills). All nine invariants of `trading_day` are
proved: `TypeCorrect`, `NeverRemovedFromNone`, `PowerKept`, `RoundingKept`, `HedgeKept`,
`SplitKept`, `AuctionKept`, `TargetsReached` and `EndsFlat`. The assumption says that prices
in signal and announcement files are above 0, that weights and volumes are natural numbers,
that `Holdings` have finitely many positions and an entry, which may be 0, for each stock
announced. The code checks none of this of its files; rows that occur twice are outside the
model and the theorems.

Most of these properties compare lists of orders that the steps in between have changed, and
are not inductive. `IInv` carries what ties the lists to the file and to the account:

- `SignalOrders`: every order is of one row of the file, no two of the same, on the side of
  its score and with its weights (`FromFile`), and until `Round` at its price
  (`AtFilePrice`); while `genOrder` takes orders off, the running value and exposure equal
  those of the list that is left, but for a residue. The last is why the loop ends before the
  list is empty: an empty list is worth 0, which is below nine tenths of any buying power above 0
  by more than any residue. For other powers it is false.
- `TradeOrders` and `Account`: orders and positions that have changed are in tickers of the
  file, as stocks, and none is open once the program goes on without having given up.
- `Answered`: `late` is empty unless a query has given up, so the answer to `queryPos` is the
  holdings, and `ClosesAll` says of the closing orders that filling all that is left of them
  makes the account flat.
- `AllReached`, `Jobs`, `ListsThere`: what is adjusted, which program is at which step, and
  which lists are there.

The properties that one call establishes rest on lemmas about its operator, for any
arguments: `RoundNumGain` (a rounded price), `HedgeQtyLeaves`, `LOOQtyBounds` and
`SplitAdds` (the split), `ScaledValue` and `SizedValueBound` (scaling and sizing never raise
a value beyond what was asked), `AnAdjustmentReaches`, `ClosedBy` and `FlatAfter`. Under them
are lemmas about sums and chosen elements: a sum is monotone, linear and taken apart at its
last element (`SumLe`, `SumLinear`, `SumLast`); the elements that `Chosen` keeps are those at
the chosen places, in their order (`ChosenFacts`). Sums and choices are recursive functions in
`OrderArithmetic`, rather than folds, so that these can be proved; they go by `UpTo`, which is
induction up to a number, over a set instead of a predicate.

Only model-checked: all liveness and what it needs of ENABLED, which the provers cannot do;
`TypeOK`, `NothingDropped` and `Decodable` of `Requests`, a table of all requests that TLC
goes through entry by entry. No module declares a
RECURSIVE operator.

## Not modelled

CSV and configuration files (pure I/O), samples and test programs, the declarations of
data types and enumerations. Windows. Of the trading application `updateOrder`,
`modifyLmtOrder` and `openMktLmt` (planned), `monitorExp` (it prints), the data races
inside containers that the two threads share, and ticker lists longer than the 30 entries
there are, both without a defined outcome.

## Plan

Done: `ClientStream`, `ClientThreads`, `InBuffer`, `QueryReply`, `OrderIds`, `Quotes`
and `TradingDay` with their proofs, `OrderArithmetic`, `Requests`. To come, in this order:

1. The theorem that `NothingDropped` of `Requests` holds for every version.
2. `ThreadedSend`: `m_outBuffer` when the reader's `onSend` and a program's
   `bufferedSend` overlap.
3. `OrderMaintenance`: `updateOrder` and `modifyLmtOrder` over the queries of `QueryReply`
   and `Quotes`.
