# opencx: specifications, model checking and proofs

This directory holds TLA+ specifications of opencx, an exchange server written
in Go: its order store and matching loop, the mutex that serialises its
database calls, its custody of deposits and withdrawals, its auction server with
the time-lock puzzles it solves, and the encrypted transport its clients use. TLC
checks them on small instances, and TLAPS proves the main properties for every
value of the constants. Source paths are relative to the repository, which is at `src/`.

## The system

`opencxd` keeps balances and limit orders in MySQL, matches an order when it is
placed, watches the block chains of its coins for deposits and pays withdrawals
on chain or over lightning. `fred` is a second server, still growing, that runs
batch auctions of orders hidden in time-lock puzzles. Both are called over RPC,
plain or inside a noise-encrypted connection.

| Component | State | Operations that change it | Talks to |
|---|---|---|---|
| Order store and matching (`cxdb/cxdbsql/exchangequeries.go`, `matchingenginequeries.go`, `match/`) | one order table per pair, one balance table per coin | `PlaceOrder` (debit, insert, match, commit), `CancelOrder` | called by RPC handlers under the ingest mutex |
| Balances (`cxdb/cxdbsql/bankqueries.go`, `accountqueries.go`) | balance, deposit-address and pending-deposit tables | `RegisterUser`, `AddToBalance`, `UpdateDeposits`, `Withdraw` | same schemas as the order store |
| Exchange server (`cxserver/`) | `ingestMutex`, wallets, hooks, a lit node | block ingestion, lightning events, withdrawals | chain hooks and lit (callbacks), database |
| RPC (`cxrpc/`) | none of its own | one method per call, each brackets its database call with `LockIngests`/`UnlockIngests` | exchange server |
| Schema set-up (`cxdb/cxdbsql/db.go`) | all tables | creates what is missing, replaces the pending deposits at each start | MySQL |
| Auction server (`cxauctionserver/`, `cxauctionrpc/`) | current auction ID, the order channel, puzzle and auction tables | place a puzzle, solve it in a goroutine, commit and start the next auction at each tick | clock goroutine, order handler goroutine, database |
| Noise transport (`cxnoise/`) | handshake slots, accepted connections; per direction a key and a nonce | handshake in three acts, read, write, rotate keys, close | RPC listeners |
| Memory and Redis stores, benchmarks | maps | the same interface, for measurements; the Redis one is unfinished | - |
| Time-lock puzzles (`crypto/`) | none | set up and solve RSW and hash puzzles | auction server |
| Clients and daemons (`cmd/`, `benchclient/`) | none | parse, sign, call; configure, start | RPC |

What is hard in this code:

- **Concurrency.** `net/rpc` serves each call in a goroutine, each coin has a
  block-handler goroutine, and lit calls back from its own. A balance update is
  a SELECT, an addition in Go and an UPDATE; only the ingest mutex keeps two of
  them apart. It is locked and unlocked by hand on every path of every handler.
- **One transaction, many statements.** Placing an order runs the matching loop
  inside its own SQL transaction, on Go copies of the rows; copies and rows must
  agree, and every failure must undo the debit too.
- **Arithmetic.** Amounts are `uint64`, partial fills subtract them, and prices
  are floating point rounded by the column that stores them.
- **Two sections for one block.** The block handler reads the address table in
  one critical section and applies deposits in a second one.
- **Crash and resync.** Pending deposits are dropped at each start, balances are
  kept, and blocks may be delivered again.
- **Partial failure.** Registration commits two transactions; a withdrawal is
  debited before it is paid.
- **Goroutines and channels.** Each submission to the auction server has a solver
  goroutine that ends in a bounded channel; the clock takes the same lock as the
  submissions; the auction ID is read without it. The noise listener hands
  connections from handshake goroutines to `Accept` over a channel without a
  buffer, while `Close` may come at any time.
- **Two ends that count.** Neither the key nor the nonce is on the wire; the two
  ends of a connection rotate keys by counting operations.

`PROJECT.json` lists these under `hazards`, each at its line with the
properties that would notice it going wrong.

## Modules

    Exchange        <== OrderStore <-- OrderStoreProofs;              MCOrderStore
    IngestLock      <-- IngestLockProofs;                             MCIngestLock
    Custody         <-- CustodyProofs;                                MCCustody
    CommitmentChain <== AuctionServer <-- AuctionServerProofs;        MCAuctionServer
    NoiseListener   <-- NoiseListenerProofs;                          MCNoiseListener
    NoiseStream     <-- NoiseStreamProofs
    NoiseStream     <-- NoiseSession <-- NoiseSessionProofs;          MCNoiseSession
    NoiseStream     <== NoiseSession
    TimelockPuzzle  <-- TimelockPuzzleProofs;                         MCTimelockPuzzle

(`<--` is extended by, `<==` is implemented by.)

The exchange's three components compose through one assumption: `OrderStore` and
`Custody` treat the call that holds the ingest mutex as the only one running, and
`IngestLock` shows that this is so (`MutualExclusion`), whichever handlers run.
`NoiseSession` composes the handshake with `NoiseStream`, one direction of the
connection that follows it. `NoiseListener` takes the acts of one handshake as
succeeding or failing; `NoiseSession` says which. `AuctionServer` takes what a
puzzle's solution yields as an input; `TimelockPuzzle` is about that.

Definitions whose comment begins with "Mistake:" are variants of the definition
below them with one plausible error. No specification uses them; they exist to
show that the properties notice the error.

### OrderStore and Exchange

| Model | Code |
|---|---|
| `coins`, `PairsArray` | `coinList` and `pairsArray`, from the configuration |
| `rows` | the balance tables in which each key has a row |
| `balance`, `orders` | the committed tables |
| `wBalance`, `wOrders` | the same tables as the open transaction sees them |
| `phase`, `txPair`, `buyQ`, `sellQ` | progress of `PlaceOrder`: the slices `buyOrders`, `sellOrders` |
| `clock` | `NOW()`, one-second resolution |
| `PlaceError`, `PlaceOrder` | `PlaceOrder` up to the matching loop, its early returns in order |
| `ShouldMatch`, `OrderedByTime` | the comparison of MAX and MIN price, the two `SELECT ... ORDER BY time` |
| `FillSell`, `FillBuy`, `FillBoth` | one iteration each, by which order is the smaller |
| `RowsToCredit`, `CreditFails` | the two `AddToBalanceWithinTransaction` of an iteration, and their "No balance for pubkey" |
| `Commit`, `Rollback` | end of the transaction; a rollback may come after any statement |
| `Restart` | a start with more coins: tables that exist stay, those of the new coins are empty |
| `CancelError` | `CancelOrder`, which returns before it changes anything |

A buy order's price is `AmountWant/AmountHave` and a sell order's is
`AmountHave/AmountWant`; the code matches when the greatest buy price reaches
the least sell price. Because of that convention, and because a fill compares
only amounts of the pair's `AssetHave`, the two amounts of `AssetWant` in a fill
need not agree. Conservation is therefore stated for the coins that are never an
`AssetWant` (`QuoteOnly`); for the others run `credit` shows the difference.

`RegisterUser` is one step here and adds the rows that are missing; its two
transactions and repeated registration are the subject of `Custody`. A key has rows
in the tables of the coins that were configured when it registered. `PlaceOrder`
looks for the row of the coin an order pays with, the loop credits the other coin, so
a trade with an order whose owner lacks that row undoes the placement.

The time column is declared `TIMESTAMP` without a default (`db.go:271`). Whether an
UPDATE sets it depends on the database: with `explicit_defaults_for_timestamp` off,
as in MariaDB for a long time, it does. `UpdateSetsTime` says which; the runs take it
to be so, the theorems hold for both. The fields `got`, `offered`, `asked` and `placed`,
`deposited`, `withdrawn` and rows of deleted orders are history.

`Exchange` is what the tables promise to somebody who sees only what is committed:
a placement is one step there. It takes the order's `AmountHave` from the placer
and fills orders of the pair. A filled order gets at least what it no longer asks
for, a sell order exactly that; what buys part with is what sells are paid; every
balance changes by the proceeds of its owner's orders and by nothing else; and no
book is crossed afterwards. Which orders trade, and for how much, is left open. The
mapping takes the committed tables (and `rows`) as they are, so the statements
of a transaction and a rollback are stuttering steps and `Commit` is the placement.

### IngestLock

A handler is the sequence of its critical sections; a section says which balance
it insists on, by how much it changes it, and whether it unlocks when its call
succeeds and when it fails. The sections of all fifteen handlers that take the
mutex are read off the code, `CancelOrder`'s third `LockIngests` included. Five
have a path that keeps the mutex (`Unguarded`); `unsafe` records that one was
called. The mutex is a Go `sync.Mutex`: no owner, unlocking a free one would be
fatal.

### Custody

| Model | Code |
|---|---|
| `addresses`, `rows`, `pending` | deposit-address table, rows of a balance table, pending deposit table |
| `stray` | balance rows written under the wrong representation of the key |
| `InsertDepositAddresses`, `InitializeAccountBalances`, `RegisterFails` | the two transactions of `RegisterUser` |
| `GetDepositAddressMap`, `UpdateDeposits`, `IngestFails` | the two sections of `ingestTransactionListAndHeight`, and an error in either |
| `AddToBalance` | `ingestChannelPush`, `ingestChannelConfirm` |
| `Withdraw`, `PayOut` | debit; then build, sign and send, or fund a channel |
| `Restart(from)` | the process dies and starts again, with (`from = 0`) or without resync |
| `credited`, `ingested`, `outcome`, `forgotten` | history: credits of each output, ingests of each block, what became of it since the start, outputs whose pending row a restart dropped |
| `Mine`, `Deliver` | external: the chain, and lit's chain hook |

One coin is modelled, as coins share nothing but the mutex. The balance tables
have no primary key: a SELECT reads the first row of a key, an UPDATE sets all.
The wallet makes a new address at every registration (`GetAddrForCoin`), so an
output names its address by number. The hook is taken to deliver each block once
and in order between restarts, and transactions to be mined once:
reorganisations are lit's business, and the handler has no code for them.

### AuctionServer and CommitmentChain

| Model | Code |
|---|---|
| `auctionID`, `dbLock`, `orderChannel` | the fields of `OpencxAuctionServer` |
| `clock`, `viewed` | progress of `AuctionClock` and `CommitOrdersNewAuction` |
| `pc`, `intended` | progress of each submission, the auction it names |
| `puzzleTable`, `auctionTable` | the tables; an auction's number is its index |
| `GetPublicParameters`, `PlaceLock`, `PlaceAuctionPuzzle`, `PlaceFails` | the two RPCs |
| `SolveOrderIntoResChan`, `AuctionOrderHandler`, `ValidateOrder` | solver goroutine, handler, what it checks |
| `AuctionTick`, `CommitLock`, `HashPuzzles`, `CopyID`, `NewAuction` | one tick |
| `Restart` | the process ends (`logging.Fatalf` after a failed commitment, or anything else) and starts again |

IDs are hashes or random numbers and are taken never to repeat; they are numbered
in the order they are made. `CurrentAuctionID` reads a `[32]byte` without the
lock, so during the copy it may return a mixture (0). `log`, `arrivedIn` and
`starts` are history. A submission names any auction: the ID is the client's word, and
that of the next auction is a hash of what is public, so a puzzle may be stored for an
auction before it opens. `CommitmentChain` is the abstract promise: puzzles are
collected for the open auction or for one to come; closing an auction commits to
exactly those collected for it; a stop abandons it. The mapping takes the rows with
the current or a later ID as what has been collected (`Waiting`).

### NoiseListener

| Model | Code |
|---|---|
| `handshakeSema` | number of tokens in the channel of that name |
| `listen`, `hs` | where the `listen` goroutine and each `doHandshake` are |
| `accept` | the accept loop of `net/rpc`, which returns at the first error |
| `closing` | `quit` and then the TCP listener are closed |

Sends and receives on `conns`, which has no buffer, are one step of both sides. A
`select` with several ready cases takes any of them. The other end of a connection
is free to send its acts, wrong acts or nothing.

### NoiseStream and NoiseSession

`NoiseStream` is one direction of a connection: `Conn.Write` with its chunks,
`WriteMessage` as two ciphertexts, `ReadMessage`, `Conn.Read` with its buffer, and
the two `cipherState`s. Bytes are numbered; a key is the key agreed on and how
often it was rotated; a ciphertext opens only under the key and nonce it was made
with. The network keeps the order (TCP), may damage ciphertexts, and may break.
`NoiseSession` puts the three acts before it, with keys, digests and ciphertexts
as terms (`Seal`, `Unseals`, `MixKey`, `MixHash`), and an initiator whose prologue may
be another one. The network may replace each act, once, by any act that can be made
without the private keys of the two sides (`ChangeAct`): each field is kept, or becomes
something that is no key, or the key of a third party, and a tag is kept, is garbage,
or is one the third party can make, because every secret in the chaining key came from
a key of its own or there is none yet, as in act one. `Dial` is not told which static
key to expect, so a handshake may be completed with the third party; `With` says whom
a side has ended up with, and what follows is about a side that is `Connected` to the
other one. Which side's stream follows is chosen at the start. `NoiseStream` by itself starts where an
undisturbed handshake would have put both ends, with `AgreedKey`; a session
implements it if a side that is not connected is taken to have that cipher already
(`CipherOf`).

### TimelockPuzzle

Set-up and solution of RSW and hash puzzles, and the five pairs of create and
solve functions. `big.Int` is modelled with what it does to leading zeros. Cipher
packages are external: a ciphertext opens under the key it was made with, and keys
of a wrong size are refused. The conversions, `Exp` and `Xor` of `big.Int` are
recursive functions on an initial part of the naturals. The primes are assumed to be
odd primes; `rsa.GenerateMultiPrimeKey`, which finds them, is external.

## Runs

Passing runs. `CHECK_DEADLOCK FALSE` is set in all of them: the bounds on orders,
deposits, blocks and the like stop every model at some point, and in `lock` the
handlers that keep the mutex really do stop the server.

| Run | Checks | Instance |
|---|---|---|
| `book` | `TypeOK`, `NoCrossedBook`, `QuoteConserved`, `LimitHonoured`, `SellerNotOverpaid`, `OnlyPlacerPays`, `CreditsHaveRows`, `TimePriority`, `ImplementsExchange`, `PlacementEnds` | 2 clients, 1 pair, 3 orders, amounts 1 and 2, 2 distinct seconds; both coins from the start, or the second one at a restart; 3 units of each coin deposited and 1 withdrawn |
| `lock` | `TypeOK`, `MutualExclusion`, `NoLostUpdate`, `LockReleased`, `EveryCallReturns` | 3 goroutines, all handlers |
| `custody` | `TypeOK`, `CreditedOncePerConfirmation`, `DepositsAccounted`, `SpendableBacked`, `DepositSettles` | 2 clients, a transaction with 2 outputs, 3 blocks, 2 confirmations, 1 restart |
| `auctions` | `TypeOK`, `CommitmentExact`, `ChainLinked`, `ImplementsChain`, `EveryPuzzleHandled`, `EveryTickCommits` | 2 submissions, channel of 1, 4 IDs, 1 restart |
| `slots` | `TypeOK`, `SlotsConserved`, `NoConnectionLost`, `ShutsDown`, `HandshakesEnd` | 3 connections, 2 slots |
| `session` | `TypeOK`, `KeysAgree`, `ChangesNoticed`, `InOrder`, `KeysInStep`, `NonceOnce`, `WrittenArrives` | keys rotate after 3 operations, messages of up to 2 bytes, writes of 1 and 3, 5 bytes in all |
| `puzzles` | `SameAnswer`, `MessageRecovered` | primes 3, 5, 7, 11; 0, 1, 2 and 5 steps; keys of 2 digits to base 4 |

- `NoCrossedBook`: however partial fills, equal timestamps and rollbacks
  interleave, no committed book has a buy at or above a sell.
- `QuoteConserved`: no unit of the quote coin is made or lost by placing,
  matching, failing or withdrawing, in the tables and inside the transaction.
- `LimitHonoured`, `SellerNotOverpaid`: over all its partial fills an order gets
  at least what it asked for, a sell order exactly that.
- `OnlyPlacerPays`: matching takes nothing from anyone but the placer.
- `TimePriority`: the loop never fills an order while one of its side that was read
  with an earlier time is live. The time that is read need not be that of the
  placement (see below).
- `ImplementsExchange`: the placements that end in a commit, seen as one step each,
  are placements of `Exchange`; the Go copies of the rows and the rows agree when it
  matters.
- `CreditsHaveRows`, `PlacementEnds`: a credit that finds no balance row fails the
  iteration, ends the placement and is undone with it; nothing is credited to nobody.
- `NoLostUpdate`: SELECT-then-UPDATE never overwrites another commit.
- `LockReleased`, `EveryCallReturns`: until one of the five unguarded handlers is
  called, the mutex is given back on every path and every call returns.
- `CreditedOncePerConfirmation`: a deposit is credited only with the block that
  confirms it, once for each time that block is ingested. It is stated that way
  because a resync does ingest blocks again and the code then credits again:
  nothing in the tables remembers credited transactions.
- `DepositsAccounted`: no output of an ingested block that pays a client is
  overlooked, though the address map is older than the section that uses it. For
  blocks of all time it says that such an output waits, was credited, or is
  `forgotten`: a restart drops the pending rows (`db.go:259`), and unless a resync
  delivers the block again the deposit is never credited. For blocks ingested since
  the last start it says that an output waits, or was credited with its confirmation.
- `SpendableBacked`: the balance that statements find, the units in stray rows and
  what withdrawals debited add up to what was credited, through repeated
  registrations, which add balance rows. It does not say that all of it can be
  spent (run `stray`) or that each debit was paid (see below).
- `DepositSettles`: a pending deposit leaves the table unless the very block that
  confirms it was missed; no later block makes up for that one. To be forgotten at a
  restart counts as leaving the table.
- `CommitmentExact`, `ChainLinked`, `ImplementsChain`: a commitment has every puzzle
  for the auction that was stored before it was closed and no other one, although
  submissions race the clock, name any auction they like, and the ID is read without
  the lock; the stored auctions form a chain that is cut only where the server was
  started.
- `EveryPuzzleHandled`, `EveryTickCommits`: a full channel delays and loses nothing,
  and no traffic keeps the clock from the lock.
- `SlotsConserved`, `NoConnectionLost`: each path of `listen` and `doHandshake` gives
  its slot back once and closes or hands over its connection before it ends. When
  `quit` is closed a goroutine may end with its connection open (`listener.go:143`,
  `186`), and one that waits in `acceptConn` has not ended; `NoConnectionLost` says
  nothing of these two.
- `ShutsDown`, `HandshakesEnd`: closing ends every goroutine; while the accept loop
  runs a silent peer does not keep a slot. A goroutine that has an error to report is released by the accept
  loop or by closing only, hence the condition that the loop still runs.
- `KeysAgree`, `ChangesNoticed`: a side that finishes with the other's static key has
  received every act as it was sent, and both have the same keys; if both finish with
  a third party, they have no key in common. Act two sends the static key unencrypted;
  that it was changed alone is noticed by the tag that follows.
- `InOrder`, `KeysInStep`, `NonceOnce`, `WrittenArrives`: across rotations, which may
  fall between the length and the body of a message, chunks and partial reads.
- `SameAnswer`, `MessageRecovered`: the solver's squarings reach what the set-up found
  with phi; what could be encrypted can be decrypted, with one exception below.

Bounds. Three orders give two partial fills of one order, a queue of two on one
side, and both orders of arrival; amounts 1 and 2 give each order of `AmountHave`
and `AmountWant`, and all three branches of the loop. Two seconds give equal and
distinct timestamps. A client may have rows of no coin, of the first or of both when a
trade pays it in the second. Three units of a coin are what an order for two takes, and
one withdrawal falls before, between or after the placements. In `lock` the
balance reaches the values at which the handlers' checks differ. With three
blocks and two confirmations a deposit is noted, waits through one block and is
confirmed, and a restart may fall at any point of that. Two submissions fill the
channel, meet at the lock and straddle a commitment; four IDs allow for three
commitments, or a start between them. Three connections for two slots make one
wait. Five bytes in messages of one and two are three to five messages, that is up
to ten operations and three rotations, at every position. The powers of two wrap
around each phi, and a quarter of the keys starts with a zero. Several books that
share balances, larger amounts, more orders, blocks, submissions, connections or
messages are covered by the theorems.

Fairness. A placement under way takes its next step (`WF`), since its goroutine
waits for nothing. A goroutine inside a database call finishes it (`WF`); one
that waits for the mutex gets it if it is released again and again (`SF`), which
`sync.Mutex` guarantees by its starvation mode. In `custody` blocks keep coming
and the hook delivers them (`WF`), and the block handler gets the mutex (`SF`);
nothing is assumed of registrations, withdrawals, restarts or of whether a block's
ingest succeeds or fails. In `auctions` database calls return, puzzles get solved and
the handler's loop goes on (`WF`), though the number of squarings is the client's own
and not enforced (`orders.go:28`); goroutines that wait for the lock or for room in
the channel get their turn (`SF`), as both queue their waiters. In `slots` the
steps of the listener happen (`WF`), reads fail in time because they have
deadlines, senders to `conns` queue (`SF`), and a `select` that finds `quit` closed
again and again takes that case (`SF`); peers and the off button owe nothing. In
`session` a write under way goes on and the reader reads (`WF`).

Runs that show a disagreement between the code and what it says of itself
(`findings` in `PROJECT.json` quotes the lines):

| Run | What it shows |
|---|---|
| `credit` | a fill can credit the buyer something else than the sell order parts with |
| `lock_leak` | five handlers can return with the mutex locked, after which every call blocks |
| `stray` | a deposit to a key whose registration was cut short is credited to a row nothing reads |
| `late` | a puzzle for an auction that has just been committed is accepted and never committed to |
| `others` | one failed handshake ends the accept loop, and peers with a complete handshake are not served |

Behaviour that the models contain and that may surprise a reader, without a run:

- An order for exactly the client's balance is refused as "more than you own"
  (`exchangequeries.go:78`, `PlaceError`).
- `CancelOrder` always fails: it parses the key without decoding the hex
  (`exchangequeries.go:196`, `CancelError`).
- Prices are stored with 2 decimal places where the comment says 10 (`db.go:271`,
  `Price`), so orders whose ratios do not cross can trade.
- Where an UPDATE sets the time column (`db.go:271` declares it without a default, which
  MariaDB takes to mean so), a partially filled order falls behind orders placed after
  it (`Updated`), though `matchingenginequeries.go:231` speaks of the earliest one at the
  front.
- `Dial` returns a connection to whoever completed the handshake: the comparison of the
  static key that its doc speaks of (`conn.go:31`) is commented out (`conn.go:81`,
  `RecvActTwo`).
- A withdrawal that fails after the debit is neither paid nor refunded
  (`withdraw.go:103`, `PayOut`).
- A trade does not always execute at the earlier sell order's price
  (`matchingenginequeries.go:184` says it does), and registering an existing key adds
  balance rows (`cxrpc/README.md:7` says it registers only new names).
- Every sell order of an auction is refused: `AuctionOrder.Price` falls through to its
  error (`auctionorder.go:178`, `PriceError`).
- A puzzle for another time `t` is reported to the client as an error, yet stored and
  solved (`orders.go:28`, `PlaceAuctionPuzzle`).
- The block ciphers refuse a key that starts with a zero byte when the puzzle is made,
  one time in 256 (`rswtimelock.go:193`, `MessageRecovered`).
- An ECIES puzzle with such a key is made and solved, and does not open: `ToECDSA` refuses
  the shorter key (`asymmetric.go:135`), though `TestRSWECIES` expects the message back.
- A deposit that waits for its confirmations when the server stops is credited only if
  the next start resyncs (`db.go:259`, `Restart`, `DepositsAccounted`).
- The comment of `WriteMessage` says that the length is the associated data of the
  body; the code passes none (`noise.go:694`). The counted nonces keep length and
  body together all the same, which is what `InOrder` and `KeysInStep` show.

## Proofs

All theorems are about `Spec` (no fairness) and rest on the named assumptions
only: `OrderStoreAssumption` (finitely many clients, distinct coins, any sets of
them as configurations, natural amounts), `IngestLockAssumption`, `CustodyAssumption` (outputs pay numbered
addresses, at least one confirmation), `AuctionServerAssumption` and
`NoiseListenerAssumption` (finitely many submissions and connections, room for
one), `NoiseStreamAssumption` (positive sizes), `TimelockPuzzleAssumption` (odd primes,
bytes of at least two values). The bounds are arbitrary naturals.

**OrderStoreProofs.** `TypeCorrect` comes first: no balance or amount goes
negative, which needs the guards of the three fills. `BooksUncrossed` rests on
`BookInv`, the conjunction of:
- `IdleInv`: with no transaction open, both copies of the tables agree;
- `QueueInv`: the queues name live orders of the pair, each once, on their side;
- `CoverInv`: in the open transaction the other pairs' books are uncrossed, and so
  is this pair's unless every live order of it is still in a queue; hence nothing
  is crossed once a queue has run out;
- `NoCrossedBook` for the committed tables.

`NoCrossedBook` alone is not inductive: a commit copies `wOrders`, and only
`CoverInv` says what is true of them when a queue is empty. `EarliestServedFirst`
(`TimePriority`) rests on `TimeInv`: the queues are in the order of their times, and
while the loop runs no live order of the pair is missing from them; the loop sees
only the heads. `LimitsHonoured` and
`SellersNotOverpaid` rest on `TermsInv`, which adds that each committed row has
only shrunk in the open transaction, so that a rollback restores what held.
`CreditsAreKept` (`CreditsHaveRows`), `CommittedOrdersShrink` and `OnlyThePlacerPays`
(action properties included) follow from the same invariants and a comparison of the
two copies of the tables during the loop. `LoopRunsOut` is what `PlacementEnds` needs
besides fairness: every iteration makes the queues shorter or ends the placement. All
of them hold for any sequence of configurations and for both kinds of time column.

`QuoteCoinsConserved`. A sum over clients would need induction over data, so the
total of a table is defined as the cardinality of its set of units; the lemmas say how that cardinality changes when one entry changes,
from the library's facts on finite sets. The proof then goes through the actions,
each of which moves units between two tables.

`StoreImplementsExchange`. The tables that count are those of the open transaction,
so the refinement needs an invariant about them: `PlacementInv` says that the order
being placed passed the checks of `PlaceOrder` against the committed tables, and
`SettlementInv` that the fills so far are fills that `Exchange` allows, that the total
buys have parted with is the total sells were paid, and that every working balance
is the committed one less the charge plus the proceeds. An iteration of the loop
changes one entry in each of the totals by the same amount. At the commit,
`CoverInv` adds that no book is crossed.

**IngestLockProofs.** `OneCallAtATime` is inductive given types. `UpdatesKept`
adds `ReadIsFresh`: what an open call has read is still what the table holds.
`LockGivenBack` adds `SectionsUnlock`: until an unguarded handler is called, all
sections still to come unlock both ways. All hold for any number of goroutines
and any subset of the handlers.

**CustodyProofs.** `CreditsConfirmed` and `NoDepositOverlooked` rest on
`DepositInv`, which adds to the two properties how far the handler and the chain have
come (`BlocksInOrder`, `BlocksExist`), that a pending row belongs to a block ingested since the start
and is there once (`RowsAreNoted`), and that the handler's address map has every
address that its block pays (`AddressesKnown`). The last one is the heart of it:
a client learns an address only after it is in the table, so a block that pays it
is handled with a map that was read later.

`TypeCorrect` and `BalancesBacked` (`SpendableBacked`) are about sums of deposits and
withdrawals, which the model writes as folds of the community modules. What such a
fold is on a finite set is proved first: that the recursion behind it has a solution,
that its value does not depend on the order of the elements, and that it grows by what
one entry grows. The induction is on the size of the set, and is carried out by
the least number for which the statement fails, since the library's induction
theorems cannot be instantiated. `AccountInv` then joins the types, `DepositInv` and the
property; each action changes one balance and one summand alike, and a registration
adds its row behind the one that is read.

**AuctionServerProofs.** `TypeCorrect` first. `CommitmentsExact` adds who has the
lock and where the clock is, that rows and histories of the puzzles agree, and that
what the clock has read is still all there is while it has the lock. Nothing is assumed
of the IDs that submissions name. `AuctionsLinked` adds
that the last stored ID is the ID in memory or one of an earlier start.
`ServerImplementsChain` shows that each step is a step of `CommitmentChain` or
changes none of its variables: storing a puzzle collects it, unless it is for an
auction of the past, `CopyID` closes, `Restart` abandons.

**NoiseListenerProofs.** `TypeCorrect`; `SlotsAreConserved` shows that the number of
free slots, handshakes under way and the one `listen` holds is changed by no step,
from lemmas on how the set of active handshakes gains or loses one connection;
`ConnectionsKept` says of each place of a goroutine what its connection is.

**NoiseStreamProofs.** A stream that starts from an agreed key. The invariant is
about the chain of ciphertexts on the wire: the first one that is there is the one
the reader expects next, each one follows the one before it by one operation of the
cipher, by kind (a length, then a body of that length) and by the numbers of its
bytes, and the last one is followed by what the writer does next. It is kept when
a ciphertext is added, taken, damaged or the tail is lost. `CiphersInStep` and
`BytesInOrder` follow. For `NoncesOnce` every key and nonce used so far lies before
the writer's cipher in the order of rotations and nonces. The theorems are about
`NoiseStream`'s own specification.

**NoiseSessionProofs.** The handshake is a finite protocol, but its network may replace
its acts, and the stream behind it has no bound. `HandshakeInv` gives the digest and
chaining key of each side at each point as a function of the keys and tags it has
received, and what an act on its way contains whether or not it was changed.
`ChangesAreNoticed` (for a side that holds the other's static key) follows because a
tag opens only under the chaining key and digest it was made with: equal digests have
equal parts, and a third party cannot make a tag for a chaining key into which a
secret of the two sides went.
`SessionIsStream` shows that the session implements `NoiseStream`: a step of the
handshake is a stuttering step, also the one that gives a side its ciphers, as
these are the agreed ones. The theorems of `NoiseStreamProofs` are then taken from that
instance (`SessionInOrder`, `SessionKeysInStep`, `SessionNonceOnce`), and
`SessionKeysAgree` and `SessionTypeCorrect` put both parts together. The cryptography
is that of the model: terms that are equal only if they were made alike.

**TimelockPuzzleProofs.** `SolverFindsAnswer` and `MessagesRecovered` rest on
`PuzzleInv`: while a puzzle is being solved, the solver has got to what the set-up's
short cut would have given for as many steps (`B(After(timelock, steps))`), the
message is encrypted under the answer or, by the asymmetric ciphers, under the key,
and in the end the outcome is that of `Solve`. That a squaring keeps this is the
arithmetic behind the puzzle, proved from the beginning:
- a prime that divides a product divides a factor, by the least positive multiplier;
- Fermat's theorem for 2: for p = 2k + 1 the product of the first p - 1 even numbers
  is 2^(p-1) (p-1)!, and modulo p the even numbers beyond p are the odd ones below it,
  so that it is (p-1)! as well, which p does not divide;
- hence p q divides 2^phi - 1, and an exponent may be reduced modulo phi, so that
  `B` is 2^(2^t) modulo N (`ShortCut`), as repeated squaring is (`Squaring`).

`XorInvolution` gives back the number that `CkXOR` hides, and `BytesOfValue` says
that a key passes through `SetBytes` and `Bytes` unchanged if its first byte is not 0.
That a recursive definition has a solution is proved for each of these functions
(`RecursionExists`), and inductions are about sets (`NatInductionSet`), since the
library's theorems with an operator parameter cannot be instantiated.

Only model-checked: the liveness properties (`PlacementEnds`, `EveryCallReturns`,
`DepositSettles`, `EveryPuzzleHandled`, `EveryTickCommits`, `ShutsDown`,
`HandshakesEnd`, `WrittenArrives`), since the prover has no support for fairness.

## Not modelled

- Read-only queries (`ViewOrderBook`, `GetOrder`, `CalculatePrice`, ...): they
  change nothing; their use of the mutex is in `IngestLock`.
- `RunMatchingBestPrices` and `RunMatchingForPrice`, `CreateSwap`: no caller in
  the server. `CreateChannel` is only called with nothing to send.
- Overflow of `uint64` sums: amounts are satoshis, whose supply is far below 2^63.
  Underflow in the fills is modelled (`Monus`).
- MySQL, lit, the chain, `net/rpc`, TCP: external. Ciphers, curves and hashes:
  library calls, modelled as terms.
- `PlaceAuctionOrder`, `ViewAuctionOrderBook`, `MatchAuction`, the ADD variant of the
  puzzles, the peer storage: no caller in the programs.
- Byte layouts of orders and puzzles: encodings without state. Orders that cannot be
  decoded are refused before anything is stored.
- The plain TCP listener, which is the library's; lit node and wallet set-up, which
  are sequences of calls into lit.
- Clients, configuration, logging, benchmarks with their memory store, the unfinished
  Redis store and `provisions`: input and output, or unused.

## Further work

- Both directions of a session at once; they share no state but the connection.
