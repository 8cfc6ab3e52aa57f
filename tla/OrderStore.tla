----------------------------- MODULE OrderStore -----------------------------
(***************************************************************************)
(* The SQL order store of opencxd (cxdb/cxdbsql): the balance tables, the  *)
(* order tables of the trading pairs, and the matching loop that PlaceOrder *)
(* runs inside its own transaction.                                        *)
(*                                                                         *)
(* `balance' and `orders' are the committed tables; `wBalance' and          *)
(* `wOrders' are what the open transaction sees.  While no transaction is  *)
(* open the two agree.  Handlers that only use one short transaction are   *)
(* one step; PlaceOrder is a step that opens the transaction, one step per  *)
(* iteration of the matching loop, and a commit or a rollback.  The ingest  *)
(* mutex (module IngestLock) keeps all other handlers out meanwhile.       *)
(*                                                                         *)
(* An order ID is the order's position in `orders': SetID draws a fresh     *)
(* hash, and a deleted row stays as a tombstone (status "deleted"), which is    *)
(* history the program does not keep.  The fields `offered', `asked',       *)
(* `placed' and `got' are history too: the amounts and the time the order    *)
(* was placed with, and what matching has credited to its owner so far.     *)
(*                                                                         *)
(* The server may be started again with more coins than before.  A client    *)
(* who registered earlier has no row in the balance tables of the new coins, *)
(* until he registers again.                                                *)
(***************************************************************************)
EXTENDS Integers, Sequences, FiniteSets, Functions

CONSTANTS Pubkeys,     \* the clients' public keys
          CoinList,    \* the coins the server knows, in configuration order
          Configurations, \* the sets of coins the server may be started with
          UpdateSetsTime, \* whether an UPDATE sets the TIMESTAMP column to now
          Amounts,     \* the amounts clients may name
          MaxOrders,   \* bound: orders placed in a behaviour
          MaxDeposit,  \* bound: units of each coin ever deposited
          MaxWithdrawal, \* bound: units of each coin ever withdrawn
          MaxTime      \* bound: seconds the database clock advances

Assets == {CoinList[i] : i \in DOMAIN CoinList}

ASSUME OrderStoreAssumption ==
    /\ IsFiniteSet(Pubkeys)
    /\ CoinList \in Seq(Assets)
    /\ IsInjective(CoinList)
    /\ Configurations \subseteq SUBSET Assets
    /\ UpdateSetsTime \in BOOLEAN
    /\ Amounts \subseteq Nat
    /\ MaxOrders \in Nat
    /\ MaxDeposit \in Nat
    /\ MaxWithdrawal \in Nat
    /\ MaxTime \in Nat

VARIABLES coins,       \* db.coinList: the coins of the configuration
          rows,        \* the coins in whose balance table each key has a row
          balance,     \* committed balance tables
          orders,      \* committed order tables of all pairs
          wBalance,    \* balance tables as the open transaction sees them
          wOrders,     \* order tables as the open transaction sees them
          phase,       \* "idle", or "matching" while PlaceOrder's transaction is open
          txPair,      \* the pair being matched
          buyQ, sellQ, \* buyOrders and sellOrders of the matching loop
          clock,       \* NOW(), in whole seconds
          deposited,   \* history: units of each asset credited from outside
          withdrawn    \* history: units of each asset debited to the outside

tables == <<coins, rows, balance, orders, clock, deposited, withdrawn>>
txVars == <<wBalance, wOrders, phase, txPair, buyQ, sellQ>>
vars == <<coins, rows, balance, orders, wBalance, wOrders, phase, txPair,
          buyQ, sellQ, clock, deposited, withdrawn>>

-----------------------------------------------------------------------------
(* match.GenerateAssetPairs: every coin against each later coin.            *)
Pairs == {[want |-> CoinList[ij[1]], have |-> CoinList[ij[2]]] :
            ij \in {x \in (DOMAIN CoinList) \X (DOMAIN CoinList) : x[1] < x[2]}}

(* db.pairsArray, made from the coins of the configuration.                 *)
PairsArray == {p \in Pairs : {p.want, p.have} \subseteq coins}

Sides == {"buy", "sell"}

NoPair == [want |-> "none", have |-> "none"]

(* The asset an order pays with: buyers hold AssetHave, sellers AssetWant.  *)
PayAsset(p, side) == IF side = "buy" THEN p.have ELSE p.want

(* LimitOrder.Price, as the price column DOUBLE(30,2) keeps it: hundredths, *)
(* rounded.  The quotient is want/have for a buy and have/want for a sell.  *)
RoundDiv(n, d) == (2 * n + d) \div (2 * d)
Price(side, have, want) ==
    IF side = "buy" THEN RoundDiv(100 * want, have)
                    ELSE RoundDiv(100 * have, want)

Monus(m, n) == IF m < n THEN 0 ELSE m - n

(* AddToBalanceWithinTransaction on a table the key has a row in.           *)
AddTo(bal, k, a, n) == [bal EXCEPT ![k][a] = @ + n]
TakeFrom(bal, k, a, n) == [bal EXCEPT ![k][a] = @ - n]

Row == [owner : Pubkeys, pair : Pairs, side : Sides, price : Int,
        have : Nat, want : Nat, time : Nat, status : {"open", "deleted"},
        offered : Nat, asked : Nat, placed : Nat, got : Nat]

NewRow(k, p, side, have, want) ==
    [owner |-> k, pair |-> p, side |-> side, price |-> Price(side, have, want),
     have |-> have, want |-> want, time |-> clock, status |-> "open",
     offered |-> have, asked |-> want, placed |-> clock, got |-> 0]

(* `time TIMESTAMP' is declared with no default.  On a server that runs with *)
(* explicit_defaults_for_timestamp off, as MariaDB did by default, the column *)
(* is then ON UPDATE CURRENT_TIMESTAMP: an UPDATE that changes a row sets it. *)
UpdateTime(row) == IF UpdateSetsTime THEN clock ELSE row.time

(* Mistake: the two amount columns change places.                           *)
UpdatedSwapped(row, have, want, n) ==
    [row EXCEPT !.have = want, !.want = have, !.time = UpdateTime(row), !.got = @ + n]

(* UpdateOrderAmountsWithinTransaction and DeleteOrderWithinTransaction;    *)
(* n is what the same iteration credits to the order's owner.               *)
Updated(row, have, want, n) ==
    [row EXCEPT !.have = have, !.want = want, !.time = UpdateTime(row), !.got = @ + n]
Deleted(row, n) ==
    [row EXCEPT !.have = 0, !.want = 0, !.status = "deleted", !.got = @ + n]

(* The live orders of a side of a pair's table.                             *)
Book(os, p, side) ==
    {i \in DOMAIN os : os[i].status = "open" /\ os[i].pair = p /\ os[i].side = side}

(* Mistake: equal prices do not match.                                      *)
ShouldMatchStrict(os, p) ==
    \E i \in Book(os, p, "buy"), j \in Book(os, p, "sell") :
        os[i].price > os[j].price

(* shouldMatch: the greatest buy price reaches the least sell price.        *)
ShouldMatch(os, p) ==
    \E i \in Book(os, p, "buy"), j \in Book(os, p, "sell") :
        os[i].price >= os[j].price

(* Mistake: no ORDER BY.                                                    *)
Unordered(os, S) == Bijection(1..Cardinality(S), S)

(* SELECT ... ORDER BY time ASC.  The column has one-second resolution, so   *)
(* rows of the same second come in any order.                               *)
OrderedByTime(os, S) ==
    {q \in Bijection(1..Cardinality(S), S) :
        \A i, j \in DOMAIN q : i < j => os[q[i]].time <= os[q[j]].time}

-----------------------------------------------------------------------------
Init ==
    /\ coins \in Configurations
    /\ rows = [k \in Pubkeys |-> {}]
    /\ balance = [k \in Pubkeys |-> [a \in Assets |-> 0]]
    /\ orders = <<>>
    /\ wBalance = balance
    /\ wOrders = <<>>
    /\ phase = "idle"
    /\ txPair = NoPair
    /\ buyQ = <<>>
    /\ sellQ = <<>>
    /\ clock = 0
    /\ deposited = [a \in Assets |-> 0]
    /\ withdrawn = [a \in Assets |-> 0]

(* SetupClient and SetupCustodyTables at a start with more coins: tables that *)
(* are there stay as they are, and those of the new coins are empty.         *)
Restart(cs) ==
    /\ phase = "idle"
    /\ coins \subseteq cs /\ coins # cs
    /\ coins' = cs
    /\ UNCHANGED <<rows, balance, orders, clock, deposited, withdrawn, txVars>>

(* RegisterUser: a zero row in the balance table of every coin configured.   *)
(* (Its two transactions, and a second row where there is one already, are   *)
(* the subject of module Custody.)                                          *)
RegisterUser(k) ==
    /\ phase = "idle"
    /\ ~(coins \subseteq rows[k])
    /\ rows' = [rows EXCEPT ![k] = @ \cup coins]
    /\ UNCHANGED <<coins, balance, orders, clock, deposited, withdrawn, txVars>>

(* What a handler answers is a function of the tables: "none", or why it     *)
(* returned early.  A handler that returns early changes no table, so the    *)
(* actions below are the calls that do not.                                 *)

AddToBalanceError(k, a) == IF a \notin rows[k] THEN "account" ELSE "none"

(* AddToBalance: a credit from the lightning side or from a deposit.        *)
AddToBalance(k, a, n) ==
    /\ phase = "idle"
    /\ AddToBalanceError(k, a) = "none"
    /\ deposited[a] + n <= MaxDeposit
    /\ balance' = AddTo(balance, k, a, n)
    /\ wBalance' = balance'
    /\ deposited' = [deposited EXCEPT ![a] = @ + n]
    /\ UNCHANGED <<coins, rows, orders, clock, withdrawn, wOrders, phase,
                   txPair, buyQ, sellQ>>

WithdrawError(k, a, n) ==
    IF a \notin rows[k] THEN "account"
    ELSE IF balance[k][a] < n THEN "funds" ELSE "none"

Withdraw(k, a, n) ==
    /\ phase = "idle"
    /\ WithdrawError(k, a, n) = "none"
    /\ withdrawn[a] + n <= MaxWithdrawal
    /\ balance' = TakeFrom(balance, k, a, n)
    /\ wBalance' = balance'
    /\ withdrawn' = [withdrawn EXCEPT ![a] = @ + n]
    /\ UNCHANGED <<coins, rows, orders, clock, deposited, wOrders, phase,
                   txPair, buyQ, sellQ>>

(* Mistake: no look at the balance.                                         *)
PlaceErrorNoFunds(k, p, side, have, want) ==
    IF p \notin PairsArray THEN "pair"
    ELSE IF PayAsset(p, side) \notin rows[k] THEN "account"
    ELSE IF want = 0 \/ side \notin Sides \/ (side = "buy" /\ have = 0) THEN "price"
    ELSE "none"

(* The checks of PlaceOrder, in the order of its early returns.  Of the      *)
(* client's rows it looks only for that of the coin he pays with.  A buy of   *)
(* nothing has price +Inf, which the INSERT statement refuses.              *)
PlaceError(k, p, side, have, want) ==
    IF p \notin PairsArray THEN "pair"
    ELSE IF PayAsset(p, side) \notin rows[k] THEN "account"
    ELSE IF ~(balance[k][PayAsset(p, side)] > have) THEN "funds"
    ELSE IF want = 0 \/ side \notin Sides \/ (side = "buy" /\ have = 0) THEN "price"
    ELSE "none"

(* PlaceOrder up to the matching loop: debit, insert, and the two SELECTs    *)
(* of RunMatchingCrossedPrices.  These select sells priced at or above the   *)
(* least sell price and buys at or below the greatest buy price, which is    *)
(* every live order of the pair.                                            *)
PlaceOrder(k, p, side, have, want) ==
    /\ phase = "idle"
    /\ Len(orders) < MaxOrders
    /\ PlaceError(k, p, side, have, want) = "none"
    /\ wBalance' = TakeFrom(balance, k, PayAsset(p, side), have)
    /\ wOrders' = Append(orders, NewRow(k, p, side, have, want))
    /\ phase' = "matching"
    /\ txPair' = p
    /\ IF ShouldMatch(wOrders', p)
         THEN /\ buyQ' \in OrderedByTime(wOrders', Book(wOrders', p, "buy"))
              /\ sellQ' \in OrderedByTime(wOrders', Book(wOrders', p, "sell"))
         ELSE buyQ' = <<>> /\ sellQ' = <<>>
    /\ UNCHANGED tables

-----------------------------------------------------------------------------
(* One iteration of RunMatchingCrossedPricesWithinTransaction takes the two  *)
(* queue heads and compares the buyer's AmountHave with the seller's         *)
(* AmountWant; both are in the pair's AssetHave.                            *)
BuyId == Head(buyQ)
SellId == Head(sellQ)
Buy == wOrders[BuyId]
Sell == wOrders[SellId]

AtHeads ==
    /\ phase = "matching"
    /\ buyQ # <<>>
    /\ sellQ # <<>>

(* Mistake: the rows looked for are those of the coins the two pay with.     *)
RowsOfPayCoins ==
    txPair.have \in rows[Buy.owner] /\ txPair.want \in rows[Sell.owner]

(* AddToBalanceWithinTransaction finds the rows of the two credits: the       *)
(* buyer's in AssetWant, the seller's in AssetHave.                          *)
RowsToCredit ==
    txPair.want \in rows[Buy.owner] /\ txPair.have \in rows[Sell.owner]

InLoop == AtHeads /\ RowsToCredit

(* Mistake: the buyer pays once more, after the debit of the placement.      *)
SettleChargesBuyer(bought, paid) ==
    wBalance' = AddTo(TakeFrom(AddTo(wBalance, Buy.owner, txPair.want, bought),
                               Buy.owner, txPair.have, paid),
                      Sell.owner, txPair.have, paid)

(* credit the buyer in AssetWant, then the seller in AssetHave              *)
Settle(bought, paid) ==
    wBalance' = AddTo(AddTo(wBalance, Buy.owner, txPair.want, bought),
                      Sell.owner, txPair.have, paid)

(* Mistake: sellOrders is not advanced.                                     *)
FillSellNoPop ==
    /\ InLoop
    /\ Buy.have > Sell.want
    /\ wOrders' = [wOrders EXCEPT
          ![BuyId] = Updated(Buy, Buy.have - Sell.want, Monus(Buy.want, Sell.have), Sell.have),
          ![SellId] = Deleted(Sell, Sell.want)]
    /\ Settle(Sell.have, Sell.want)
    /\ UNCHANGED <<tables, phase, txPair, buyQ, sellQ>>

(* Mistake: the buy order keeps its AmountHave.                             *)
FillSellKeepsHave ==
    /\ InLoop
    /\ Buy.have > Sell.want
    /\ wOrders' = [wOrders EXCEPT
          ![BuyId] = Updated(Buy, Buy.have, Monus(Buy.want, Sell.have), Sell.have),
          ![SellId] = Deleted(Sell, Sell.want)]
    /\ sellQ' = Tail(sellQ)
    /\ Settle(Sell.have, Sell.want)
    /\ UNCHANGED <<tables, phase, txPair, buyQ>>

(* Mistake: the seller is paid all the buyer has.                           *)
FillSellPaysAll ==
    /\ InLoop
    /\ Buy.have > Sell.want
    /\ wOrders' = [wOrders EXCEPT
          ![BuyId] = Updated(Buy, Buy.have - Sell.want, Monus(Buy.want, Sell.have), Sell.have),
          ![SellId] = Deleted(Sell, Buy.have)]
    /\ sellQ' = Tail(sellQ)
    /\ Settle(Sell.have, Buy.have)
    /\ UNCHANGED <<tables, phase, txPair, buyQ>>

(* currBuyOrder.AmountHave > currSellOrder.AmountWant                       *)
FillSell ==
    /\ InLoop
    /\ Buy.have > Sell.want
    /\ wOrders' = [wOrders EXCEPT
          ![BuyId] = Updated(Buy, Buy.have - Sell.want, Monus(Buy.want, Sell.have), Sell.have),
          ![SellId] = Deleted(Sell, Sell.want)]
    /\ sellQ' = Tail(sellQ)
    /\ Settle(Sell.have, Sell.want)
    /\ UNCHANGED <<tables, phase, txPair, buyQ>>

(* Mistake: the buyer is credited the whole sell order, as the comment says. *)
FillBuyCreditsSell ==
    /\ InLoop
    /\ Buy.have < Sell.want
    /\ wOrders' = [wOrders EXCEPT
          ![BuyId] = Deleted(Buy, Sell.have),
          ![SellId] = Updated(Sell, Monus(Sell.have, Buy.want), Sell.want - Buy.have, Buy.have)]
    /\ buyQ' = Tail(buyQ)
    /\ Settle(Sell.have, Buy.have)
    /\ UNCHANGED <<tables, phase, txPair, sellQ>>

(* currBuyOrder.AmountHave < currSellOrder.AmountWant                       *)
FillBuy ==
    /\ InLoop
    /\ Buy.have < Sell.want
    /\ wOrders' = [wOrders EXCEPT
          ![BuyId] = Deleted(Buy, Buy.want),
          ![SellId] = Updated(Sell, Monus(Sell.have, Buy.want), Sell.want - Buy.have, Buy.have)]
    /\ buyQ' = Tail(buyQ)
    /\ Settle(Buy.want, Buy.have)
    /\ UNCHANGED <<tables, phase, txPair, sellQ>>

(* currBuyOrder.AmountHave == currSellOrder.AmountWant                      *)
FillBoth ==
    /\ InLoop
    /\ Buy.have = Sell.want
    /\ wOrders' = [wOrders EXCEPT ![BuyId] = Deleted(Buy, Buy.want),
                                  ![SellId] = Deleted(Sell, Buy.have)]
    /\ buyQ' = Tail(buyQ)
    /\ sellQ' = Tail(sellQ)
    /\ Settle(Buy.want, Buy.have)
    /\ UNCHANGED <<tables, phase, txPair>>

EndTx ==
    /\ phase' = "idle"
    /\ txPair' = NoPair
    /\ buyQ' = <<>>
    /\ sellQ' = <<>>

(* tx.Commit, once a queue has run out.                                     *)
Commit ==
    /\ phase = "matching"
    /\ buyQ = <<>> \/ sellQ = <<>>
    /\ balance' = wBalance
    /\ orders' = wOrders
    /\ EndTx
    /\ UNCHANGED <<coins, rows, clock, deposited, withdrawn, wBalance, wOrders>>

Undo ==
    /\ wBalance' = balance
    /\ wOrders' = orders
    /\ EndTx
    /\ UNCHANGED tables

(* "No balance for pubkey": a credit of the iteration finds no row, and the   *)
(* whole placement is rolled back.                                          *)
CreditFails ==
    /\ AtHeads
    /\ ~RowsToCredit
    /\ Undo

(* Another statement fails, or the process dies, before the commit.          *)
Rollback ==
    /\ phase = "matching"
    /\ Undo

(* CancelOrder: the pubkey column holds the key in hex, and the query parses *)
(* it as a serialised key without decoding it, so a row that exists makes it *)
(* return, rolled back, before the DELETE and the refund.                    *)
CancelError(i) == IF orders[i].status = "open" THEN "pubkey" ELSE "order"

CancelOrder(i) ==
    /\ phase = "idle"
    /\ CancelError(i) # "none"
    /\ UNCHANGED vars

Tick ==
    /\ clock < MaxTime
    /\ clock' = clock + 1
    /\ UNCHANGED <<coins, rows, balance, orders, deposited, withdrawn, txVars>>

-----------------------------------------------------------------------------
(* What clients may send: any pair of coins either way round, any side.      *)
PairArgs == [want : Assets, have : Assets]
SideArgs == Sides \cup {"other"}

Matching == FillSell \/ FillBuy \/ FillBoth

Next ==
    \/ \E cs \in Configurations : Restart(cs)
    \/ \E k \in Pubkeys : RegisterUser(k)
    \/ \E k \in Pubkeys, a \in Assets, n \in Amounts \ {0} : AddToBalance(k, a, n)
    \/ \E k \in Pubkeys, a \in Assets, n \in Amounts \ {0} : Withdraw(k, a, n)
    \/ \E k \in Pubkeys, p \in PairArgs, side \in SideArgs, h \in Amounts, w \in Amounts :
          PlaceOrder(k, p, side, h, w)
    \/ \E i \in DOMAIN orders : CancelOrder(i)
    \/ Matching
    \/ Commit
    \/ CreditFails
    \/ Rollback
    \/ Tick

Spec == Init /\ [][Next]_vars

(* The goroutine that serves SubmitOrder keeps running until it returns.     *)
FairSpec == Spec /\ WF_vars(Matching \/ Commit \/ CreditFails)

-----------------------------------------------------------------------------
(* Every variable holds a value of its table's or queue's type; queues name  *)
(* existing rows, and no row's time is ahead of the clock.                  *)
TypeOK ==
    /\ coins \in Configurations
    /\ rows \in [Pubkeys -> SUBSET Assets]
    /\ balance \in [Pubkeys -> [Assets -> Nat]]
    /\ wBalance \in [Pubkeys -> [Assets -> Nat]]
    /\ orders \in Seq(Row)
    /\ wOrders \in Seq(Row)
    /\ \A i \in DOMAIN orders : orders[i].time <= clock
    /\ \A i \in DOMAIN wOrders : wOrders[i].time <= clock
    /\ phase \in {"idle", "matching"}
    /\ txPair \in (IF phase = "matching" THEN Pairs ELSE {NoPair})
    /\ buyQ \in Seq(DOMAIN wOrders)
    /\ sellQ \in Seq(DOMAIN wOrders)
    /\ clock \in Nat
    /\ deposited \in [Assets -> Nat]
    /\ withdrawn \in [Assets -> Nat]

(* No transaction leaves a crossed book behind: in the committed tables no   *)
(* live buy of a pair has a price at or above that of a live sell, however   *)
(* partial fills, equal timestamps and rolled-back placements interleave     *)
(* (RunMatchingBestPricesWithinTransaction runs to the end or not at all).  *)
Uncrossed(os, p) ==
    \A i \in Book(os, p, "buy"), j \in Book(os, p, "sell") :
        os[i].price < os[j].price

NoCrossedBook == \A p \in Pairs : Uncrossed(orders, p)

(* The units of an amount table f: one for each unit of each entry, so their *)
(* number is the sum of the table.                                          *)
Units(f) == UNION {{x} \X (1..f[x]) : x \in DOMAIN f}
Total(f) == Cardinality(Units(f))

Holdings(bal, a) == [k \in Pubkeys |-> bal[k][a]]
Escrow(os, a) ==
    [i \in DOMAIN os |-> IF os[i].status = "open" /\ PayAsset(os[i].pair, os[i].side) = a
                         THEN os[i].have ELSE 0]

(* Assets that are never the AssetWant of a pair: the last coin of the list.  *)
QuoteOnly == {a \in Assets : \A p \in Pairs : p.want # a}

(* No unit of a coin that only ever pays for others is lost or made by       *)
(* placing, matching, failing or withdrawing: what was credited from outside *)
(* is in a balance, locked in a live order, or withdrawn.  It holds of the   *)
(* committed tables and at every point of an open transaction.              *)
Backed(bal, os, a) ==
    deposited[a] = withdrawn[a] + Total(Holdings(bal, a)) + Total(Escrow(os, a))

QuoteConserved ==
    \A a \in QuoteOnly : Backed(balance, orders, a) /\ Backed(wBalance, wOrders, a)

(* An order that left the book was paid at least the AmountWant it was       *)
(* placed with, over all its partial fills; one that is still live has been  *)
(* paid at least the part that its AmountWant has shrunk by.                *)
PaidInFull(os) == \A i \in DOMAIN os : os[i].got + os[i].want >= os[i].asked

LimitHonoured == PaidInFull(orders) /\ PaidInFull(wOrders)

(* A sell order is never paid more than it asked for: through all its fills, *)
(* what it has been paid and what it still asks make up its first AmountWant. *)
NotOverpaid(os) ==
    \A i \in DOMAIN os : os[i].side = "sell" => os[i].got + os[i].want = os[i].asked

SellerNotOverpaid == NotOverpaid(orders) /\ NotOverpaid(wOrders)

(* Placing an order costs nobody but its owner, and the owner no more than   *)
(* the AmountHave named, whatever the matching loop then does to resting     *)
(* orders.                                                                  *)
Cost(k, a) ==
    LET new == wOrders[Len(wOrders)]
    IN  IF new.owner = k /\ PayAsset(new.pair, new.side) = a THEN new.offered ELSE 0

OnlyPlacerPays ==
    phase = "matching" =>
        \A k \in Pubkeys, a \in Assets : wBalance[k][a] + Cost(k, a) >= balance[k][a]

(* Nothing is credited where there is no row to keep it: PlaceOrder looks     *)
(* only for the row of the coin an order pays with, so an order may rest in   *)
(* the book whose owner has none of the coin it is to be paid in, and a trade *)
(* with it must undo the placement instead of crediting nobody.              *)
CreditsHaveRows ==
    \A k \in Pubkeys, a \in Assets :
        a \notin rows[k] => balance[k][a] = 0 /\ wBalance[k][a] = 0

(* The time column as the SELECTs of the open transaction read it: that of    *)
(* the committed row, and of the new row the time it was inserted at.        *)
ReadTime(i) == IF i \in DOMAIN orders THEN orders[i].time ELSE wOrders[i].placed

(* Time priority within a side: the loop never touches an order while a live *)
(* order of the same pair and side was read with an earlier timestamp.       *)
Earlier(i, j) ==
    /\ wOrders[i].status = "open" /\ wOrders[j].status = "open"
    /\ wOrders[i].pair = wOrders[j].pair /\ wOrders[i].side = wOrders[j].side
    /\ ReadTime(i) < ReadTime(j)

TimePriority ==
    [][phase' = "matching" =>
         \A i, j \in DOMAIN wOrders : Earlier(i, j) => wOrders'[j] = wOrders[j]]_vars

(* Committed orders only shrink: owner, pair, side and price of a row never   *)
(* change, its amounts never grow, its time never goes back, and a deleted    *)
(* row never comes back.                                                    *)
Shrinks(old, new) ==
    /\ \A f \in {"owner", "pair", "side", "price", "placed"} : new[f] = old[f]
    /\ new.have <= old.have /\ new.want <= old.want
    /\ new.time >= old.time
    /\ new.status = "open" => old.status = "open"

OrdersOnlyShrink ==
    [][\A i \in DOMAIN orders : i \in DOMAIN orders' /\ Shrinks(orders[i], orders'[i])]_vars

(* The server implements the abstract exchange, in which a placement is one   *)
(* step: whatever the loop did to which orders in which order, a commit       *)
(* publishes a complete settlement, and a rollback, a failed or a half-done   *)
(* placement publishes nothing.                                             *)
Abstract == INSTANCE Exchange WITH accounts <- rows

ImplementsExchange == Abstract!Spec

(* A placement ends: every iteration of the loop removes an order from a     *)
(* queue or fails, so the transaction is committed or rolled back.          *)
PlacementEnds == (phase = "matching") ~> (phase = "idle")

-----------------------------------------------------------------------------
(* What a comment of the code says of it.                                   *)

(* "credit buyOrder client with sellOrder amountHave": the buyer receives    *)
(* exactly what the sell order parts with.                                  *)
BuyerGetsWhatSellerGives ==
    [][Matching => wOrders'[BuyId].got - Buy.got = Sell.have - wOrders'[SellId].have]_vars
=============================================================================
