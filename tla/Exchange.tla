------------------------------ MODULE Exchange ------------------------------
(***************************************************************************)
(* What the exchange promises of its tables, in the abstract.  There are no *)
(* transactions here and no matching loop: placing an order is one step,    *)
(* which books the order, trades it against the orders of its pair and      *)
(* leaves no book crossed.  Which orders trade, and for how much, is left   *)
(* open as far as nobody is harmed by it:                                   *)
(*   - an order is filled, never enlarged, altered or revived, and is paid   *)
(*     for whatever it no longer asks for, a sell order exactly;             *)
(*   - orders of other pairs and orders that are gone stay as they are;      *)
(*   - in the pair's AssetHave, what the buy orders part with is what the    *)
(*     sell orders are paid;                                                *)
(*   - every balance changes by the proceeds of its owner's orders, and the  *)
(*     placer's in addition by the AmountHave of the new order; nothing is   *)
(*     credited where there is no account.                                  *)
(* OrderStore implements this module.                                       *)
(***************************************************************************)
EXTENDS Integers, Sequences, FiniteSets

CONSTANTS Pubkeys, Assets, Pairs, Amounts,
          Price(_, _, _)  \* the price of an order on a side, of two amounts

VARIABLES accounts,    \* the assets each client has an account in
          balance,     \* what each of them has of each asset
          orders       \* every order ever placed, with what it still has and wants

exchangeVars == <<accounts, balance, orders>>

PayAsset(p, side) == IF side = "buy" THEN p.have ELSE p.want
GetAsset(p, side) == IF side = "buy" THEN p.want ELSE p.have

Total(f) == Cardinality(UNION {{x} \X (1..f[x]) : x \in DOMAIN f})

Fresh(k, p, side, have, want, now) ==
    [owner |-> k, pair |-> p, side |-> side, price |-> Price(side, have, want),
     have |-> have, want |-> want, time |-> now, status |-> "open",
     offered |-> have, asked |-> want, placed |-> now, got |-> 0]

Live(os, p, side) ==
    {i \in DOMAIN os : os[i].status = "open" /\ os[i].pair = p /\ os[i].side = side}

Uncrossed(os, p) ==
    \A i \in Live(os, p, "buy"), j \in Live(os, p, "sell") : os[i].price < os[j].price

(* What a placement for pair p may make of an order.                        *)
Fills(p, old, new) ==
    /\ \A f \in {"owner", "pair", "side", "price", "offered", "asked", "placed"} :
          new[f] = old[f]
    /\ new.have <= old.have /\ new.want <= old.want /\ new.time >= old.time
    /\ old.status = "deleted" \/ old.pair # p => new = old
    /\ new.got + new.want >= old.got + old.want
    /\ old.side = "sell" => new.got + new.want = old.got + old.want

(* Of the orders `os' that became `ns': what the buys of them part with, what *)
(* the sells are paid, and what client j's are paid in asset a.             *)
Spent(os, ns) ==
    [i \in DOMAIN os |-> IF os[i].side = "buy" THEN os[i].have - ns[i].have ELSE 0]
Earned(os, ns) ==
    [i \in DOMAIN os |-> IF os[i].side = "sell" THEN ns[i].got - os[i].got ELSE 0]
Proceeds(os, ns, j, a) ==
    [i \in DOMAIN os |-> IF os[i].owner = j /\ GetAsset(os[i].pair, os[i].side) = a
                         THEN ns[i].got - os[i].got ELSE 0]

Charge(k, p, side, have, j, a) == IF j = k /\ a = PayAsset(p, side) THEN have ELSE 0

-----------------------------------------------------------------------------
Init ==
    /\ accounts = [k \in Pubkeys |-> {}]
    /\ balance = [k \in Pubkeys |-> [a \in Assets |-> 0]]
    /\ orders = <<>>

Register(k, assets) ==
    /\ accounts' = [accounts EXCEPT ![k] = @ \cup assets]
    /\ UNCHANGED <<balance, orders>>

Credit(k, a, n) ==
    /\ a \in accounts[k]
    /\ balance' = [balance EXCEPT ![k][a] = @ + n]
    /\ UNCHANGED <<accounts, orders>>

Debit(k, a, n) ==
    /\ a \in accounts[k]
    /\ balance[k][a] >= n
    /\ balance' = [balance EXCEPT ![k][a] = @ - n]
    /\ UNCHANGED <<accounts, orders>>

Place(k, p, side, have, want) ==
    LET now == orders'[Len(orders) + 1].placed
        before == Append(orders, Fresh(k, p, side, have, want, now))
    IN  /\ PayAsset(p, side) \in accounts[k]
        /\ balance[k][PayAsset(p, side)] > have
        /\ Len(orders') = Len(before)
        /\ \A i \in DOMAIN before : Fills(p, before[i], orders'[i])
        /\ \A q \in Pairs : Uncrossed(orders', q)
        /\ Total(Spent(before, orders')) = Total(Earned(before, orders'))
        /\ balance' = [j \in Pubkeys |-> [a \in Assets |->
              balance[j][a] - Charge(k, p, side, have, j, a)
                            + Total(Proceeds(before, orders', j, a))]]
        /\ \A j \in Pubkeys : \A a \in Assets \ accounts[j] : balance'[j][a] = balance[j][a]
        /\ UNCHANGED accounts

Next ==
    \/ \E k \in Pubkeys, assets \in SUBSET Assets : Register(k, assets)
    \/ \E k \in Pubkeys, a \in Assets, n \in Amounts : Credit(k, a, n) \/ Debit(k, a, n)
    \/ \E k \in Pubkeys, p \in Pairs, side \in {"buy", "sell"}, have, want \in Amounts :
          Place(k, p, side, have, want)

Spec == Init /\ [][Next]_exchangeVars
=============================================================================
