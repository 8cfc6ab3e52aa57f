-------------------------- MODULE OrderStoreProofs --------------------------
(***************************************************************************)
(* Proofs about the order store, for every set of clients, every coin list  *)
(* and every bound.                                                        *)
(***************************************************************************)
EXTENDS OrderStore, FiniteSetTheorems, SequenceTheorems, TLAPS

-----------------------------------------------------------------------------
(* Facts about the operators of the model.                                  *)

(* A trading pair joins two different assets (GenerateAssetPairs).          *)
LEMMA PairFacts ==
    ASSUME NEW p \in Pairs
    PROVE  /\ p \in PairArgs
           /\ p.want \in Assets
           /\ p.have \in Assets
           /\ p.want # p.have
  BY OrderStoreAssumption DEF Pairs, PairArgs, Assets, IsInjective

(* PayAsset names an asset of the pair.                                     *)
LEMMA PayAssetType ==
    ASSUME NEW p \in Pairs, NEW side
    PROVE  PayAsset(p, side) \in Assets
  BY PairFacts DEF PayAsset

(* A rounded quotient is an integer.                                        *)
LEMMA RoundDivType ==
    ASSUME NEW n \in Nat, NEW d \in Nat, d # 0
    PROVE  RoundDiv(n, d) \in Int
  BY DEF RoundDiv

(* Truncated subtraction stays in Nat and never exceeds its first argument. *)
LEMMA MonusFacts ==
    ASSUME NEW m \in Nat, NEW n \in Nat
    PROVE  Monus(m, n) \in Nat /\ Monus(m, n) <= m /\ Monus(m, n) + n >= m
  BY DEF Monus

(* What PlaceOrder's checks guarantee when none of them returns.            *)
LEMMA PlaceErrorNone ==
    ASSUME NEW k, NEW p, NEW side, NEW have, NEW want,
           PlaceError(k, p, side, have, want) = "none"
    PROVE  /\ p \in Pairs
           /\ PayAsset(p, side) \in rows[k]
           /\ balance[k][PayAsset(p, side)] > have
           /\ want # 0
           /\ side \in Sides
           /\ side = "buy" => have # 0
  BY DEF PlaceError, PairsArray

(* A credit keeps the balance table well typed.                             *)
LEMMA AddToType ==
    ASSUME NEW bal \in [Pubkeys -> [Assets -> Nat]],
           NEW k \in Pubkeys, NEW a \in Assets, NEW n \in Nat
    PROVE  AddTo(bal, k, a, n) \in [Pubkeys -> [Assets -> Nat]]
  BY DEF AddTo

(* A covered debit keeps the balance table well typed.                      *)
LEMMA TakeFromType ==
    ASSUME NEW bal \in [Pubkeys -> [Assets -> Nat]],
           NEW k \in Pubkeys, NEW a \in Assets, NEW n \in Nat,
           bal[k][a] >= n
    PROVE  TakeFrom(bal, k, a, n) \in [Pubkeys -> [Assets -> Nat]]
  BY DEF TakeFrom

(* The row PlaceOrder inserts.                                              *)
LEMMA NewRowType ==
    ASSUME NEW k \in Pubkeys, NEW p \in Pairs, NEW side \in Sides,
           NEW have \in Nat, NEW want \in Nat, want # 0,
           side = "buy" => have # 0, clock \in Nat
    PROVE  NewRow(k, p, side, have, want) \in Row
  <1>1. 100 * want \in Nat /\ 100 * have \in Nat
    OBVIOUS
  <1>2. Price(side, have, want) \in Int
    BY <1>1, RoundDivType DEF Price, Sides
  <1>3. QED
    BY <1>2 DEF NewRow, Row

(* The columns no statement of the matching loop writes.                    *)
SameTerms(r, u) ==
    /\ u.owner = r.owner /\ u.pair = r.pair /\ u.side = r.side
    /\ u.price = r.price
    /\ u.offered = r.offered /\ u.asked = r.asked /\ u.placed = r.placed

(* The time column goes up to the present or stays.                          *)
TimeGoesOn(r, u) == u.time >= r.time /\ u.time <= clock

(* u is row r with the amounts and the status given and n more proceeds.    *)
Changed(r, u, have, want, status, n) ==
    /\ u \in Row
    /\ SameTerms(r, u)
    /\ TimeGoesOn(r, u)
    /\ u.have = have /\ u.want = want /\ u.status = status /\ u.got = r.got + n

(* Updating a row changes the amounts, the proceeds and, on some servers,    *)
(* the time.                                                                *)
LEMMA UpdatedRow ==
    ASSUME NEW r \in Row, NEW have \in Nat, NEW want \in Nat, NEW n \in Nat,
           clock \in Nat, r.time <= clock
    PROVE  Changed(r, Updated(r, have, want, n), have, want, r.status, n)
  <1>1. r.got + n \in Nat /\ UpdateTime(r) \in Nat
    BY DEF Row, UpdateTime
  <1>2. \A t, m \in Nat :
           [r EXCEPT !.have = have, !.want = want, !.time = t, !.got = m] \in Row
    BY DEF Row
  <1>3. Updated(r, have, want, n) \in Row
    BY <1>1, <1>2 DEF Updated
  <1>4. UpdateTime(r) >= r.time /\ UpdateTime(r) <= clock
    BY DEF UpdateTime, Row
  <1>5. Updated(r, have, want, n).time = UpdateTime(r)
    BY DEF Updated, Row
  <1>6. QED
    BY <1>3, <1>4, <1>5 DEF Updated, Row, Changed, SameTerms, TimeGoesOn

(* Deleting a row zeroes the amounts and records the last proceeds.         *)
LEMMA DeletedRow ==
    ASSUME NEW r \in Row, NEW n \in Nat, r.time <= clock
    PROVE  Changed(r, Deleted(r, n), 0, 0, "deleted", n)
  <1>1. r.got + n \in Nat
    BY DEF Row
  <1>2. \A m \in Nat : [r EXCEPT !.have = 0, !.want = 0, !.status = "deleted", !.got = m] \in Row
    BY DEF Row
  <1>3. Deleted(r, n) \in Row
    BY <1>1, <1>2 DEF Deleted
  <1>4. QED
    BY <1>3 DEF Deleted, Row, Changed, SameTerms, TimeGoesOn

(* The rows of a side of a book can be counted.                             *)
LEMMA BookFinite ==
    ASSUME NEW os \in Seq(Row), NEW S, S \subseteq DOMAIN os
    PROVE  IsFiniteSet(S) /\ Cardinality(S) \in Nat
  <1>1. DOMAIN os = 1..Len(os) /\ Len(os) \in Nat
    OBVIOUS
  <1>2. IsFiniteSet(1..Len(os))
    BY <1>1, FS_Interval
  <1>3. QED
    BY <1>1, <1>2, FS_Subset, FS_CardinalityType

(* The result of SELECT ... ORDER BY time lists every selected row once.     *)
LEMMA OrderedByTimeFacts ==
    ASSUME NEW os \in Seq(Row), NEW S, S \subseteq DOMAIN os,
           NEW q \in OrderedByTime(os, S)
    PROVE  /\ q \in Seq(DOMAIN os)
           /\ Range(q) = S
           /\ IsInjective(q)
  <1>1. Cardinality(S) \in Nat
    BY BookFinite
  <1>2. /\ q \in [1..Cardinality(S) -> S]
        /\ IsInjective(q)
        /\ \A x \in S : \E i \in 1..Cardinality(S) : q[i] = x
    BY DEF OrderedByTime, Bijection, Injection, Surjection
  <1>3. q \in [1..Cardinality(S) -> DOMAIN os]
    BY <1>2
  <1>4. q \in Seq(DOMAIN os)
    BY <1>1, <1>3, IsASeq
  <1>5. Range(q) = S
    BY <1>2 DEF Range
  <1>6. QED
    BY <1>2, <1>4, <1>5

(* Dropping the head of a queue of distinct rows removes just that row.      *)
LEMMA TailOfQueue ==
    ASSUME NEW D, NEW q \in Seq(D), q # <<>>, IsInjective(q)
    PROVE  /\ Head(q) \in D
           /\ Tail(q) \in Seq(D)
           /\ IsInjective(Tail(q))
           /\ Head(q) \in Range(q)
           /\ Range(Tail(q)) = Range(q) \ {Head(q)}
  <1>1. /\ Len(q) \in Nat \ {0}
        /\ DOMAIN q = 1..Len(q)
        /\ Head(q) = q[1]
        /\ Tail(q) \in Seq(D)
        /\ Len(Tail(q)) = Len(q) - 1
        /\ DOMAIN Tail(q) = 1..(Len(q) - 1)
        /\ \A i \in 1..(Len(q) - 1) : Tail(q)[i] = q[i + 1]
    OBVIOUS
  <1>2. IsInjective(Tail(q))
    BY <1>1 DEF IsInjective
  <1>3. ASSUME NEW x \in Range(Tail(q)) PROVE x \in Range(q) \ {Head(q)}
    <2>1. PICK i \in 1..(Len(q) - 1) : x = q[i + 1]
      BY <1>1, <1>3 DEF Range
    <2>2. i + 1 \in DOMAIN q /\ 1 \in DOMAIN q /\ i + 1 # 1
      BY <1>1, <2>1
    <2>3. QED
      BY <1>1, <2>1, <2>2 DEF Range, IsInjective
  <1>4. ASSUME NEW x \in Range(q) \ {Head(q)} PROVE x \in Range(Tail(q))
    <2>1. PICK i \in 1..Len(q) : x = q[i] /\ i # 1
      BY <1>1, <1>4 DEF Range
    <2>2. i - 1 \in 1..(Len(q) - 1) /\ Tail(q)[i - 1] = q[i]
      BY <1>1, <2>1
    <2>3. QED
      BY <1>1, <2>1, <2>2 DEF Range
  <1>5. Head(q) \in D /\ Head(q) \in Range(q)
    BY <1>1 DEF Range
  <1>6. QED
    BY <1>1, <1>2, <1>3, <1>4, <1>5

(* Rewriting two rows of an order table.                                    *)
LEMMA RewriteTwo ==
    ASSUME NEW os \in Seq(Row), NEW i \in DOMAIN os, NEW j \in DOMAIN os,
           NEW x \in Row, NEW y \in Row
    PROVE  LET new == [os EXCEPT ![i] = x, ![j] = y]
           IN  /\ new \in Seq(Row)
               /\ DOMAIN new = DOMAIN os
               /\ Len(new) = Len(os)
               /\ new[j] = y
               /\ i # j => new[i] = x
               /\ \A n \in DOMAIN os \ {i, j} : new[n] = os[n]
  OBVIOUS

(* Appending a row to an order table.                                       *)
LEMMA AppendRow ==
    ASSUME NEW os \in Seq(Row), NEW x \in Row
    PROVE  LET new == Append(os, x)
           IN  /\ new \in Seq(Row)
               /\ Len(new) = Len(os) + 1
               /\ DOMAIN new = DOMAIN os \cup {Len(os) + 1}
               /\ Len(os) + 1 \notin DOMAIN os
               /\ new[Len(os) + 1] = x
               /\ \A n \in DOMAIN os : new[n] = os[n]
  OBVIOUS

-----------------------------------------------------------------------------
(* Type correctness.                                                        *)

(* What a loop iteration may rely on, from types alone.                      *)
LEMMA LoopTypes ==
    ASSUME TypeOK, InLoop
    PROVE  /\ BuyId \in DOMAIN wOrders /\ SellId \in DOMAIN wOrders
           /\ Buy \in Row /\ Sell \in Row
           /\ Buy.have \in Nat /\ Buy.want \in Nat /\ Sell.have \in Nat /\ Sell.want \in Nat
           /\ Tail(buyQ) \in Seq(DOMAIN wOrders) /\ Tail(sellQ) \in Seq(DOMAIN wOrders)
           /\ clock \in Nat /\ Buy.time <= clock /\ Sell.time <= clock
  <1>1. BuyId \in DOMAIN wOrders /\ SellId \in DOMAIN wOrders
    BY DEF TypeOK, InLoop, AtHeads, BuyId, SellId
  <1>2. Buy \in Row /\ Sell \in Row
    BY <1>1 DEF TypeOK, Buy, Sell
  <1>3. /\ Buy.have \in Nat /\ Buy.want \in Nat /\ Sell.have \in Nat /\ Sell.want \in Nat
    BY <1>2 DEF Row
  <1>4. clock \in Nat /\ Buy.time <= clock /\ Sell.time <= clock
    BY <1>1 DEF TypeOK, Buy, Sell
  <1>5. Tail(buyQ) \in Seq(DOMAIN wOrders) /\ Tail(sellQ) \in Seq(DOMAIN wOrders)
    BY DEF TypeOK, InLoop, AtHeads
  <1>6. QED
    BY <1>1, <1>2, <1>3, <1>4, <1>5

(* Crediting the two parties of a fill keeps the working balances typed.     *)
LEMMA SettleType ==
    ASSUME TypeOK, InLoop, txPair \in Pairs, NEW bought \in Nat, NEW paid \in Nat,
           Settle(bought, paid)
    PROVE  wBalance' \in [Pubkeys -> [Assets -> Nat]]
  <1>1. Buy.owner \in Pubkeys /\ Sell.owner \in Pubkeys
    BY LoopTypes DEF Row
  <1>2. txPair.want \in Assets /\ txPair.have \in Assets
    BY PairFacts
  <1>3. AddTo(wBalance, Buy.owner, txPair.want, bought) \in [Pubkeys -> [Assets -> Nat]]
    BY <1>1, <1>2, AddToType DEF TypeOK
  <1>4. QED
    BY <1>1, <1>2, <1>3, AddToType DEF Settle

(* A fill rewrites the two head rows into x and y; an order leaves its queue *)
(* exactly when its row is deleted.                                         *)
FillResult(x, y) ==
    /\ wOrders' = [wOrders EXCEPT ![BuyId] = x, ![SellId] = y]
    /\ SameTerms(Buy, x) /\ SameTerms(Sell, y)
    /\ TimeGoesOn(Buy, x) /\ TimeGoesOn(Sell, y)
    /\ x.have <= Buy.have /\ x.want <= Buy.want
    /\ y.have <= Sell.have /\ y.want <= Sell.want
    /\ x.got + x.want >= Buy.got + Buy.want
    /\ y.got + y.want = Sell.got + Sell.want
    /\ \/ x.status = "deleted" /\ buyQ' = Tail(buyQ)
       \/ x.status = Buy.status /\ buyQ' = buyQ
    /\ \/ y.status = "deleted" /\ sellQ' = Tail(sellQ)
       \/ y.status = Sell.status /\ sellQ' = sellQ

(* The proceeds of both orders are credited, and the seller is paid what the *)
(* buy order parts with.                                                    *)
Pays(x, y) ==
    /\ \E bought \in Nat, paid \in Nat :
          /\ Settle(bought, paid)
          /\ x.have + paid = Buy.have
          /\ x.got = Buy.got + bought /\ y.got = Sell.got + paid
    /\ Buy.status = "open" /\ x.status = "deleted" => x.have = 0

(* Each of the three branches of the loop is such a fill.                    *)
LEMMA FillRows ==
    ASSUME TypeOK, Matching
    PROVE  \E x \in Row, y \in Row : FillResult(x, y) /\ Pays(x, y)
  <1>1. InLoop
    BY DEF Matching, FillSell, FillBuy, FillBoth
  <1>2. /\ Buy \in Row /\ Sell \in Row
        /\ Buy.have \in Nat /\ Buy.want \in Nat /\ Sell.have \in Nat /\ Sell.want \in Nat
        /\ clock \in Nat /\ Buy.time <= clock /\ Sell.time <= clock
    BY <1>1, LoopTypes
  <1>3. Buy.got \in Nat /\ Sell.got \in Nat
    BY <1>2 DEF Row
  <1>4. CASE FillSell
    <2> DEFINE h == Buy.have - Sell.want
               w == Monus(Buy.want, Sell.have)
               x == Updated(Buy, h, w, Sell.have)
               y == Deleted(Sell, Sell.want)
    <2>1. h \in Nat /\ h <= Buy.have
      BY <1>2, <1>4 DEF FillSell
    <2>2. w \in Nat /\ w <= Buy.want /\ w + Sell.have >= Buy.want
      BY <1>2, MonusFacts
    <2>3. /\ wOrders' = [wOrders EXCEPT ![BuyId] = x, ![SellId] = y]
          /\ buyQ' = buyQ /\ sellQ' = Tail(sellQ)
          /\ Settle(Sell.have, Sell.want) /\ h + Sell.want = Buy.have
      BY <1>2, <1>4 DEF FillSell
    <2> HIDE DEF h, w
    <2>4. Changed(Buy, x, h, w, Buy.status, Sell.have)
      BY <1>2, <2>1, <2>2, UpdatedRow
    <2>5. Changed(Sell, y, 0, 0, "deleted", Sell.want)
      BY <1>2, DeletedRow
    <2> HIDE DEF x, y
    <2>6. x \in Row /\ y \in Row
      BY <2>4, <2>5 DEF Changed
    <2>7. FillResult(x, y)
      <3>1. x.got + x.want >= Buy.got + Buy.want
        BY <1>2, <1>3, <2>2, <2>4 DEF Changed
      <3>2. y.got + y.want = Sell.got + Sell.want
        BY <1>2, <1>3, <2>5 DEF Changed
      <3>3. x.have <= Buy.have /\ x.want <= Buy.want /\ y.have <= Sell.have /\ y.want <= Sell.want
        BY <1>2, <2>1, <2>2, <2>4, <2>5 DEF Changed
      <3>4. QED
        BY <2>3, <2>4, <2>5, <3>1, <3>2, <3>3 DEF FillResult, Changed
    <2>8. Pays(x, y)
      BY <1>2, <2>3, <2>4, <2>5 DEF Pays, Changed
    <2>9. QED
      BY <2>6, <2>7, <2>8
  <1>5. CASE FillBuy
    <2> DEFINE h == Monus(Sell.have, Buy.want)
               w == Sell.want - Buy.have
               x == Deleted(Buy, Buy.want)
               y == Updated(Sell, h, w, Buy.have)
    <2>1. h \in Nat /\ h <= Sell.have
      BY <1>2, MonusFacts
    <2>2. w \in Nat /\ w <= Sell.want /\ w + Buy.have = Sell.want
      BY <1>2, <1>5 DEF FillBuy
    <2>3. /\ wOrders' = [wOrders EXCEPT ![BuyId] = x, ![SellId] = y]
          /\ buyQ' = Tail(buyQ) /\ sellQ' = sellQ
          /\ Settle(Buy.want, Buy.have) /\ 0 + Buy.have = Buy.have
      BY <1>2, <1>5 DEF FillBuy
    <2> HIDE DEF h, w
    <2>4. Changed(Buy, x, 0, 0, "deleted", Buy.want)
      BY <1>2, DeletedRow
    <2>5. Changed(Sell, y, h, w, Sell.status, Buy.have)
      BY <1>2, <2>1, <2>2, UpdatedRow
    <2> HIDE DEF x, y
    <2>6. x \in Row /\ y \in Row
      BY <2>4, <2>5 DEF Changed
    <2>7. FillResult(x, y)
      BY <1>2, <1>3, <2>1, <2>2, <2>3, <2>4, <2>5 DEF FillResult, Changed
    <2>8. Pays(x, y)
      BY <1>2, <2>3, <2>4, <2>5 DEF Pays, Changed
    <2>9. QED
      BY <2>6, <2>7, <2>8
  <1>6. CASE FillBoth
    <2> DEFINE x == Deleted(Buy, Buy.want)
               y == Deleted(Sell, Buy.have)
    <2>1. Changed(Buy, x, 0, 0, "deleted", Buy.want)
      BY <1>2, DeletedRow
    <2>2. Changed(Sell, y, 0, 0, "deleted", Buy.have)
      BY <1>2, DeletedRow
    <2>3. /\ wOrders' = [wOrders EXCEPT ![BuyId] = x, ![SellId] = y]
          /\ buyQ' = Tail(buyQ) /\ sellQ' = Tail(sellQ) /\ Buy.have = Sell.want
          /\ Settle(Buy.want, Buy.have) /\ 0 + Buy.have = Buy.have
      BY <1>2, <1>6 DEF FillBoth
    <2> HIDE DEF x, y
    <2>4. x \in Row /\ y \in Row
      BY <2>1, <2>2 DEF Changed
    <2>5. FillResult(x, y)
      BY <1>2, <1>3, <2>1, <2>2, <2>3 DEF FillResult, Changed
    <2>6. Pays(x, y)
      BY <1>2, <2>1, <2>2, <2>3 DEF Pays, Changed
    <2>7. QED
      BY <2>4, <2>5, <2>6
  <1>7. QED
    BY <1>4, <1>5, <1>6 DEF Matching

(* Types are preserved by every step.                                       *)
LEMMA TypeStep == TypeOK /\ [Next]_vars => TypeOK'
  <1> SUFFICES ASSUME TypeOK, [Next]_vars PROVE TypeOK'
    OBVIOUS
  <1> USE OrderStoreAssumption
  <1>0. ASSUME NEW cs \in Configurations, Restart(cs) PROVE TypeOK'
    BY <1>0 DEF TypeOK, Restart, txVars
  <1>1. ASSUME NEW k \in Pubkeys, RegisterUser(k) PROVE TypeOK'
    <2>1. rows' \in [Pubkeys -> SUBSET Assets]
      BY <1>1 DEF TypeOK, RegisterUser
    <2>2. QED
      BY <1>1, <2>1 DEF TypeOK, RegisterUser, txVars
  <1>2. ASSUME NEW k \in Pubkeys, NEW a \in Assets, NEW n \in Amounts \ {0},
               AddToBalance(k, a, n)
        PROVE  TypeOK'
    <2>1. n \in Nat /\ balance' = AddTo(balance, k, a, n) /\ wBalance' = balance'
      BY <1>2 DEF AddToBalance
    <2>2. balance' \in [Pubkeys -> [Assets -> Nat]] /\ wBalance' \in [Pubkeys -> [Assets -> Nat]]
      BY <2>1, AddToType DEF TypeOK
    <2>3. deposited' \in [Assets -> Nat]
      BY <1>2, <2>1 DEF TypeOK, AddToBalance
    <2>4. QED
      BY <1>2, <2>2, <2>3 DEF TypeOK, AddToBalance
  <1>3. ASSUME NEW k \in Pubkeys, NEW a \in Assets, NEW n \in Amounts \ {0},
               Withdraw(k, a, n)
        PROVE  TypeOK'
    <2>1. n \in Nat /\ balance[k][a] \in Nat /\ balance[k][a] >= n
      <3>1. n \in Nat /\ balance[k][a] \in Nat
        BY DEF TypeOK
      <3>2. ~(balance[k][a] < n)
        BY <1>3 DEF Withdraw, WithdrawError
      <3>3. QED
        BY <3>1, <3>2
    <2>2. balance' \in [Pubkeys -> [Assets -> Nat]] /\ wBalance' \in [Pubkeys -> [Assets -> Nat]]
      BY <1>3, <2>1, TakeFromType DEF TypeOK, Withdraw
    <2>3. withdrawn' \in [Assets -> Nat]
      BY <1>3, <2>1 DEF TypeOK, Withdraw
    <2>4. QED
      BY <1>3, <2>2, <2>3 DEF TypeOK, Withdraw
  <1>4. ASSUME NEW k \in Pubkeys, NEW p \in PairArgs, NEW side \in SideArgs,
               NEW have \in Amounts, NEW want \in Amounts,
               PlaceOrder(k, p, side, have, want)
        PROVE  TypeOK'
    <2>1. have \in Nat /\ want \in Nat
      OBVIOUS
    <2>2. /\ p \in Pairs /\ side \in Sides /\ want # 0 /\ (side = "buy" => have # 0)
          /\ balance[k][PayAsset(p, side)] > have
      BY <1>4, PlaceErrorNone DEF PlaceOrder
    <2>3. PayAsset(p, side) \in Assets
      BY <2>2, PayAssetType
    <2>4. wBalance' \in [Pubkeys -> [Assets -> Nat]]
      <3>1. balance[k][PayAsset(p, side)] \in Nat
        BY <2>3 DEF TypeOK
      <3>2. balance[k][PayAsset(p, side)] >= have
        BY <2>1, <2>2, <3>1
      <3>3. QED
        BY <1>4, <2>1, <2>3, <3>2, TakeFromType DEF TypeOK, PlaceOrder
    <2>5. NewRow(k, p, side, have, want) \in Row
      BY <2>1, <2>2, NewRowType DEF TypeOK
    <2>6. wOrders' \in Seq(Row)
      BY <1>4, <2>5, AppendRow DEF TypeOK, PlaceOrder
    <2>7. buyQ' \in Seq(DOMAIN wOrders') /\ sellQ' \in Seq(DOMAIN wOrders')
      <3>1. CASE ShouldMatch(wOrders', p)
        <4>1. Book(wOrders', p, "buy") \subseteq DOMAIN wOrders'
          BY DEF Book
        <4>2. Book(wOrders', p, "sell") \subseteq DOMAIN wOrders'
          BY DEF Book
        <4>3. QED
          BY <1>4, <2>6, <3>1, <4>1, <4>2, OrderedByTimeFacts DEF PlaceOrder
      <3>2. CASE ~ShouldMatch(wOrders', p)
        BY <1>4, <3>2 DEF PlaceOrder
      <3>3. QED
        BY <3>1, <3>2
    <2>8. \A i \in DOMAIN wOrders' : wOrders'[i].time <= clock
      <3>1. NewRow(k, p, side, have, want).time <= clock
        BY DEF NewRow, TypeOK
      <3>2. QED
        BY <1>4, <2>5, <3>1, AppendRow DEF TypeOK, PlaceOrder
    <2>9. QED
      BY <1>4, <2>2, <2>4, <2>6, <2>7, <2>8 DEF TypeOK, PlaceOrder, tables
  <1>5. ASSUME Matching PROVE TypeOK'
    <2>1. InLoop /\ txPair \in Pairs
      BY <1>5 DEF Matching, FillSell, FillBuy, FillBoth, InLoop, AtHeads, TypeOK
    <2>2. /\ BuyId \in DOMAIN wOrders /\ SellId \in DOMAIN wOrders
          /\ Buy \in Row /\ Sell \in Row
          /\ Buy.have \in Nat /\ Buy.want \in Nat /\ Sell.have \in Nat /\ Sell.want \in Nat
          /\ Tail(buyQ) \in Seq(DOMAIN wOrders) /\ Tail(sellQ) \in Seq(DOMAIN wOrders)
      BY <2>1, LoopTypes
    <2>3. wBalance' \in [Pubkeys -> [Assets -> Nat]]
      BY <1>5, <2>1, <2>2, SettleType DEF Matching, FillSell, FillBuy, FillBoth
    <2>4. /\ wOrders' \in Seq(Row) /\ DOMAIN wOrders' = DOMAIN wOrders
          /\ \A i \in DOMAIN wOrders : wOrders'[i].time <= clock
      <3>1. PICK x \in Row, y \in Row : FillResult(x, y)
        BY <1>5, FillRows
      <3>2. /\ wOrders' = [wOrders EXCEPT ![BuyId] = x, ![SellId] = y]
            /\ x.time <= clock /\ y.time <= clock
        BY <3>1 DEF FillResult, TimeGoesOn
      <3>3. wOrders' \in Seq(Row) /\ DOMAIN wOrders' = DOMAIN wOrders
        BY <2>2, <3>2, RewriteTwo DEF TypeOK
      <3>4. \A i \in DOMAIN wOrders : wOrders'[i].time <= clock
        <4>1. \A i \in DOMAIN wOrders : wOrders'[i] \in {wOrders[i], x, y}
          BY <3>2 DEF TypeOK
        <4>2. QED
          BY <3>2, <4>1 DEF TypeOK
      <3>5. QED
        BY <3>3, <3>4
    <2>5. buyQ' \in {buyQ, Tail(buyQ)} /\ sellQ' \in {sellQ, Tail(sellQ)}
      BY <1>5 DEF Matching, FillSell, FillBuy, FillBoth
    <2>6. UNCHANGED tables /\ UNCHANGED <<phase, txPair>>
      BY <1>5 DEF Matching, FillSell, FillBuy, FillBoth
    <2>7. QED
      BY <2>2, <2>3, <2>4, <2>5, <2>6 DEF TypeOK, tables
  <1>6. CASE Commit
    BY <1>6 DEF TypeOK, Commit, EndTx
  <1>7. CASE Rollback \/ CreditFails
    <2>1. Undo
      BY <1>7 DEF Rollback, CreditFails
    <2>2. QED
      BY <2>1 DEF TypeOK, Undo, EndTx, tables
  <1>8. CASE Tick
    <2>1. \A t \in Nat : t <= clock => t <= clock + 1
      BY DEF TypeOK
    <2>2. /\ \A i \in DOMAIN orders : orders[i].time \in Nat
          /\ \A i \in DOMAIN wOrders : wOrders[i].time \in Nat
      <3>1. /\ \A i \in DOMAIN orders : orders[i] \in Row
            /\ \A i \in DOMAIN wOrders : wOrders[i] \in Row
        BY DEF TypeOK
      <3>2. QED
        BY <3>1 DEF Row
    <2>3. QED
      BY <1>8, <2>1, <2>2 DEF TypeOK, Tick, txVars
  <1>9. CASE UNCHANGED vars
    BY <1>9 DEF TypeOK, vars
  <1>10. QED
    BY <1>0, <1>1, <1>2, <1>3, <1>4, <1>5, <1>6, <1>7, <1>8, <1>9 DEF Next, CancelOrder

(* Every reachable state is well typed: the tables, the working copies of    *)
(* the open transaction and the loop's queues.  In particular no balance     *)
(* and no order amount of the uint64 columns goes below zero.               *)
THEOREM TypeCorrect == Spec => []TypeOK
  <1>1. Init => TypeOK
    BY DEF Init, TypeOK
  <1>2. QED
    BY <1>1, TypeStep, PTL DEF Spec

-----------------------------------------------------------------------------
(* The order book.  NoCrossedBook alone is not inductive: a commit publishes *)
(* what the open transaction sees, so the invariant also says what the loop  *)
(* has still to do.                                                         *)

(* With no open transaction the working tables are the committed ones.       *)
IdleInv == phase = "idle" => wBalance = balance /\ wOrders = orders

(* The queues list distinct live orders of the pair, buys and sells.         *)
QueueInv ==
    phase = "matching" =>
        /\ IsInjective(buyQ) /\ IsInjective(sellQ)
        /\ Range(buyQ) \subseteq Book(wOrders, txPair, "buy")
        /\ Range(sellQ) \subseteq Book(wOrders, txPair, "sell")

(* The other pairs' books are uncrossed; so is this pair's, unless every     *)
(* live order of it is still in a queue.                                    *)
CoverInv ==
    phase = "matching" =>
        /\ \A p \in Pairs \ {txPair} : Uncrossed(wOrders, p)
        /\ \/ Uncrossed(wOrders, txPair)
           \/ /\ Book(wOrders, txPair, "buy") \subseteq Range(buyQ)
              /\ Book(wOrders, txPair, "sell") \subseteq Range(sellQ)

BookInv == IdleInv /\ QueueInv /\ CoverInv /\ NoCrossedBook

(* Whatever keeps terms and revives no order keeps a book uncrossed.         *)
LEMMA UncrossedMonotone ==
    ASSUME NEW os, NEW ns, NEW p, DOMAIN ns = DOMAIN os,
           \A i \in DOMAIN os : /\ SameTerms(os[i], ns[i])
                                /\ ns[i].status = "open" => os[i].status = "open",
           Uncrossed(os, p)
    PROVE  Uncrossed(ns, p)
  <1>1. \A side : Book(ns, p, side) \subseteq Book(os, p, side)
    BY DEF Book, SameTerms
  <1>2. \A i \in DOMAIN os : ns[i].price = os[i].price
    BY DEF SameTerms
  <1>3. QED
    BY <1>1, <1>2 DEF Uncrossed, Book

(* A fill keeps the terms of every order, deletes only queue heads, and      *)
(* takes exactly the deleted ones out of the queues.                        *)
LEMMA FillEffect ==
    ASSUME TypeOK, QueueInv, Matching
    PROVE  /\ phase = "matching" /\ phase' = phase /\ txPair' = txPair /\ orders' = orders
           /\ DOMAIN wOrders' = DOMAIN wOrders
           /\ BuyId # SellId
           /\ \A i \in DOMAIN wOrders :
                 /\ SameTerms(wOrders[i], wOrders'[i])
                 /\ wOrders'[i].status = "open" <=>
                       /\ wOrders[i].status = "open"
                       /\ i \in Range(buyQ) => i \in Range(buyQ')
                       /\ i \in Range(sellQ) => i \in Range(sellQ')
           /\ IsInjective(buyQ') /\ Range(buyQ') \subseteq Range(buyQ)
           /\ IsInjective(sellQ') /\ Range(sellQ') \subseteq Range(sellQ)
  <1>1. InLoop /\ phase = "matching"
    BY DEF Matching, FillSell, FillBuy, FillBoth, InLoop, AtHeads
  <1>2. phase' = phase /\ txPair' = txPair /\ orders' = orders
    BY DEF Matching, FillSell, FillBuy, FillBoth, tables
  <1>3. PICK x \in Row, y \in Row : FillResult(x, y)
    BY FillRows
  <1>4. /\ BuyId \in DOMAIN wOrders /\ SellId \in DOMAIN wOrders
        /\ BuyId \in Range(buyQ) /\ SellId \in Range(sellQ)
        /\ IsInjective(Tail(buyQ)) /\ Range(Tail(buyQ)) = Range(buyQ) \ {BuyId}
        /\ IsInjective(Tail(sellQ)) /\ Range(Tail(sellQ)) = Range(sellQ) \ {SellId}
    BY <1>1, TailOfQueue DEF TypeOK, QueueInv, InLoop, AtHeads, BuyId, SellId
  <1>5. /\ Buy.status = "open" /\ Buy.side = "buy"
        /\ Sell.status = "open" /\ Sell.side = "sell"
    BY <1>1, <1>4 DEF QueueInv, Book, Buy, Sell
  <1>6. BuyId # SellId
    BY <1>5 DEF Buy, Sell
  <1>7. Range(buyQ) \cap Range(sellQ) = {}
    BY <1>1 DEF QueueInv, Book
  <1>8. /\ DOMAIN wOrders' = DOMAIN wOrders
        /\ wOrders'[BuyId] = x /\ wOrders'[SellId] = y
        /\ \A i \in DOMAIN wOrders \ {BuyId, SellId} : wOrders'[i] = wOrders[i]
    BY <1>3, <1>4, <1>6, RewriteTwo DEF FillResult, TypeOK
  <1>9. /\ \/ x.status = "deleted" /\ Range(buyQ') = Range(buyQ) \ {BuyId}
           \/ x.status = "open" /\ Range(buyQ') = Range(buyQ)
        /\ \/ y.status = "deleted" /\ Range(sellQ') = Range(sellQ) \ {SellId}
           \/ y.status = "open" /\ Range(sellQ') = Range(sellQ)
        /\ IsInjective(buyQ') /\ IsInjective(sellQ')
    BY <1>1, <1>3, <1>4, <1>5 DEF FillResult, QueueInv
  <1>10. ASSUME NEW i \in DOMAIN wOrders
         PROVE  /\ SameTerms(wOrders[i], wOrders'[i])
                /\ wOrders'[i].status = "open" <=>
                       /\ wOrders[i].status = "open"
                       /\ i \in Range(buyQ) => i \in Range(buyQ')
                       /\ i \in Range(sellQ) => i \in Range(sellQ')
    <2>1. CASE i = BuyId
      BY <1>3, <1>4, <1>5, <1>7, <1>8, <1>9, <2>1 DEF FillResult, Buy
    <2>2. CASE i = SellId
      BY <1>3, <1>4, <1>5, <1>7, <1>8, <1>9, <2>2 DEF FillResult, Sell
    <2>3. CASE i \notin {BuyId, SellId}
      BY <1>8, <1>9, <2>3 DEF SameTerms
    <2>4. QED
      BY <2>1, <2>2, <2>3
  <1>11. QED
    BY <1>1, <1>2, <1>6, <1>8, <1>9, <1>10

(* A placement: the new order is the only one that can cross the book, and   *)
(* if it does, the queues start with every live order of the pair.           *)
LEMMA BookPlace ==
    ASSUME TypeOK, BookInv, NEW k \in Pubkeys, NEW p \in PairArgs, NEW side \in SideArgs,
           NEW have \in Amounts, NEW want \in Amounts,
           PlaceOrder(k, p, side, have, want)
    PROVE  BookInv'
  <1> DEFINE row == NewRow(k, p, side, have, want)
             id == Len(orders) + 1
  <1>1. /\ phase' = "matching" /\ txPair' = p /\ orders' = orders
        /\ wOrders' = Append(orders, row)
    BY DEF PlaceOrder, tables
  <1>2. /\ p \in Pairs /\ side \in Sides /\ want # 0 /\ (side = "buy" => have # 0)
    BY PlaceErrorNone DEF PlaceOrder
  <1>3. row \in Row
    BY <1>2, OrderStoreAssumption, NewRowType DEF TypeOK
  <1>4. row.pair = p
    BY DEF NewRow
  <1> HIDE DEF row
  <1>5. /\ wOrders' \in Seq(Row)
        /\ DOMAIN wOrders' = DOMAIN orders \cup {id}
        /\ wOrders'[id] = row
        /\ \A n \in DOMAIN orders : wOrders'[n] = orders[n]
    BY <1>1, <1>3, AppendRow DEF TypeOK
  <1> HIDE DEF id
  <1>6. ASSUME NEW q \in Pairs \ {p} PROVE Uncrossed(wOrders', q)
    <2>1. \A s : Book(wOrders', q, s) \subseteq Book(orders, q, s)
      BY <1>4, <1>5, <1>6 DEF Book
    <2>2. Uncrossed(orders, q)
      BY DEF BookInv, NoCrossedBook
    <2>3. Book(wOrders', q, "buy") \subseteq DOMAIN orders /\ Book(wOrders', q, "sell") \subseteq DOMAIN orders
      BY <2>1 DEF Book
    <2>4. QED
      BY <1>5, <2>1, <2>2, <2>3 DEF Uncrossed
  <1>7. CASE ShouldMatch(wOrders', p)
    <2>1. /\ buyQ' \in OrderedByTime(wOrders', Book(wOrders', p, "buy"))
          /\ sellQ' \in OrderedByTime(wOrders', Book(wOrders', p, "sell"))
      BY <1>7 DEF PlaceOrder
    <2>2. Book(wOrders', p, "buy") \subseteq DOMAIN wOrders' /\ Book(wOrders', p, "sell") \subseteq DOMAIN wOrders'
      BY DEF Book
    <2>3. /\ Range(buyQ') = Book(wOrders', p, "buy") /\ IsInjective(buyQ')
          /\ Range(sellQ') = Book(wOrders', p, "sell") /\ IsInjective(sellQ')
      BY <1>5, <2>1, <2>2, OrderedByTimeFacts
    <2>4. QED
      BY <1>1, <1>6, <2>3 DEF BookInv, IdleInv, QueueInv, CoverInv, NoCrossedBook
  <1>8. CASE ~ShouldMatch(wOrders', p)
    <2>1. buyQ' = <<>> /\ sellQ' = <<>>
      BY <1>8 DEF PlaceOrder
    <2>2. \A i \in DOMAIN wOrders' : wOrders'[i].price \in Int
      <3>1. wOrders' \in Seq(Row)
        BY <1>5
      <3>2. \A i \in DOMAIN wOrders' : wOrders'[i] \in Row
        BY <3>1
      <3>3. QED
        BY <3>2 DEF Row
    <2>3. Uncrossed(wOrders', p)
      BY <1>8, <2>2 DEF ShouldMatch, Uncrossed, Book
    <2>4. IsInjective(<<>>) /\ Range(<<>>) = {}
      BY DEF IsInjective, Range
    <2>5. QED
      BY <1>1, <1>6, <2>1, <2>3, <2>4 DEF BookInv, IdleInv, QueueInv, CoverInv, NoCrossedBook
  <1>9. QED
    BY <1>7, <1>8

(* A fill: whatever it deletes it also takes out of its queue.               *)
LEMMA BookFill ==
    ASSUME TypeOK, BookInv, Matching
    PROVE  BookInv'
  <1>1. /\ phase = "matching" /\ phase' = phase /\ txPair' = txPair /\ orders' = orders
        /\ DOMAIN wOrders' = DOMAIN wOrders
        /\ \A i \in DOMAIN wOrders :
              /\ SameTerms(wOrders[i], wOrders'[i])
              /\ wOrders'[i].status = "open" <=>
                    /\ wOrders[i].status = "open"
                    /\ i \in Range(buyQ) => i \in Range(buyQ')
                    /\ i \in Range(sellQ) => i \in Range(sellQ')
        /\ IsInjective(buyQ') /\ Range(buyQ') \subseteq Range(buyQ)
        /\ IsInjective(sellQ') /\ Range(sellQ') \subseteq Range(sellQ)
    BY FillEffect DEF BookInv
  <1>2. /\ Range(buyQ) \subseteq Book(wOrders, txPair, "buy")
        /\ Range(sellQ) \subseteq Book(wOrders, txPair, "sell")
    BY <1>1 DEF BookInv, QueueInv
  <1>3. \A p : Uncrossed(wOrders, p) => Uncrossed(wOrders', p)
    BY <1>1, UncrossedMonotone
  <1>4. Range(buyQ') \subseteq Book(wOrders', txPair, "buy")
    BY <1>1, <1>2 DEF Book, SameTerms
  <1>5. Range(sellQ') \subseteq Book(wOrders', txPair, "sell")
    BY <1>1, <1>2 DEF Book, SameTerms
  <1>6. Book(wOrders, txPair, "buy") \subseteq Range(buyQ) =>
           Book(wOrders', txPair, "buy") \subseteq Range(buyQ')
    BY <1>1 DEF Book, SameTerms
  <1>7. Book(wOrders, txPair, "sell") \subseteq Range(sellQ) =>
           Book(wOrders', txPair, "sell") \subseteq Range(sellQ')
    BY <1>1 DEF Book, SameTerms
  <1>8. IdleInv' /\ QueueInv'
    BY <1>1, <1>4, <1>5 DEF IdleInv, QueueInv
  <1>9. CoverInv'
    BY <1>1, <1>3, <1>6, <1>7 DEF BookInv, CoverInv
  <1>10. NoCrossedBook'
    BY <1>1 DEF BookInv, NoCrossedBook
  <1>11. QED
    BY <1>8, <1>9, <1>10 DEF BookInv

(* A commit: one side of the pair's book is empty, or nothing crossed.       *)
LEMMA BookCommit ==
    ASSUME TypeOK, BookInv, Commit
    PROVE  BookInv'
  <1>1. /\ phase = "matching" /\ phase' = "idle" /\ orders' = wOrders /\ wOrders' = wOrders
        /\ balance' = wBalance /\ wBalance' = wBalance
    BY DEF Commit, EndTx
  <1>2. Range(<<>>) = {}
    BY DEF Range
  <1>3. Uncrossed(wOrders, txPair)
    BY <1>1, <1>2 DEF Commit, BookInv, CoverInv, Uncrossed
  <1>4. \A p \in Pairs : Uncrossed(wOrders, p)
    BY <1>1, <1>3 DEF BookInv, CoverInv
  <1>5. NoCrossedBook'
    BY <1>1, <1>4 DEF NoCrossedBook
  <1>6. QED
    BY <1>1, <1>5 DEF BookInv, IdleInv, QueueInv, CoverInv

(* The book invariant is inductive.                                         *)
LEMMA BookStep == TypeOK /\ BookInv /\ [Next]_vars => BookInv'
  <1> SUFFICES ASSUME TypeOK, BookInv, [Next]_vars PROVE BookInv'
    OBVIOUS
  <1> USE DEF BookInv, IdleInv, QueueInv, CoverInv, NoCrossedBook
  <1>0. ASSUME NEW cs \in Configurations, Restart(cs) PROVE BookInv'
    BY <1>0 DEF Restart, txVars
  <1>1. ASSUME NEW k \in Pubkeys, RegisterUser(k) PROVE BookInv'
    BY <1>1 DEF RegisterUser, txVars
  <1>2. ASSUME NEW k \in Pubkeys, NEW a \in Assets, NEW n \in Amounts \ {0},
               AddToBalance(k, a, n) \/ Withdraw(k, a, n)
        PROVE  BookInv'
    BY <1>2 DEF AddToBalance, Withdraw
  <1>3. ASSUME NEW k \in Pubkeys, NEW p \in PairArgs, NEW side \in SideArgs,
               NEW have \in Amounts, NEW want \in Amounts,
               PlaceOrder(k, p, side, have, want)
        PROVE  BookInv'
    BY <1>3, BookPlace
  <1>4. CASE Matching
    BY <1>4, BookFill
  <1>5. CASE Commit
    BY <1>5, BookCommit
  <1>6. CASE Rollback \/ CreditFails
    BY <1>6 DEF Rollback, CreditFails, Undo, EndTx, tables
  <1>7. CASE Tick
    BY <1>7 DEF Tick, txVars
  <1>8. CASE UNCHANGED vars
    BY <1>8 DEF vars
  <1>9. QED
    BY <1>0, <1>1, <1>2, <1>3, <1>4, <1>5, <1>6, <1>7, <1>8 DEF Next, CancelOrder

(* The book invariant holds throughout.                                     *)
LEMMA BookInvariant == Spec => [](TypeOK /\ BookInv)
  <1>1. Init => TypeOK
    BY DEF Init, TypeOK
  <1>2. Init => BookInv
    BY DEF Init, BookInv, IdleInv, QueueInv, CoverInv, NoCrossedBook, Uncrossed, Book
  <1>3. QED
    BY <1>1, <1>2, TypeStep, BookStep, PTL DEF Spec

(* After any number of placements, partial fills and rollbacks, by any       *)
(* number of clients and over any coin list, no committed book has a live    *)
(* buy that reaches a live sell.                                            *)
THEOREM BooksUncrossed == Spec => []NoCrossedBook
  <1>1. TypeOK /\ BookInv => NoCrossedBook
    BY DEF BookInv
  <1>2. QED
    BY <1>1, BookInvariant, PTL

-----------------------------------------------------------------------------
(* What orders are paid.  The rows of the open transaction are compared with *)
(* the committed ones, because a commit or a rollback exchanges them.        *)
TermsInv ==
    /\ LimitHonoured
    /\ SellerNotOverpaid
    /\ DOMAIN orders \subseteq DOMAIN wOrders
    /\ \A i \in DOMAIN orders : Shrinks(orders[i], wOrders[i])

(* n is what one iteration of the loop may make of row o.                    *)
Filled(o, n) ==
    /\ SameTerms(o, n)
    /\ n.time >= o.time
    /\ n.have <= o.have /\ n.want <= o.want
    /\ n.status = "open" => o.status = "open"
    /\ n.got + n.want >= o.got + o.want
    /\ o.side = "sell" => n.got + n.want = o.got + o.want

(* Every iteration fills each row so, most of them trivially.                *)
LEMMA FillRowwise ==
    ASSUME TypeOK, QueueInv, Matching
    PROVE  /\ wOrders' \in Seq(Row)
           /\ DOMAIN wOrders' = DOMAIN wOrders
           /\ Len(wOrders') = Len(wOrders)
           /\ \A i \in DOMAIN wOrders : Filled(wOrders[i], wOrders'[i])
  <1>1. PICK x \in Row, y \in Row : FillResult(x, y)
    BY FillRows
  <1>2. InLoop /\ phase = "matching"
    BY DEF Matching, FillSell, FillBuy, FillBoth, InLoop, AtHeads
  <1>3. /\ BuyId \in DOMAIN wOrders /\ SellId \in DOMAIN wOrders
        /\ BuyId \in Range(buyQ) /\ SellId \in Range(sellQ)
    BY <1>2, TailOfQueue DEF TypeOK, QueueInv, InLoop, AtHeads, BuyId, SellId
  <1>4. /\ Buy.status = "open" /\ Buy.side = "buy" /\ Sell.status = "open"
    BY <1>2, <1>3 DEF QueueInv, Book, Buy, Sell
  <1>5. BuyId # SellId
    BY <1>2, <1>3 DEF QueueInv, Book
  <1>6. /\ wOrders' \in Seq(Row)
        /\ DOMAIN wOrders' = DOMAIN wOrders
        /\ Len(wOrders') = Len(wOrders)
        /\ wOrders'[BuyId] = x /\ wOrders'[SellId] = y
        /\ \A i \in DOMAIN wOrders \ {BuyId, SellId} : wOrders'[i] = wOrders[i]
    BY <1>1, <1>3, <1>5, RewriteTwo DEF FillResult, TypeOK
  <1>7. Filled(Buy, x) /\ Filled(Sell, y)
    <2>1. /\ x.got \in Nat /\ x.want \in Nat /\ y.got \in Nat /\ y.want \in Nat
          /\ Sell.got \in Nat /\ Sell.want \in Nat
      BY <1>2, LoopTypes DEF Row
    <2>2. QED
      BY <1>1, <1>4, <2>1 DEF Filled, FillResult, TimeGoesOn
  <1>8. ASSUME NEW i \in DOMAIN wOrders PROVE Filled(wOrders[i], wOrders'[i])
    <2>1. CASE i \in {BuyId, SellId}
      BY <1>6, <1>7, <2>1 DEF Buy, Sell
    <2>2. CASE i \notin {BuyId, SellId}
      <3>1. wOrders'[i] = wOrders[i]
        BY <1>6, <2>2
      <3>2. wOrders[i] \in Row
        BY DEF TypeOK
      <3>3. Filled(wOrders[i], wOrders[i])
        BY <3>2 DEF Filled, SameTerms, Row
      <3>4. QED
        BY <3>1, <3>3
    <2>3. QED
      BY <2>1, <2>2
  <1>9. QED
    BY <1>6, <1>8

(* A committed row is a row that has shrunk by nothing.                      *)
LEMMA ShrinksRefl ==
    ASSUME NEW r \in Row
    PROVE  Shrinks(r, r)
  BY DEF Shrinks, Row

(* A filled row has shrunk further.                                         *)
LEMMA ShrinksFilled ==
    ASSUME NEW r \in Row, NEW o \in Row, NEW n \in Row, Shrinks(r, o), Filled(o, n)
    PROVE  Shrinks(r, n)
  <1>1. \A f \in {"owner", "pair", "side", "price", "placed"} : n[f] = o[f]
    BY DEF Filled, SameTerms
  <1>2. n.have <= r.have /\ n.want <= r.want /\ n.time >= r.time
    BY DEF Filled, Shrinks, Row
  <1>3. QED
    BY <1>1, <1>2 DEF Filled, Shrinks

(* The payment invariant is inductive, given the shape of the queues.        *)
LEMMA TermsStep == TypeOK /\ BookInv /\ TermsInv /\ [Next]_vars => TermsInv'
  <1> SUFFICES ASSUME TypeOK, BookInv, TermsInv, [Next]_vars PROVE TermsInv'
    OBVIOUS
  <1>t. /\ \A i \in DOMAIN orders : orders[i] \in Row
        /\ \A i \in DOMAIN wOrders : wOrders[i] \in Row
    BY DEF TypeOK
  <1>1. ASSUME UNCHANGED <<orders, wOrders>> PROVE TermsInv'
    BY <1>1 DEF TermsInv, LimitHonoured, PaidInFull, SellerNotOverpaid, NotOverpaid
  <1>0. ASSUME NEW cs \in Configurations, Restart(cs) PROVE TermsInv'
    BY <1>1, <1>0 DEF Restart, txVars
  <1>2. ASSUME NEW k \in Pubkeys, RegisterUser(k) PROVE TermsInv'
    BY <1>1, <1>2 DEF RegisterUser, txVars
  <1>3. ASSUME NEW k \in Pubkeys, NEW a \in Assets, NEW n \in Amounts \ {0},
               AddToBalance(k, a, n) \/ Withdraw(k, a, n)
        PROVE  TermsInv'
    BY <1>1, <1>3 DEF AddToBalance, Withdraw
  <1>4. ASSUME NEW k \in Pubkeys, NEW p \in PairArgs, NEW side \in SideArgs,
               NEW have \in Amounts, NEW want \in Amounts,
               PlaceOrder(k, p, side, have, want)
        PROVE  TermsInv'
    <2> DEFINE row == NewRow(k, p, side, have, want)
    <2>1. /\ orders' = orders /\ wOrders' = Append(orders, row)
          /\ wOrders = orders
      BY <1>4 DEF PlaceOrder, tables, BookInv, IdleInv
    <2>2. /\ p \in Pairs /\ side \in Sides /\ want # 0 /\ (side = "buy" => have # 0)
      BY <1>4, PlaceErrorNone DEF PlaceOrder
    <2>3. row \in Row
      BY <2>2, OrderStoreAssumption, NewRowType DEF TypeOK
    <2>4. have \in Nat /\ want \in Nat
      BY OrderStoreAssumption
    <2>5. row.owner = k /\ row.got + row.want >= row.asked /\ row.got + row.want = row.asked
      BY <2>4 DEF NewRow
    <2> HIDE DEF row
    <2>6. /\ DOMAIN wOrders' = DOMAIN orders \cup {Len(orders) + 1}
          /\ wOrders'[Len(orders) + 1] = row
          /\ \A n \in DOMAIN orders : wOrders'[n] = orders[n]
      BY <2>1, <2>3, AppendRow DEF TypeOK
    <2>7. LimitHonoured'
      BY <2>1, <2>5, <2>6 DEF TermsInv, LimitHonoured, PaidInFull
    <2>8. SellerNotOverpaid'
      BY <2>1, <2>5, <2>6 DEF TermsInv, SellerNotOverpaid, NotOverpaid
    <2>9. \A i \in DOMAIN orders' : i \in DOMAIN wOrders' /\ Shrinks(orders'[i], wOrders'[i])
      BY <1>t, <2>1, <2>6, ShrinksRefl
    <2>10. QED
      BY <2>7, <2>8, <2>9 DEF TermsInv
  <1>5. CASE Matching
    <2>1. orders' = orders
      BY <1>5 DEF Matching, FillSell, FillBuy, FillBoth, tables
    <2>2. /\ wOrders' \in Seq(Row)
          /\ DOMAIN wOrders' = DOMAIN wOrders
          /\ \A i \in DOMAIN wOrders : Filled(wOrders[i], wOrders'[i])
      BY <1>5, FillRowwise DEF BookInv
    <2>3. \A i \in DOMAIN wOrders' : wOrders'[i] \in Row
      <3>1. wOrders' \in Seq(Row)
        BY <2>2
      <3>2. QED
        BY <3>1
    <2>4. \A i \in DOMAIN wOrders :
             /\ wOrders[i].got \in Nat /\ wOrders[i].want \in Nat /\ wOrders[i].asked \in Nat
             /\ wOrders'[i].got \in Nat /\ wOrders'[i].want \in Nat
      BY <1>t, <2>2, <2>3 DEF Row
    <2>5. LimitHonoured'
      <3>1. ASSUME NEW i \in DOMAIN wOrders
            PROVE  wOrders'[i].got + wOrders'[i].want >= wOrders'[i].asked
        <4>1. /\ wOrders'[i].got + wOrders'[i].want >= wOrders[i].got + wOrders[i].want
              /\ wOrders'[i].asked = wOrders[i].asked
          BY <2>2 DEF Filled, SameTerms
        <4>2. wOrders[i].got + wOrders[i].want >= wOrders[i].asked
          BY DEF TermsInv, LimitHonoured, PaidInFull
        <4>3. QED
          BY <2>4, <4>1, <4>2
      <3>2. QED
        BY <2>1, <2>2, <3>1 DEF TermsInv, LimitHonoured, PaidInFull
    <2>6. SellerNotOverpaid'
      <3>1. ASSUME NEW i \in DOMAIN wOrders, wOrders'[i].side = "sell"
            PROVE  wOrders'[i].got + wOrders'[i].want = wOrders'[i].asked
        <4>1. /\ wOrders[i].side = "sell" /\ wOrders'[i].asked = wOrders[i].asked
              /\ wOrders'[i].got + wOrders'[i].want = wOrders[i].got + wOrders[i].want
          BY <2>2, <3>1 DEF Filled, SameTerms
        <4>2. wOrders[i].got + wOrders[i].want = wOrders[i].asked
          BY <4>1 DEF TermsInv, SellerNotOverpaid, NotOverpaid
        <4>3. QED
          BY <4>1, <4>2
      <3>2. QED
        BY <2>1, <2>2, <3>1 DEF TermsInv, SellerNotOverpaid, NotOverpaid
    <2>7. \A i \in DOMAIN orders : i \in DOMAIN wOrders' /\ Shrinks(orders[i], wOrders'[i])
      BY <1>t, <2>2, <2>3, ShrinksFilled DEF TermsInv
    <2>8. QED
      BY <2>1, <2>5, <2>6, <2>7 DEF TermsInv
  <1>6. CASE Commit
    <2>1. orders' = wOrders /\ wOrders' = wOrders
      BY <1>6 DEF Commit
    <2>2. QED
      BY <1>t, <2>1, ShrinksRefl DEF TermsInv, LimitHonoured, PaidInFull, SellerNotOverpaid,
            NotOverpaid
  <1>7. CASE Rollback \/ CreditFails
    <2>1. orders' = orders /\ wOrders' = orders
      BY <1>7 DEF Rollback, CreditFails, Undo, tables
    <2>2. QED
      BY <1>t, <2>1, ShrinksRefl DEF TermsInv, LimitHonoured, PaidInFull,
            SellerNotOverpaid, NotOverpaid
  <1>8. CASE Tick
    BY <1>1, <1>8 DEF Tick, txVars
  <1>9. CASE UNCHANGED vars
    BY <1>1, <1>9 DEF vars
  <1>10. QED
    BY <1>0, <1>2, <1>3, <1>4, <1>5, <1>6, <1>7, <1>8, <1>9 DEF Next, CancelOrder

(* The payment invariant holds throughout.                                  *)
LEMMA TermsInvariant == Spec => [](TypeOK /\ BookInv /\ TermsInv)
  <1>1. Init => TermsInv
    BY DEF Init, TermsInv, LimitHonoured, PaidInFull, SellerNotOverpaid, NotOverpaid
  <1>2. QED
    BY <1>1, TermsStep, BookInvariant, PTL DEF Spec

(* Every order is paid at least the part of its AmountWant that it no longer *)
(* asks for, so an order that left the book was paid in full.               *)
THEOREM LimitsHonoured == Spec => []LimitHonoured
  <1>1. TermsInv => LimitHonoured
    BY DEF TermsInv
  <1>2. QED
    BY <1>1, TermsInvariant, PTL

(* No fill pays a seller more than the sell order asked for.                 *)
THEOREM SellersNotOverpaid == Spec => []SellerNotOverpaid
  <1>1. TermsInv => SellerNotOverpaid
    BY DEF TermsInv
  <1>2. QED
    BY <1>1, TermsInvariant, PTL

(* No step changes the terms of a committed order, enlarges its amounts,     *)
(* sets its time back or revives it, whether or not an UPDATE sets the time. *)
THEOREM CommittedOrdersShrink == Spec => OrdersOnlyShrink
  <1> DEFINE Shrunk == \A i \in DOMAIN orders : i \in DOMAIN orders' /\ Shrinks(orders[i], orders'[i])
  <1>1. TypeOK /\ TermsInv /\ [Next]_vars => [Shrunk]_vars
    <2> SUFFICES ASSUME TypeOK, TermsInv, Next PROVE Shrunk
      OBVIOUS
    <2>1. \A i \in DOMAIN orders : orders[i] \in Row
      BY DEF TypeOK
    <2>2. CASE orders' = orders
      BY <2>1, <2>2, ShrinksRefl
    <2>3. CASE Commit
      BY <2>3 DEF Commit, TermsInv
    <2>4. orders' = orders \/ Commit
      BY DEF Next, CancelOrder, vars, Restart, RegisterUser, AddToBalance, Withdraw, PlaceOrder, Matching, FillSell,
             FillBuy, FillBoth, Rollback, CreditFails, Undo, Tick, tables
    <2>5. QED
      BY <2>2, <2>3, <2>4
  <1>2. QED
    BY <1>1, TermsInvariant, PTL DEF Spec, OrdersOnlyShrink

-----------------------------------------------------------------------------
(* The end of a placement, but for fairness: the iterations of the loop are    *)
(* numbered by what is left in the queues.                                   *)

(* A step inside of a placement leaves it alone, ends it or removes an order  *)
(* from the queues.                                                          *)
QueuesShorten ==
    phase = "matching" =>
        \/ UNCHANGED txVars
        \/ phase' = "idle"
        \/ phase' = "matching" /\ Len(buyQ') + Len(sellQ') < Len(buyQ) + Len(sellQ)

(* RunMatchingCrossedPricesWithinTransaction ends after at most as many       *)
(* iterations as there are live orders of the pair: each shortens the queues   *)
(* or ends the placement.                                                    *)
THEOREM LoopRunsOut == Spec => [][QueuesShorten]_vars
  <1>1. TypeOK /\ [Next]_vars => [QueuesShorten]_vars
    <2> SUFFICES ASSUME TypeOK, Next, phase = "matching" PROVE QueuesShorten
      BY DEF QueuesShorten
    <2>1. CASE Matching
      <3>1. InLoop /\ phase' = phase
        BY <2>1 DEF Matching, FillSell, FillBuy, FillBoth
      <3>2. /\ Len(buyQ) \in Nat /\ Len(Tail(buyQ)) = Len(buyQ) - 1
            /\ Len(sellQ) \in Nat /\ Len(Tail(sellQ)) = Len(sellQ) - 1
        BY <3>1 DEF InLoop, AtHeads, TypeOK
      <3>3. \/ buyQ' = Tail(buyQ) /\ sellQ' = sellQ
            \/ buyQ' = buyQ /\ sellQ' = Tail(sellQ)
            \/ buyQ' = Tail(buyQ) /\ sellQ' = Tail(sellQ)
        BY <2>1 DEF Matching, FillSell, FillBuy, FillBoth
      <3>4. QED
        <4>1. PICK b \in Nat, s \in Nat :
                 /\ b = Len(buyQ) /\ Len(Tail(buyQ)) = b - 1
                 /\ s = Len(sellQ) /\ Len(Tail(sellQ)) = s - 1
          BY <3>2
        <4>2. \/ Len(buyQ') = b - 1 /\ Len(sellQ') = s
              \/ Len(buyQ') = b /\ Len(sellQ') = s - 1
              \/ Len(buyQ') = b - 1 /\ Len(sellQ') = s - 1
          BY <3>3, <4>1, Zenon
        <4>3. Len(buyQ') + Len(sellQ') < Len(buyQ) + Len(sellQ)
          BY <4>1, <4>2
        <4>4. QED
          BY <3>1, <4>3 DEF QueuesShorten
    <2>2. CASE Commit \/ Rollback \/ CreditFails
      BY <2>2 DEF Commit, Rollback, CreditFails, Undo, EndTx, QueuesShorten
    <2>3. CASE Tick
      BY <2>3 DEF Tick, QueuesShorten
    <2>4. QED
      BY <2>1, <2>2, <2>3 DEF Next, Restart, RegisterUser, AddToBalance, Withdraw, PlaceOrder, CancelOrder
  <1>2. QED
    BY <1>1, TypeCorrect, PTL DEF Spec

-----------------------------------------------------------------------------
(* Rows to credit.  The invariant speaks of the open transaction too, as a    *)
(* commit publishes what it sees.                                           *)
LEMMA RowsStep == TypeOK /\ BookInv /\ CreditsHaveRows /\ [Next]_vars => CreditsHaveRows'
  <1> SUFFICES ASSUME TypeOK, BookInv, CreditsHaveRows, [Next]_vars,
                      NEW j \in Pubkeys, NEW b \in Assets, b \notin rows'[j]
               PROVE  balance'[j][b] = 0 /\ wBalance'[j][b] = 0
    BY DEF CreditsHaveRows
  <1>t. /\ balance \in [Pubkeys -> [Assets -> Nat]] /\ wBalance \in [Pubkeys -> [Assets -> Nat]]
        /\ rows \in [Pubkeys -> SUBSET Assets]
    BY DEF TypeOK
  <1>1. ASSUME NEW k \in Pubkeys, RegisterUser(k) PROVE balance'[j][b] = 0 /\ wBalance'[j][b] = 0
    <2>1. b \notin rows[j]
      BY <1>1, <1>t DEF RegisterUser
    <2>2. QED
      BY <1>1, <2>1 DEF RegisterUser, txVars, CreditsHaveRows
  <1>2. ASSUME NEW k \in Pubkeys, NEW a \in Assets, NEW n \in Amounts \ {0},
               AddToBalance(k, a, n)
        PROVE  balance'[j][b] = 0 /\ wBalance'[j][b] = 0
    <2>1. rows' = rows /\ a \in rows[k] /\ balance' = AddTo(balance, k, a, n) /\ wBalance' = balance'
      BY <1>2 DEF AddToBalance, AddToBalanceError
    <2>2. balance'[j][b] = balance[j][b]
      BY <1>t, <2>1 DEF AddTo
    <2>3. QED
      BY <2>1, <2>2 DEF CreditsHaveRows
  <1>3. ASSUME NEW k \in Pubkeys, NEW a \in Assets, NEW n \in Amounts \ {0},
               Withdraw(k, a, n)
        PROVE  balance'[j][b] = 0 /\ wBalance'[j][b] = 0
    <2>1. rows' = rows /\ a \in rows[k] /\ balance' = TakeFrom(balance, k, a, n) /\ wBalance' = balance'
      BY <1>3 DEF Withdraw, WithdrawError
    <2>2. balance'[j][b] = balance[j][b]
      BY <1>t, <2>1 DEF TakeFrom
    <2>3. QED
      BY <2>1, <2>2 DEF CreditsHaveRows
  <1>4. ASSUME NEW k \in Pubkeys, NEW p \in PairArgs, NEW side \in SideArgs,
               NEW have \in Amounts, NEW want \in Amounts,
               PlaceOrder(k, p, side, have, want)
        PROVE  balance'[j][b] = 0 /\ wBalance'[j][b] = 0
    <2>1. /\ PayAsset(p, side) \in rows[k] /\ balance' = balance /\ rows' = rows
          /\ wBalance' = TakeFrom(balance, k, PayAsset(p, side), have)
      BY <1>4, PlaceErrorNone DEF PlaceOrder, tables
    <2>2. wBalance'[j][b] = balance[j][b]
      BY <1>t, <2>1 DEF TakeFrom
    <2>3. QED
      BY <2>1, <2>2 DEF CreditsHaveRows
  <1>5. CASE Matching
    <2>1. /\ rows' = rows /\ balance' = balance /\ InLoop
          /\ \E bought, paid : Settle(bought, paid)
      BY <1>5 DEF Matching, FillSell, FillBuy, FillBoth, tables
    <2>2. PICK bought, paid : Settle(bought, paid)
      BY <2>1
    <2>3. txPair.want \in rows[Buy.owner] /\ txPair.have \in rows[Sell.owner]
      BY <2>1 DEF InLoop, RowsToCredit
    <2>4. /\ ~(j = Buy.owner /\ b = txPair.want)
          /\ ~(j = Sell.owner /\ b = txPair.have)
      BY <2>1, <2>3
    <2>5. wBalance'[j][b] = wBalance[j][b]
      BY <1>t, <2>2, <2>4 DEF Settle, AddTo
    <2>6. QED
      BY <2>1, <2>5 DEF CreditsHaveRows
  <1>6. CASE UNCHANGED <<balance, wBalance, rows>>
    BY <1>6 DEF CreditsHaveRows
  <1>7. CASE Commit \/ Rollback \/ CreditFails
    BY <1>7 DEF Commit, Rollback, CreditFails, Undo, tables, CreditsHaveRows
  <1>8. \/ UNCHANGED <<balance, wBalance, rows>>
        \/ Matching \/ Commit \/ Rollback \/ CreditFails
        \/ \E k \in Pubkeys : RegisterUser(k)
        \/ \E k \in Pubkeys, a \in Assets, n \in Amounts \ {0} : AddToBalance(k, a, n) \/ Withdraw(k, a, n)
        \/ \E k \in Pubkeys, p \in PairArgs, side \in SideArgs, have \in Amounts, want \in Amounts :
              PlaceOrder(k, p, side, have, want)
    BY DEF Next, Restart, CancelOrder, Tick, vars, txVars
  <1>9. QED
    BY <1>1, <1>2, <1>3, <1>4, <1>5, <1>6, <1>7, <1>8

(* Nothing is ever credited where there is no balance row to keep it, although *)
(* PlaceOrder only looks for the row of the coin an order pays with.          *)
THEOREM CreditsAreKept == Spec => []CreditsHaveRows
  <1>1. Init => CreditsHaveRows
    BY DEF Init, CreditsHaveRows
  <1>2. QED
    BY <1>1, RowsStep, BookInvariant, PTL DEF Spec

-----------------------------------------------------------------------------
(* Time priority.  The loop only looks at the queue heads, so the invariant  *)
(* says of the whole queues that they are in time order and that, while the  *)
(* loop still runs, no live order of the pair is missing from them.          *)

(* The times the SELECTs read.  They are not what the open transaction sees:  *)
(* a partial fill may set the column of a row that stays in its queue.        *)
ReadTimes == [i \in DOMAIN wOrders |-> ReadTime(i)]

InTimeOrder(t, q) ==
    \A i, j \in DOMAIN q : i < j => t[q[i]] <= t[q[j]]

TimeInv ==
    phase = "matching" =>
        /\ InTimeOrder(ReadTimes, buyQ) /\ InTimeOrder(ReadTimes, sellQ)
        /\ buyQ # <<>> /\ sellQ # <<>> =>
              /\ Book(wOrders, txPair, "buy") \subseteq Range(buyQ)
              /\ Book(wOrders, txPair, "sell") \subseteq Range(sellQ)

(* Dropping the head does not disturb the order of a queue.                  *)
LEMMA OrderKept ==
    ASSUME NEW t, NEW D, NEW q \in Seq(D), q # <<>>, NEW r \in {q, Tail(q)}, InTimeOrder(t, q)
    PROVE  InTimeOrder(t, r)
  <1>1. CASE r = q
    BY <1>1
  <1>2. CASE r = Tail(q)
    <2>1. /\ Len(q) \in Nat \ {0}
          /\ DOMAIN q = 1..Len(q)
          /\ DOMAIN r = 1..(Len(q) - 1)
          /\ \A i \in 1..(Len(q) - 1) : r[i] = q[i + 1]
      BY <1>2
    <2>2. ASSUME NEW i \in DOMAIN r, NEW j \in DOMAIN r, i < j
          PROVE  t[r[i]] <= t[r[j]]
      <3>1. r[i] = q[i + 1] /\ r[j] = q[j + 1]
        BY <2>1
      <3>2. i + 1 \in DOMAIN q /\ j + 1 \in DOMAIN q /\ i + 1 < j + 1
        <4>1. i \in 1..(Len(q) - 1) /\ j \in 1..(Len(q) - 1)
          BY <2>1
        <4>2. i \in Int /\ j \in Int /\ i + 1 \in 1..Len(q) /\ j + 1 \in 1..Len(q)
          BY <2>1, <4>1
        <4>3. QED
          BY <2>1, <2>2, <4>2
      <3>3. t[q[i + 1]] <= t[q[j + 1]]
        BY <3>2 DEF InTimeOrder
      <3>4. QED
        BY <3>1, <3>3
    <2>3. QED
      BY <2>2 DEF InTimeOrder
  <1>3. QED
    BY <1>1, <1>2

(* The times read are times.                                                *)
LEMMA ReadTimesType ==
    ASSUME TypeOK
    PROVE  ReadTimes \in [DOMAIN wOrders -> Nat]
  <1>1. /\ \A i \in DOMAIN orders : orders[i] \in Row
        /\ \A i \in DOMAIN wOrders : wOrders[i] \in Row
    BY DEF TypeOK
  <1>2. \A i \in DOMAIN wOrders : ReadTime(i) \in Nat
    BY <1>1 DEF ReadTime, Row
  <1>3. QED
    BY <1>2 DEF ReadTimes

(* The queues a placement selects are in time order and miss no live order.  *)
LEMMA TimePlace ==
    ASSUME NEW k \in Pubkeys, NEW p \in PairArgs, NEW side \in SideArgs,
           NEW have \in Amounts, NEW want \in Amounts,
           TypeOK, TypeOK', PlaceOrder(k, p, side, have, want)
    PROVE  TimeInv'
  <1> DEFINE row == NewRow(k, p, side, have, want)
  <1>1. phase' = "matching" /\ txPair' = p /\ wOrders' \in Seq(Row)
    BY DEF PlaceOrder, TypeOK
  <1>2. CASE ShouldMatch(wOrders', p)
    <2>1. /\ buyQ' \in OrderedByTime(wOrders', Book(wOrders', p, "buy"))
          /\ sellQ' \in OrderedByTime(wOrders', Book(wOrders', p, "sell"))
      BY <1>2 DEF PlaceOrder
    <2>2. \A i \in DOMAIN wOrders' : ReadTimes'[i] = wOrders'[i].time
      <3>1. orders' = orders /\ wOrders' = Append(orders, row) /\ orders \in Seq(Row)
        BY DEF PlaceOrder, tables, TypeOK
      <3>2. row.placed = row.time
        BY DEF NewRow
      <3> HIDE DEF row
      <3>3. /\ DOMAIN wOrders' = DOMAIN orders \cup {Len(orders) + 1}
            /\ Len(orders) + 1 \notin DOMAIN orders
            /\ wOrders'[Len(orders) + 1] = row
            /\ \A i \in DOMAIN orders : wOrders'[i] = orders[i]
        BY <3>1
      <3>4. QED
        BY <3>1, <3>2, <3>3 DEF ReadTimes, ReadTime
    <2>3. Book(wOrders', p, "buy") \subseteq DOMAIN wOrders' /\ Book(wOrders', p, "sell") \subseteq DOMAIN wOrders'
      BY DEF Book
    <2>4. Range(buyQ') = Book(wOrders', p, "buy") /\ Range(sellQ') = Book(wOrders', p, "sell")
      BY <1>1, <2>1, <2>3, OrderedByTimeFacts
    <2>5. /\ \A i \in DOMAIN buyQ' : buyQ'[i] \in DOMAIN wOrders'
          /\ \A i \in DOMAIN sellQ' : sellQ'[i] \in DOMAIN wOrders'
      BY <2>3, <2>4 DEF Range
    <2>6. InTimeOrder(ReadTimes', buyQ') /\ InTimeOrder(ReadTimes', sellQ')
      BY <2>1, <2>2, <2>5 DEF OrderedByTime, InTimeOrder
    <2>7. QED
      BY <1>1, <2>4, <2>6 DEF TimeInv
  <1>3. CASE ~ShouldMatch(wOrders', p)
    BY <1>3 DEF PlaceOrder, TimeInv, InTimeOrder
  <1>4. QED
    BY <1>2, <1>3

(* A fill leaves the queues in order and takes out only what it deletes.     *)
LEMMA TimeFill ==
    ASSUME TypeOK, QueueInv, TimeInv, Matching
    PROVE  TimeInv'
  <1>1. /\ phase = "matching" /\ phase' = phase /\ txPair' = txPair
        /\ DOMAIN wOrders' = DOMAIN wOrders
        /\ \A i \in DOMAIN wOrders :
              /\ SameTerms(wOrders[i], wOrders'[i])
              /\ wOrders'[i].status = "open" <=>
                    /\ wOrders[i].status = "open"
                    /\ i \in Range(buyQ) => i \in Range(buyQ')
                    /\ i \in Range(sellQ) => i \in Range(sellQ')
    BY FillEffect
  <1>t. ReadTimes' = ReadTimes
    <2>1. orders' = orders
      BY DEF Matching, FillSell, FillBuy, FillBoth, tables
    <2>2. \A i \in DOMAIN wOrders : wOrders'[i].placed = wOrders[i].placed
      BY <1>1 DEF SameTerms
    <2>3. QED
      BY <1>1, <2>1, <2>2 DEF ReadTimes, ReadTime
  <1>2. /\ buyQ # <<>> /\ sellQ # <<>>
        /\ buyQ' \in {buyQ, Tail(buyQ)} /\ sellQ' \in {sellQ, Tail(sellQ)}
    BY DEF Matching, FillSell, FillBuy, FillBoth, InLoop, AtHeads
  <1>3. /\ Book(wOrders, txPair, "buy") \subseteq Range(buyQ)
        /\ Book(wOrders, txPair, "sell") \subseteq Range(sellQ)
        /\ InTimeOrder(ReadTimes, buyQ) /\ InTimeOrder(ReadTimes, sellQ)
    BY <1>1, <1>2 DEF TimeInv
  <1>4. Book(wOrders', txPair, "buy") \subseteq Range(buyQ')
    BY <1>1, <1>3 DEF Book, SameTerms
  <1>5. Book(wOrders', txPair, "sell") \subseteq Range(sellQ')
    BY <1>1, <1>3 DEF Book, SameTerms
  <1>6. InTimeOrder(ReadTimes, buyQ')
    BY <1>2, <1>3, OrderKept DEF TypeOK
  <1>7. InTimeOrder(ReadTimes, sellQ')
    BY <1>2, <1>3, OrderKept DEF TypeOK
  <1>8. QED
    BY <1>1, <1>t, <1>4, <1>5, <1>6, <1>7 DEF TimeInv

(* The queue order is inductive.                                            *)
LEMMA TimeStep == TypeOK /\ TypeOK' /\ BookInv /\ TimeInv /\ [Next]_vars => TimeInv'
  <1> SUFFICES ASSUME TypeOK, TypeOK', BookInv, TimeInv, [Next]_vars PROVE TimeInv'
    OBVIOUS
  <1>1. ASSUME NEW k \in Pubkeys, NEW p \in PairArgs, NEW side \in SideArgs,
               NEW have \in Amounts, NEW want \in Amounts,
               PlaceOrder(k, p, side, have, want)
        PROVE  TimeInv'
    BY <1>1, TimePlace
  <1>2. CASE Matching
    BY <1>2, TimeFill DEF BookInv
  <1>3. CASE phase' # "matching"
    BY <1>3 DEF TimeInv
  <1>4. CASE UNCHANGED <<orders, txVars>>
    BY <1>4 DEF TimeInv, txVars, ReadTimes, ReadTime
  <1>5. \/ phase' # "matching" \/ UNCHANGED <<orders, txVars>> \/ Matching
        \/ \E k \in Pubkeys, p \in PairArgs, side \in SideArgs, have \in Amounts, want \in Amounts :
              PlaceOrder(k, p, side, have, want)
    BY DEF Next, CancelOrder, Restart, RegisterUser, AddToBalance, Withdraw, Commit, Rollback, CreditFails, Undo, EndTx, Tick, vars, txVars
  <1>6. QED
    BY <1>1, <1>2, <1>3, <1>4, <1>5

(* No live order of its pair and side is earlier than the head of a queue.   *)
LEMMA HeadIsEarliest ==
    ASSUME NEW D, NEW t \in [D -> Nat], NEW q \in Seq(D), q # <<>>, InTimeOrder(t, q),
           NEW i \in Range(q)
    PROVE  ~(t[i] < t[Head(q)])
  <1>1. PICK n \in DOMAIN q : i = q[n]
    BY DEF Range
  <1>2. n \in 1..Len(q) /\ 1 \in DOMAIN q /\ Head(q) = q[1]
    BY <1>1
  <1>3. q[1] \in D /\ q[n] \in D
    BY <1>1, <1>2
  <1>4. t[q[1]] \in Nat /\ t[q[n]] \in Nat
    BY <1>3
  <1>5. CASE n = 1
    <2>1. t[i] = t[Head(q)] /\ t[i] \in Nat
      BY <1>1, <1>2, <1>4, <1>5
    <2>2. QED
      BY <2>1
  <1>6. CASE 1 < n
    BY <1>1, <1>2, <1>4, <1>6 DEF InTimeOrder
  <1>7. QED
    BY <1>2, <1>5, <1>6

(* The matching loop serves the orders of a pair and side strictly by the     *)
(* timestamps its SELECTs read: no fill changes an order while one read with  *)
(* an earlier time is live, whether or not an UPDATE sets the column.        *)
THEOREM EarliestServedFirst == Spec => TimePriority
  <1> DEFINE Served == phase' = "matching" =>
                 \A i, j \in DOMAIN wOrders : Earlier(i, j) => wOrders'[j] = wOrders[j]
  <1>1. TypeOK /\ BookInv /\ TimeInv /\ [Next]_vars => [Served]_vars
    <2> SUFFICES ASSUME TypeOK, BookInv, TimeInv, Next, phase' = "matching",
                        NEW i \in DOMAIN wOrders, NEW j \in DOMAIN wOrders, Earlier(i, j)
                 PROVE  wOrders'[j] = wOrders[j]
      OBVIOUS
    <2>1. ASSUME NEW k \in Pubkeys, NEW p \in PairArgs, NEW side \in SideArgs,
                 NEW have \in Amounts, NEW want \in Amounts,
                 PlaceOrder(k, p, side, have, want)
          PROVE  wOrders'[j] = wOrders[j]
      <3>1. wOrders = orders /\ wOrders' = Append(orders, NewRow(k, p, side, have, want))
        BY <2>1 DEF PlaceOrder, BookInv, IdleInv
      <3>2. QED
        BY <3>1 DEF TypeOK
    <2>2. CASE Matching
      <3>1. PICK x \in Row, y \in Row : FillResult(x, y)
        BY <2>2, FillRows
      <3>2. InLoop
        BY <2>2 DEF Matching, FillSell, FillBuy, FillBoth
      <3>3. /\ phase = "matching" /\ buyQ # <<>> /\ sellQ # <<>>
            /\ wOrders \in Seq(Row) /\ buyQ \in Seq(DOMAIN wOrders) /\ sellQ \in Seq(DOMAIN wOrders)
        BY <3>2 DEF InLoop, AtHeads, TypeOK
      <3>4. /\ Book(wOrders, txPair, "buy") \subseteq Range(buyQ)
            /\ Book(wOrders, txPair, "sell") \subseteq Range(sellQ)
            /\ InTimeOrder(ReadTimes, buyQ) /\ InTimeOrder(ReadTimes, sellQ)
        BY <3>3 DEF TimeInv
      <3>5. BuyId \in Book(wOrders, txPair, "buy") /\ SellId \in Book(wOrders, txPair, "sell")
        BY <3>3, TailOfQueue DEF BookInv, QueueInv, BuyId, SellId
      <3>r. /\ ReadTimes \in [DOMAIN wOrders -> Nat]
            /\ ReadTimes[i] < ReadTimes[j]
        BY ReadTimesType DEF Earlier, ReadTimes
      <3>6. j # BuyId
        <4> SUFFICES ASSUME j = BuyId PROVE FALSE
          OBVIOUS
        <4>1. i \in Range(buyQ)
          BY <3>4, <3>5 DEF Earlier, Book
        <4>2. QED
          BY <3>3, <3>4, <3>r, <4>1, HeadIsEarliest DEF BuyId
      <3>7. j # SellId
        <4> SUFFICES ASSUME j = SellId PROVE FALSE
          OBVIOUS
        <4>1. i \in Range(sellQ)
          BY <3>4, <3>5 DEF Earlier, Book
        <4>2. QED
          BY <3>3, <3>4, <3>r, <4>1, HeadIsEarliest DEF SellId
      <3>8. QED
        BY <3>1, <3>3, <3>6, <3>7 DEF FillResult
    <2>3. CASE UNCHANGED wOrders
      BY <2>3
    <2>4. \/ UNCHANGED wOrders \/ Matching
          \/ \E k \in Pubkeys, p \in PairArgs, side \in SideArgs, have \in Amounts, want \in Amounts :
                PlaceOrder(k, p, side, have, want)
      BY DEF Next, CancelOrder, Restart, RegisterUser, AddToBalance, Withdraw, Commit, Rollback, CreditFails, Undo, EndTx, Tick, vars, txVars
    <2>5. QED
      BY <2>1, <2>2, <2>3, <2>4
  <1>2. Init => TimeInv
    BY DEF Init, TimeInv
  <1>3. Spec => []TimeInv
    BY <1>2, TimeStep, BookInvariant, PTL DEF Spec
  <1>4. QED
    BY <1>1, <1>3, BookInvariant, PTL DEF Spec, TimePriority

-----------------------------------------------------------------------------
(* Who pays for a placement.                                                *)

(* A credit lowers no balance.                                              *)
LEMMA AddToGrows ==
    ASSUME NEW bal \in [Pubkeys -> [Assets -> Nat]],
           NEW k \in Pubkeys, NEW a \in Assets, NEW n \in Nat
    PROVE  \A j \in Pubkeys, b \in Assets : AddTo(bal, k, a, n)[j][b] >= bal[j][b]
  BY DEF AddTo

(* Settling a fill lowers no balance of the open transaction.               *)
LEMMA SettleGrows ==
    ASSUME TypeOK, Matching
    PROVE  \A j \in Pubkeys, b \in Assets : wBalance'[j][b] >= wBalance[j][b]
  <1>1. InLoop /\ txPair \in Pairs
    BY DEF Matching, FillSell, FillBuy, FillBoth, InLoop, AtHeads, TypeOK
  <1>2. Buy.owner \in Pubkeys /\ Sell.owner \in Pubkeys
    BY <1>1, LoopTypes DEF Row
  <1>3. txPair.want \in Assets /\ txPair.have \in Assets
    BY <1>1, PairFacts
  <1>4. PICK bought \in Nat, paid \in Nat : Settle(bought, paid)
    BY <1>1, LoopTypes DEF Matching, FillSell, FillBuy, FillBoth
  <1> DEFINE mid == AddTo(wBalance, Buy.owner, txPair.want, bought)
             new == AddTo(mid, Sell.owner, txPair.have, paid)
  <1>5. mid \in [Pubkeys -> [Assets -> Nat]]
    BY <1>2, <1>3, AddToType DEF TypeOK
  <1>6. \A j \in Pubkeys, b \in Assets : mid[j][b] >= wBalance[j][b]
    BY <1>2, <1>3, AddToGrows DEF TypeOK
  <1>7. wBalance' = new
    BY <1>4 DEF Settle
  <1> HIDE DEF mid
  <1>8. new \in [Pubkeys -> [Assets -> Nat]]
    BY <1>2, <1>3, <1>5, AddToType
  <1>9. \A j \in Pubkeys, b \in Assets : new[j][b] >= mid[j][b]
    BY <1>2, <1>3, <1>5, AddToGrows
  <1> HIDE DEF new
  <1>10. ASSUME NEW j \in Pubkeys, NEW b \in Assets PROVE new[j][b] >= wBalance[j][b]
    <2>1. new[j][b] \in Nat /\ mid[j][b] \in Nat /\ wBalance[j][b] \in Nat
      BY <1>5, <1>8 DEF TypeOK
    <2>2. QED
      BY <1>6, <1>9, <2>1
  <1>11. QED
    BY <1>7, <1>10

(* A placement and every fill keep the books of who paid.                   *)
LEMMA PlacerStep == TypeOK /\ BookInv /\ OnlyPlacerPays /\ [Next]_vars => OnlyPlacerPays'
  <1> SUFFICES ASSUME TypeOK, BookInv, OnlyPlacerPays, [Next]_vars, phase' = "matching",
                      NEW j \in Pubkeys, NEW b \in Assets
               PROVE  wBalance'[j][b] + Cost(j, b)' >= balance'[j][b]
    BY DEF OnlyPlacerPays
  <1>1. ASSUME NEW k \in Pubkeys, NEW p \in PairArgs, NEW side \in SideArgs,
               NEW have \in Amounts, NEW want \in Amounts,
               PlaceOrder(k, p, side, have, want)
        PROVE  wBalance'[j][b] + Cost(j, b)' >= balance'[j][b]
    <2> DEFINE row == NewRow(k, p, side, have, want)
    <2>1. /\ p \in Pairs /\ side \in Sides /\ want # 0 /\ (side = "buy" => have # 0)
      BY <1>1, PlaceErrorNone DEF PlaceOrder
    <2>2. have \in Nat
      BY OrderStoreAssumption
    <2>3. row \in Row /\ row.owner = k /\ row.pair = p /\ row.side = side /\ row.offered = have
      BY <2>1, OrderStoreAssumption, NewRowType DEF TypeOK, NewRow
    <2>4. wOrders' = Append(orders, row) /\ balance' = balance
      BY <1>1 DEF PlaceOrder, tables
    <2> HIDE DEF row
    <2>5. wOrders'[Len(wOrders')] = row
      BY <2>3, <2>4, AppendRow DEF TypeOK
    <2>6. Cost(j, b)' = IF k = j /\ PayAsset(p, side) = b THEN have ELSE 0
      BY <2>3, <2>5 DEF Cost
    <2>7. wBalance' = TakeFrom(balance, k, PayAsset(p, side), have) /\ PayAsset(p, side) \in Assets
      BY <1>1, <2>1, PayAssetType DEF PlaceOrder
    <2>8. wBalance'[j][b] = IF k = j /\ PayAsset(p, side) = b THEN balance[j][b] - have ELSE balance[j][b]
      BY <2>2, <2>7 DEF TakeFrom, TypeOK
    <2>9. balance[j][b] \in Nat
      BY DEF TypeOK
    <2>10. QED
      BY <2>2, <2>4, <2>6, <2>8, <2>9
  <1>2. CASE Matching
    <2>1. phase = "matching" /\ balance' = balance
      BY <1>2 DEF Matching, FillSell, FillBuy, FillBoth, InLoop, AtHeads, tables
    <2>2. /\ Len(wOrders') = Len(wOrders)
          /\ \A i \in DOMAIN wOrders : Filled(wOrders[i], wOrders'[i])
      BY <1>2, FillRowwise DEF BookInv
    <2>3. BuyId \in DOMAIN wOrders
      BY <1>2, LoopTypes DEF Matching, FillSell, FillBuy, FillBoth
    <2>4. Len(wOrders) \in DOMAIN wOrders
      BY <2>3 DEF TypeOK
    <2>5. SameTerms(wOrders[Len(wOrders)], wOrders'[Len(wOrders)])
      BY <2>2, <2>4 DEF Filled
    <2>6. Cost(j, b)' = Cost(j, b)
      BY <2>2, <2>5 DEF Cost, SameTerms
    <2>7. Cost(j, b) \in Nat
      <3>1. wOrders[Len(wOrders)] \in Row
        BY <2>4 DEF TypeOK
      <3>2. QED
        BY <3>1 DEF Cost, Row
    <2>8. wBalance'[j][b] >= wBalance[j][b]
      BY <1>2, SettleGrows
    <2>9. wBalance'[j][b] \in Nat /\ wBalance[j][b] \in Nat /\ balance[j][b] \in Nat
      <3>1. TypeOK'
        BY TypeStep
      <3>2. QED
        BY <3>1 DEF TypeOK
    <2>10. wBalance[j][b] + Cost(j, b) >= balance[j][b]
      BY <2>1 DEF OnlyPlacerPays
    <2>11. QED
      BY <2>1, <2>6, <2>7, <2>8, <2>9, <2>10
  <1>3. CASE Tick \/ UNCHANGED vars
    <2>1. phase' = phase /\ wOrders' = wOrders /\ wBalance' = wBalance /\ balance' = balance
      BY <1>3 DEF Tick, txVars, vars
    <2>2. QED
      BY <2>1 DEF OnlyPlacerPays, Cost
  <1>4. ASSUME phase' = "idle" \/ (phase = "idle" /\ phase' = phase) PROVE FALSE
    BY <1>4
  <1>5. QED
    BY <1>1, <1>2, <1>3, <1>4 DEF Next, CancelOrder, Restart, RegisterUser, AddToBalance, Withdraw, Commit, Rollback, CreditFails, Undo,
          EndTx, txVars

(* Throughout a placement nobody but the client who placed the order is      *)
(* worse off than before it, and that client by at most the AmountHave named. *)
THEOREM OnlyThePlacerPays == Spec => []OnlyPlacerPays
  <1>1. Init => OnlyPlacerPays
    BY DEF Init, OnlyPlacerPays
  <1>2. QED
    BY <1>1, PlacerStep, BookInvariant, PTL DEF Spec

-----------------------------------------------------------------------------
(***************************************************************************)
(* The proof that placing, matching, rolling back and withdrawing neither  *)
(* lose nor make units of a coin that only ever pays for others, and the   *)
(* proof that OrderStore implements Exchange.                              *)
(*                                                                         *)
(* Both are about totals of tables, which are cardinalities of sets of units.*)
(* For the second one PlacementInv says what the open transaction started  *)
(* from, and SettlementInv that the orders, the totals and the balances it *)
(* sees are what Exchange allows of a placement, apart from crossed orders:*)
(* each iteration of the loop keeps this, and at the commit nothing is     *)
(* crossed (CoverInv).                                                     *)
(***************************************************************************)

-----------------------------------------------------------------------------
(* The total of a table of amounts.                                         *)

(* The units of a finite table are finitely many.                           *)
LEMMA UnitsFinite ==
    ASSUME NEW D, IsFiniteSet(D), NEW f \in [D -> Nat]
    PROVE  IsFiniteSet(Units(f)) /\ Total(f) \in Nat
  <1> DEFINE Slices == {{x} \X (1..f[x]) : x \in D}
             slice == [x \in D |-> {x} \X (1..f[x])]
  <1>1. slice \in Surjection(D, Slices)
    BY DEF Surjection
  <1>2. IsFiniteSet(Slices)
    BY <1>1, FS_Surjection
  <1>3. ASSUME NEW x \in D PROVE IsFiniteSet({x} \X (1..f[x]))
    <2>1. IsFiniteSet({x})
      BY FS_Singleton
    <2>2. f[x] \in Int /\ 1 \in Int
      OBVIOUS
    <2>3. IsFiniteSet(1..f[x])
      BY <2>2, FS_Interval
    <2>4. QED
      BY <2>1, <2>3, FS_Product
  <1>4. IsFiniteSet(UNION Slices)
    BY <1>2, <1>3, FS_UNION
  <1>5. Units(f) = UNION Slices
    BY DEF Units
  <1>6. QED
    BY <1>4, <1>5, FS_CardinalityType DEF Total

(* The total is an entry plus the total of the other entries.               *)
LEMMA TotalSplit ==
    ASSUME NEW D, IsFiniteSet(D), NEW f \in [D -> Nat], NEW a \in D
    PROVE  /\ Total(f) = Total([x \in D \ {a} |-> f[x]]) + f[a]
           /\ Total([x \in D \ {a} |-> f[x]]) \in Nat
  <1> DEFINE g == [x \in D \ {a} |-> f[x]]
             A == {a} \X (1..f[a])
  <1>1. IsFiniteSet(D \ {a})
    BY FS_RemoveElement
  <1>2. g \in [D \ {a} -> Nat]
    OBVIOUS
  <1>3. IsFiniteSet(Units(g)) /\ Total(g) \in Nat
    BY <1>1, <1>2, UnitsFinite
  <1>4. IsFiniteSet(A) /\ Cardinality(A) = f[a]
    <2>1. f[a] \in Nat /\ f[a] \in Int /\ 1 \in Int
      OBVIOUS
    <2>2. IsFiniteSet(1..f[a]) /\ Cardinality(1..f[a]) = f[a]
      BY <2>1, FS_Interval
    <2>3. IsFiniteSet({a}) /\ Cardinality({a}) = 1
      BY FS_Singleton
    <2>4. /\ IsFiniteSet({a} \X (1..f[a]))
          /\ Cardinality({a} \X (1..f[a])) = Cardinality({a}) * Cardinality(1..f[a])
      BY <2>2, <2>3, FS_Product
    <2>5. Cardinality({a}) * Cardinality(1..f[a]) = f[a]
      BY <2>1, <2>2, <2>3
    <2>6. QED
      BY <2>4, <2>5
  <1>5. Units(f) = Units(g) \cup A
    <2>1. Units(f) = UNION {{x} \X (1..f[x]) : x \in D}
      BY DEF Units
    <2>2. Units(g) = UNION {{x} \X (1..f[x]) : x \in D \ {a}}
      BY DEF Units
    <2>3. QED
      BY <2>1, <2>2
  <1>6. Units(g) \cap A = {}
    BY DEF Units
  <1>7. Cardinality(Units(g) \cap A) = 0
    BY <1>6, FS_EmptySet
  <1>8. Cardinality(Units(f)) = Cardinality(Units(g)) + Cardinality(A) - Cardinality(Units(g) \cap A)
    BY <1>3, <1>4, <1>5, FS_Union
  <1>9. f[a] \in Nat
    OBVIOUS
  <1> HIDE DEF g, A
  <1>10. Total(f) = Total(g) + f[a]
    BY <1>3, <1>4, <1>7, <1>8, <1>9 DEF Total
  <1>11. QED
    BY <1>3, <1>10 DEF g

(* g is the table f with another amount at a.                                *)
OneChange(D, f, g, a) ==
    /\ IsFiniteSet(D)
    /\ f \in [D -> Nat] /\ g \in [D -> Nat]
    /\ a \in D
    /\ \A x \in D \ {a} : g[x] = f[x]

(* Two tables that differ at one key.                                       *)
LEMMA TotalChange ==
    ASSUME NEW D, NEW f, NEW g, NEW a, OneChange(D, f, g, a)
    PROVE  Total(g) + f[a] = Total(f) + g[a]
  <1> DEFINE r == [x \in D \ {a} |-> f[x]]
  <1>1. Total(f) = Total(r) + f[a] /\ Total(r) \in Nat
    BY TotalSplit DEF OneChange
  <1>2. Total(g) = Total([x \in D \ {a} |-> g[x]]) + g[a]
    BY TotalSplit DEF OneChange
  <1>3. [x \in D \ {a} |-> g[x]] = r
    BY DEF OneChange
  <1>4. f[a] \in Nat /\ g[a] \in Nat
    BY DEF OneChange
  <1> HIDE DEF r
  <1>5. QED
    BY <1>1, <1>2, <1>3, <1>4

(* A table of zeros has no units.                                           *)
LEMMA TotalZero ==
    ASSUME NEW D
    PROVE  Total([x \in D |-> 0]) = 0
  <1>1. Units([x \in D |-> 0]) = {}
    BY DEF Units
  <1>2. QED
    BY <1>1, FS_EmptySet DEF Total

-----------------------------------------------------------------------------
(* Holdings and escrow.                                                     *)

(* The holdings of an asset form a finite table.                            *)
LEMMA HoldingsType ==
    ASSUME NEW bal \in [Pubkeys -> [Assets -> Nat]], NEW a \in Assets
    PROVE  /\ Holdings(bal, a) \in [Pubkeys -> Nat]
           /\ Total(Holdings(bal, a)) \in Nat
  <1>1. Holdings(bal, a) \in [Pubkeys -> Nat]
    BY DEF Holdings
  <1>2. QED
    BY <1>1, OrderStoreAssumption, UnitsFinite

(* Changing one balance changes the holdings by as much.                    *)
LEMMA HoldingsChange ==
    ASSUME NEW bal \in [Pubkeys -> [Assets -> Nat]], NEW new \in [Pubkeys -> [Assets -> Nat]],
           NEW a \in Assets, NEW k \in Pubkeys,
           \A j \in Pubkeys \ {k} : new[j][a] = bal[j][a]
    PROVE  Total(Holdings(new, a)) + bal[k][a] = Total(Holdings(bal, a)) + new[k][a]
  <1> DEFINE f == Holdings(bal, a)
             g == Holdings(new, a)
  <1>1. f \in [Pubkeys -> Nat] /\ g \in [Pubkeys -> Nat]
    BY HoldingsType
  <1>2. \A j \in Pubkeys : f[j] = bal[j][a] /\ g[j] = new[j][a]
    BY DEF Holdings
  <1> HIDE DEF f, g
  <1>3. IsFiniteSet(Pubkeys)
    BY OrderStoreAssumption
  <1>4. OneChange(Pubkeys, f, g, k)
    BY <1>1, <1>2, <1>3 DEF OneChange
  <1>5. Total(g) + f[k] = Total(f) + g[k]
    BY <1>4, TotalChange
  <1>6. QED
    BY <1>2, <1>5 DEF f, g

(* A credit of n in asset b.                                                *)
LEMMA HoldingsAdd ==
    ASSUME NEW bal \in [Pubkeys -> [Assets -> Nat]], NEW k \in Pubkeys, NEW b \in Assets,
           NEW n \in Nat, NEW a \in Assets
    PROVE  Total(Holdings(AddTo(bal, k, b, n), a))
             = Total(Holdings(bal, a)) + (IF a = b THEN n ELSE 0)
  <1> DEFINE new == AddTo(bal, k, b, n)
  <1>1. new \in [Pubkeys -> [Assets -> Nat]]
    BY AddToType
  <1>2. /\ \A j \in Pubkeys \ {k} : new[j][a] = bal[j][a]
        /\ new[k][a] = bal[k][a] + (IF a = b THEN n ELSE 0)
    BY DEF AddTo
  <1>3. bal[k][a] \in Nat /\ new[k][a] \in Nat
    BY <1>1
  <1>4. Total(Holdings(bal, a)) \in Nat /\ Total(Holdings(new, a)) \in Nat
    BY <1>1, HoldingsType
  <1> HIDE DEF new
  <1>5. Total(Holdings(new, a)) + bal[k][a] = Total(Holdings(bal, a)) + new[k][a]
    BY <1>1, <1>2, HoldingsChange
  <1> DEFINE d == IF a = b THEN n ELSE 0
  <1>6. d \in Nat /\ new[k][a] = bal[k][a] + d
    BY <1>2
  <1> HIDE DEF d
  <1>7. Total(Holdings(new, a)) = Total(Holdings(bal, a)) + d
    BY <1>3, <1>4, <1>5, <1>6
  <1>8. QED
    BY <1>7 DEF new, d

(* A covered debit of n in asset b.                                         *)
LEMMA HoldingsTake ==
    ASSUME NEW bal \in [Pubkeys -> [Assets -> Nat]], NEW k \in Pubkeys, NEW b \in Assets,
           NEW n \in Nat, bal[k][b] >= n, NEW a \in Assets
    PROVE  Total(Holdings(TakeFrom(bal, k, b, n), a)) + (IF a = b THEN n ELSE 0)
             = Total(Holdings(bal, a))
  <1> DEFINE new == TakeFrom(bal, k, b, n)
  <1>1. new \in [Pubkeys -> [Assets -> Nat]]
    BY TakeFromType
  <1>2. /\ \A j \in Pubkeys \ {k} : new[j][a] = bal[j][a]
        /\ new[k][a] + (IF a = b THEN n ELSE 0) = bal[k][a]
    BY DEF TakeFrom
  <1>3. bal[k][a] \in Nat /\ new[k][a] \in Nat
    BY <1>1
  <1>4. Total(Holdings(bal, a)) \in Nat /\ Total(Holdings(new, a)) \in Nat
    BY <1>1, HoldingsType
  <1> HIDE DEF new
  <1>5. Total(Holdings(new, a)) + bal[k][a] = Total(Holdings(bal, a)) + new[k][a]
    BY <1>1, <1>2, HoldingsChange
  <1> DEFINE d == IF a = b THEN n ELSE 0
  <1>6. d \in Nat /\ new[k][a] + d = bal[k][a]
    BY <1>2
  <1> HIDE DEF d
  <1>7. Total(Holdings(new, a)) + d = Total(Holdings(bal, a))
    BY <1>3, <1>4, <1>5, <1>6
  <1>8. QED
    BY <1>7 DEF new, d

(* What a row locks up of asset a.                                          *)
Locked(r, a) == IF r.status = "open" /\ PayAsset(r.pair, r.side) = a THEN r.have ELSE 0

(* The escrow of an asset is a finite table of what each row locks up.       *)
LEMMA EscrowType ==
    ASSUME NEW os \in Seq(Row), NEW a
    PROVE  /\ Escrow(os, a) \in [DOMAIN os -> Nat]
           /\ \A i \in DOMAIN os : Escrow(os, a)[i] = Locked(os[i], a)
           /\ IsFiniteSet(DOMAIN os)
           /\ Total(Escrow(os, a)) \in Nat
  <1>1. \A i \in DOMAIN os : os[i] \in Row
    OBVIOUS
  <1>2. \A i \in DOMAIN os : os[i].have \in Nat
    BY <1>1 DEF Row
  <1>3. Escrow(os, a) \in [DOMAIN os -> Nat]
    BY <1>2 DEF Escrow
  <1>4. IsFiniteSet(DOMAIN os)
    BY BookFinite
  <1>5. Total(Escrow(os, a)) \in Nat
    BY <1>3, <1>4, UnitsFinite
  <1>6. QED
    BY <1>3, <1>4, <1>5 DEF Escrow, Locked

(* A new row adds what it locks up.                                         *)
LEMMA EscrowAppend ==
    ASSUME NEW os \in Seq(Row), NEW x \in Row, NEW a
    PROVE  Total(Escrow(Append(os, x), a)) = Total(Escrow(os, a)) + Locked(x, a)
  <1> DEFINE new == Append(os, x)
             id == Len(os) + 1
             f == Escrow(os, a)
             g == Escrow(new, a)
  <1>1. /\ new \in Seq(Row) /\ DOMAIN new = DOMAIN os \cup {id} /\ id \notin DOMAIN os
        /\ new[id] = x /\ \A n \in DOMAIN os : new[n] = os[n]
    BY AppendRow
  <1>2. f \in [DOMAIN os -> Nat] /\ \A i \in DOMAIN os : f[i] = Locked(os[i], a)
    BY EscrowType
  <1>3. new \in Seq(Row)
    BY <1>1
  <1> HIDE DEF new, id, f
  <1>4. /\ g \in [DOMAIN new -> Nat] /\ IsFiniteSet(DOMAIN new)
        /\ \A i \in DOMAIN new : g[i] = Locked(new[i], a)
    BY <1>3, EscrowType
  <1> HIDE DEF g
  <1>5. id \in DOMAIN new /\ (DOMAIN new) \ {id} = DOMAIN os
    BY <1>1
  <1>6. Total(g) = Total([i \in (DOMAIN new) \ {id} |-> g[i]]) + g[id]
    BY <1>4, <1>5, TotalSplit
  <1>7. [i \in (DOMAIN new) \ {id} |-> g[i]] = f
    BY <1>1, <1>2, <1>4, <1>5
  <1>8. g[id] = Locked(x, a)
    BY <1>1, <1>4, <1>5
  <1>9. QED
    BY <1>6, <1>7, <1>8 DEF new, f, g

(* Rewriting the rows of two orders, of which only the first may lock up     *)
(* asset a.                                                                 *)
LEMMA EscrowRewrite ==
    ASSUME NEW os \in Seq(Row), NEW i \in DOMAIN os, NEW j \in DOMAIN os, i # j,
           NEW x \in Row, NEW y \in Row, NEW a, Locked(y, a) = Locked(os[j], a)
    PROVE  Total(Escrow([os EXCEPT ![i] = x, ![j] = y], a)) + Locked(os[i], a)
             = Total(Escrow(os, a)) + Locked(x, a)
  <1> DEFINE new == [os EXCEPT ![i] = x, ![j] = y]
             f == Escrow(os, a)
             g == Escrow(new, a)
  <1>1. /\ new \in Seq(Row) /\ DOMAIN new = DOMAIN os /\ new[i] = x /\ new[j] = y
        /\ \A n \in DOMAIN os \ {i, j} : new[n] = os[n]
    BY RewriteTwo
  <1>2. /\ f \in [DOMAIN os -> Nat] /\ IsFiniteSet(DOMAIN os)
        /\ \A n \in DOMAIN os : f[n] = Locked(os[n], a)
    BY EscrowType
  <1>3. new \in Seq(Row)
    BY <1>1
  <1> HIDE DEF new, f
  <1>4. g \in [DOMAIN new -> Nat] /\ \A n \in DOMAIN new : g[n] = Locked(new[n], a)
    BY <1>3, EscrowType
  <1> HIDE DEF g
  <1>5. g \in [DOMAIN os -> Nat]
    BY <1>1, <1>4
  <1>6. \A n \in DOMAIN os \ {i} : g[n] = f[n]
    BY <1>1, <1>2, <1>4
  <1>7. Total(g) + f[i] = Total(f) + g[i]
    <2>1. OneChange(DOMAIN os, f, g, i)
      BY <1>2, <1>5, <1>6 DEF OneChange
    <2>2. QED
      BY <2>1, TotalChange
  <1>8. f[i] = Locked(os[i], a) /\ g[i] = Locked(x, a)
    BY <1>1, <1>2, <1>4
  <1>9. QED
    BY <1>7, <1>8 DEF new, f, g

-----------------------------------------------------------------------------
(* Conservation.  A fill moves what the buy order parts with to the seller;   *)
(* of a coin that is never an AssetWant nothing else moves.                  *)

(* The one fact about fills that conservation needs.                        *)
LEMMA FillConserves ==
    ASSUME TypeOK, QueueInv, Matching, NEW a \in QuoteOnly
    PROVE  Total(Holdings(wBalance', a)) + Total(Escrow(wOrders', a))
             = Total(Holdings(wBalance, a)) + Total(Escrow(wOrders, a))
  <1>1. PICK x \in Row, y \in Row : FillResult(x, y) /\ Pays(x, y)
    BY FillRows
  <1>2. PICK bought \in Nat, paid \in Nat : Settle(bought, paid) /\ x.have + paid = Buy.have
    BY <1>1 DEF Pays
  <1>3. InLoop /\ phase = "matching" /\ txPair \in Pairs
    BY DEF Matching, FillSell, FillBuy, FillBoth, InLoop, AtHeads, TypeOK
  <1>4. /\ BuyId \in DOMAIN wOrders /\ SellId \in DOMAIN wOrders
        /\ BuyId \in Range(buyQ) /\ SellId \in Range(sellQ)
        /\ Buy \in Row /\ Sell \in Row
    BY <1>3, LoopTypes, TailOfQueue DEF TypeOK, QueueInv, InLoop, AtHeads, BuyId, SellId
  <1>5. /\ Buy.status = "open" /\ Buy.side = "buy" /\ Buy.pair = txPair
        /\ Sell.status = "open" /\ Sell.side = "sell" /\ Sell.pair = txPair
    BY <1>3, <1>4 DEF QueueInv, Book, Buy, Sell
  <1>6. BuyId # SellId
    BY <1>5 DEF Buy, Sell
  <1>7. a \in Assets /\ txPair.want # a /\ txPair.want \in Assets /\ txPair.have \in Assets
    BY <1>3, PairFacts DEF QuoteOnly
  <1> DEFINE moved == IF a = txPair.have THEN paid ELSE 0
  <1>8. Total(Holdings(wBalance', a)) = Total(Holdings(wBalance, a)) + moved
    <2> DEFINE mid == AddTo(wBalance, Buy.owner, txPair.want, bought)
    <2>1. Buy.owner \in Pubkeys /\ Sell.owner \in Pubkeys
      BY <1>4 DEF Row
    <2>2. wBalance \in [Pubkeys -> [Assets -> Nat]]
      BY DEF TypeOK
    <2>3. mid \in [Pubkeys -> [Assets -> Nat]]
      BY <1>7, <2>1, <2>2, AddToType
    <2>4. Total(Holdings(mid, a)) = Total(Holdings(wBalance, a)) + (IF a = txPair.want THEN bought ELSE 0)
      BY <1>7, <2>1, <2>2, HoldingsAdd
    <2>5. wBalance' = AddTo(mid, Sell.owner, txPair.have, paid)
      BY <1>2 DEF Settle
    <2> HIDE DEF mid
    <2>6. Total(Holdings(wBalance', a)) = Total(Holdings(mid, a)) + moved
      BY <1>7, <2>1, <2>3, <2>5, HoldingsAdd
    <2>7. Total(Holdings(wBalance, a)) \in Nat
      BY <1>7, <2>2, HoldingsType
    <2>8. QED
      BY <1>7, <2>4, <2>6, <2>7
  <1>9. /\ SameTerms(Buy, x) /\ SameTerms(Sell, y)
        /\ wOrders' = [wOrders EXCEPT ![BuyId] = x, ![SellId] = y]
    BY <1>1 DEF FillResult
  <1>10. Locked(y, a) = 0 /\ Locked(Sell, a) = 0
    BY <1>5, <1>7, <1>9 DEF Locked, PayAsset, SameTerms
  <1>11. Locked(x, a) + moved = Locked(Buy, a)
    <2>1. x.have \in Nat /\ Buy.have \in Nat
      BY <1>1, <1>4 DEF Row
    <2>2. x.status = "deleted" => x.have = 0
      BY <1>1, <1>5 DEF Pays
    <2>3. x.status \in {"open", "deleted"}
      BY DEF Row
    <2>4. QED
      BY <1>2, <1>5, <1>9, <2>1, <2>2, <2>3 DEF Locked, PayAsset, SameTerms
  <1>12. Total(Escrow(wOrders', a)) + Locked(Buy, a) = Total(Escrow(wOrders, a)) + Locked(x, a)
    <2>1. wOrders \in Seq(Row)
      BY DEF TypeOK
    <2>2. Locked(y, a) = Locked(wOrders[SellId], a)
      BY <1>10 DEF Sell
    <2>3. Total(Escrow([wOrders EXCEPT ![BuyId] = x, ![SellId] = y], a)) + Locked(wOrders[BuyId], a)
            = Total(Escrow(wOrders, a)) + Locked(x, a)
      BY <1>4, <1>6, <2>1, <2>2, EscrowRewrite
    <2>4. QED
      BY <1>9, <2>3 DEF Buy
  <1>13. /\ Total(Escrow(wOrders', a)) \in Nat /\ Total(Escrow(wOrders, a)) \in Nat
         /\ Total(Holdings(wBalance, a)) \in Nat
    <2>1. TypeOK'
      BY TypeStep DEF Next
    <2>2. QED
      BY <1>7, <2>1, EscrowType, HoldingsType DEF TypeOK
  <1>14. Locked(x, a) \in Nat /\ moved \in Nat /\ Locked(Buy, a) \in Nat
    BY <1>1, <1>4 DEF Locked, Row
  <1> HIDE DEF moved
  <1>15. QED
    BY <1>8, <1>11, <1>12, <1>13, <1>14

(* Conservation is inductive, given the shape of the queues.                *)
LEMMA ConservedStep == TypeOK /\ BookInv /\ QuoteConserved /\ [Next]_vars => QuoteConserved'
  <1> SUFFICES ASSUME TypeOK, BookInv, QuoteConserved, [Next]_vars, NEW a \in QuoteOnly
               PROVE  Backed(balance, orders, a)' /\ Backed(wBalance, wOrders, a)'
    BY DEF QuoteConserved
  <1>1. /\ a \in Assets
        /\ Backed(balance, orders, a) /\ Backed(wBalance, wOrders, a)
    BY DEF QuoteConserved, QuoteOnly
  <1>2. /\ deposited[a] \in Nat /\ withdrawn[a] \in Nat
        /\ Total(Holdings(balance, a)) \in Nat /\ Total(Escrow(orders, a)) \in Nat
    BY <1>1, HoldingsType, EscrowType DEF TypeOK
  <1>3. ASSUME UNCHANGED <<balance, orders, deposited, withdrawn>>
        PROVE  Backed(balance, orders, a)'
    BY <1>1, <1>3 DEF Backed
  <1>4. ASSUME UNCHANGED <<wBalance, wOrders, deposited, withdrawn>>
        PROVE  Backed(wBalance, wOrders, a)'
    BY <1>1, <1>4 DEF Backed
  <1>0. ASSUME NEW cs \in Configurations, Restart(cs)
        PROVE  Backed(balance, orders, a)' /\ Backed(wBalance, wOrders, a)'
    BY <1>3, <1>4, <1>0 DEF Restart, txVars
  <1>5. ASSUME NEW k \in Pubkeys, RegisterUser(k)
        PROVE  Backed(balance, orders, a)' /\ Backed(wBalance, wOrders, a)'
    BY <1>3, <1>4, <1>5 DEF RegisterUser, txVars
  <1>6. ASSUME NEW k \in Pubkeys, NEW b \in Assets, NEW n \in Amounts \ {0}, AddToBalance(k, b, n)
        PROVE  Backed(balance, orders, a)' /\ Backed(wBalance, wOrders, a)'
    <2>1. /\ n \in Nat /\ balance \in [Pubkeys -> [Assets -> Nat]]
          /\ balance' = AddTo(balance, k, b, n) /\ wBalance' = balance'
      BY <1>6, OrderStoreAssumption DEF AddToBalance, TypeOK
    <2>2. Total(Holdings(balance', a)) = Total(Holdings(balance, a)) + (IF a = b THEN n ELSE 0)
      BY <1>1, <2>1, HoldingsAdd
    <2>3. /\ deposited'[a] = deposited[a] + (IF a = b THEN n ELSE 0)
          /\ withdrawn' = withdrawn /\ orders' = orders /\ wOrders' = orders'
      BY <1>1, <1>2, <1>6 DEF AddToBalance, TypeOK, BookInv, IdleInv
    <2>4. Backed(balance, orders, a)'
      BY <1>1, <1>2, <2>1, <2>2, <2>3 DEF Backed
    <2>5. QED
      BY <2>1, <2>3, <2>4 DEF Backed
  <1>7. ASSUME NEW k \in Pubkeys, NEW b \in Assets, NEW n \in Amounts \ {0}, Withdraw(k, b, n)
        PROVE  Backed(balance, orders, a)' /\ Backed(wBalance, wOrders, a)'
    <2>1. /\ n \in Nat /\ balance \in [Pubkeys -> [Assets -> Nat]]
          /\ balance' = TakeFrom(balance, k, b, n) /\ wBalance' = balance'
      BY <1>7, OrderStoreAssumption DEF Withdraw, TypeOK
    <2>2. balance[k][b] >= n
      BY <1>7, <2>1 DEF Withdraw, WithdrawError
    <2>3. Total(Holdings(balance', a)) + (IF a = b THEN n ELSE 0) = Total(Holdings(balance, a))
      BY <1>1, <2>1, <2>2, HoldingsTake
    <2>4. /\ withdrawn'[a] = withdrawn[a] + (IF a = b THEN n ELSE 0)
          /\ deposited' = deposited /\ orders' = orders /\ wOrders' = orders'
      BY <1>1, <1>2, <1>7 DEF Withdraw, TypeOK, BookInv, IdleInv
    <2>5. Total(Holdings(balance', a)) \in Nat
      <3>1. TypeOK'
        BY TypeStep
      <3>2. QED
        BY <1>1, <3>1, HoldingsType DEF TypeOK
    <2>6. Backed(balance, orders, a)'
      BY <1>1, <1>2, <2>1, <2>3, <2>4, <2>5 DEF Backed
    <2>7. QED
      BY <2>1, <2>4, <2>6 DEF Backed
  <1>8. ASSUME NEW k \in Pubkeys, NEW p \in PairArgs, NEW side \in SideArgs,
               NEW have \in Amounts, NEW want \in Amounts,
               PlaceOrder(k, p, side, have, want)
        PROVE  Backed(balance, orders, a)' /\ Backed(wBalance, wOrders, a)'
    <2> DEFINE row == NewRow(k, p, side, have, want)
               pay == PayAsset(p, side)
    <2>1. /\ p \in Pairs /\ side \in Sides /\ want # 0 /\ (side = "buy" => have # 0)
          /\ balance[k][pay] > have
      BY <1>8, PlaceErrorNone DEF PlaceOrder
    <2>2. have \in Nat /\ pay \in Assets
      BY <2>1, OrderStoreAssumption, PayAssetType
    <2>3. row \in Row
      BY <2>1, OrderStoreAssumption, NewRowType DEF TypeOK
    <2>4. Locked(row, a) = IF a = pay THEN have ELSE 0
      BY DEF Locked, NewRow
    <2>5. /\ wBalance' = TakeFrom(balance, k, pay, have)
          /\ wOrders' = Append(orders, row)
          /\ UNCHANGED <<balance, orders, deposited, withdrawn>>
      BY <1>8 DEF PlaceOrder, tables
    <2> HIDE DEF row, pay
    <2>6. balance[k][pay] \in Nat /\ balance \in [Pubkeys -> [Assets -> Nat]]
      BY <2>2 DEF TypeOK
    <2>7. balance[k][pay] >= have
      BY <2>1, <2>2, <2>6
    <2>8. Total(Holdings(wBalance', a)) + (IF a = pay THEN have ELSE 0) = Total(Holdings(balance, a))
      BY <1>1, <2>2, <2>5, <2>6, <2>7, HoldingsTake
    <2>9. Total(Escrow(wOrders', a)) = Total(Escrow(orders, a)) + Locked(row, a)
      BY <2>3, <2>5, EscrowAppend DEF TypeOK
    <2>10. Total(Holdings(wBalance', a)) \in Nat
      <3>1. TypeOK'
        BY TypeStep
      <3>2. QED
        BY <1>1, <3>1, HoldingsType DEF TypeOK
    <2>11. Backed(wBalance, wOrders, a)'
      BY <1>1, <1>2, <2>2, <2>4, <2>5, <2>8, <2>9, <2>10 DEF Backed
    <2>12. QED
      BY <1>3, <2>5, <2>11
  <1>9. CASE Matching
    <2>1. UNCHANGED <<balance, orders, deposited, withdrawn>>
      BY <1>9 DEF Matching, FillSell, FillBuy, FillBoth, tables
    <2>2. Total(Holdings(wBalance', a)) + Total(Escrow(wOrders', a))
            = Total(Holdings(wBalance, a)) + Total(Escrow(wOrders, a))
      BY <1>9, FillConserves DEF BookInv
    <2>3. /\ Total(Holdings(wBalance', a)) \in Nat /\ Total(Escrow(wOrders', a)) \in Nat
          /\ Total(Holdings(wBalance, a)) \in Nat /\ Total(Escrow(wOrders, a)) \in Nat
      <3>1. TypeOK'
        BY TypeStep
      <3>2. QED
        BY <1>1, <3>1, HoldingsType, EscrowType DEF TypeOK
    <2>4. Backed(wBalance, wOrders, a)'
      BY <1>1, <1>2, <2>1, <2>2, <2>3 DEF Backed
    <2>5. QED
      BY <1>3, <2>1, <2>4
  <1>10. CASE Commit
    BY <1>1, <1>10 DEF Commit, Backed
  <1>11. CASE Rollback \/ CreditFails
    BY <1>1, <1>11 DEF Rollback, CreditFails, Undo, tables, Backed
  <1>12. CASE Tick
    BY <1>3, <1>4, <1>12 DEF Tick, txVars
  <1>13. CASE UNCHANGED vars
    BY <1>3, <1>4, <1>13 DEF vars
  <1>14. QED
    BY <1>0, <1>5, <1>6, <1>7, <1>8, <1>9, <1>10, <1>11, <1>12, <1>13 DEF Next, CancelOrder

(* Of a coin that is never an AssetWant, every unit credited from outside is *)
(* in a balance, locked in a live order or withdrawn: in the committed       *)
(* tables, and at every point of an open placement.                         *)
THEOREM QuoteCoinsConserved == Spec => []QuoteConserved
  <1>1. Init => QuoteConserved
    <2> SUFFICES ASSUME Init, NEW a \in QuoteOnly
                 PROVE  Backed(balance, orders, a) /\ Backed(wBalance, wOrders, a)
      BY DEF QuoteConserved
    <2>1. a \in Assets
      BY DEF QuoteOnly
    <2>2. Holdings(balance, a) = [k \in Pubkeys |-> 0] /\ wBalance = balance
      BY <2>1 DEF Init, Holdings
    <2>3. Escrow(orders, a) = [i \in DOMAIN <<>> |-> 0] /\ wOrders = orders
      BY DEF Init, Escrow
    <2>4. Total(Holdings(balance, a)) = 0 /\ Total(Escrow(orders, a)) = 0
      BY <2>2, <2>3, TotalZero
    <2>5. deposited[a] = 0 /\ withdrawn[a] = 0
      BY <2>1 DEF Init
    <2>6. Backed(balance, orders, a)
      BY <2>4, <2>5 DEF Backed
    <2>7. QED
      BY <2>2, <2>3, <2>6
  <1>2. QED
    BY <1>1, ConservedStep, BookInvariant, PTL DEF Spec

-----------------------------------------------------------------------------
(* The abstract exchange.  Of an open transaction the invariant says what a  *)
(* commit would publish: a settlement of the order that was placed.          *)

(* g is the table f with d more at a.                                        *)
Grown(D, f, g, a, d) == OneChange(D, f, g, a) /\ d \in Nat /\ g[a] = f[a] + d

(* A table grows with its entries.                                          *)
LEMMA TotalGrows ==
    ASSUME NEW D, NEW f, NEW g, NEW a, NEW d, Grown(D, f, g, a, d)
    PROVE  Total(g) = Total(f) + d
  <1>1. OneChange(D, f, g, a) /\ d \in Nat /\ g[a] = f[a] + d
    BY DEF Grown
  <1>2. Total(g) + f[a] = Total(f) + g[a]
    BY <1>1, TotalChange
  <1>3. Total(f) \in Nat /\ Total(g) \in Nat /\ f[a] \in Nat
    BY <1>1, UnitsFinite DEF OneChange
  <1>4. QED
    BY <1>1, <1>2, <1>3

(* More taken from h is taken from the whole; more added to h is gained.      *)
LEMMA Differences ==
    /\ \A b, h, m, d \in Nat : m + d = h => b - m = (b - h) + d
    /\ \A b, h, m, d \in Nat : m = h + d => m - b = (h - b) + d
  OBVIOUS

(* Both modules mean the same by a total.                                   *)
LEMMA SameTotal ==
    ASSUME NEW f
    PROVE  Abstract!Total(f) = Total(f)
  BY DEF Abstract!Total, Total, Units, Abstract!Cardinality, Cardinality

(* The row of the open placement, the row it was inserted as, and the        *)
(* table right after that.                                                  *)
Newest == wOrders[Len(orders) + 1]
Inserted(n) == Abstract!Fresh(n.owner, n.pair, n.side, n.offered, n.asked, n.placed)
Before == Append(orders, Inserted(Newest))

(* The open placement passed PlaceOrder's checks.                            *)
PlacementInv ==
    phase = "matching" =>
        /\ Len(wOrders) = Len(orders) + 1
        /\ PayAsset(Newest.pair, Newest.side) \in rows[Newest.owner]
        /\ Newest.pair = txPair
        /\ Newest.side \in Sides
        /\ Newest.offered \in Amounts /\ Newest.asked \in Amounts
        /\ Inserted(Newest) \in Row
        /\ balance[Newest.owner][PayAsset(Newest.pair, Newest.side)] > Newest.offered

(* What the loop has done so far fills orders of the pair, moves what buys   *)
(* part with to sells, and credits the proceeds.                            *)
SettlementInv ==
    phase = "matching" =>
        /\ \A i \in DOMAIN Before : Abstract!Fills(txPair, Before[i], wOrders[i])
        /\ Total(Abstract!Spent(Before, wOrders)) = Total(Abstract!Earned(Before, wOrders))
        /\ \A j \in Pubkeys, a \in Assets :
              wBalance[j][a] + Abstract!Charge(Newest.owner, Newest.pair, Newest.side, Newest.offered, j, a)
                = balance[j][a] + Total(Abstract!Proceeds(Before, wOrders, j, a))

(* An order that nothing has happened to is filled by nothing.               *)
LEMMA FillsRefl ==
    ASSUME NEW r \in Row, NEW p
    PROVE  Abstract!Fills(p, r, r)
  BY DEF Abstract!Fills, Row

(* An iteration of the loop fills live orders of the pair further.           *)
LEMMA FillsOn ==
    ASSUME NEW b \in Row, NEW o \in Row, NEW n \in Row, NEW p,
           Abstract!Fills(p, b, o), Filled(o, n),
           n = o \/ (o.status = "open" /\ o.pair = p)
    PROVE  Abstract!Fills(p, b, n)
  <1>1. \A f \in {"owner", "pair", "side", "price", "offered", "asked", "placed"} : n[f] = o[f]
    BY DEF Filled, SameTerms
  <1>2. \A f \in {"owner", "pair", "side", "price", "offered", "asked", "placed"} : n[f] = b[f]
    BY <1>1 DEF Abstract!Fills
  <1>3. b.status = "deleted" \/ b.pair # p => n = b
    BY <1>1 DEF Abstract!Fills
  <1>4. /\ b.have \in Nat /\ b.want \in Nat /\ b.got \in Nat
        /\ o.have \in Nat /\ o.want \in Nat /\ o.got \in Nat
        /\ n.have \in Nat /\ n.want \in Nat /\ n.got \in Nat
        /\ b.time \in Nat /\ o.time \in Nat /\ n.time \in Nat
    BY DEF Row
  <1>5. o.side = b.side
    BY DEF Abstract!Fills
  <1>6. QED
    BY <1>2, <1>3, <1>4, <1>5 DEF Abstract!Fills, Filled

(* What filled orders spent and earned are finite tables of amounts.         *)
LEMMA LedgerTypes ==
    ASSUME NEW os \in Seq(Row), NEW ns \in Seq(Row), NEW p, DOMAIN ns = DOMAIN os,
           \A i \in DOMAIN os : Abstract!Fills(p, os[i], ns[i])
    PROVE  /\ IsFiniteSet(DOMAIN os)
           /\ Abstract!Spent(os, ns) \in [DOMAIN os -> Nat]
           /\ Abstract!Earned(os, ns) \in [DOMAIN os -> Nat]
           /\ \A j, a : Abstract!Proceeds(os, ns, j, a) \in [DOMAIN os -> Nat]
  <1>1. \A i \in DOMAIN os : os[i] \in Row /\ ns[i] \in Row
    OBVIOUS
  <1>2. ASSUME NEW i \in DOMAIN os
        PROVE  os[i].have - ns[i].have \in Nat /\ ns[i].got - os[i].got \in Nat
    <2>1. /\ os[i].have \in Nat /\ os[i].want \in Nat /\ os[i].got \in Nat
          /\ ns[i].have \in Nat /\ ns[i].want \in Nat /\ ns[i].got \in Nat
      BY <1>1 DEF Row
    <2>2. ns[i].have <= os[i].have /\ ns[i].want <= os[i].want
          /\ ns[i].got + ns[i].want >= os[i].got + os[i].want
      BY DEF Abstract!Fills
    <2>3. \A h, k \in Nat : k <= h => h - k \in Nat
      OBVIOUS
    <2>4. os[i].got <= ns[i].got
      <3>1. \A g, w, h, v \in Nat : v <= w /\ h + v >= g + w => g <= h
        OBVIOUS
      <3>2. QED
        BY <2>1, <2>2, <3>1
    <2>5. QED
      BY <2>1, <2>2, <2>3, <2>4
  <1>3. Abstract!Spent(os, ns) \in [DOMAIN os -> Nat]
    BY <1>2 DEF Abstract!Spent
  <1>4. Abstract!Earned(os, ns) \in [DOMAIN os -> Nat]
    BY <1>2 DEF Abstract!Earned
  <1>5. \A j, a : Abstract!Proceeds(os, ns, j, a) \in [DOMAIN os -> Nat]
    BY <1>2 DEF Abstract!Proceeds
  <1>6. QED
    BY <1>3, <1>4, <1>5, BookFinite

(* On top of what made `ns' of `os', a trade between buy i and sell j of     *)
(* pair p makes `ms' of `ns'.                                               *)
Trade(os, ns, ms, p, i, j, bought, paid) ==
    /\ os \in Seq(Row) /\ ns \in Seq(Row) /\ ms \in Seq(Row)
    /\ DOMAIN ns = DOMAIN os /\ DOMAIN ms = DOMAIN os
    /\ p.want # p.have
    /\ \A n \in DOMAIN os : Abstract!Fills(p, os[n], ns[n]) /\ Abstract!Fills(p, os[n], ms[n])
    /\ i \in DOMAIN os /\ j \in DOMAIN os
    /\ bought \in Nat /\ paid \in Nat
    /\ ns[i].side = "buy" /\ ns[i].pair = p /\ ns[j].side = "sell" /\ ns[j].pair = p
    /\ ms[i].have + paid = ns[i].have
    /\ ms[i].got = ns[i].got + bought /\ ms[j].got = ns[j].got + paid
    /\ \A n \in DOMAIN os \ {i, j} : ms[n] = ns[n]

(* The amounts of a trade show up in the totals.                             *)
LEMMA LedgerTrade ==
    ASSUME NEW os, NEW ns, NEW ms, NEW p, NEW i, NEW j, NEW bought, NEW paid,
           Trade(os, ns, ms, p, i, j, bought, paid)
    PROVE  /\ Total(Abstract!Spent(os, ms)) = Total(Abstract!Spent(os, ns)) + paid
           /\ Total(Abstract!Earned(os, ms)) = Total(Abstract!Earned(os, ns)) + paid
           /\ \A k, a : Total(Abstract!Proceeds(os, ms, k, a))
                 = Total(Abstract!Proceeds(os, ns, k, a))
                     + (IF a = p.want /\ k = ns[i].owner THEN bought ELSE 0)
                     + (IF a = p.have /\ k = ns[j].owner THEN paid ELSE 0)
  <1> USE DEF Trade
  <1>1. /\ IsFiniteSet(DOMAIN os)
        /\ Abstract!Spent(os, ns) \in [DOMAIN os -> Nat] /\ Abstract!Spent(os, ms) \in [DOMAIN os -> Nat]
        /\ Abstract!Earned(os, ns) \in [DOMAIN os -> Nat] /\ Abstract!Earned(os, ms) \in [DOMAIN os -> Nat]
        /\ \A k, a : /\ Abstract!Proceeds(os, ns, k, a) \in [DOMAIN os -> Nat]
                     /\ Abstract!Proceeds(os, ms, k, a) \in [DOMAIN os -> Nat]
    BY LedgerTypes
  <1>2. \A n \in DOMAIN os :
           /\ os[n] \in Row /\ ns[n] \in Row /\ ms[n] \in Row
    OBVIOUS
  <1>3. \A n \in DOMAIN os :
           /\ os[n].have \in Nat /\ os[n].got \in Nat
           /\ ns[n].have \in Nat /\ ns[n].got \in Nat
           /\ ms[n].have \in Nat /\ ms[n].got \in Nat
    BY <1>2 DEF Row
  <1>4. \A n \in DOMAIN os : os[n].owner = ns[n].owner /\ os[n].pair = ns[n].pair /\ os[n].side = ns[n].side
    BY DEF Abstract!Fills
  <1>a. /\ ns[i].side = "buy" /\ ns[j].side = "sell" /\ i \in DOMAIN os /\ j \in DOMAIN os
        /\ \A n \in DOMAIN os \ {i, j} : ms[n] = ns[n]
    OBVIOUS
  <1>5. Total(Abstract!Spent(os, ms)) = Total(Abstract!Spent(os, ns)) + paid
    <2> DEFINE f == Abstract!Spent(os, ns)
               g == Abstract!Spent(os, ms)
    <2>1. \A n \in DOMAIN os : /\ f[n] = IF os[n].side = "buy" THEN os[n].have - ns[n].have ELSE 0
                              /\ g[n] = IF os[n].side = "buy" THEN os[n].have - ms[n].have ELSE 0
      BY DEF Abstract!Spent
    <2>2. f \in [DOMAIN os -> Nat] /\ g \in [DOMAIN os -> Nat]
      BY <1>1
    <2> HIDE DEF f, g
    <2>3. g[i] = f[i] + paid
      <3>1. f[i] = os[i].have - ns[i].have /\ g[i] = os[i].have - ms[i].have
        BY <1>4, <2>1
      <3>2. os[i].have - ms[i].have = (os[i].have - ns[i].have) + paid
        BY <1>3, Differences
      <3>3. QED
        BY <3>1, <3>2
    <2>4. \A n \in DOMAIN os \ {i} : g[n] = f[n]
      <3> HIDE DEF Trade
      <3>1. f[j] = 0 /\ g[j] = 0
        BY <1>a, <1>4, <2>1
      <3>2. ASSUME NEW n \in DOMAIN os \ {i, j} PROVE g[n] = f[n]
        <4>1. ms[n] = ns[n]
          BY <1>a
        <4>2. QED
          BY <2>1, <4>1
      <3>3. QED
        BY <3>1, <3>2
    <2>5. Grown(DOMAIN os, f, g, i, paid)
      BY <1>1, <2>2, <2>3, <2>4 DEF Grown, OneChange
    <2>6. Total(g) = Total(f) + paid
      BY <2>5, TotalGrows
    <2>7. QED
      BY <2>6 DEF f, g
  <1>6. Total(Abstract!Earned(os, ms)) = Total(Abstract!Earned(os, ns)) + paid
    <2> DEFINE f == Abstract!Earned(os, ns)
               g == Abstract!Earned(os, ms)
    <2>1. \A n \in DOMAIN os : /\ f[n] = IF os[n].side = "sell" THEN ns[n].got - os[n].got ELSE 0
                              /\ g[n] = IF os[n].side = "sell" THEN ms[n].got - os[n].got ELSE 0
      BY DEF Abstract!Earned
    <2>2. f \in [DOMAIN os -> Nat] /\ g \in [DOMAIN os -> Nat]
      BY <1>1
    <2> HIDE DEF f, g
    <2>3. g[j] = f[j] + paid
      <3>1. f[j] = ns[j].got - os[j].got /\ g[j] = ms[j].got - os[j].got
        BY <1>4, <2>1
      <3>2. ms[j].got - os[j].got = (ns[j].got - os[j].got) + paid
        BY <1>3, Differences
      <3>3. QED
        BY <3>1, <3>2
    <2>4. \A n \in DOMAIN os \ {j} : g[n] = f[n]
      <3> HIDE DEF Trade
      <3>1. f[i] = 0 /\ g[i] = 0
        BY <1>a, <1>4, <2>1
      <3>2. ASSUME NEW n \in DOMAIN os \ {i, j} PROVE g[n] = f[n]
        <4>1. ms[n] = ns[n]
          BY <1>a
        <4>2. QED
          BY <2>1, <4>1
      <3>3. QED
        BY <3>1, <3>2
    <2>5. Grown(DOMAIN os, f, g, j, paid)
      BY <1>1, <2>2, <2>3, <2>4 DEF Grown, OneChange
    <2>6. Total(g) = Total(f) + paid
      BY <2>5, TotalGrows
    <2>7. QED
      BY <2>6 DEF f, g
  <1>7. ASSUME NEW k, NEW a
        PROVE  Total(Abstract!Proceeds(os, ms, k, a))
                 = Total(Abstract!Proceeds(os, ns, k, a))
                     + (IF a = p.want /\ k = ns[i].owner THEN bought ELSE 0)
                     + (IF a = p.have /\ k = ns[j].owner THEN paid ELSE 0)
    <2> DEFINE f == Abstract!Proceeds(os, ns, k, a)
               g == Abstract!Proceeds(os, ms, k, a)
               hit(n) == ns[n].owner = k /\ Abstract!GetAsset(ns[n].pair, ns[n].side) = a
    <2>1. \A n \in DOMAIN os : /\ f[n] = IF hit(n) THEN ns[n].got - os[n].got ELSE 0
                              /\ g[n] = IF hit(n) THEN ms[n].got - os[n].got ELSE 0
      BY <1>4 DEF Abstract!Proceeds
    <2>2. f \in [DOMAIN os -> Nat] /\ g \in [DOMAIN os -> Nat] /\ Total(f) \in Nat
      BY <1>1, UnitsFinite
    <2>3. /\ hit(i) <=> (k = ns[i].owner /\ a = p.want)
          /\ hit(j) <=> (k = ns[j].owner /\ a = p.have)
      BY DEF Abstract!GetAsset
    <2> HIDE DEF f, g, hit
    <2>4. CASE hit(i)
      <3>1. ~hit(j)
        BY <2>3, <2>4
      <3>2. g[i] = f[i] + bought
        <4>1. f[i] = ns[i].got - os[i].got /\ g[i] = ms[i].got - os[i].got
          BY <2>1, <2>4
        <4>2. ms[i].got - os[i].got = (ns[i].got - os[i].got) + bought
          BY <1>3, Differences
        <4>3. QED
          BY <4>1, <4>2
      <3>3. \A n \in DOMAIN os \ {i} : g[n] = f[n]
        BY <2>1, <3>1
      <3>4. Grown(DOMAIN os, f, g, i, bought)
        BY <1>1, <2>2, <3>2, <3>3 DEF Grown, OneChange
      <3>5. Total(g) = Total(f) + bought
        BY <3>4, TotalGrows
      <3>6. QED
        BY <2>2, <2>3, <2>4, <3>1, <3>5 DEF f, g
    <2>5. CASE hit(j)
      <3>1. ~hit(i)
        BY <2>3, <2>5
      <3>2. g[j] = f[j] + paid
        <4>1. f[j] = ns[j].got - os[j].got /\ g[j] = ms[j].got - os[j].got
          BY <2>1, <2>5
        <4>2. ms[j].got - os[j].got = (ns[j].got - os[j].got) + paid
          BY <1>3, Differences
        <4>3. QED
          BY <4>1, <4>2
      <3>3. \A n \in DOMAIN os \ {j} : g[n] = f[n]
        BY <2>1, <3>1
      <3>4. Grown(DOMAIN os, f, g, j, paid)
        BY <1>1, <2>2, <3>2, <3>3 DEF Grown, OneChange
      <3>5. Total(g) = Total(f) + paid
        BY <3>4, TotalGrows
      <3>6. QED
        BY <2>2, <2>3, <2>5, <3>1, <3>5 DEF f, g
    <2>6. CASE ~hit(i) /\ ~hit(j)
      <3>1. \A n \in DOMAIN os : g[n] = f[n]
        BY <2>1, <2>6
      <3>2. g = f
        BY <2>2, <3>1
      <3>3. QED
        BY <2>2, <2>3, <2>6, <3>2 DEF f, g
    <2>7. QED
      BY <2>4, <2>5, <2>6
  <1>8. QED
    BY <1>5, <1>6, <1>7

(* A placement starts with nothing settled.                                  *)
LEMMA SettlementPlace ==
    ASSUME TypeOK, TypeOK', NEW k \in Pubkeys, NEW p \in PairArgs, NEW side \in SideArgs,
           NEW have \in Amounts, NEW want \in Amounts,
           PlaceOrder(k, p, side, have, want)
    PROVE  PlacementInv' /\ SettlementInv'
  <1> DEFINE row == NewRow(k, p, side, have, want)
             id == Len(orders) + 1
             pay == PayAsset(p, side)
  <1>1. /\ p \in Pairs /\ side \in Sides /\ want # 0 /\ (side = "buy" => have # 0)
        /\ pay \in rows[k] /\ balance[k][pay] > have
    BY PlaceErrorNone DEF PlaceOrder
  <1>2. row \in Row
    BY <1>1, OrderStoreAssumption, NewRowType DEF TypeOK
  <1>3. /\ row.owner = k /\ row.pair = p /\ row.side = side /\ row.offered = have /\ row.asked = want
        /\ Inserted(row) = row
    BY DEF NewRow, Inserted, Abstract!Fresh
  <1>4. /\ wOrders' = Append(orders, row) /\ phase' = "matching" /\ txPair' = p
        /\ UNCHANGED <<rows, balance, orders>>
        /\ wBalance' = TakeFrom(balance, k, pay, have)
    BY DEF PlaceOrder, tables
  <1> HIDE DEF row
  <1>5. Len(wOrders') = id /\ wOrders'[id] = row /\ wOrders' \in Seq(Row)
    BY <1>2, <1>4, AppendRow DEF TypeOK
  <1>6. Newest' = row
    BY <1>4, <1>5 DEF Newest
  <1>7. Before' = wOrders'
    BY <1>3, <1>4, <1>6 DEF Before, Inserted, Abstract!Fresh
  <1>8. PlacementInv'
    BY <1>1, <1>2, <1>3, <1>4, <1>5, <1>6 DEF PlacementInv, Inserted, Abstract!Fresh
  <1>9. \A i \in DOMAIN wOrders' : wOrders'[i] \in Row
    BY <1>5
  <1>10. \A i \in DOMAIN wOrders' : Abstract!Fills(p, wOrders'[i], wOrders'[i])
    BY <1>9, FillsRefl
  <1> DEFINE none == [i \in DOMAIN wOrders' |-> 0]
  <1>11. \A i \in DOMAIN wOrders' : /\ wOrders'[i].have - wOrders'[i].have = 0
                                   /\ wOrders'[i].got - wOrders'[i].got = 0
    BY <1>9 DEF Row
  <1>12. /\ Abstract!Spent(wOrders', wOrders') = none
         /\ Abstract!Earned(wOrders', wOrders') = none
         /\ \A j, a : Abstract!Proceeds(wOrders', wOrders', j, a) = none
    BY <1>11 DEF Abstract!Spent, Abstract!Earned, Abstract!Proceeds
  <1>13. Total(none) = 0
    BY TotalZero
  <1>14. ASSUME NEW j \in Pubkeys, NEW a \in Assets
         PROVE  wBalance'[j][a] + Abstract!Charge(k, p, side, have, j, a) = balance[j][a] + 0
    <2>1. balance \in [Pubkeys -> [Assets -> Nat]] /\ have \in Nat
      BY OrderStoreAssumption DEF TypeOK
    <2>2. pay \in Assets
      BY <1>1, PayAssetType
    <2>3. Abstract!Charge(k, p, side, have, j, a) = IF j = k /\ a = pay THEN have ELSE 0
      BY DEF Abstract!Charge, Abstract!PayAsset, PayAsset
    <2> HIDE DEF pay
    <2>4. wBalance'[j][a] = IF j = k /\ a = pay THEN balance[j][a] - have ELSE balance[j][a]
      BY <1>4, <2>1, <2>2 DEF TakeFrom
    <2>5. balance[j][a] \in Nat
      BY <2>1
    <2>6. QED
      BY <2>1, <2>3, <2>4, <2>5
  <1> HIDE DEF none
  <1>15. SettlementInv'
    BY <1>3, <1>4, <1>6, <1>7, <1>10, <1>12, <1>13, <1>14 DEF SettlementInv
  <1>16. QED
    BY <1>8, <1>15

(* The table the placement started from, and what an iteration may rely on.   *)
LEMMA BeforeFacts ==
    ASSUME TypeOK, PlacementInv, phase = "matching"
    PROVE  /\ Before \in Seq(Row)
           /\ DOMAIN Before = DOMAIN wOrders
           /\ Len(Before) = Len(wOrders)
           /\ Len(orders) + 1 \in DOMAIN wOrders
  <1>1. /\ orders \in Seq(Row) /\ Inserted(Newest) \in Row /\ Len(wOrders) = Len(orders) + 1
        /\ wOrders \in Seq(Row)
    BY DEF TypeOK, PlacementInv
  <1>2. Len(Before) = Len(orders) + 1 /\ Before \in Seq(Row)
    BY <1>1, AppendRow DEF Before
  <1>3. QED
    BY <1>1, <1>2

(* An iteration of the loop leaves the placement it belongs to as it was.     *)
LEMMA PlacementFill ==
    ASSUME TypeOK, QueueInv, PlacementInv, Matching
    PROVE  /\ PlacementInv'
           /\ phase = "matching" /\ phase' = phase /\ txPair' = txPair
           /\ UNCHANGED <<rows, balance, orders>>
           /\ SameTerms(Newest, Newest')
           /\ Before' = Before
  <1>1. /\ phase = "matching" /\ phase' = phase /\ txPair' = txPair
        /\ UNCHANGED <<rows, balance, orders>>
    BY DEF Matching, FillSell, FillBuy, FillBoth, InLoop, AtHeads, tables
  <1>2. /\ Len(wOrders') = Len(wOrders)
        /\ \A i \in DOMAIN wOrders : Filled(wOrders[i], wOrders'[i])
    BY FillRowwise
  <1>3. SameTerms(Newest, Newest')
    BY <1>1, <1>2, BeforeFacts DEF Filled, Newest
  <1>4. Inserted(Newest') = Inserted(Newest)
    BY <1>3 DEF Inserted, Abstract!Fresh, SameTerms
  <1>5. Before' = Before
    BY <1>1, <1>4 DEF Before, Inserted, Abstract!Fresh
  <1>6. PlacementInv'
    BY <1>1, <1>2, <1>3, <1>4 DEF PlacementInv, SameTerms, Inserted, Abstract!Fresh
  <1>7. QED
    BY <1>1, <1>3, <1>5, <1>6

(* An iteration of the loop settles a trade.                                 *)
LEMMA SettlementFill ==
    ASSUME TypeOK, TypeOK', QueueInv, PlacementInv, SettlementInv, Matching
    PROVE  SettlementInv'
  <1>1. /\ phase = "matching" /\ phase' = phase /\ txPair' = txPair
        /\ UNCHANGED <<rows, balance, orders>>
        /\ SameTerms(Newest, Newest')
        /\ Before' = Before
    BY PlacementFill
  <1>2. PICK x \in Row, y \in Row : FillResult(x, y) /\ Pays(x, y)
    BY FillRows
  <1>3. PICK bought \in Nat, paid \in Nat :
           /\ Settle(bought, paid) /\ x.have + paid = Buy.have
           /\ x.got = Buy.got + bought /\ y.got = Sell.got + paid
    BY <1>2 DEF Pays
  <1>4. InLoop /\ txPair \in Pairs
    BY <1>1 DEF Matching, FillSell, FillBuy, FillBoth, TypeOK
  <1>5. /\ BuyId \in DOMAIN wOrders /\ SellId \in DOMAIN wOrders
        /\ BuyId \in Range(buyQ) /\ SellId \in Range(sellQ)
        /\ Buy \in Row /\ Sell \in Row
    BY <1>1, <1>4, LoopTypes, TailOfQueue DEF TypeOK, QueueInv, InLoop, AtHeads, BuyId, SellId
  <1>6. /\ Buy.status = "open" /\ Buy.side = "buy" /\ Buy.pair = txPair
        /\ Sell.status = "open" /\ Sell.side = "sell" /\ Sell.pair = txPair
    BY <1>1, <1>5 DEF QueueInv, Book, Buy, Sell
  <1>7. BuyId # SellId
    BY <1>6 DEF Buy, Sell
  <1>8. /\ wOrders' \in Seq(Row) /\ DOMAIN wOrders' = DOMAIN wOrders
        /\ wOrders'[BuyId] = x /\ wOrders'[SellId] = y
        /\ \A i \in DOMAIN wOrders \ {BuyId, SellId} : wOrders'[i] = wOrders[i]
    BY <1>2, <1>5, <1>7, RewriteTwo DEF FillResult, TypeOK
  <1>9. Before \in Seq(Row) /\ DOMAIN Before = DOMAIN wOrders /\ wOrders \in Seq(Row)
    BY <1>1, BeforeFacts DEF TypeOK
  <1>10. \A i \in DOMAIN Before : Abstract!Fills(txPair, Before[i], wOrders[i])
    BY <1>1 DEF SettlementInv
  <1>11. ASSUME NEW i \in DOMAIN Before PROVE Abstract!Fills(txPair, Before[i], wOrders'[i])
    <2>1. Before[i] \in Row /\ wOrders[i] \in Row /\ wOrders'[i] \in Row
      BY <1>8, <1>9
    <2>2. Filled(wOrders[i], wOrders'[i])
      BY <1>9, FillRowwise
    <2>3. wOrders'[i] = wOrders[i] \/ (wOrders[i].status = "open" /\ wOrders[i].pair = txPair)
      BY <1>6, <1>8, <1>9 DEF Buy, Sell
    <2>4. QED
      BY <1>10, <2>1, <2>2, <2>3, FillsOn
  <1>12. txPair.want # txPair.have /\ txPair.want \in Assets /\ txPair.have \in Assets
    BY <1>4, PairFacts
  <1>13. /\ Total(Abstract!Spent(Before, wOrders')) = Total(Abstract!Spent(Before, wOrders)) + paid
         /\ Total(Abstract!Earned(Before, wOrders')) = Total(Abstract!Earned(Before, wOrders)) + paid
         /\ \A k, a : Total(Abstract!Proceeds(Before, wOrders', k, a))
               = Total(Abstract!Proceeds(Before, wOrders, k, a))
                   + (IF a = txPair.want /\ k = Buy.owner THEN bought ELSE 0)
                   + (IF a = txPair.have /\ k = Sell.owner THEN paid ELSE 0)
    <2>1. Trade(Before, wOrders, wOrders', txPair, BuyId, SellId, bought, paid)
      BY <1>3, <1>5, <1>6, <1>8, <1>9, <1>10, <1>11, <1>12 DEF Trade, Buy, Sell
    <2>2. QED
      BY <2>1, LedgerTrade DEF Buy, Sell
  <1>14. ASSUME NEW j \in Pubkeys, NEW a \in Assets
         PROVE  wBalance'[j][a] = wBalance[j][a]
                   + (IF a = txPair.want /\ j = Buy.owner THEN bought ELSE 0)
                   + (IF a = txPair.have /\ j = Sell.owner THEN paid ELSE 0)
    <2>1. wBalance \in [Pubkeys -> [Assets -> Nat]] /\ Buy.owner \in Pubkeys /\ Sell.owner \in Pubkeys
      BY <1>5 DEF TypeOK, Row
    <2> DEFINE mid == AddTo(wBalance, Buy.owner, txPair.want, bought)
               b == IF a = txPair.want /\ j = Buy.owner THEN bought ELSE 0
               s == IF a = txPair.have /\ j = Sell.owner THEN paid ELSE 0
    <2>2. mid \in [Pubkeys -> [Assets -> Nat]]
      BY <1>12, <2>1, AddToType
    <2>3. mid[j][a] = wBalance[j][a] + b
      BY <2>1 DEF AddTo
    <2>4. wBalance' = AddTo(mid, Sell.owner, txPair.have, paid)
      BY <1>3 DEF Settle
    <2> HIDE DEF mid
    <2>5. wBalance'[j][a] = mid[j][a] + s
      BY <2>2, <2>4 DEF AddTo
    <2>6. QED
      BY <2>3, <2>5
  <1>15. ASSUME NEW j \in Pubkeys, NEW a \in Assets
         PROVE  wBalance'[j][a]
                    + Abstract!Charge(Newest'.owner, Newest'.pair, Newest'.side, Newest'.offered, j, a)
                  = balance[j][a] + Total(Abstract!Proceeds(Before, wOrders', j, a))
    <2> DEFINE charge == Abstract!Charge(Newest.owner, Newest.pair, Newest.side, Newest.offered, j, a)
               b == IF a = txPair.want /\ j = Buy.owner THEN bought ELSE 0
               s == IF a = txPair.have /\ j = Sell.owner THEN paid ELSE 0
               old == Total(Abstract!Proceeds(Before, wOrders, j, a))
    <2>1. Abstract!Charge(Newest'.owner, Newest'.pair, Newest'.side, Newest'.offered, j, a) = charge
      BY <1>1 DEF SameTerms
    <2>2. wBalance[j][a] + charge = balance[j][a] + old
      BY <1>1 DEF SettlementInv
    <2>3. /\ wBalance'[j][a] = wBalance[j][a] + b + s
          /\ Total(Abstract!Proceeds(Before, wOrders', j, a)) = old + b + s
      BY <1>13, <1>14
    <2>4. b \in Nat /\ s \in Nat /\ wBalance[j][a] \in Nat /\ balance[j][a] \in Nat
      BY DEF TypeOK
    <2>5. old \in Nat
      BY <1>9, <1>10, LedgerTypes, UnitsFinite
    <2>6. charge \in Nat
      <3>1. Newest.offered \in Nat
        BY <1>1, OrderStoreAssumption DEF PlacementInv
      <3>2. QED
        BY <3>1 DEF Abstract!Charge
    <2> HIDE DEF charge, b, s, old
    <2>7. QED
      BY <2>1, <2>2, <2>3, <2>4, <2>5, <2>6
  <1>16. Total(Abstract!Spent(Before, wOrders)) = Total(Abstract!Earned(Before, wOrders))
    BY <1>1 DEF SettlementInv
  <1>17. QED
    BY <1>1, <1>11, <1>13, <1>15, <1>16 DEF SettlementInv

(* Both invariants of the open placement are inductive.                      *)
LEMMA SettlementStep ==
    TypeOK /\ TypeOK' /\ BookInv /\ PlacementInv /\ SettlementInv /\ [Next]_vars
      => PlacementInv' /\ SettlementInv'
  <1> SUFFICES ASSUME TypeOK, TypeOK', BookInv, PlacementInv, SettlementInv, [Next]_vars
               PROVE  PlacementInv' /\ SettlementInv'
    OBVIOUS
  <1>1. ASSUME NEW k \in Pubkeys, NEW p \in PairArgs, NEW side \in SideArgs,
               NEW have \in Amounts, NEW want \in Amounts,
               PlaceOrder(k, p, side, have, want)
        PROVE  PlacementInv' /\ SettlementInv'
    BY <1>1, SettlementPlace
  <1>2. CASE Matching
    BY <1>2, PlacementFill, SettlementFill DEF BookInv
  <1>3. CASE phase' # "matching"
    BY <1>3 DEF PlacementInv, SettlementInv
  <1>4. CASE UNCHANGED <<rows, balance, orders, txVars>>
    BY <1>4 DEF PlacementInv, SettlementInv, Newest, Before, Inserted, Abstract!Fresh, txVars
  <1>5. \/ phase' # "matching" \/ UNCHANGED <<rows, balance, orders, txVars>> \/ Matching
        \/ \E k \in Pubkeys, p \in PairArgs, side \in SideArgs, have \in Amounts, want \in Amounts :
              PlaceOrder(k, p, side, have, want)
    BY DEF Next, CancelOrder, Restart, RegisterUser, AddToBalance, Withdraw, Commit, Rollback, CreditFails, Undo, EndTx, Tick, vars, txVars
  <1>6. QED
    BY <1>1, <1>2, <1>3, <1>4, <1>5

(* A commit is a placement of the abstract exchange.                         *)
LEMMA CommitPlaces ==
    ASSUME TypeOK, TypeOK', NoCrossedBook', CreditsHaveRows, CreditsHaveRows',
           PlacementInv, SettlementInv, Commit
    PROVE  Abstract!Next
  <1> DEFINE k == Newest.owner
             p == Newest.pair
             side == Newest.side
             have == Newest.offered
             want == Newest.asked
             now == orders'[Len(orders) + 1].placed
  <1>1. /\ phase = "matching" /\ orders' = wOrders /\ balance' = wBalance /\ rows' = rows
    BY DEF Commit
  <1>2. /\ Before \in Seq(Row) /\ DOMAIN Before = DOMAIN wOrders /\ Len(Before) = Len(wOrders)
        /\ wOrders \in Seq(Row)
    BY <1>1, BeforeFacts DEF TypeOK
  <1>3. /\ PayAsset(p, side) \in rows[k] /\ p = txPair /\ side \in {"buy", "sell"}
        /\ have \in Amounts /\ want \in Amounts
        /\ balance[k][PayAsset(p, side)] > have
    BY <1>1 DEF PlacementInv, Sides
  <1>4. k \in Pubkeys /\ p \in Pairs
    <2>1. Newest \in Row
      BY <1>1, <1>2, BeforeFacts DEF Newest
    <2>2. QED
      BY <1>1, <1>3, <2>1 DEF TypeOK, Row
  <1>5. Before = Append(orders, Abstract!Fresh(k, p, side, have, want, now))
    BY <1>1 DEF Before, Inserted, Newest
  <1>6. balance[k][Abstract!PayAsset(p, side)] > have /\ Abstract!PayAsset(p, side) \in rows[k]
    BY <1>3 DEF Abstract!PayAsset, PayAsset
  <1>7. \A i \in DOMAIN Before : Abstract!Fills(p, Before[i], orders'[i])
    BY <1>1, <1>3 DEF SettlementInv
  <1>8. \A q \in Pairs : Abstract!Uncrossed(orders', q)
    BY DEF NoCrossedBook, Uncrossed, Book, Abstract!Uncrossed, Abstract!Live
  <1>9. Abstract!Total(Abstract!Spent(Before, orders')) = Abstract!Total(Abstract!Earned(Before, orders'))
    BY <1>1, SameTotal DEF SettlementInv
  <1> DEFINE new == [j \in Pubkeys |-> [a \in Assets |->
                balance[j][a] - Abstract!Charge(k, p, side, have, j, a)
                              + Abstract!Total(Abstract!Proceeds(Before, orders', j, a))]]
  <1>10. ASSUME NEW j \in Pubkeys, NEW a \in Assets
         PROVE  balance'[j][a] = balance[j][a] - Abstract!Charge(k, p, side, have, j, a)
                                   + Abstract!Total(Abstract!Proceeds(Before, orders', j, a))
    <2> DEFINE charge == Abstract!Charge(k, p, side, have, j, a)
               sum == Total(Abstract!Proceeds(Before, wOrders, j, a))
    <2>1. wBalance[j][a] + charge = balance[j][a] + sum
      BY <1>1 DEF SettlementInv
    <2>2. wBalance[j][a] \in Nat /\ balance[j][a] \in Nat
      BY DEF TypeOK
    <2>3. charge \in Nat
      BY <1>3, OrderStoreAssumption DEF Abstract!Charge
    <2>4. sum \in Nat
      BY <1>1, <1>2, <1>7, LedgerTypes, UnitsFinite
    <2>5. Abstract!Total(Abstract!Proceeds(Before, orders', j, a)) = sum
      BY <1>1, SameTotal
    <2> HIDE DEF charge, sum
    <2>6. wBalance[j][a] = balance[j][a] - charge + sum
      BY <2>1, <2>2, <2>3, <2>4
    <2>7. QED
      BY <1>1, <2>5, <2>6 DEF charge
  <1>11. balance' = new
    <2>1. balance' \in [Pubkeys -> [Assets -> Nat]]
      BY DEF TypeOK
    <2>2. QED
      BY <1>10, <2>1
  <1>r. \A j \in Pubkeys : \A a \in Assets \ rows[j] : balance'[j][a] = balance[j][a]
    BY <1>1 DEF CreditsHaveRows
  <1> HIDE DEF k, p, side, have, want
  <1>12. Abstract!Place(k, p, side, have, want)
    BY <1>1, <1>2, <1>3, <1>5, <1>6, <1>7, <1>8, <1>9, <1>11, <1>r DEF Abstract!Place
  <1>13. QED
    BY <1>3, <1>4, <1>12 DEF Abstract!Next

(* Every step is a step of the abstract exchange or changes none of its       *)
(* tables.                                                                  *)
LEMMA ExchangeStep ==
    TypeOK /\ TypeOK' /\ NoCrossedBook' /\ CreditsHaveRows /\ CreditsHaveRows'
        /\ PlacementInv /\ SettlementInv /\ [Next]_vars
      => [Abstract!Next]_Abstract!exchangeVars
  <1> SUFFICES ASSUME TypeOK, TypeOK', NoCrossedBook', CreditsHaveRows, CreditsHaveRows',
                      PlacementInv, SettlementInv, [Next]_vars
               PROVE  Abstract!Next \/ UNCHANGED Abstract!exchangeVars
    OBVIOUS
  <1>1. ASSUME NEW k \in Pubkeys, RegisterUser(k) PROVE Abstract!Next
    <2>1. Abstract!Register(k, coins) /\ coins \in SUBSET Assets
      BY <1>1, OrderStoreAssumption DEF RegisterUser, TypeOK, Abstract!Register
    <2>2. QED
      BY <2>1 DEF Abstract!Next
  <1>2. ASSUME NEW k \in Pubkeys, NEW a \in Assets, NEW n \in Amounts \ {0}, AddToBalance(k, a, n)
        PROVE  Abstract!Next
    <2>1. Abstract!Credit(k, a, n)
      BY <1>2 DEF AddToBalance, AddToBalanceError, AddTo, Abstract!Credit
    <2>2. QED
      BY <2>1 DEF Abstract!Next
  <1>3. ASSUME NEW k \in Pubkeys, NEW a \in Assets, NEW n \in Amounts \ {0}, Withdraw(k, a, n)
        PROVE  Abstract!Next
    <2>1. a \in rows[k] /\ ~(balance[k][a] < n)
      BY <1>3 DEF Withdraw, WithdrawError
    <2>2. balance[k][a] \in Nat /\ n \in Nat
      BY OrderStoreAssumption DEF TypeOK
    <2>3. balance[k][a] >= n
      BY <2>1, <2>2
    <2>4. Abstract!Debit(k, a, n)
      BY <1>3, <2>1, <2>3 DEF Withdraw, TakeFrom, Abstract!Debit
    <2>5. QED
      BY <2>4 DEF Abstract!Next
  <1>4. CASE Commit
    BY <1>4, CommitPlaces
  <1>5. CASE UNCHANGED <<rows, balance, orders>>
    BY <1>5 DEF Abstract!exchangeVars
  <1>6. \/ UNCHANGED <<rows, balance, orders>>
        \/ Commit
        \/ \E k \in Pubkeys : RegisterUser(k)
        \/ \E k \in Pubkeys, a \in Assets, n \in Amounts \ {0} : AddToBalance(k, a, n) \/ Withdraw(k, a, n)
    BY DEF Next, CancelOrder, Restart, PlaceOrder, Matching, FillSell, FillBuy, FillBoth, Rollback,
           CreditFails, Undo, Tick, vars, tables
  <1>7. QED
    BY <1>1, <1>2, <1>3, <1>4, <1>5, <1>6

(* The order store implements the abstract exchange: PlaceOrder's debit, its *)
(* insert and every iteration of its matching loop take effect in one step,  *)
(* the commit, and together they are a settlement that harms nobody.          *)
THEOREM StoreImplementsExchange == Spec => ImplementsExchange
  <1>1. Init => Abstract!Init
    BY DEF Init, Abstract!Init
  <1>2. Init => PlacementInv /\ SettlementInv
    BY DEF Init, PlacementInv, SettlementInv
  <1>3. BookInv => NoCrossedBook
    BY DEF BookInv
  <1>4. Spec => [](PlacementInv /\ SettlementInv)
    BY <1>2, SettlementStep, BookInvariant, PTL DEF Spec
  <1>5. QED
    BY <1>1, <1>3, <1>4, ExchangeStep, BookInvariant, CreditsAreKept, PTL DEF Spec, ImplementsExchange, Abstract!Spec
=============================================================================
