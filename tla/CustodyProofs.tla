--------------------------- MODULE CustodyProofs ---------------------------
(***************************************************************************)
(* Proofs about Custody: no deposit is credited early or twice for one     *)
(* confirmation, none of an ingested block is lost but by a restart, every  *)
(* variable has its type, and the balance rows of a client, the stray ones *)
(* and what its withdrawals debited add up to what was credited to it.     *)
(*                                                                         *)
(* The properties of deposits are not inductive.  They need to know how far*)
(* the handler and the chain have come (BlocksInOrder, BlocksExist), that a *)
(* row waits only for an output of a block that was ingested since the     *)
(* start, and at most once (RowsAreNoted), and that the address map the     *)
(* handler holds has every address its block pays (AddressesKnown).        *)
(*                                                                         *)
(* The accounts are sums over outputs and withdrawals, written as folds.  The*)
(* second part shows what such a fold is on a finite set, by the least     *)
(* number for which a statement fails, and the third how the two sums change*)
(* with each action (AccountInv).                                          *)
(***************************************************************************)
EXTENDS Custody, FiniteSetTheorems, TLAPS

DepositType ==
    /\ pending \in [Outputs -> Nat]
    /\ credited \in [Outputs -> Nat]
    /\ tip \in 0..MaxHeight
    /\ synced \in 0..tip
    /\ taken \in 0..synced
    /\ scan \in {0, taken}
    /\ minedAt \in [Txids -> 0..tip]
    /\ ingested \in [Heights -> Nat]
    /\ outcome \in [Heights -> {"none", "done", "missed"}]
    /\ forgotten \subseteq Outputs
    /\ addresses \in Seq(Pubkeys)
    /\ known \in Seq(Pubkeys)
    /\ reg \in Pubkeys \cup {NoKey}

BlocksInOrder == \A h \in Heights : outcome[h] # "none" => h <= taken /\ h # scan

BlocksExist == \A h \in Heights : ingested[h] > 0 => h <= tip

RowsAreNoted ==
    \A o \in Outputs :
        pending[o] # 0 => /\ pending[o] = 1
                          /\ minedAt[o.tx] \in Heights
                          /\ outcome[minedAt[o.tx]] = "done"

AddressesKnown ==
    \A o \in Outputs :
        /\ minedAt[o.tx] # 0 => o.addr \in DOMAIN addresses
        /\ scan # 0 /\ minedAt[o.tx] = scan => o.addr \in DOMAIN known

DepositInv ==
    /\ DepositType
    /\ BlocksInOrder
    /\ BlocksExist
    /\ RowsAreNoted
    /\ AddressesKnown
    /\ CreditedOncePerConfirmation
    /\ DepositsAccounted

(* What the assumption says of the two numbers, and of the outputs.          *)
LEMMA Bounds == MaxHeight \in Nat /\ Confirmations \in Nat /\ Confirmations > 0
BY CustodyAssumption DEF CustodyAssumption

LEMMA TxOfOutput == \A o \in Outputs : o.tx \in Txids
BY DEF Txids

(* The tables are empty at the first start.                                  *)
LEMMA DepositInit == Init => DepositInv
<1> SUFFICES ASSUME Init PROVE DepositInv
  OBVIOUS
<1>1. DepositType
  BY Bounds DEF Init, DepositType
<1>2. \A o \in Outputs : pending[o] = 0 /\ credited[o] = 0 /\ minedAt[o.tx] = 0
  BY TxOfOutput DEF Init
<1>3. \A h \in Heights : outcome[h] = "none" /\ ingested[h] = 0
  BY DEF Init
<1>4. BlocksInOrder /\ BlocksExist /\ RowsAreNoted
  BY <1>2, <1>3 DEF BlocksInOrder, BlocksExist, RowsAreNoted
<1>5. AddressesKnown /\ CreditedOncePerConfirmation
  BY <1>2 DEF AddressesKnown, CreditedOncePerConfirmation, Init
<1>6. DepositsAccounted
  BY <1>3 DEF DepositsAccounted
<1> QED BY <1>1, <1>4, <1>5, <1>6 DEF DepositInv

(* A step that leaves the deposits alone, but for the addresses it may add.   *)
LEMMA DepositFrame ==
    ASSUME DepositInv,
           UNCHANGED <<pending, credited, tip, synced, taken, scan, minedAt, ingested, outcome,
                  forgotten, known>>,
           reg' \in Pubkeys \cup {NoKey},
           addresses' \in Seq(Pubkeys),
           DOMAIN addresses \subseteq DOMAIN addresses'
    PROVE  DepositInv'
<1>1. DepositType'
  BY DEF DepositInv, DepositType
<1>2. BlocksInOrder' /\ BlocksExist' /\ RowsAreNoted'
  BY DEF DepositInv, BlocksInOrder, BlocksExist, RowsAreNoted
<1>3. AddressesKnown'
  BY DEF DepositInv, AddressesKnown
<1>4. CreditedOncePerConfirmation' /\ DepositsAccounted'
  BY DEF DepositInv, CreditedOncePerConfirmation, DepositsAccounted, ConfirmHeight
<1> QED BY <1>1, <1>2, <1>3, <1>4 DEF DepositInv

(* A new block pays only addresses that clients know of.                     *)
LEMMA MineStep ==
    ASSUME DepositInv, NEW T \in SUBSET Txids, Mine(T)
    PROVE  DepositInv'
<1> USE Bounds, TxOfOutput
<1>0. DepositType /\ tip < MaxHeight /\ tip' = tip + 1
  BY DEF DepositInv, Mine
<1>1. UNCHANGED <<pending, credited, synced, taken, scan, ingested, outcome, forgotten, addresses,
                  known, reg>>
  BY DEF Mine, store, handler
<1>2. \A o \in Outputs :
        \/ minedAt'[o.tx] = minedAt[o.tx]
        \/ /\ minedAt[o.tx] = 0
           /\ minedAt'[o.tx] = tip + 1
           /\ o.addr \in DOMAIN addresses
  BY <1>0 DEF Mine, DepositType
<1>3. DepositType'
  <2>1. minedAt' \in [Txids -> 0..tip']
    BY <1>0 DEF Mine, DepositType
  <2> QED BY <1>0, <1>1, <2>1 DEF DepositType
<1>4. BlocksInOrder' /\ BlocksExist'
  BY <1>0, <1>1 DEF DepositInv, BlocksInOrder, BlocksExist, DepositType, Heights
<1>5. RowsAreNoted'
  BY <1>0, <1>1, <1>2 DEF DepositInv, RowsAreNoted, Heights
<1>6. AddressesKnown'
  BY <1>0, <1>1, <1>2 DEF DepositInv, AddressesKnown, DepositType
<1>7. CreditedOncePerConfirmation'
  BY <1>0, <1>1, <1>2 DEF DepositInv, CreditedOncePerConfirmation, ConfirmHeight, DepositType
<1>8. outcome[tip + 1] = "none" /\ ~ (ingested[tip + 1] > 0)
  BY <1>0 DEF DepositInv, DepositType, BlocksInOrder, BlocksExist, Heights
<1>9. DepositsAccounted'
  BY <1>1, <1>2, <1>8 DEF DepositInv, DepositsAccounted
<1> QED BY <1>3, <1>4, <1>5, <1>6, <1>7, <1>9 DEF DepositInv

LEMMA DeliverStep ==
    ASSUME DepositInv, Deliver
    PROVE  DepositInv'
<1> USE Bounds, TxOfOutput
<1>1. UNCHANGED <<pending, credited, tip, taken, scan, minedAt, ingested, outcome, forgotten,
                  addresses, known, reg>>
  BY DEF Deliver, store, handler
<1>2. DepositType'
  BY <1>1 DEF Deliver, DepositInv, DepositType
<1>3. BlocksInOrder' /\ BlocksExist' /\ RowsAreNoted' /\ AddressesKnown'
  BY <1>1 DEF DepositInv, BlocksInOrder, BlocksExist, RowsAreNoted, AddressesKnown
<1>4. CreditedOncePerConfirmation' /\ DepositsAccounted'
  BY <1>1 DEF DepositInv, CreditedOncePerConfirmation, DepositsAccounted, ConfirmHeight
<1> QED BY <1>2, <1>3, <1>4 DEF DepositInv

(* The map is read: it has every address of the table.                       *)
LEMMA ScanStep ==
    ASSUME DepositInv, GetDepositAddressMap
    PROVE  DepositInv'
<1> USE Bounds, TxOfOutput
<1>1. UNCHANGED <<pending, credited, tip, synced, minedAt, ingested, outcome, forgotten,
                  addresses, reg>>
  BY DEF GetDepositAddressMap, store, chain
<1>2. DepositType'
  BY <1>1 DEF GetDepositAddressMap, DepositInv, DepositType
<1>3. BlocksInOrder' /\ BlocksExist'
  BY <1>1 DEF GetDepositAddressMap, DepositInv, DepositType, BlocksInOrder, BlocksExist, Heights
<1>4. RowsAreNoted' /\ CreditedOncePerConfirmation' /\ DepositsAccounted'
  BY <1>1 DEF DepositInv, RowsAreNoted, CreditedOncePerConfirmation, DepositsAccounted, ConfirmHeight
<1>5. AddressesKnown'
  BY <1>1 DEF GetDepositAddressMap, DepositInv, DepositType, AddressesKnown
<1> QED BY <1>2, <1>3, <1>4, <1>5 DEF DepositInv

(* The block at work: its height, and what UpdateDeposits finds there.        *)
LEMMA ScanFacts ==
    ASSUME DepositInv, scan # 0
    PROVE  /\ scan \in Heights
           /\ outcome[scan] = "none"
           /\ Noted \in [Outputs -> Nat]
           /\ \A o \in Outputs : Noted[o] <= 1
           /\ \A o \in Outputs : minedAt[o.tx] = scan => Noted[o] = 1
           /\ \A o \in Outputs : minedAt[o.tx] # scan => Noted[o] = pending[o]
           /\ \A o \in Outputs : o.tx \in {d.tx : d \in Due} => minedAt[o.tx] + Confirmations = scan
<1> USE Bounds, TxOfOutput
<1>1. scan \in Heights
  BY DEF DepositInv, DepositType, Heights
<1>2. outcome[scan] = "none"
  BY <1>1 DEF DepositInv, BlocksInOrder
<1>3. \A o \in Outputs : minedAt[o.tx] = scan => pending[o] = 0 /\ o \in Received
  BY <1>2 DEF DepositInv, RowsAreNoted, AddressesKnown, Received
<1>4. \A o \in Outputs : minedAt[o.tx] # scan => o \notin Received
  BY DEF Received
<1>5. \A o \in Outputs : pending[o] \in Nat /\ pending[o] <= 1
  <2>1. \A o \in Outputs : pending[o] \in Nat
    BY DEF DepositInv, DepositType
  <2>2. \A o \in Outputs : pending[o] <= 1
    BY <2>1 DEF DepositInv, RowsAreNoted
  <2> QED BY <2>1, <2>2
<1>6. Noted \in [Outputs -> Nat]
  BY <1>5 DEF Noted
<1>7. /\ \A o \in Outputs : minedAt[o.tx] = scan => Noted[o] = 1
      /\ \A o \in Outputs : minedAt[o.tx] # scan => Noted[o] = pending[o]
  BY <1>3, <1>4 DEF Noted
<1>8. \A o \in Outputs : Noted[o] <= 1
  BY <1>5, <1>7
<1>9. \A o \in Outputs : o.tx \in {d.tx : d \in Due} => minedAt[o.tx] + Confirmations = scan
  BY DEF Due
<1> QED BY <1>1, <1>2, <1>6, <1>7, <1>8, <1>9

(* The second section credits what is confirmed and notes what is new; the   *)
(* rows of RowsAreNoted tell that the two do not meet.                       *)
LEMMA UpdateStep ==
    ASSUME DepositInv, UpdateDeposits
    PROVE  DepositInv'
<1> USE Bounds, TxOfOutput
<1> DEFINE Cleared == {d.tx : d \in Due}
<1>0. DepositType /\ scan # 0
  BY DEF DepositInv, UpdateDeposits
<1>1. /\ scan \in Heights
      /\ outcome[scan] = "none"
      /\ Noted \in [Outputs -> Nat]
      /\ \A o \in Outputs : Noted[o] <= 1
      /\ \A o \in Outputs : minedAt[o.tx] = scan => Noted[o] = 1
      /\ \A o \in Outputs : minedAt[o.tx] # scan => Noted[o] = pending[o]
      /\ \A o \in Outputs : o.tx \in Cleared => minedAt[o.tx] + Confirmations = scan
  BY <1>0, ScanFacts
<1>2. /\ pending' = [o \in Outputs |-> IF o.tx \in Cleared THEN 0 ELSE Noted[o]]
      /\ credited' = [o \in Outputs |-> IF o \in Due THEN credited[o] + Noted[o] ELSE credited[o]]
      /\ ingested' = [ingested EXCEPT ![scan] = @ + 1]
      /\ outcome' = [outcome EXCEPT ![scan] = "done"]
      /\ forgotten' = forgotten \ Received
      /\ scan' = 0
      /\ known' = <<>>
      /\ UNCHANGED <<addresses, tip, minedAt, synced, taken, reg>>
  BY DEF UpdateDeposits, chain
<1>3. \A o \in Outputs : o \in Due <=> Noted[o] > 0 /\ minedAt[o.tx] + Confirmations = scan
  BY DEF Due
<1>4. \A o \in Outputs : o \in Due => o.tx \in Cleared
  OBVIOUS
<1> HIDE DEF Cleared
<1>5. DepositType'
  <2>1. pending' \in [Outputs -> Nat] /\ credited' \in [Outputs -> Nat]
    BY <1>0, <1>1, <1>2 DEF DepositType
  <2>2. ingested' \in [Heights -> Nat] /\ outcome' \in [Heights -> {"none", "done", "missed"}]
    BY <1>0, <1>1, <1>2 DEF DepositType
  <2>3. forgotten' \subseteq Outputs
    BY <1>0, <1>2 DEF DepositType
  <2> QED BY <1>0, <1>2, <2>1, <2>2, <2>3 DEF DepositType
<1>6. \A h \in Heights : outcome'[h] = IF h = scan THEN "done" ELSE outcome[h]
  BY <1>0, <1>2 DEF DepositType
<1>7. BlocksInOrder' /\ BlocksExist'
  <2>1. BlocksInOrder'
    BY <1>0, <1>1, <1>2, <1>6 DEF DepositInv, BlocksInOrder, DepositType, Heights
  <2>2. scan <= tip /\ \A h \in Heights : h # scan => ingested'[h] = ingested[h]
    BY <1>0, <1>2 DEF DepositType
  <2>3. BlocksExist'
    BY <1>2, <2>2 DEF DepositInv, BlocksExist
  <2> QED BY <2>1, <2>3
<1>8. RowsAreNoted'
  <2> SUFFICES ASSUME NEW o \in Outputs, pending'[o] # 0
               PROVE  /\ pending'[o] = 1
                      /\ minedAt'[o.tx] \in Heights
                      /\ outcome'[minedAt'[o.tx]] = "done"
    BY DEF RowsAreNoted
  <2>1. pending'[o] = Noted[o] /\ Noted[o] = 1 /\ minedAt'[o.tx] = minedAt[o.tx]
    BY <1>1, <1>2
  <2>2. CASE minedAt[o.tx] = scan
    BY <1>1, <1>6, <2>1, <2>2
  <2>3. CASE minedAt[o.tx] # scan
    BY <1>1, <1>6, <2>1, <2>3 DEF DepositInv, RowsAreNoted
  <2> QED BY <2>2, <2>3
<1>9. AddressesKnown'
  BY <1>2 DEF DepositInv, AddressesKnown
<1>10. CreditedOncePerConfirmation'
  <2> SUFFICES ASSUME NEW o \in Outputs, credited'[o] > 0
               PROVE  /\ minedAt'[o.tx] # 0
                      /\ ConfirmHeight(o)' \in Heights
                      /\ credited'[o] <= ingested'[ConfirmHeight(o)']
    BY DEF CreditedOncePerConfirmation
  <2>1. ConfirmHeight(o)' = ConfirmHeight(o) /\ minedAt'[o.tx] = minedAt[o.tx]
    BY <1>2 DEF ConfirmHeight
  <2>2. \A h \in Heights : ingested'[h] = IF h = scan THEN ingested[h] + 1 ELSE ingested[h]
    BY <1>0, <1>2 DEF DepositType
  <2>3. CASE o \in Due
    <3>1. credited'[o] = credited[o] + Noted[o] /\ Noted[o] = 1 /\ ConfirmHeight(o) = scan
      BY <1>1, <1>2, <1>3, <2>3 DEF ConfirmHeight
    <3>2. minedAt[o.tx] # 0
      <4>1. CASE minedAt[o.tx] = scan
        BY <1>0, <4>1
      <4>2. CASE minedAt[o.tx] # scan
        <5>1. pending[o] # 0
          BY <1>1, <3>1, <4>2
        <5>2. minedAt[o.tx] \in Heights
          BY <5>1 DEF DepositInv, RowsAreNoted
        <5> QED BY <5>2 DEF Heights
      <4> QED BY <4>1, <4>2
    <3>3. credited[o] <= ingested[scan] /\ credited[o] \in Nat /\ ingested[scan] \in Nat
      BY <1>0, <1>1, <3>1 DEF DepositInv, CreditedOncePerConfirmation, DepositType
    <3> QED BY <1>1, <2>1, <2>2, <3>1, <3>2, <3>3
  <2>4. CASE o \notin Due
    <3>1. credited'[o] = credited[o]
      BY <1>2, <2>4
    <3>2. /\ minedAt[o.tx] # 0 /\ ConfirmHeight(o) \in Heights
          /\ credited[o] <= ingested[ConfirmHeight(o)]
      BY <3>1 DEF DepositInv, CreditedOncePerConfirmation
    <3>3. credited[o] \in Nat /\ ingested[ConfirmHeight(o)] \in Nat
      BY <1>0, <3>2 DEF DepositType
    <3> QED BY <2>1, <2>2, <3>1, <3>2, <3>3
  <2> QED BY <2>3, <2>4
<1>11. DepositsAccounted'
  <2> SUFFICES ASSUME NEW o \in Outputs, NEW h \in Heights, minedAt'[o.tx] = h
               PROVE  /\ ingested'[h] > 0 => pending'[o] = 1 \/ credited'[o] > 0 \/ o \in forgotten'
                      /\ outcome'[h] = "done" =>
                            \/ pending'[o] = 1
                            \/ /\ h + Confirmations \in Heights
                               /\ outcome'[h + Confirmations] = "done"
                               /\ credited'[o] > 0
    BY DEF DepositsAccounted
  <2>0. minedAt[o.tx] = h /\ credited[o] \in Nat /\ pending[o] \in Nat /\ h \in Int
    BY <1>0, <1>2 DEF DepositType, Heights
  <2>1. CASE h = scan
    <3>1. Noted[o] = 1 /\ o.tx \notin Cleared
      BY <1>1, <2>0, <2>1
    <3> QED BY <1>2, <3>1
  <2>2. CASE h # scan
    <3>1. /\ outcome'[h] = outcome[h] /\ ingested'[h] = ingested[h] /\ Noted[o] = pending[o]
          /\ o \in forgotten' <=> o \in forgotten
      <4>1. o \notin Received
        BY <2>0, <2>2 DEF Received
      <4>2. ingested'[h] = ingested[h]
        BY <1>0, <1>2, <2>2 DEF DepositType
      <4> QED BY <1>1, <1>2, <1>6, <2>0, <2>2, <4>1, <4>2
    <3>2. /\ ingested[h] > 0 => pending[o] = 1 \/ credited[o] > 0 \/ o \in forgotten
          /\ outcome[h] = "done" =>
                \/ pending[o] = 1
                \/ /\ h + Confirmations \in Heights
                   /\ outcome[h + Confirmations] = "done"
                   /\ credited[o] > 0
      BY <2>0 DEF DepositInv, DepositsAccounted
    <3>3. credited[o] > 0 => credited'[o] > 0
      BY <1>1, <1>2, <2>0
    <3>4. CASE pending[o] = 1 /\ o.tx \in Cleared
      <4>1. o \in Due /\ h + Confirmations = scan
        BY <1>1, <1>3, <2>0, <3>1, <3>4
      <4>2. credited'[o] = credited[o] + 1
        BY <1>2, <3>1, <3>4, <4>1
      <4> QED BY <1>1, <1>6, <2>0, <4>1, <4>2
    <3>5. CASE pending[o] = 1 /\ o.tx \notin Cleared
      BY <1>2, <3>1, <3>5
    <3>6. CASE pending[o] # 1
      BY <1>6, <3>1, <3>2, <3>3, <3>6
    <3> QED BY <3>4, <3>5, <3>6
  <2> QED BY <2>1, <2>2
<1> QED BY <1>5, <1>7, <1>8, <1>9, <1>10, <1>11 DEF DepositInv

(* An error in either section changes no table, but the block is missed.     *)
LEMMA FailStep ==
    ASSUME DepositInv, IngestFails
    PROVE  DepositInv'
<1> USE Bounds, TxOfOutput
<1>0. DepositType /\ scan # 0
  BY DEF DepositInv, IngestFails
<1>1. /\ outcome' = [outcome EXCEPT ![scan] = "missed"]
      /\ scan' = 0
      /\ known' = <<>>
      /\ UNCHANGED <<pending, credited, ingested, forgotten, addresses, tip, minedAt, synced, taken, reg>>
  BY DEF IngestFails, store, chain
<1>2. scan \in Heights /\ outcome[scan] = "none"
  BY <1>0, ScanFacts
<1>3. \A h \in Heights : outcome'[h] = IF h = scan THEN "missed" ELSE outcome[h]
  BY <1>0, <1>1 DEF DepositType
<1>4. DepositType'
  <2>1. outcome' \in [Heights -> {"none", "done", "missed"}]
    BY <1>0, <1>1 DEF DepositType
  <2> QED BY <1>0, <1>1, <2>1 DEF DepositType
<1>5. BlocksInOrder' /\ BlocksExist'
  BY <1>0, <1>1, <1>2, <1>3 DEF DepositInv, BlocksInOrder, BlocksExist, DepositType, Heights
<1>6. RowsAreNoted'
  BY <1>1, <1>2, <1>3 DEF DepositInv, RowsAreNoted
<1>7. AddressesKnown' /\ CreditedOncePerConfirmation'
  BY <1>1 DEF DepositInv, AddressesKnown, CreditedOncePerConfirmation, ConfirmHeight
<1>8. DepositsAccounted'
  BY <1>1, <1>2, <1>3 DEF DepositInv, DepositsAccounted
<1> QED BY <1>4, <1>5, <1>6, <1>7, <1>8 DEF DepositInv

(* A restart drops the pending rows: what waited is forgotten.               *)
LEMMA RestartStep ==
    ASSUME DepositInv, NEW from \in {0, synced}, Restart(from)
    PROVE  DepositInv'
<1> USE Bounds, TxOfOutput
<1>0. DepositType
  BY DEF DepositInv
<1>1. /\ pending' = [o \in Outputs |-> 0]
      /\ forgotten' = forgotten \cup {o \in Outputs : pending[o] > 0}
      /\ outcome' = [h \in Heights |-> "none"]
      /\ scan' = 0
      /\ known' = <<>>
      /\ taken' = from
      /\ synced' = from
      /\ reg' = NoKey
      /\ UNCHANGED <<addresses, credited, tip, minedAt, ingested>>
  BY DEF Restart
<1>2. DepositType'
  BY <1>0, <1>1 DEF DepositType
<1>3. \A h \in Heights : outcome'[h] = "none"
  BY <1>1
<1>4. BlocksInOrder' /\ BlocksExist' /\ RowsAreNoted'
  BY <1>1, <1>3 DEF DepositInv, BlocksInOrder, BlocksExist, RowsAreNoted
<1>5. DepositsAccounted'
  <2>1. \A o \in Outputs : pending[o] = 1 \/ o \in forgotten => o \in forgotten'
    BY <1>1
  <2> QED BY <1>1, <1>3, <2>1 DEF DepositInv, DepositsAccounted
<1>6. AddressesKnown' /\ CreditedOncePerConfirmation'
  BY <1>1 DEF DepositInv, AddressesKnown, CreditedOncePerConfirmation, ConfirmHeight
<1> QED BY <1>2, <1>4, <1>5, <1>6 DEF DepositInv

(* The actions that only touch accounts and withdrawals.                     *)
Accounts ==
    \/ \E k \in Pubkeys : InsertDepositAddresses(k)
    \/ InitializeAccountBalances
    \/ RegisterFails
    \/ \E k \in Pubkeys, n \in Amounts : AddToBalance(k, n)
    \/ \E k \in Pubkeys, n \in Amounts : Withdraw(k, n)
    \/ \E i \in DOMAIN calls, status \in {"sent", "failed"} : PayOut(i, status)

(* The operations on accounts leave the deposits alone.                      *)
LEMMA AccountStep ==
    ASSUME DepositInv, Accounts
    PROVE  DepositInv'
<1>0. addresses \in Seq(Pubkeys) /\ reg \in Pubkeys \cup {NoKey}
  BY DEF DepositInv, DepositType
<1>1. UNCHANGED <<pending, credited, tip, synced, taken, scan, minedAt, ingested, outcome,
                  forgotten, known>>
  BY DEF Accounts, InsertDepositAddresses, InitializeAccountBalances, RegisterFails, AddToBalance,
         Withdraw, PayOut, store, chain, handler
<1>2. \/ addresses' = addresses
      \/ \E k \in Pubkeys : addresses' = Append(addresses, k)
  BY DEF Accounts, InsertDepositAddresses, InitializeAccountBalances, RegisterFails, AddToBalance,
         Withdraw, PayOut, store
<1>3. addresses' \in Seq(Pubkeys) /\ DOMAIN addresses \subseteq DOMAIN addresses'
  BY <1>0, <1>2
<1>4. reg' \in Pubkeys \cup {NoKey}
  BY <1>0 DEF Accounts, InsertDepositAddresses, InitializeAccountBalances, RegisterFails,
         AddToBalance, Withdraw, PayOut
<1> QED BY <1>1, <1>3, <1>4, DepositFrame

LEMMA DepositStep == DepositInv /\ [Next]_vars => DepositInv'
<1> SUFFICES ASSUME DepositInv, [Next]_vars PROVE DepositInv'
  OBVIOUS
<1>1. CASE \E T \in SUBSET Txids : Mine(T)
  BY <1>1, MineStep
<1>2. CASE Deliver
  BY <1>2, DeliverStep
<1>3. CASE Accounts
  BY <1>3, AccountStep
<1>4. CASE GetDepositAddressMap
  BY <1>4, ScanStep
<1>5. CASE UpdateDeposits
  BY <1>5, UpdateStep
<1>6. CASE IngestFails
  BY <1>6, FailStep
<1>7. CASE \E from \in {0, synced} : Restart(from)
  BY <1>7, RestartStep
<1>8. CASE UNCHANGED vars
  <2>1. /\ UNCHANGED <<pending, credited, tip, synced, taken, scan, minedAt, ingested, outcome,
                  forgotten, known>>
        /\ UNCHANGED <<addresses, reg>>
    BY <1>8 DEF vars
  <2>2. addresses' \in Seq(Pubkeys) /\ reg' \in Pubkeys \cup {NoKey}
    BY <2>1 DEF DepositInv, DepositType
  <2> QED BY <2>1, <2>2, DepositFrame
<1> QED BY <1>1, <1>2, <1>3, <1>4, <1>5, <1>6, <1>7, <1>8 DEF Next, Accounts

(* UpdateDeposits credits an output only with the block that confirms it, and  *)
(* at most once each time that block is ingested, however often the server     *)
(* restarts and resyncs, for any chain, outputs and number of confirmations.   *)
THEOREM CreditsConfirmed == Spec => []CreditedOncePerConfirmation
<1>1. DepositInv => CreditedOncePerConfirmation
  BY DEF DepositInv
<1> QED BY DepositInit, DepositStep, <1>1, PTL DEF Spec

(* UpdateDeposits overlooks no output of a block it ever ingested: the map of   *)
(* addresses read in one critical section is recent enough for the other, and   *)
(* only the restart that empties the pending table loses a deposit, until its   *)
(* block is ingested again.                                                    *)
THEOREM NoDepositOverlooked == Spec => []DepositsAccounted
<1>1. DepositInv => DepositsAccounted
  BY DEF DepositInv
<1> QED BY DepositInit, DepositStep, <1>1, PTL DEF Spec

-----------------------------------------------------------------------------
(* Induction on the naturals, for a set instead of a predicate: otherwise    *)
(* there is a least number outside of it.                                    *)
LEMMA NatInductionSet ==
    ASSUME NEW P, 0 \in P, \A n \in Nat : n \in P => n + 1 \in P
    PROVE  Nat \subseteq P
<1> DEFINE B == Nat \ P
           R == {ss \in Nat \X Nat : ss[1] < ss[2]}
<1> SUFFICES ASSUME B # {} PROVE FALSE
  OBVIOUS
<1>1. IsWellFoundedOn(R, Nat)
  BY NatLessThanWellFounded DEF OpToRel
<1>2. PICK m \in B : \A y \in B : ~ (<<y, m>> \in R)
  <2> B \subseteq Nat
    OBVIOUS
  <2> HIDE DEF R, B
  <2> QED BY <1>1, WFMin
<1>3. m \in Nat \ {0}
  OBVIOUS
<1>4. m - 1 \in Nat /\ <<m - 1, m>> \in R
  BY <1>3
<1>5. m - 1 \in P
  BY <1>2, <1>4
<1>6. (m - 1) + 1 \in P
  BY <1>4, <1>5
<1> QED BY <1>3, <1>6

LEMMA OneLess ==
    ASSUME NEW T, IsFiniteSet(T), NEW x \in T, NEW n \in Nat, Cardinality(T) = n + 1
    PROVE  Cardinality(T \ {x}) = n
<1>1. Cardinality(T \ {x}) = Cardinality(T) - 1
  BY FS_RemoveElement
<1> QED BY <1>1

(* Induction on the subsets of a finite set, for a set of sets: on their     *)
(* cardinality.                                                              *)
LEMMA FiniteInduction ==
    ASSUME NEW S, IsFiniteSet(S), NEW P, {} \in P,
           \A T \in SUBSET S : \A x \in S \ T : T \in P => T \cup {x} \in P
    PROVE  S \in P
<1> DEFINE Q == {n \in Nat : \A T \in SUBSET S : Cardinality(T) = n => T \in P}
<1>1. \A T \in SUBSET S : IsFiniteSet(T) /\ Cardinality(T) \in Nat
  BY FS_Subset, FS_CardinalityType
<1>2. 0 \in Q
  BY <1>1, FS_EmptySet
<1>3. ASSUME NEW n \in Nat, n \in Q PROVE n + 1 \in Q
  <2> SUFFICES ASSUME NEW T \in SUBSET S, Cardinality(T) = n + 1 PROVE T \in P
    OBVIOUS
  <2>0. IsFiniteSet(T) /\ T # {}
    BY <1>1, FS_EmptySet
  <2>1. PICK x \in T : TRUE
    BY <2>0
  <2>2. Cardinality(T \ {x}) = n
    BY <2>0, OneLess
  <2>3. T \ {x} \in P
    BY <1>3, <2>2
  <2>4. (T \ {x}) \cup {x} = T
    OBVIOUS
  <2> QED BY <2>3, <2>4
<1> HIDE DEF Q
<1>4. Nat \subseteq Q
  BY <1>2, <1>3, NatInductionSet
<1> QED BY <1>1, <1>4 DEF Q

-----------------------------------------------------------------------------
(* The fold of the library chooses a function that satisfies the recursion   *)
(* below. First it is shown that there is one, then that it gives the same   *)
(* sum whatever set it is defined on.                                        *)
Pick(s) == CHOOSE x \in s : TRUE
Iterates(g, f, S) ==
    g = [s \in SUBSET S |-> IF s = {} THEN 0 ELSE f[Pick(s)] + g[s \ {Pick(s)}]]

LEMMA SumIsFold ==
    ASSUME NEW f, NEW S
    PROVE  SumFunctionOnSet(f, S) = (CHOOSE g : Iterates(g, f, S))[S]
BY DEF SumFunctionOnSet, FoldFunctionOnSet, MapThenFoldSet, Iterates, Pick

LEMMA IterationExists ==
    ASSUME NEW f, NEW S, IsFiniteSet(S)
    PROVE  \E g : Iterates(g, f, S)
<1> DEFINE Upto(g, n) == \A s \in SUBSET S : Cardinality(s) <= n =>
               g[s] = IF s = {} THEN 0 ELSE f[Pick(s)] + g[s \ {Pick(s)}]
           Q == {n \in Nat : \E g : DOMAIN g = SUBSET S /\ g = [s \in SUBSET S |-> g[s]] /\ Upto(g, n)}
<1>1. \A T \in SUBSET S : IsFiniteSet(T) /\ Cardinality(T) \in Nat /\ Cardinality(T) <= Cardinality(S)
  BY FS_Subset, FS_CardinalityType
<1>a. \A s \in SUBSET S : s # {} => /\ Pick(s) \in s
                                    /\ s \ {Pick(s)} \in SUBSET S
                                    /\ Cardinality(s \ {Pick(s)}) = Cardinality(s) - 1
  BY <1>1, FS_RemoveElement DEF Pick
<1>2. 0 \in Q
  <2> DEFINE g == [s \in SUBSET S |-> 0]
  <2>1. Upto(g, 0)
    BY <1>1, FS_EmptySet
  <2> QED BY <2>1
<1>3. ASSUME NEW n \in Nat, n \in Q PROVE n + 1 \in Q
  <2>1. PICK g : DOMAIN g = SUBSET S /\ Upto(g, n)
    BY <1>3
  <2> DEFINE h == [s \in SUBSET S |-> IF Cardinality(s) <= n THEN g[s]
                                      ELSE f[Pick(s)] + g[s \ {Pick(s)}]]
  <2>2. ASSUME NEW s \in SUBSET S, Cardinality(s) <= n + 1
        PROVE  h[s] = IF s = {} THEN 0 ELSE f[Pick(s)] + h[s \ {Pick(s)}]
    <3>1. CASE s = {}
      <4>1. Cardinality(s) = 0
        BY <3>1, FS_EmptySet
      <4>2. h[s] = g[s] 
        BY <4>1
      <4> QED BY <3>1, <4>1, <4>2, <2>1
    <3>2. CASE s # {}
      <4>1. /\ s \ {Pick(s)} \in SUBSET S
            /\ Cardinality(s \ {Pick(s)}) = Cardinality(s) - 1
            /\ Cardinality(s) \in Nat
        BY <3>2, <1>a, <1>1
      <4>2. h[s \ {Pick(s)}] = g[s \ {Pick(s)}]
        BY <4>1, <2>2
      <4>3. h[s] = f[Pick(s)] + g[s \ {Pick(s)}]
        BY <2>1, <3>2
      <4> QED BY <3>2, <4>2, <4>3
    <3> QED BY <3>1, <3>2
  <2>3. DOMAIN h = SUBSET S /\ h = [s \in SUBSET S |-> h[s]] /\ Upto(h, n + 1)
    BY <2>2
  <2> HIDE DEF h, Upto
  <2> QED BY <2>3
<1>4. Cardinality(S) \in Q
  <2> HIDE DEF Q
  <2>1. Nat \subseteq Q
    BY <1>2, <1>3, NatInductionSet
  <2> QED BY <1>1, <2>1
<1>5. PICK g : g = [s \in SUBSET S |-> g[s]] /\ Upto(g, Cardinality(S))
  BY <1>4
<1>6. \A s \in SUBSET S : g[s] = IF s = {} THEN 0 ELSE f[Pick(s)] + g[s \ {Pick(s)}]
  BY <1>1, <1>5
<1>7. g = [s \in SUBSET S |-> IF s = {} THEN 0 ELSE f[Pick(s)] + g[s \ {Pick(s)}]]
  BY <1>5, <1>6
<1> QED BY <1>7 DEF Iterates

(* The chosen function satisfies the recursion.                              *)
LEMMA IterationDefined ==
    ASSUME NEW f, NEW S, IsFiniteSet(S)
    PROVE  Iterates(CHOOSE g : Iterates(g, f, S), f, S)
BY IterationExists

(* Two functions that satisfy it agree where both are defined.               *)
LEMMA IterationAgrees ==
    ASSUME NEW f, NEW S, IsFiniteSet(S), NEW T \in SUBSET S,
           NEW g, Iterates(g, f, S), NEW h, Iterates(h, f, T)
    PROVE  g[T] = h[T]
<1> DEFINE Q == {n \in Nat : \A s \in SUBSET T : Cardinality(s) = n => g[s] = h[s]}
<1>1. \A s \in SUBSET T : s \in SUBSET S /\ IsFiniteSet(s) /\ Cardinality(s) \in Nat
  BY FS_Subset, FS_CardinalityType
<1>2. \A s \in SUBSET T :
          /\ g[s] = IF s = {} THEN 0 ELSE f[Pick(s)] + g[s \ {Pick(s)}]
          /\ h[s] = IF s = {} THEN 0 ELSE f[Pick(s)] + h[s \ {Pick(s)}]
  BY <1>1 DEF Iterates
<1>3. 0 \in Q
  BY <1>1, <1>2, FS_EmptySet
<1>4. ASSUME NEW n \in Nat, n \in Q PROVE n + 1 \in Q
  <2> SUFFICES ASSUME NEW s \in SUBSET T, Cardinality(s) = n + 1 PROVE g[s] = h[s]
    OBVIOUS
  <2>1. s # {} /\ IsFiniteSet(s)
    BY <1>1, FS_EmptySet
  <2>2. Pick(s) \in s /\ s \ {Pick(s)} \in SUBSET T
    BY <2>1 DEF Pick
  <2>3. Cardinality(s \ {Pick(s)}) = n
    BY <2>1, <2>2, OneLess
  <2>4. g[s \ {Pick(s)}] = h[s \ {Pick(s)}]
    BY <1>4, <2>2, <2>3
  <2> QED BY <1>2, <2>1, <2>4
<1> HIDE DEF Q
<1>5. Nat \subseteq Q
  BY <1>3, <1>4, NatInductionSet
<1> QED BY <1>1, <1>5 DEF Q

(* The function for a set also computes the sums over its subsets.           *)
LEMMA SumOfSubset ==
    ASSUME NEW f, NEW S, IsFiniteSet(S), NEW T \in SUBSET S
    PROVE  SumFunctionOnSet(f, T) = (CHOOSE g : Iterates(g, f, S))[T]
<1> IsFiniteSet(T)
  BY FS_Subset
<1>1. SumFunctionOnSet(f, T) = (CHOOSE g : Iterates(g, f, T))[T]
  BY SumIsFold
<1>2. Iterates(CHOOSE g : Iterates(g, f, S), f, S) /\ Iterates(CHOOSE g : Iterates(g, f, T), f, T)
  BY IterationDefined
<1> QED BY <1>1, <1>2, IterationAgrees

(* The sum over the empty set, and over another one: an element and the rest.  *)
LEMMA SumEmpty ==
    ASSUME NEW f
    PROVE  SumFunctionOnSet(f, {}) = 0
<1> DEFINE g == CHOOSE g : Iterates(g, f, {})
<1>1. Iterates(g, f, {})
  BY IterationDefined, FS_EmptySet
<1>2. SumFunctionOnSet(f, {}) = g[{}]
  BY SumIsFold
<1> HIDE DEF g
<1> QED BY <1>1, <1>2 DEF Iterates

(* The recursion, stated of the sum itself.                                  *)
LEMMA SumPick ==
    ASSUME NEW f, NEW S, IsFiniteSet(S), S # {}
    PROVE  /\ Pick(S) \in S
           /\ SumFunctionOnSet(f, S) = f[Pick(S)] + SumFunctionOnSet(f, S \ {Pick(S)})
<1> DEFINE g == CHOOSE g : Iterates(g, f, S)
<1>1. Iterates(g, f, S)
  BY IterationDefined
<1>2. SumFunctionOnSet(f, S) = g[S] /\ SumFunctionOnSet(f, S \ {Pick(S)}) = g[S \ {Pick(S)}]
  BY SumOfSubset
<1>3. Pick(S) \in S
  BY DEF Pick
<1> HIDE DEF g
<1> QED BY <1>1, <1>2, <1>3 DEF Iterates

(* A sum of naturals is a natural.                                           *)
LEMMA SumType ==
    ASSUME NEW f, NEW S, IsFiniteSet(S), \A x \in S : f[x] \in Nat
    PROVE  SumFunctionOnSet(f, S) \in Nat
<1> DEFINE Q == {n \in Nat : \A T \in SUBSET S : Cardinality(T) = n => SumFunctionOnSet(f, T) \in Nat}
<1>1. \A T \in SUBSET S : IsFiniteSet(T) /\ Cardinality(T) \in Nat
  BY FS_Subset, FS_CardinalityType
<1>2. 0 \in Q
  BY <1>1, FS_EmptySet, SumEmpty
<1>3. ASSUME NEW n \in Nat, n \in Q PROVE n + 1 \in Q
  <2> SUFFICES ASSUME NEW T \in SUBSET S, Cardinality(T) = n + 1
               PROVE  SumFunctionOnSet(f, T) \in Nat
    OBVIOUS
  <2>1. T # {} /\ IsFiniteSet(T)
    BY <1>1, FS_EmptySet
  <2>2. /\ Pick(T) \in T
        /\ SumFunctionOnSet(f, T) = f[Pick(T)] + SumFunctionOnSet(f, T \ {Pick(T)})
    BY <2>1, SumPick
  <2>3. Cardinality(T \ {Pick(T)}) = n
    BY <2>1, <2>2, OneLess
  <2>4. SumFunctionOnSet(f, T \ {Pick(T)}) \in Nat
    BY <1>3, <2>3
  <2> QED BY <2>2, <2>4
<1> HIDE DEF Q
<1>4. Nat \subseteq Q
  BY <1>2, <1>3, NatInductionSet
<1> QED BY <1>1, <1>4 DEF Q

(* Whatever element is taken first.                                        *)
LEMMA SumRemove ==
    ASSUME NEW f, NEW S, IsFiniteSet(S), \A y \in S : f[y] \in Nat, NEW x \in S
    PROVE  SumFunctionOnSet(f, S) = f[x] + SumFunctionOnSet(f, S \ {x})
<1> DEFINE Sum(T) == SumFunctionOnSet(f, T)
           Q == {n \in Nat : \A T \in SUBSET S : \A y \in T :
                    Cardinality(T) = n => Sum(T) = f[y] + Sum(T \ {y})}
<1>1. \A T \in SUBSET S : IsFiniteSet(T) /\ Cardinality(T) \in Nat /\ Sum(T) \in Nat
  BY FS_Subset, FS_CardinalityType, SumType
<1>2. 0 \in Q
  BY <1>1, FS_EmptySet
<1>3. ASSUME NEW n \in Nat, n \in Q PROVE n + 1 \in Q
  <2> SUFFICES ASSUME NEW T \in SUBSET S, NEW y \in T, Cardinality(T) = n + 1
               PROVE  Sum(T) = f[y] + Sum(T \ {y})
    OBVIOUS
  <2>1. T # {} /\ IsFiniteSet(T)
    BY <1>1
  <2> DEFINE p == Pick(T)
  <2>2. p \in T /\ Sum(T) = f[p] + Sum(T \ {p})
    BY <2>1, SumPick
  <2>3. Cardinality(T \ {p}) = n /\ Cardinality(T \ {y}) = n
    BY <2>1, <2>2, OneLess
  <2> HIDE DEF p, Sum
  <2>4. CASE p # y
    <3>1. Sum(T \ {p}) = f[y] + Sum((T \ {p}) \ {y})
      BY <1>3, <2>3, <2>4
    <3>2. Sum(T \ {y}) = f[p] + Sum((T \ {y}) \ {p})
      BY <1>3, <2>2, <2>3, <2>4
    <3>3. (T \ {y}) \ {p} = (T \ {p}) \ {y}
      OBVIOUS
    <3>4. f[p] \in Nat /\ f[y] \in Nat /\ Sum((T \ {p}) \ {y}) \in Nat
      BY <1>1, <2>2
    <3> QED BY <2>2, <3>1, <3>2, <3>3, <3>4
  <2> QED BY <2>2, <2>4
<1> HIDE DEF Q
<1>4. Nat \subseteq Q
  BY <1>2, <1>3, NatInductionSet
<1>5. Cardinality(S) \in Q /\ S \in SUBSET S
  BY <1>1, <1>4
<1> QED BY <1>5 DEF Q

(* Sums of the same numbers.                                                 *)
LEMMA SumSame ==
    ASSUME NEW S, IsFiniteSet(S), NEW f, NEW h,
           \A x \in S : f[x] \in Nat /\ h[x] = f[x]
    PROVE  SumFunctionOnSet(h, S) = SumFunctionOnSet(f, S)
<1> DEFINE P == {T \in SUBSET S : SumFunctionOnSet(h, T) = SumFunctionOnSet(f, T)}
<1>1. {} \in P
  BY SumEmpty
<1>2. ASSUME NEW T \in SUBSET S, NEW x \in S \ T, T \in P PROVE T \cup {x} \in P
  <2>1. IsFiniteSet(T \cup {x}) /\ (T \cup {x}) \ {x} = T
    BY FS_Subset
  <2>2. /\ SumFunctionOnSet(f, T \cup {x}) = f[x] + SumFunctionOnSet(f, T)
        /\ SumFunctionOnSet(h, T \cup {x}) = h[x] + SumFunctionOnSet(h, T)
    BY <2>1, SumRemove
  <2> QED BY <1>2, <2>2
<1> HIDE DEF P
<1>3. S \in P
  BY <1>1, <1>2, FiniteInduction
<1> QED BY <1>3 DEF P

(* Terms that are 0 do not count.                                            *)
LEMMA SumNonzero ==
    ASSUME NEW S, IsFiniteSet(S), NEW f, \A x \in S : f[x] \in Nat,
           NEW U \in SUBSET S, \A x \in S \ U : f[x] = 0
    PROVE  SumFunctionOnSet(f, S) = SumFunctionOnSet(f, U)
<1> DEFINE P == {T \in SUBSET S : SumFunctionOnSet(f, T) = SumFunctionOnSet(f, T \cap U)}
<1>1. {} \in P
  BY SumEmpty
<1>2. ASSUME NEW T \in SUBSET S, NEW x \in S \ T, T \in P PROVE T \cup {x} \in P
  <2>1. IsFiniteSet(T \cup {x}) /\ (T \cup {x}) \ {x} = T /\ IsFiniteSet(T)
    BY FS_Subset
  <2>2. SumFunctionOnSet(f, T \cup {x}) = f[x] + SumFunctionOnSet(f, T)
    BY <2>1, SumRemove
  <2>3. CASE x \in U
    <3>1. ((T \cup {x}) \cap U) \ {x} = T \cap U /\ x \in (T \cup {x}) \cap U
      BY <2>3
    <3>2. IsFiniteSet((T \cup {x}) \cap U)
      BY FS_Subset
    <3>3. SumFunctionOnSet(f, (T \cup {x}) \cap U) = f[x] + SumFunctionOnSet(f, T \cap U)
      BY <3>1, <3>2, SumRemove
    <3> QED BY <1>2, <2>2, <3>3
  <2>4. CASE x \notin U
    <3>1. (T \cup {x}) \cap U = T \cap U /\ f[x] = 0
      BY <2>4
    <3>2. SumFunctionOnSet(f, T) \in Nat
      BY <2>1, SumType
    <3>3. SumFunctionOnSet(f, T \cup {x}) = SumFunctionOnSet(f, T)
      BY <2>2, <3>1, <3>2
    <3> QED BY <1>2, <3>1, <3>3
  <2> QED BY <2>3, <2>4
<1> HIDE DEF P
<1>3. S \in P
  BY <1>1, <1>2, FiniteInduction
<1>4. S \cap U = U
  OBVIOUS
<1> QED BY <1>3, <1>4 DEF P

(* The sum grows by what one entry grows.                                    *)
LEMMA SumAdd ==
    ASSUME NEW S, IsFiniteSet(S), NEW f, NEW d, NEW h,
           \A x \in S : f[x] \in Nat /\ d[x] \in Nat /\ h[x] = f[x] + d[x]
    PROVE  SumFunctionOnSet(h, S) = SumFunctionOnSet(f, S) + SumFunctionOnSet(d, S)
<1> DEFINE P == {T \in SUBSET S :
                    SumFunctionOnSet(h, T) = SumFunctionOnSet(f, T) + SumFunctionOnSet(d, T)}
<1>1. {} \in P
  BY SumEmpty
<1>2. ASSUME NEW T \in SUBSET S, NEW x \in S \ T, T \in P PROVE T \cup {x} \in P
  <2>1. IsFiniteSet(T \cup {x}) /\ (T \cup {x}) \ {x} = T /\ IsFiniteSet(T)
    BY FS_Subset
  <2>2. /\ SumFunctionOnSet(f, T \cup {x}) = f[x] + SumFunctionOnSet(f, T)
        /\ SumFunctionOnSet(d, T \cup {x}) = d[x] + SumFunctionOnSet(d, T)
        /\ SumFunctionOnSet(h, T \cup {x}) = h[x] + SumFunctionOnSet(h, T)
    BY <2>1, SumRemove
  <2>3. SumFunctionOnSet(f, T) \in Nat /\ SumFunctionOnSet(d, T) \in Nat
    BY <2>1, SumType
  <2> QED BY <1>2, <2>2, <2>3
<1> HIDE DEF P
<1>3. S \in P
  BY <1>1, <1>2, FiniteInduction
<1> QED BY <1>3 DEF P

-----------------------------------------------------------------------------
(* The types that DepositType leaves out, and the invariant of the           *)
(* accounts: SpendableBacked is inductive given the types and DepositInv,    *)
(* from which it follows that an output is credited by one action only.      *)
Call == [key : Pubkeys, amount : Nat, status : {"paying", "sent", "failed"}]

AccountType ==
    /\ rows \in [Pubkeys -> Seq(Nat)]
    /\ stray \in [Pubkeys -> Nat]
    /\ pushed \in [Pubkeys -> Nat]
    /\ calls \in Seq(Call)
    /\ restarts \in Nat

AccountInv ==
    /\ DepositInv
    /\ AccountType
    /\ SpendableBacked

LEMMA NatProduct == \A m, n \in Nat : m * n \in Nat
OBVIOUS

LEMMA OutputAmount == \A o \in Outputs : o.amount \in Nat
BY CustodyAssumption DEF CustodyAssumption

(* UPDATE ... WHERE pubkey: as many rows as before, each with the new balance. *)
LEMMA SetBalanceFacts ==
    ASSUME AccountType, NEW k \in Pubkeys, rows[k] # <<>>, NEW n \in Nat
    PROVE  /\ SetBalance(k, n) \in Seq(Nat)
           /\ SetBalance(k, n) # <<>>
           /\ Head(SetBalance(k, n)) = n
           /\ Balance(k) \in Nat
<1>1. rows[k] \in Seq(Nat) /\ DOMAIN rows[k] = 1..Len(rows[k]) /\ Len(rows[k]) \in Nat \ {0}
  BY DEF AccountType
<1>2. SetBalance(k, n) \in Seq(Nat) /\ Len(SetBalance(k, n)) = Len(rows[k])
  BY <1>1 DEF SetBalance
<1>3. SetBalance(k, n)[1] = n
  BY <1>1 DEF SetBalance
<1>4. Balance(k) \in Nat
  BY <1>1 DEF Balance
<1> QED BY <1>1, <1>2, <1>3, <1>4

(* A client has finitely many withdrawals, of natural amounts.               *)
LEMMA CallFacts ==
    ASSUME NEW cs \in Seq(Call), NEW k
    PROVE  /\ IsFiniteSet({i \in DOMAIN cs : cs[i].key = k})
           /\ \A i \in DOMAIN cs : cs[i] \in Call /\ cs[i].amount \in Nat
           /\ DOMAIN cs = 1..Len(cs) /\ Len(cs) \in Nat
<1>1. DOMAIN cs = 1..Len(cs) /\ Len(cs) \in Nat
  OBVIOUS
<1>2. IsFiniteSet(DOMAIN cs)
  BY <1>1, FS_Interval
<1>3. IsFiniteSet({i \in DOMAIN cs : cs[i].key = k})
  BY <1>2, FS_Subset
<1>4. \A i \in DOMAIN cs : cs[i] \in Call
  BY <1>1
<1>5. \A c \in Call : c.amount \in Nat
  BY DEF Call
<1> QED BY <1>1, <1>3, <1>4, <1>5

(* The three amounts that SpendableBacked relates are naturals.              *)
LEMMA Totals ==
    ASSUME AccountInv, NEW k \in Pubkeys
    PROVE  /\ Deposited(k) \in Nat
           /\ Withdrawn(k) \in Nat
           /\ Spendable(k) \in Nat
<1>1. Deposited(k) \in Nat
  <2> DEFINE f == [o \in Outputs |-> credited[o] * o.amount]
             C == {o \in Outputs : credited[o] > 0 /\ Owner(o) = k}
  <2>1. IsFiniteSet(C)
    BY CustodyAssumption, FS_Subset DEF CustodyAssumption
  <2>2. \A o \in C : f[o] \in Nat
    BY NatProduct, OutputAmount DEF AccountInv, DepositInv, DepositType
  <2> HIDE DEF f, C
  <2>3. SumFunctionOnSet(f, C) \in Nat
    BY <2>1, <2>2, SumType
  <2> QED BY <2>3 DEF Deposited, f, C
<1>2. Withdrawn(k) \in Nat
  <2> DEFINE f == [i \in DOMAIN calls |-> calls[i].amount]
             C == {i \in DOMAIN calls : calls[i].key = k}
  <2>1. IsFiniteSet(C) /\ \A i \in C : f[i] \in Nat
    BY CallFacts DEF AccountInv, AccountType
  <2> HIDE DEF f, C
  <2>2. SumFunctionOnSet(f, C) \in Nat
    BY <2>1, SumType
  <2> QED BY <2>2 DEF Withdrawn, f, C
<1>3. Spendable(k) \in Nat
  BY DEF AccountInv, AccountType, Spendable, Balance
<1> QED BY <1>1, <1>2, <1>3

(* Withdrawals that change only their status.                                *)
LEMMA WithdrawnSame ==
    ASSUME AccountInv, calls' \in Seq(Call), DOMAIN calls' = DOMAIN calls,
           \A i \in DOMAIN calls : calls'[i].key = calls[i].key /\ calls'[i].amount = calls[i].amount,
           NEW k \in Pubkeys
    PROVE  Withdrawn(k)' = Withdrawn(k)
<1> DEFINE f == [i \in DOMAIN calls |-> calls[i].amount]
           C == {i \in DOMAIN calls : calls[i].key = k}
<1>1. f' = f /\ C' = C
  OBVIOUS
<1>2. Withdrawn(k) = SumFunctionOnSet(f, C) /\ Withdrawn(k)' = SumFunctionOnSet(f', C')
  BY DEF Withdrawn
<1> HIDE DEF f, C
<1> QED BY <1>1, <1>2

(* One more withdrawal.                                                     *)
LEMMA WithdrawnMore ==
    ASSUME AccountInv, NEW c \in Call, calls' = Append(calls, c), NEW k \in Pubkeys
    PROVE  Withdrawn(k)' = Withdrawn(k) + (IF c.key = k THEN c.amount ELSE 0)
<1> DEFINE n == Len(calls) + 1
           f == [i \in DOMAIN calls |-> calls[i].amount]
           C == {i \in DOMAIN calls : calls[i].key = k}
           g == [i \in DOMAIN calls' |-> calls'[i].amount]
           D == {i \in DOMAIN calls' : calls'[i].key = k}
<1>1. calls \in Seq(Call) /\ calls' \in Seq(Call)
  BY DEF AccountInv, AccountType
<1>2. DOMAIN calls = 1..Len(calls) /\ Len(calls) \in Nat
  BY <1>1
<1>3. /\ DOMAIN calls' = 1..(Len(calls) + 1)
      /\ \A i \in DOMAIN calls : calls'[i] = calls[i]
      /\ calls'[n] = c
  BY <1>1, <1>2
<1>4. n \notin DOMAIN calls /\ DOMAIN calls' = DOMAIN calls \cup {n}
  BY <1>2, <1>3
<1>5. /\ IsFiniteSet(C) /\ \A i \in DOMAIN calls : calls[i].amount \in Nat
      /\ IsFiniteSet(D) /\ \A i \in DOMAIN calls' : calls'[i].amount \in Nat
  BY <1>1, CallFacts
<1>6. \A i \in C : f[i] \in Nat /\ g[i] = f[i]
  BY <1>3, <1>4, <1>5
<1>7. \A i \in D : g[i] \in Nat
  BY <1>5
<1>8. Withdrawn(k) = SumFunctionOnSet(f, C) /\ Withdrawn(k)' = SumFunctionOnSet(g, D)
  BY DEF Withdrawn
<1>9. SumFunctionOnSet(g, C) = SumFunctionOnSet(f, C) /\ SumFunctionOnSet(f, C) \in Nat
  <2> HIDE DEF f, g, C, D
  <2> QED BY <1>5, <1>6, SumSame, SumType
<1>10. CASE c.key = k
  <2>1. n \in D /\ D \ {n} = C /\ g[n] = c.amount /\ c.amount \in Nat
    BY <1>3, <1>4, <1>10 DEF Call
  <2> HIDE DEF f, g, C, D
  <2>2. SumFunctionOnSet(g, D) = g[n] + SumFunctionOnSet(g, D \ {n})
    BY <1>5, <1>7, <2>1, SumRemove
  <2>3. Withdrawn(k)' = c.amount + Withdrawn(k) /\ Withdrawn(k) \in Nat
    BY <1>8, <1>9, <2>1, <2>2
  <2>4. (IF c.key = k THEN c.amount ELSE 0) = c.amount
    BY <1>10
  <2> QED BY <2>1, <2>3, <2>4
<1>11. CASE c.key # k
  <2>1. D = C
    BY <1>3, <1>4, <1>11
  <2> HIDE DEF f, g, C, D
  <2>2. Withdrawn(k)' = Withdrawn(k) /\ Withdrawn(k) \in Nat
    BY <1>8, <1>9, <2>1
  <2>3. (IF c.key = k THEN c.amount ELSE 0) = 0
    BY <1>11
  <2> QED BY <2>2, <2>3
<1> HIDE DEF f, g, C, D, n
<1> QED BY <1>10, <1>11

(* New addresses do not change whose the credited outputs are.               *)
LEMMA DepositedSame ==
    ASSUME AccountInv, credited' = credited,
           \A o \in Outputs : credited[o] > 0 => Owner(o)' = Owner(o),
           NEW k \in Pubkeys
    PROVE  Deposited(k)' = Deposited(k)
<1> DEFINE f == [o \in Outputs |-> credited[o] * o.amount]
           C == {o \in Outputs : credited[o] > 0 /\ Owner(o) = k}
<1>1. f' = f /\ C' = C
  OBVIOUS
<1>2. Deposited(k) = SumFunctionOnSet(f, C) /\ Deposited(k)' = SumFunctionOnSet(f', C')
  BY DEF Deposited
<1> HIDE DEF f, C
<1> QED BY <1>1, <1>2

(* UpdateDeposits credits what is due.                                       *)
LEMMA DepositedMore ==
    ASSUME AccountInv, UpdateDeposits, NEW k \in Pubkeys
    PROVE  Deposited(k)' = Deposited(k) + DueAmount(k) /\ DueAmount(k) \in Nat
<1> DEFINE f == [o \in Outputs |-> credited[o] * o.amount]
           C == {o \in Outputs : credited[o] > 0 /\ Owner(o) = k}
           h == [o \in Outputs |-> credited'[o] * o.amount]
           H == {o \in Outputs : credited'[o] > 0 /\ Owner(o) = k}
           e == [o \in Outputs |-> Noted[o] * o.amount]
           d == [o \in Outputs |-> IF o \in Due THEN Noted[o] * o.amount ELSE 0]
           D == DueOf(k)
<1>1. /\ credited \in [Outputs -> Nat] /\ Noted \in [Outputs -> Nat]
      /\ credited' = [o \in Outputs |-> IF o \in Due THEN credited[o] + Noted[o] ELSE credited[o]]
      /\ addresses' = addresses
  BY ScanFacts DEF AccountInv, DepositInv, DepositType, UpdateDeposits
<1>2. \A o \in Outputs : credited[o] \in Nat /\ Noted[o] \in Nat /\ o.amount \in Nat
  BY <1>1, OutputAmount
<1>3. \A o \in Outputs : f[o] \in Nat /\ d[o] \in Nat /\ e[o] \in Nat
  BY <1>2, NatProduct
<1>4. \A o \in Outputs : h[o] = f[o] + d[o]
  <2> SUFFICES ASSUME NEW o \in Outputs PROVE h[o] = f[o] + d[o]
    OBVIOUS
  <2>1. CASE o \in Due
    <3>1. h[o] = (credited[o] + Noted[o]) * o.amount
      BY <1>1, <2>1
    <3>2. f[o] + d[o] = credited[o] * o.amount + Noted[o] * o.amount
      BY <2>1
    <3>3. \A a, b, c \in Nat : (a + b) * c = a * c + b * c
      OBVIOUS
    <3> QED BY <1>2, <3>1, <3>2, <3>3
  <2>2. CASE o \notin Due
    <3>1. h[o] = f[o] /\ d[o] = 0 /\ f[o] \in Nat
      BY <1>1, <1>3, <2>2
    <3> QED BY <3>1
  <2> QED BY <2>1, <2>2
<1>5. \A o \in Due : o \in Outputs /\ Noted[o] > 0
  BY DEF Due
<1>6. /\ C \in SUBSET H
      /\ D \in SUBSET H
      /\ \A o \in H \ C : credited[o] = 0
      /\ \A o \in H \ D : o \notin Due
  BY <1>1, <1>2, <1>5 DEF DueOf
<1>7. (\A o \in H \ C : f[o] = 0) /\ (\A o \in H \ D : d[o] = 0) /\ (\A o \in D : d[o] = e[o])
  BY <1>2, <1>6 DEF DueOf
<1>8. IsFiniteSet(H) /\ IsFiniteSet(D)
  BY CustodyAssumption, FS_Subset DEF CustodyAssumption, DueOf, Due
<1>9. /\ Deposited(k) = SumFunctionOnSet(f, C)
      /\ Deposited(k)' = SumFunctionOnSet(h, H)
      /\ DueAmount(k) = SumFunctionOnSet(e, D)
  BY <1>1 DEF Deposited, DueAmount, Owner
<1>10. H \subseteq Outputs /\ D \subseteq Outputs
  BY <1>5 DEF DueOf
<1> HIDE DEF f, C, h, H, e, d, D
<1>11. SumFunctionOnSet(h, H) = SumFunctionOnSet(f, H) + SumFunctionOnSet(d, H)
  BY <1>3, <1>4, <1>8, <1>10, SumAdd
<1>12. SumFunctionOnSet(f, H) = SumFunctionOnSet(f, C) /\ SumFunctionOnSet(d, H) = SumFunctionOnSet(d, D)
  BY <1>3, <1>6, <1>7, <1>8, <1>10, SumNonzero
<1>13. SumFunctionOnSet(d, D) = SumFunctionOnSet(e, D) /\ SumFunctionOnSet(e, D) \in Nat
  BY <1>3, <1>7, <1>8, <1>10, SumSame, SumType
<1> QED BY <1>9, <1>11, <1>12, <1>13

-----------------------------------------------------------------------------
(* Nobody has an account at the first start.                                 *)
LEMMA AccountInit == Init => AccountInv
<1> SUFFICES ASSUME Init PROVE AccountInv
  OBVIOUS
<1>1. DepositInv
  BY DepositInit
<1>2. AccountType
  BY DEF Init, AccountType
<1>3. ASSUME NEW k \in Pubkeys
      PROVE  Spendable(k) + stray[k] + Withdrawn(k) = Deposited(k) + pushed[k]
  <2>1. {o \in Outputs : credited[o] > 0 /\ Owner(o) = k} = {}
    BY DEF Init
  <2>2. {i \in DOMAIN calls : calls[i].key = k} = {}
    BY DEF Init
  <2>3. Deposited(k) = 0 /\ Withdrawn(k) = 0
    BY <2>1, <2>2, SumEmpty DEF Deposited, Withdrawn
  <2>4. Spendable(k) = 0 /\ stray[k] = 0 /\ pushed[k] = 0
    BY DEF Init, Spendable
  <2> QED BY <2>3, <2>4
<1> QED BY <1>1, <1>2, <1>3 DEF AccountInv, SpendableBacked

(* A step that changes no balance and credits nothing; it may end withdrawals  *)
(* and add addresses and rows of 0.                                          *)
LEMMA AccountFrame ==
    ASSUME AccountInv, DepositInv',
           UNCHANGED <<stray, pushed, credited>>,
           restarts' \in Nat,
           rows' \in [Pubkeys -> Seq(Nat)],
           \A k \in Pubkeys : Spendable(k)' = Spendable(k),
           calls' \in Seq(Call), DOMAIN calls' = DOMAIN calls,
           \A i \in DOMAIN calls : calls'[i].key = calls[i].key /\ calls'[i].amount = calls[i].amount,
           \A o \in Outputs : o.addr \in DOMAIN addresses => addresses'[o.addr] = addresses[o.addr]
    PROVE  AccountInv'
<1>1. AccountType'
  BY DEF AccountInv, AccountType
<1>2. \A o \in Outputs : credited[o] > 0 => Owner(o)' = Owner(o)
  BY DEF AccountInv, DepositInv, CreditedOncePerConfirmation, AddressesKnown, Owner
<1>3. \A k \in Pubkeys : Deposited(k)' = Deposited(k)
  BY <1>2, DepositedSame
<1>4. \A k \in Pubkeys : Withdrawn(k)' = Withdrawn(k)
  BY WithdrawnSame
<1>5. SpendableBacked'
  BY <1>3, <1>4 DEF AccountInv, SpendableBacked
<1> QED BY <1>1, <1>5 DEF AccountInv

(* An added row leaves the first row the first one.                          *)
LEMMA AppendNonempty ==
    ASSUME NEW S, NEW s \in Seq(S), NEW e \in S
    PROVE  Append(s, e) # <<>>
<1>1. Len(Append(s, e)) = Len(s) + 1 /\ Len(s) \in Nat
  OBVIOUS
<1>2. Len(<<>>) = 0
  OBVIOUS
<1> QED BY <1>1, <1>2

(* A registration adds rows with nothing in them, behind the first one if    *)
(* there is one: the balance that is read stays.                             *)
LEMMA RegisterStep ==
    ASSUME AccountInv, DepositInv',
           \/ \E k \in Pubkeys : InsertDepositAddresses(k)
           \/ InitializeAccountBalances
           \/ RegisterFails
    PROVE  AccountInv'
<1>0. /\ AccountType /\ addresses \in Seq(Pubkeys)
      /\ UNCHANGED <<stray, pushed, credited, restarts, calls>>
  BY DEF AccountInv, DepositInv, DepositType, InsertDepositAddresses, InitializeAccountBalances,
         RegisterFails, store
<1>1. \A o \in Outputs : o.addr \in DOMAIN addresses => addresses'[o.addr] = addresses[o.addr]
  <2>1. \/ addresses' = addresses
        \/ \E k \in Pubkeys : addresses' = Append(addresses, k)
    BY DEF InsertDepositAddresses, InitializeAccountBalances, RegisterFails, store
  <2> QED BY <1>0, <2>1
<1>2. \/ rows' = rows
      \/ reg \in Pubkeys /\ rows' = [rows EXCEPT ![reg] = Append(@, 0)]
  BY DEF InsertDepositAddresses, InitializeAccountBalances, RegisterFails, store
<1>3. rows' \in [Pubkeys -> Seq(Nat)] /\ \A k \in Pubkeys : Spendable(k)' = Spendable(k)
  <2>1. CASE rows' = rows
    BY <1>0, <2>1 DEF AccountType, Spendable, Balance
  <2>2. CASE reg \in Pubkeys /\ rows' = [rows EXCEPT ![reg] = Append(@, 0)]
    <3>1. rows[reg] \in Seq(Nat) /\ Append(rows[reg], 0) \in Seq(Nat)
      BY <1>0, <2>2 DEF AccountType
    <3>2. rows' \in [Pubkeys -> Seq(Nat)]
      BY <1>0, <2>2, <3>1 DEF AccountType
    <3>3. ASSUME NEW k \in Pubkeys PROVE Spendable(k)' = Spendable(k)
      <4>1. CASE k = reg
        <5>0. rows'[k] = Append(rows[k], 0)
          BY <1>0, <2>2, <4>1 DEF AccountType
        <5>1. rows'[k] = Append(rows[k], 0) /\ rows'[k] # <<>>
          BY <3>1, <4>1, <5>0, AppendNonempty
        <5>2. Head(rows'[k]) = IF rows[k] = <<>> THEN 0 ELSE Head(rows[k])
          BY <3>1, <4>1, <5>1
        <5> QED BY <5>1, <5>2 DEF Spendable, Balance
      <4>2. CASE k # reg
        BY <1>0, <2>2, <4>2 DEF AccountType, Spendable, Balance
      <4> QED BY <4>1, <4>2
    <3> QED BY <3>2, <3>3
  <2> QED BY <1>2, <2>1, <2>2
<1>4. calls' \in Seq(Call) /\ restarts' \in Nat
  BY <1>0 DEF AccountType
<1> QED BY <1>0, <1>1, <1>3, <1>4, AccountFrame

(* Setting the balance of one key.                                           *)
LEMMA BalanceSet ==
    ASSUME AccountType, NEW k \in Pubkeys, rows[k] # <<>>, NEW n \in Nat,
           rows' = [rows EXCEPT ![k] = SetBalance(k, n)]
    PROVE  /\ rows' \in [Pubkeys -> Seq(Nat)]
           /\ Spendable(k)' = n /\ Spendable(k) = Balance(k)
           /\ \A j \in Pubkeys \ {k} : Spendable(j)' = Spendable(j)
<1>1. /\ SetBalance(k, n) \in Seq(Nat)
      /\ SetBalance(k, n) # <<>>
      /\ Head(SetBalance(k, n)) = n
  BY SetBalanceFacts
<1>2. rows \in [Pubkeys -> Seq(Nat)]
  BY DEF AccountType
<1>3. rows' \in [Pubkeys -> Seq(Nat)] /\ rows'[k] = SetBalance(k, n)
  BY <1>1, <1>2
<1>4. \A j \in Pubkeys \ {k} : rows'[j] = rows[j]
  BY <1>2
<1> QED BY <1>1, <1>3, <1>4 DEF Spendable, Balance

(* A push through a channel is added to the balance of a key that has one.    *)
LEMMA PushStep ==
    ASSUME AccountInv, DepositInv', NEW k \in Pubkeys, NEW n \in Amounts, AddToBalance(k, n)
    PROVE  AccountInv'
<1>1. AccountType /\ n \in Nat /\ rows[k] # <<>> /\ Balance(k) \in Nat
  BY CustodyAssumption, SetBalanceFacts DEF AccountInv, AddToBalance, CustodyAssumption
<1>2. /\ rows' = [rows EXCEPT ![k] = SetBalance(k, Balance(k) + n)]
      /\ pushed' = [pushed EXCEPT ![k] = @ + n]
      /\ UNCHANGED <<addresses, stray, calls, credited, restarts>>
  BY DEF AddToBalance
<1>3. /\ rows' \in [Pubkeys -> Seq(Nat)]
      /\ Spendable(k)' = Balance(k) + n /\ Spendable(k) = Balance(k)
      /\ \A j \in Pubkeys \ {k} : Spendable(j)' = Spendable(j)
  <2>1. Balance(k) + n \in Nat
    BY <1>1
  <2> QED BY <1>1, <1>2, <2>1, BalanceSet
<1>4. /\ pushed' \in [Pubkeys -> Nat]
      /\ pushed'[k] = pushed[k] + n
      /\ \A j \in Pubkeys \ {k} : pushed'[j] = pushed[j]
  BY <1>1, <1>2 DEF AccountType
<1>5. AccountType'
  BY <1>1, <1>2, <1>3, <1>4 DEF AccountType
<1>6. \A j \in Pubkeys : Deposited(j)' = Deposited(j) /\ Withdrawn(j)' = Withdrawn(j)
  <2>1. calls' \in Seq(Call)
    BY <1>1, <1>2 DEF AccountType
  <2> QED BY <1>2, <2>1, DepositedSame, WithdrawnSame DEF Owner
<1>7. ASSUME NEW j \in Pubkeys
      PROVE  Spendable(j)' + stray'[j] + Withdrawn(j)' = Deposited(j)' + pushed'[j]
  <2>1. Spendable(j) + stray[j] + Withdrawn(j) = Deposited(j) + pushed[j]
    BY DEF AccountInv, SpendableBacked
  <2>2. /\ Spendable(j) \in Nat /\ Withdrawn(j) \in Nat /\ Deposited(j) \in Nat
        /\ stray[j] \in Nat /\ pushed[j] \in Nat
    BY <1>1, Totals DEF AccountType
  <2>3. /\ stray'[j] = stray[j]
        /\ Deposited(j)' = Deposited(j) /\ Withdrawn(j)' = Withdrawn(j)
    BY <1>2, <1>6
  <2>0. n \in Nat
    BY <1>1
  <2>4. CASE j = k
    <3>1. Spendable(j)' = Spendable(j) + n /\ pushed'[j] = pushed[j] + n
      BY <1>3, <1>4, <2>4
    <3> QED BY <2>0, <2>1, <2>2, <2>3, <3>1
  <2>5. CASE j # k
    <3>1. Spendable(j)' = Spendable(j) /\ pushed'[j] = pushed[j]
      BY <1>3, <1>4, <2>5
    <3> QED BY <2>1, <2>3, <3>1
  <2> QED BY <2>4, <2>5
<1> QED BY <1>5, <1>7 DEF AccountInv, SpendableBacked

(* A withdrawal debits what it adds to the calls.                            *)
LEMMA WithdrawStep ==
    ASSUME AccountInv, DepositInv', NEW k \in Pubkeys, NEW n \in Amounts, Withdraw(k, n)
    PROVE  AccountInv'
<1> DEFINE c == [key |-> k, amount |-> n, status |-> "paying"]
<1>1. AccountType /\ n \in Nat /\ rows[k] # <<>> /\ Balance(k) \in Nat /\ Balance(k) >= n
  BY CustodyAssumption, SetBalanceFacts DEF AccountInv, Withdraw, CustodyAssumption
<1>2. /\ rows' = [rows EXCEPT ![k] = SetBalance(k, Balance(k) - n)]
      /\ calls' = Append(calls, c)
      /\ UNCHANGED <<addresses, stray, pushed, credited, restarts>>
  BY DEF Withdraw
<1>3. c \in Call /\ c.key = k /\ c.amount = n
  BY <1>1 DEF Call
<1> HIDE DEF c
<1>4. /\ rows' \in [Pubkeys -> Seq(Nat)]
      /\ Spendable(k)' = Balance(k) - n /\ Spendable(k) = Balance(k)
      /\ \A j \in Pubkeys \ {k} : Spendable(j)' = Spendable(j)
  <2>1. Balance(k) - n \in Nat
    BY <1>1
  <2> QED BY <1>1, <1>2, <2>1, BalanceSet
<1>5. AccountType'
  BY <1>1, <1>2, <1>3, <1>4 DEF AccountType
<1>6. \A j \in Pubkeys : /\ Deposited(j)' = Deposited(j)
                         /\ Withdrawn(j)' = Withdrawn(j) + (IF k = j THEN n ELSE 0)
  BY <1>2, <1>3, DepositedSame, WithdrawnMore DEF Owner
<1>7. ASSUME NEW j \in Pubkeys
      PROVE  Spendable(j)' + stray'[j] + Withdrawn(j)' = Deposited(j)' + pushed'[j]
  <2>1. Spendable(j) + stray[j] + Withdrawn(j) = Deposited(j) + pushed[j]
    BY DEF AccountInv, SpendableBacked
  <2>2. /\ Spendable(j) \in Nat /\ Withdrawn(j) \in Nat /\ Deposited(j) \in Nat
        /\ stray[j] \in Nat /\ pushed[j] \in Nat
    BY <1>1, Totals DEF AccountType
  <2>3. stray'[j] = stray[j] /\ pushed'[j] = pushed[j] /\ Deposited(j)' = Deposited(j)
    BY <1>2, <1>6
  <2>4. CASE j = k
    <3>1. Spendable(j)' = Spendable(j) - n /\ Withdrawn(j)' = Withdrawn(j) + n
      BY <1>4, <1>6, <2>4
    <3> QED BY <1>1, <2>1, <2>2, <2>3, <3>1
  <2>5. CASE j # k
    <3>1. Spendable(j)' = Spendable(j) /\ Withdrawn(j)' = Withdrawn(j)
      BY <1>4, <1>6, <2>2, <2>5
    <3> QED BY <2>1, <2>3, <3>1
  <2> QED BY <2>4, <2>5
<1> QED BY <1>5, <1>7 DEF AccountInv, SpendableBacked

(* Whether a debited withdrawal is sent or fails changes no sum.             *)
LEMMA PayOutStep ==
    ASSUME AccountInv, DepositInv', NEW i \in DOMAIN calls, NEW status \in {"sent", "failed"},
           PayOut(i, status)
    PROVE  AccountInv'
<1>1. AccountType /\ calls \in Seq(Call) /\ calls' = [calls EXCEPT ![i].status = status]
      /\ UNCHANGED <<addresses, rows, stray, pushed, credited, restarts>>
  BY DEF AccountInv, AccountType, PayOut
<1>2. \A j \in DOMAIN calls : calls[j] \in Call
  BY <1>1, CallFacts
<1>3. ASSUME NEW c \in Call
      PROVE  /\ [c EXCEPT !.status = status] \in Call
             /\ [c EXCEPT !.status = status].key = c.key
             /\ [c EXCEPT !.status = status].amount = c.amount
  BY DEF Call
<1>4. calls' = [calls EXCEPT ![i] = [calls[i] EXCEPT !.status = status]]
  BY <1>1
<1>5. calls' \in Seq(Call) /\ DOMAIN calls' = DOMAIN calls
  BY <1>1, <1>2, <1>3, <1>4
<1>6. \A j \in DOMAIN calls : calls'[j].key = calls[j].key /\ calls'[j].amount = calls[j].amount
  <2>1. \A j \in DOMAIN calls :
           calls'[j] = IF j = i THEN [calls[i] EXCEPT !.status = status] ELSE calls[j]
    BY <1>4
  <2>2. calls'[i].key = calls[i].key /\ calls'[i].amount = calls[i].amount
    BY <1>2, <1>3, <2>1
  <2>3. \A j \in DOMAIN calls : j # i => calls'[j] = calls[j]
    BY <2>1
  <2> QED BY <2>2, <2>3
<1>7. \A k \in Pubkeys : Spendable(k)' = Spendable(k)
  BY <1>1 DEF Spendable, Balance
<1>8. restarts' \in Nat /\ rows' \in [Pubkeys -> Seq(Nat)]
  BY <1>1 DEF AccountType
<1> QED BY <1>1, <1>5, <1>6, <1>7, <1>8, AccountFrame

(* A confirmed deposit is credited to the rows and to the output.            *)
LEMMA CreditStep ==
    ASSUME AccountInv, DepositInv', UpdateDeposits
    PROVE  AccountInv'
<1>1. AccountType /\ UpdateBalances /\ UNCHANGED <<addresses, calls, pushed, restarts>>
  BY DEF AccountInv, UpdateDeposits
<1>2. \A k \in Pubkeys : DueAmount(k) \in Nat /\ Deposited(k)' = Deposited(k) + DueAmount(k)
  BY DepositedMore
<1>3. \A k \in Pubkeys : DueOf(k) = {} => DueAmount(k) = 0
  BY SumEmpty DEF DueAmount
<1>4. \A k \in Pubkeys : rows[k] # <<>> =>
        /\ Balance(k) \in Nat
        /\ SetBalance(k, Balance(k) + DueAmount(k)) \in Seq(Nat)
        /\ SetBalance(k, Balance(k) + DueAmount(k)) # <<>>
        /\ Head(SetBalance(k, Balance(k) + DueAmount(k))) = Balance(k) + DueAmount(k)
  <2> SUFFICES ASSUME NEW k \in Pubkeys, rows[k] # <<>>
               PROVE  /\ Balance(k) \in Nat
                      /\ SetBalance(k, Balance(k) + DueAmount(k)) \in Seq(Nat)
                      /\ SetBalance(k, Balance(k) + DueAmount(k)) # <<>>
                      /\ Head(SetBalance(k, Balance(k) + DueAmount(k))) = Balance(k) + DueAmount(k)
    OBVIOUS
  <2>1. Balance(k) \in Nat
    BY <1>1, SetBalanceFacts
  <2>2. Balance(k) + DueAmount(k) \in Nat
    BY <1>2, <2>1
  <2> QED BY <1>1, <2>1, <2>2, SetBalanceFacts
<1>5. \A k \in Pubkeys :
        /\ rows'[k] = IF DueOf(k) # {} /\ rows[k] # <<>>
                      THEN SetBalance(k, Balance(k) + DueAmount(k)) ELSE rows[k]
        /\ stray'[k] = IF rows[k] = <<>> THEN stray[k] + DueAmount(k) ELSE stray[k]
  BY <1>1 DEF UpdateBalances
<1>6. AccountType'
  <2>1. rows' \in [Pubkeys -> Seq(Nat)]
    BY <1>1, <1>4 DEF AccountType, UpdateBalances
  <2>2. stray' \in [Pubkeys -> Nat]
    BY <1>1, <1>2 DEF AccountType, UpdateBalances
  <2> QED BY <1>1, <2>1, <2>2 DEF AccountType
<1>7. \A k \in Pubkeys : Withdrawn(k)' = Withdrawn(k)
  <2>1. calls' \in Seq(Call)
    BY <1>1 DEF AccountType
  <2> QED BY <1>1, <2>1, WithdrawnSame
<1>8. ASSUME NEW k \in Pubkeys
      PROVE  Spendable(k)' + stray'[k] + Withdrawn(k)' = Deposited(k)' + pushed'[k]
  <2>1. Spendable(k) + stray[k] + Withdrawn(k) = Deposited(k) + pushed[k]
    BY DEF AccountInv, SpendableBacked
  <2>2. /\ Spendable(k) \in Nat /\ Withdrawn(k) \in Nat /\ Deposited(k) \in Nat
        /\ stray[k] \in Nat /\ pushed[k] \in Nat /\ DueAmount(k) \in Nat
    BY <1>1, <1>2, Totals DEF AccountType
  <2>3. Spendable(k)' + stray'[k] = Spendable(k) + stray[k] + DueAmount(k)
    <3>1. CASE rows[k] = <<>>
      BY <1>5, <2>2, <3>1 DEF Spendable
    <3>2. CASE rows[k] # <<>> /\ DueOf(k) = {}
      BY <1>3, <1>5, <2>2, <3>2 DEF Spendable, Balance
    <3>3. CASE rows[k] # <<>> /\ DueOf(k) # {}
      <4>1. Spendable(k)' = Balance(k) + DueAmount(k) /\ Spendable(k) = Balance(k) /\ stray'[k] = stray[k]
        BY <1>4, <1>5, <3>3 DEF Spendable, Balance
      <4> QED BY <2>2, <4>1
    <3> QED BY <3>1, <3>2, <3>3
  <2>4. Spendable(k)' \in Nat /\ stray'[k] \in Nat
    BY <1>6 DEF AccountType, Spendable, Balance
  <2> QED BY <1>1, <1>2, <1>7, <2>1, <2>2, <2>3, <2>4
<1> QED BY <1>6, <1>8 DEF AccountInv, SpendableBacked

(* A restart keeps the rows and what they are the sum of.                    *)
LEMMA RestartAccounts ==
    ASSUME AccountInv, DepositInv', NEW from, Restart(from)
    PROVE  AccountInv'
<1>1. /\ AccountType /\ calls \in Seq(Call)
      /\ calls' = [i \in DOMAIN calls |->
                     [calls[i] EXCEPT !.status = IF @ = "paying" THEN "failed" ELSE @]]
      /\ restarts' = restarts + 1
      /\ UNCHANGED <<addresses, rows, stray, pushed, credited>>
  BY DEF AccountInv, AccountType, Restart
<1>2. \A i \in DOMAIN calls : calls[i] \in Call
  BY <1>1, CallFacts
<1>3. ASSUME NEW c \in Call, NEW s \in {"paying", "sent", "failed"}
      PROVE  /\ [c EXCEPT !.status = s] \in Call
             /\ [c EXCEPT !.status = s].key = c.key
             /\ [c EXCEPT !.status = s].amount = c.amount
  BY DEF Call
<1>4. \A i \in DOMAIN calls : \E s \in {"paying", "sent", "failed"} :
         calls'[i] = [calls[i] EXCEPT !.status = s]
  <2> SUFFICES ASSUME NEW i \in DOMAIN calls
               PROVE  \E s \in {"paying", "sent", "failed"} : calls'[i] = [calls[i] EXCEPT !.status = s]
    OBVIOUS
  <2>1. calls'[i] = [calls[i] EXCEPT !.status = IF calls[i].status = "paying" THEN "failed" ELSE calls[i].status]
    BY <1>1
  <2>2. calls[i].status \in {"paying", "sent", "failed"}
    BY <1>2 DEF Call
  <2> QED BY <2>1, <2>2
<1>5. \A i \in DOMAIN calls :
         /\ calls'[i] \in Call
         /\ calls'[i].key = calls[i].key /\ calls'[i].amount = calls[i].amount
  <2> SUFFICES ASSUME NEW i \in DOMAIN calls
               PROVE  /\ calls'[i] \in Call
                      /\ calls'[i].key = calls[i].key /\ calls'[i].amount = calls[i].amount
    OBVIOUS
  <2>1. PICK s \in {"paying", "sent", "failed"} : calls'[i] = [calls[i] EXCEPT !.status = s]
    BY <1>4
  <2>2. calls[i] \in Call
    BY <1>2
  <2>3. /\ [calls[i] EXCEPT !.status = s] \in Call
        /\ [calls[i] EXCEPT !.status = s].key = calls[i].key
        /\ [calls[i] EXCEPT !.status = s].amount = calls[i].amount
    BY <1>3, <2>2
  <2> QED BY <2>1, <2>3
<1>6. DOMAIN calls' = DOMAIN calls /\ calls' \in Seq(Call)
  <2>1. DOMAIN calls = 1..Len(calls) /\ Len(calls) \in Nat
    BY <1>1
  <2>2. calls' = [i \in 1..Len(calls) |-> calls'[i]]
    BY <1>1, <2>1
  <2> QED BY <1>5, <2>1, <2>2
<1>7. \A k \in Pubkeys : Spendable(k)' = Spendable(k)
  BY <1>1 DEF Spendable, Balance
<1>8. restarts' \in Nat /\ rows' \in [Pubkeys -> Seq(Nat)]
  BY <1>1 DEF AccountType
<1> QED BY <1>1, <1>5, <1>6, <1>7, <1>8, AccountFrame

LEMMA AccountsStep == AccountInv /\ [Next]_vars => AccountInv'
<1> SUFFICES ASSUME AccountInv, [Next]_vars PROVE AccountInv'
  OBVIOUS
<1>0. DepositInv'
  BY DepositStep DEF AccountInv
<1>1. CASE \/ \E T \in SUBSET Txids : Mine(T)
           \/ Deliver
           \/ GetDepositAddressMap
           \/ IngestFails
           \/ UNCHANGED vars
  <2>1. UNCHANGED <<addresses, rows, stray, calls, pushed, credited, restarts>>
    BY <1>1 DEF Mine, Deliver, GetDepositAddressMap, IngestFails, store, vars
  <2>2. AccountType
    BY DEF AccountInv
  <2>3. restarts' \in Nat /\ rows' \in [Pubkeys -> Seq(Nat)] /\ calls' \in Seq(Call)
    BY <2>1, <2>2 DEF AccountType
  <2>4. \A k \in Pubkeys : Spendable(k)' = Spendable(k)
    BY <2>1 DEF Spendable, Balance
  <2> QED BY <1>0, <2>1, <2>3, <2>4, AccountFrame
<1>2. CASE \/ \E k \in Pubkeys : InsertDepositAddresses(k)
           \/ InitializeAccountBalances
           \/ RegisterFails
  BY <1>0, <1>2, RegisterStep
<1>3. CASE \E k \in Pubkeys, n \in Amounts : AddToBalance(k, n)
  BY <1>0, <1>3, PushStep
<1>4. CASE \E k \in Pubkeys, n \in Amounts : Withdraw(k, n)
  BY <1>0, <1>4, WithdrawStep
<1>5. CASE \E i \in DOMAIN calls, status \in {"sent", "failed"} : PayOut(i, status)
  BY <1>0, <1>5, PayOutStep
<1>6. CASE UpdateDeposits
  BY <1>0, <1>6, CreditStep
<1>7. CASE \E from \in {0, synced} : Restart(from)
  BY <1>0, <1>7, RestartAccounts
<1> QED BY <1>1, <1>2, <1>3, <1>4, <1>5, <1>6, <1>7 DEF Next

(* The tables of SetupCustodyTables hold values of their types, and Withdraw   *)
(* and UpdateDeposits leave no balance negative.                             *)
THEOREM TypeCorrect == Spec => []TypeOK
<1>1. AccountInv => TypeOK
  BY DEF AccountInv, DepositInv, DepositType, AccountType, Call, TypeOK
<1> QED BY AccountInit, AccountsStep, <1>1, PTL DEF Spec

(* What AddToBalance, UpdateDeposits, Withdraw and a second RegisterUser do to  *)
(* the rows of a key adds up: a client's balance, with what went to a stray row  *)
(* and what was withdrawn, is what was pushed and what was deposited.           *)
THEOREM BalancesBacked == Spec => []SpendableBacked
<1>1. AccountInv => SpendableBacked
  BY DEF AccountInv
<1> QED BY AccountInit, AccountsStep, <1>1, PTL DEF Spec
=============================================================================
