------------------------------ MODULE Custody ------------------------------
(***************************************************************************)
(* How coins enter and leave the exchange: registration, deposits seen in   *)
(* blocks and credited some blocks later, lightning pushes, withdrawals,    *)
(* and what a restart does to all of it.  One coin is modelled; coins share *)
(* nothing here but the ingest mutex.                                       *)
(*                                                                         *)
(* Every database call runs under the ingest mutex (module IngestLock) and  *)
(* is one step, except RegisterUser: it commits two transactions, and the   *)
(* process may die, or a statement fail, between them.  The block handler   *)
(* reads the address table, lets go of the mutex, and takes it again to     *)
(* update the deposits.                                                     *)
(*                                                                         *)
(* The balance table has no primary key, so a key may have several rows.    *)
(* The chain, and the chain hook that delivers its blocks in order, are     *)
(* external: a transaction is mined once, and after a restart the hook goes *)
(* on where it was, or from the first block when it is told to resync.      *)
(***************************************************************************)
EXTENDS Integers, Sequences, FiniteSets, Functions

CONSTANTS Pubkeys,        \* the clients' public keys
          Outputs,        \* transaction outputs that may pay clients
          Confirmations,  \* blocks until a deposit is credited (6 in the code)
          Amounts,        \* what clients push or withdraw
          NoKey,          \* no registration is under way
          MaxHeight,      \* bound: blocks of the chain
          MaxAddresses,   \* bound: deposit addresses handed out
          MaxCalls,       \* bound: withdrawals
          MaxPushed,      \* bound: units pushed by each client
          MaxRestarts     \* bound: restarts of the server

ASSUME CustodyAssumption ==
    /\ \A o \in Outputs : o.addr \in Nat \ {0} /\ o.amount \in Nat
    /\ IsFiniteSet(Outputs)
    /\ Confirmations \in Nat \ {0}
    /\ Amounts \subseteq Nat \ {0}
    /\ NoKey \notin Pubkeys
    /\ {MaxHeight, MaxAddresses, MaxCalls, MaxPushed, MaxRestarts} \subseteq Nat

VARIABLES addresses,  \* the deposit address table: the key of each address
          rows,       \* balance rows of each key, oldest first
          stray,      \* units in rows that UpdateBalances made for each key
          pending,    \* rows of the pending deposit table for each output
          reg,        \* key whose registration has committed its first half
          scan,       \* height of the block the handler is at work on, or 0
          known,      \* addressesWeOwn, as that handler read it
          taken,      \* blocks the handler has received
          calls,      \* withdrawals that were debited
          tip,        \* height of the chain
          minedAt,    \* height of the block of each transaction, or 0
          synced,     \* blocks the chain hook has delivered
          pushed,     \* history: units credited from lightning pushes
          credited,   \* history: how often each output was credited
          ingested,   \* history: how often each block was ingested
          outcome,    \* history: what became of each block since the start
          forgotten,  \* history: outputs whose pending row a restart dropped
          restarts    \* history: number of restarts

store == <<addresses, rows, stray, pending, calls, pushed, credited, forgotten>>
chain == <<tip, minedAt, synced>>
handler == <<scan, known, taken, ingested, outcome>>
vars == <<addresses, rows, stray, pending, reg, scan, known, taken, calls, tip,
          minedAt, synced, pushed, credited, ingested, outcome, forgotten, restarts>>

Txids == {o.tx : o \in Outputs}
Heights == 1..MaxHeight

Init ==
    /\ addresses = <<>>
    /\ rows = [k \in Pubkeys |-> <<>>]
    /\ stray = [k \in Pubkeys |-> 0]
    /\ pending = [o \in Outputs |-> 0]
    /\ reg = NoKey
    /\ scan = 0
    /\ known = <<>>
    /\ taken = 0
    /\ calls = <<>>
    /\ tip = 0
    /\ minedAt = [t \in Txids |-> 0]
    /\ synced = 0
    /\ pushed = [k \in Pubkeys |-> 0]
    /\ credited = [o \in Outputs |-> 0]
    /\ ingested = [h \in Heights |-> 0]
    /\ outcome = [h \in Heights |-> "none"]
    /\ forgotten = {}
    /\ restarts = 0

-----------------------------------------------------------------------------
(* The chain and its hook.  The wallet makes addresses in sequence and an     *)
(* output pays one by its number.  Only addresses in the table are given to  *)
(* clients, so no other is paid.                                            *)
Mine(T) ==
    /\ tip < MaxHeight
    /\ \A t \in T : minedAt[t] = 0
    /\ \A o \in Outputs : o.tx \in T => o.addr \in DOMAIN addresses
    /\ tip' = tip + 1
    /\ minedAt' = [t \in Txids |-> IF t \in T THEN tip + 1 ELSE minedAt[t]]
    /\ UNCHANGED <<store, handler, reg, synced, restarts>>

Deliver ==
    /\ synced < tip
    /\ synced' = synced + 1
    /\ UNCHANGED <<store, handler, reg, tip, minedAt, restarts>>

-----------------------------------------------------------------------------
Unlocked == reg = NoKey

(* RegisterUser's first transaction.  GetAddrForCoin makes a new address each *)
(* time, so a key that registers again has several, all of them in the table. *)
InsertDepositAddresses(k) ==
    /\ Unlocked
    /\ Len(addresses) < MaxAddresses
    /\ addresses' = Append(addresses, k)
    /\ reg' = k
    /\ UNCHANGED <<rows, stray, pending, calls, pushed, credited, forgotten, chain, handler, restarts>>

(* Mistake: a balance that exists is set to zero.                            *)
InitializeAccountBalancesResets ==
    /\ reg \in Pubkeys
    /\ rows' = [rows EXCEPT ![reg] = <<0>>]
    /\ reg' = NoKey
    /\ UNCHANGED <<addresses, stray, pending, calls, pushed, credited, forgotten, chain, handler, restarts>>

(* Its second one: INSERT INTO coin VALUES (pubkey, 0).                     *)
InitializeAccountBalances ==
    /\ reg \in Pubkeys
    /\ rows' = [rows EXCEPT ![reg] = Append(@, 0)]
    /\ reg' = NoKey
    /\ UNCHANGED <<addresses, stray, pending, calls, pushed, credited, forgotten, chain, handler, restarts>>

(* The second transaction fails; Register returns the error.                 *)
RegisterFails ==
    /\ reg \in Pubkeys
    /\ reg' = NoKey
    /\ UNCHANGED <<store, chain, handler, restarts>>

(* SELECT balance ... reads the first row; UPDATE ... WHERE pubkey sets all.  *)
Balance(k) == Head(rows[k])
SetBalance(k, n) == [i \in DOMAIN rows[k] |-> n]

(* ingestChannelPush, ingestChannelConfirm: AddToBalance.                   *)
AddToBalance(k, n) ==
    /\ Unlocked
    /\ rows[k] # <<>>
    /\ pushed[k] + n <= MaxPushed
    /\ rows' = [rows EXCEPT ![k] = SetBalance(k, Balance(k) + n)]
    /\ pushed' = [pushed EXCEPT ![k] = @ + n]
    /\ UNCHANGED <<addresses, stray, pending, calls, credited, forgotten, chain, handler, reg,
                   restarts>>

(* Mistake: no look at the balance.                                          *)
WithdrawUnchecked(k, n) ==
    /\ Unlocked
    /\ Len(calls) < MaxCalls
    /\ rows[k] # <<>>
    /\ rows' = [rows EXCEPT ![k] = SetBalance(k, Balance(k) - n)]
    /\ calls' = Append(calls, [key |-> k, amount |-> n, status |-> "paying"])
    /\ UNCHANGED <<addresses, stray, pending, pushed, credited, forgotten, chain, handler, reg,
                   restarts>>

(* withdrawFromChain and withdrawFromLightning debit the client first ...    *)
Withdraw(k, n) ==
    /\ Unlocked
    /\ Len(calls) < MaxCalls
    /\ rows[k] # <<>>
    /\ Balance(k) >= n
    /\ rows' = [rows EXCEPT ![k] = SetBalance(k, Balance(k) - n)]
    /\ calls' = Append(calls, [key |-> k, amount |-> n, status |-> "paying"])
    /\ UNCHANGED <<addresses, stray, pending, pushed, credited, forgotten, chain, handler, reg,
                   restarts>>

(* ... and then build and send the transaction, or fund the channel.  A      *)
(* failure to decode the address, pick inputs, sign or send is returned as   *)
(* an error.                                                                *)
PayOut(i, status) ==
    /\ calls[i].status = "paying"
    /\ calls' = [calls EXCEPT ![i].status = status]
    /\ UNCHANGED <<addresses, rows, stray, pending, pushed, credited, forgotten, chain, handler, reg,
                   restarts>>

-----------------------------------------------------------------------------
(* ingestTransactionListAndHeight, first section: GetDepositAddressMap.      *)
GetDepositAddressMap ==
    /\ Unlocked
    /\ scan = 0
    /\ taken < synced
    /\ taken' = taken + 1
    /\ scan' = taken + 1
    /\ known' = addresses
    /\ UNCHANGED <<store, chain, reg, ingested, outcome, restarts>>

(* Mistake: only the first output of a transaction is looked at.             *)
ReceivedFirst == {o \in Outputs : minedAt[o.tx] = scan /\ o.addr \in DOMAIN known /\ o.out = 1}

(* The outputs of the block that pay a known address.                       *)
Received == {o \in Outputs : minedAt[o.tx] = scan /\ o.addr \in DOMAIN known}

(* The pending table after the INSERTs.                                     *)
Noted == [o \in Outputs |-> IF o \in Received THEN pending[o] + 1 ELSE pending[o]]

(* SELECT ... WHERE expectedConfirmHeight = the current height.  A row has    *)
(* the key that its address belongs to.                                     *)
Owner(o) == addresses[o.addr]
Due == {o \in Outputs : Noted[o] > 0 /\ minedAt[o.tx] + Confirmations = scan}
DueOf(k) == {o \in Due : Owner(o) = k}
DueAmount(k) == SumFunctionOnSet([o \in Outputs |-> Noted[o] * o.amount], DueOf(k))

(* UpdateBalancesWithinTransaction.  A key that has no balance row gets one   *)
(* made, but under the bytes of the key where all the other statements use   *)
(* its hex digits; no SELECT ever finds it.                                 *)
UpdateBalances ==
    /\ rows' = [k \in Pubkeys |->
                  IF DueOf(k) # {} /\ rows[k] # <<>>
                  THEN SetBalance(k, Balance(k) + DueAmount(k)) ELSE rows[k]]
    /\ stray' = [k \in Pubkeys |->
                  IF rows[k] = <<>> THEN stray[k] + DueAmount(k) ELSE stray[k]]

(* Mistake: no DELETE of the deposits that were credited.                    *)
UpdateDepositsNoDelete ==
    /\ Unlocked
    /\ scan # 0
    /\ UpdateBalances
    /\ pending' = Noted
    /\ credited' = [o \in Outputs |-> IF o \in Due THEN credited[o] + Noted[o] ELSE credited[o]]
    /\ ingested' = [ingested EXCEPT ![scan] = @ + 1]
    /\ outcome' = [outcome EXCEPT ![scan] = "done"]
    /\ forgotten' = forgotten \ Received
    /\ scan' = 0
    /\ known' = <<>>
    /\ UNCHANGED <<addresses, calls, pushed, chain, reg, taken, restarts>>

(* Second section: UpdateDeposits.  The DELETE is by transaction ID.         *)
UpdateDeposits ==
    /\ Unlocked
    /\ scan # 0
    /\ UpdateBalances
    /\ pending' = [o \in Outputs |-> IF o.tx \in {d.tx : d \in Due} THEN 0 ELSE Noted[o]]
    /\ credited' = [o \in Outputs |-> IF o \in Due THEN credited[o] + Noted[o] ELSE credited[o]]
    /\ ingested' = [ingested EXCEPT ![scan] = @ + 1]
    /\ outcome' = [outcome EXCEPT ![scan] = "done"]
    /\ forgotten' = forgotten \ Received
    /\ scan' = 0
    /\ known' = <<>>
    /\ UNCHANGED <<addresses, calls, pushed, chain, reg, taken, restarts>>

(* A database error in either section: CallIngest logs it and the handler    *)
(* goes on with the next block.                                             *)
IngestFails ==
    /\ Unlocked
    /\ scan # 0
    /\ outcome' = [outcome EXCEPT ![scan] = "missed"]
    /\ scan' = 0
    /\ known' = <<>>
    /\ UNCHANGED <<store, chain, reg, taken, ingested, restarts>>

-----------------------------------------------------------------------------
(* Mistake: the pending deposits are kept.                                   *)
RestartKeepsPending(from) ==
    /\ restarts < MaxRestarts
    /\ restarts' = restarts + 1
    /\ forgotten' = forgotten \cup {o \in Outputs : pending[o] > 0}
    /\ calls' = [i \in DOMAIN calls |->
                   [calls[i] EXCEPT !.status = IF @ = "paying" THEN "failed" ELSE @]]
    /\ reg' = NoKey
    /\ scan' = 0
    /\ known' = <<>>
    /\ taken' = from
    /\ synced' = from
    /\ outcome' = [h \in Heights |-> "none"]
    /\ UNCHANGED <<addresses, rows, stray, pending, pushed, credited, tip, minedAt, ingested>>

(* The process dies and is started again: SetupCustodyTables keeps the        *)
(* address and balance tables and empties the pending deposits; withdrawals  *)
(* that were being paid out are forgotten.                                  *)
Restart(from) ==
    /\ restarts < MaxRestarts
    /\ restarts' = restarts + 1
    /\ pending' = [o \in Outputs |-> 0]
    /\ forgotten' = forgotten \cup {o \in Outputs : pending[o] > 0}
    /\ calls' = [i \in DOMAIN calls |->
                   [calls[i] EXCEPT !.status = IF @ = "paying" THEN "failed" ELSE @]]
    /\ reg' = NoKey
    /\ scan' = 0
    /\ known' = <<>>
    /\ taken' = from
    /\ synced' = from
    /\ outcome' = [h \in Heights |-> "none"]
    /\ UNCHANGED <<addresses, rows, stray, pushed, credited, tip, minedAt, ingested>>

Next ==
    \/ \E T \in SUBSET Txids : Mine(T)
    \/ Deliver
    \/ \E k \in Pubkeys : InsertDepositAddresses(k)
    \/ InitializeAccountBalances
    \/ RegisterFails
    \/ \E k \in Pubkeys, n \in Amounts : AddToBalance(k, n)
    \/ \E k \in Pubkeys, n \in Amounts : Withdraw(k, n)
    \/ \E i \in DOMAIN calls, status \in {"sent", "failed"} : PayOut(i, status)
    \/ GetDepositAddressMap
    \/ UpdateDeposits
    \/ IngestFails
    \/ \E from \in {0, synced} : Restart(from)

Spec == Init /\ [][Next]_vars

(* Blocks keep coming, the hook delivers them, and a call that holds the      *)
(* ingest mutex ends.  The handler contends for the mutex with registrations, *)
(* and sync.Mutex lets no goroutine wait for ever.                          *)
FairSpec ==
    /\ Spec
    /\ WF_vars(\E T \in SUBSET Txids : Mine(T))
    /\ WF_vars(Deliver)
    /\ WF_vars(InitializeAccountBalances \/ RegisterFails)
    /\ SF_vars(GetDepositAddressMap)
    /\ SF_vars(UpdateDeposits \/ IngestFails)

-----------------------------------------------------------------------------
(* Every variable holds a value of its table's type, and no balance is        *)
(* negative.                                                                *)
TypeOK ==
    /\ addresses \in Seq(Pubkeys) /\ known \in Seq(Pubkeys)
    /\ rows \in [Pubkeys -> Seq(Nat)]
    /\ stray \in [Pubkeys -> Nat] /\ pushed \in [Pubkeys -> Nat]
    /\ pending \in [Outputs -> Nat] /\ credited \in [Outputs -> Nat]
    /\ reg \in Pubkeys \cup {NoKey}
    /\ calls \in Seq([key : Pubkeys, amount : Nat, status : {"paying", "sent", "failed"}])
    /\ tip \in 0..MaxHeight /\ synced \in 0..tip /\ taken \in 0..synced
    /\ scan \in {0, taken}
    /\ minedAt \in [Txids -> 0..tip]
    /\ ingested \in [Heights -> Nat]
    /\ outcome \in [Heights -> {"none", "done", "missed"}]
    /\ forgotten \subseteq Outputs
    /\ restarts \in Nat

ConfirmHeight(o) == minedAt[o.tx] + Confirmations

(* "Only once the current height and height stored in the DB differ by the    *)
(* # of confirmations ... do we make a DB update on the balances table": an   *)
(* output is credited at most once each time the block that many blocks       *)
(* above its own is ingested, and never before, whatever restarts, resyncs    *)
(* and failed blocks happen on the way.                                      *)
CreditedOncePerConfirmation ==
    \A o \in Outputs :
        credited[o] > 0 =>
            /\ minedAt[o.tx] # 0
            /\ ConfirmHeight(o) \in Heights
            /\ credited[o] <= ingested[ConfirmHeight(o)]

(* UpdateDeposits overlooks no deposit; only a restart loses one.  An output  *)
(* that pays a client, of a block that was ever ingested, waits in the        *)
(* pending table, or was credited, or a restart dropped its row and its block *)
(* has not been ingested again since (SetupCustodyTables empties the table,   *)
(* and without a resync that is for good).  Of a block ingested since the     *)
(* last start an output waits once, until its confirmation block, and if      *)
(* that one was ingested too then it has been credited.                      *)
DepositsAccounted ==
    \A o \in Outputs, h \in Heights :
        minedAt[o.tx] = h =>
            /\ ingested[h] > 0 => pending[o] = 1 \/ credited[o] > 0 \/ o \in forgotten
            /\ outcome[h] = "done" =>
                  \/ pending[o] = 1
                  \/ /\ h + Confirmations \in Heights
                     /\ outcome[h + Confirmations] = "done"
                     /\ credited[o] > 0

(* The balance table makes and loses nothing: what the statements find of a   *)
(* client's balance, what went to a row that none of them finds, and what     *)
(* withdrawals debited, paid out or not, are together what UpdateDeposits and  *)
(* AddToBalance credited to it.  Registering again adds a row to the table,    *)
(* and neither that nor the UPDATEs of several rows change the sum.            *)
Deposited(k) ==
    SumFunctionOnSet([o \in Outputs |-> credited[o] * o.amount],
                     {o \in Outputs : credited[o] > 0 /\ Owner(o) = k})
Withdrawn(k) ==
    SumFunctionOnSet([i \in DOMAIN calls |-> calls[i].amount], {i \in DOMAIN calls : calls[i].key = k})
Spendable(k) == IF rows[k] = <<>> THEN 0 ELSE Balance(k)

SpendableBacked ==
    \A k \in Pubkeys : Spendable(k) + stray[k] + Withdrawn(k) = Deposited(k) + pushed[k]

(* A pending deposit leaves the table, unless the block that would confirm    *)
(* it was missed: no later block makes up for it, as the query is for        *)
(* deposits that confirm at exactly the current height.                      *)
DepositSettles ==
    \A o \in Outputs :
        pending[o] > 0 /\ ConfirmHeight(o) \in Heights
          ~> \/ pending[o] = 0
             \/ ConfirmHeight(o) \in Heights /\ outcome[ConfirmHeight(o)] = "missed"

-----------------------------------------------------------------------------
(* What a comment of the code says of it.                                   *)

(* "Create the balance": a client who was credited a deposit has a balance.   *)
CreditCreatesBalance == \A o \in Outputs : credited[o] > 0 => rows[Owner(o)] # <<>>
=============================================================================
