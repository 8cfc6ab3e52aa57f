----------------------------- MODULE IngestLock -----------------------------
(***************************************************************************)
(* The ingest mutex of the exchange server.  RPC calls, lightning events    *)
(* and block handlers run in goroutines of their own; each brackets its     *)
(* database call with LockIngests and UnlockIngests.  A database call that  *)
(* changes a balance SELECTs it, computes in Go, and UPDATEs it.            *)
(*                                                                         *)
(* A handler is the sequence of its critical sections.  Of the database     *)
(* only one client's balance in one coin is kept, which the sections read   *)
(* and change by one unit; OrderStore models what the calls do.             *)
(*                                                                         *)
(* The mutex is a sync.Mutex: it has no owner, Lock blocks while it is      *)
(* locked, and Unlock of a mutex that is not locked kills the process.      *)
(***************************************************************************)
EXTENDS Integers, Sequences

CONSTANTS Workers,    \* goroutines that serve calls, events and blocks
          Handlers,   \* the handlers that are called
          MaxBalance  \* bound: the balance a credit may reach

(* A critical section: the balance it insists on, the change it makes, and   *)
(* whether it unlocks when the call succeeds and when it fails.              *)
Section(need, delta, onOk, onErr) ==
    [need |-> need, delta |-> delta, onOk |-> onOk, onErr |-> onErr]

NoChange == Section(0, 0, "unlock", "unlock")

(* Mistakes: no check of the balance; no unlock after an error.              *)
SubmitOrderUnchecked == <<Section(0, -1, "unlock", "unlock")>>
RegisterLeaky == <<Section(0, 0, "unlock", "keep")>>
GetBalanceLeaky == <<Section(0, 0, "keep", "unlock")>>

SubmitOrder == <<Section(2, -1, "unlock", "unlock")>>   \* balance > AmountHave
ViewOrderBook == <<NoChange>>
GetPrice == <<NoChange>>
GetBalance == <<NoChange>>
GetDepositAddress == <<NoChange>>
Register == <<NoChange>>
WithdrawFromChain == <<Section(1, -1, "unlock", "unlock")>>
WithdrawFromLightning == <<Section(1, -1, "unlock", "unlock")>>
IngestChannelFund == <<NoChange>>
IngestTransactionList == <<NoChange, Section(0, 1, "unlock", "unlock")>>

(* These return from a failed call without UnlockIngests.                   *)
IngestChannelPush == <<Section(0, 1, "unlock", "keep")>>
IngestChannelConfirm == <<Section(0, 1, "unlock", "keep")>>
GetOrder == <<Section(0, 0, "unlock", "keep")>>
GetOrdersForPubkey == <<Section(0, 0, "unlock", "keep")>>

(* CancelOrder calls LockIngests where it should unlock, then checks the     *)
(* key, which may end the call, and locks once more around the cancellation. *)
CancelOrder ==
    <<Section(0, 0, "keep", "keep"), Section(0, 0, "keep", "keep"),
      Section(0, 1, "unlock", "unlock")>>

Sections ==
    [submitOrder |-> SubmitOrder, viewOrderBook |-> ViewOrderBook,
     getPrice |-> GetPrice, getBalance |-> GetBalance,
     getDepositAddress |-> GetDepositAddress, register |-> Register,
     withdrawFromChain |-> WithdrawFromChain,
     withdrawFromLightning |-> WithdrawFromLightning,
     ingestChannelFund |-> IngestChannelFund,
     ingestTransactionList |-> IngestTransactionList,
     ingestChannelPush |-> IngestChannelPush,
     ingestChannelConfirm |-> IngestChannelConfirm,
     getOrder |-> GetOrder, getOrdersForPubkey |-> GetOrdersForPubkey,
     cancelOrder |-> CancelOrder]

(* The handlers with a path that keeps the mutex.                            *)
Unguarded ==
    {"ingestChannelPush", "ingestChannelConfirm", "getOrder", "getOrdersForPubkey", "cancelOrder"}

ASSUME IngestLockAssumption ==
    /\ Handlers \subseteq DOMAIN Sections
    /\ MaxBalance \in Nat

VARIABLES mutex,    \* ingestMutex: "free" or "held"
          pc,       \* "idle", "locking", "calling" or "queried", per worker
          todo,     \* the sections the worker's handler has yet to finish
          seen,     \* the balance the worker's open transaction has read
          balance,  \* the committed balance
          net,      \* history: credits less debits of the calls that succeeded
          unsafe    \* history: "yes" once one of Unguarded was called, else "no"

vars == <<mutex, pc, todo, seen, balance, net, unsafe>>

Init ==
    /\ mutex = "free"
    /\ pc = [w \in Workers |-> "idle"]
    /\ todo = [w \in Workers |-> <<>>]
    /\ seen = [w \in Workers |-> 0]
    /\ balance = 0
    /\ net = 0
    /\ unsafe = "no"

(* A call, an event or a block arrives.                                     *)
Start(w, h) ==
    /\ pc[w] = "idle"
    /\ pc' = [pc EXCEPT ![w] = "locking"]
    /\ todo' = [todo EXCEPT ![w] = Sections[h]]
    /\ unsafe' = IF h \in Unguarded THEN "yes" ELSE unsafe
    /\ UNCHANGED <<mutex, seen, balance, net>>

(* Mistake: not waiting for the mutex.                                      *)
LockIngestsBarging(w) ==
    /\ pc[w] = "locking"
    /\ mutex' = "held"
    /\ pc' = [pc EXCEPT ![w] = "calling"]
    /\ UNCHANGED <<todo, seen, balance, net, unsafe>>

LockIngests(w) ==
    /\ pc[w] = "locking"
    /\ mutex = "free"
    /\ mutex' = "held"
    /\ pc' = [pc EXCEPT ![w] = "calling"]
    /\ UNCHANGED <<todo, seen, balance, net, unsafe>>

(* Mistake: the mutex is released once the balance is read.                 *)
QueryUnlocks(w) ==
    /\ pc[w] = "calling"
    /\ seen' = [seen EXCEPT ![w] = balance]
    /\ pc' = [pc EXCEPT ![w] = "queried"]
    /\ mutex' = "free"
    /\ UNCHANGED <<todo, balance, net, unsafe>>

(* SELECT balance ...                                                       *)
Query(w) ==
    /\ pc[w] = "calling"
    /\ seen' = [seen EXCEPT ![w] = balance]
    /\ pc' = [pc EXCEPT ![w] = "queried"]
    /\ UNCHANGED <<mutex, todo, balance, net, unsafe>>

UnlockIngests(how) == mutex' = IF how = "unlock" THEN "free" ELSE mutex

(* UPDATE ... SET balance, commit, and on to the next section or the reply.  *)
Succeed(w) ==
    LET s == Head(todo[w])
    IN  /\ pc[w] = "queried"
        /\ seen[w] >= s.need
        /\ seen[w] + s.delta <= MaxBalance
        /\ balance' = IF s.delta = 0 THEN balance ELSE seen[w] + s.delta
        /\ net' = net + s.delta
        /\ UnlockIngests(s.onOk)
        /\ todo' = [todo EXCEPT ![w] = Tail(@)]
        /\ pc' = [pc EXCEPT ![w] = IF Tail(todo[w]) = <<>> THEN "idle" ELSE "locking"]
        /\ seen' = [seen EXCEPT ![w] = 0]
        /\ UNCHANGED unsafe

(* The call returns an error, of the database or of its own checks: the      *)
(* transaction is rolled back and the handler returns.                      *)
Fail(w) ==
    /\ pc[w] \in {"calling", "queried"}
    /\ UnlockIngests(Head(todo[w]).onErr)
    /\ pc' = [pc EXCEPT ![w] = "idle"]
    /\ todo' = [todo EXCEPT ![w] = <<>>]
    /\ seen' = [seen EXCEPT ![w] = 0]
    /\ UNCHANGED <<balance, net, unsafe>>

Next ==
    \E w \in Workers :
        \/ \E h \in Handlers : Start(w, h)
        \/ LockIngests(w)
        \/ Query(w)
        \/ Succeed(w)
        \/ Fail(w)

Spec == Init /\ [][Next]_vars

(* A database call returns; and a goroutine that waits for a sync.Mutex gets *)
(* it if it is released again and again (its starvation mode is a queue).   *)
FairSpec ==
    /\ Spec
    /\ \A w \in Workers : /\ WF_vars(Query(w) \/ Succeed(w) \/ Fail(w))
                          /\ SF_vars(LockIngests(w))

-----------------------------------------------------------------------------
Inside(w) == pc[w] \in {"calling", "queried"}

(* What a section can be: it never debits more than it insists on.           *)
Outcome == {"unlock", "keep"}
SectionType ==
    {s \in [need : 0..2, delta : -1..1, onOk : Outcome, onErr : Outcome] : s.need + s.delta >= 0}

(* The mutex is free or held, a worker that is not idle has a section to go  *)
(* through, and no balance, read or committed, is negative.                 *)
TypeOK ==
    /\ mutex \in {"free", "held"}
    /\ pc \in [Workers -> {"idle", "locking", "calling", "queried"}]
    /\ todo \in [Workers -> Seq(SectionType)]
    /\ \A w \in Workers : pc[w] # "idle" => todo[w] # <<>>
    /\ seen \in [Workers -> Nat]
    /\ balance \in Nat
    /\ net \in Int
    /\ unsafe \in {"no", "yes"}

(* At most one goroutine is inside a database call, and the mutex is locked  *)
(* while one is: no handler unlocks for another one, not even those that     *)
(* lock without unlocking.  It is what lets OrderStore treat a handler's     *)
(* transaction as the only one open.                                        *)
MutualExclusion ==
    /\ \A v, w \in Workers : Inside(v) /\ Inside(w) => v = w
    /\ \A w \in Workers : Inside(w) => mutex = "held"

(* No update is lost: the SELECT-then-UPDATE of a credit or a debit never    *)
(* overwrites one that committed in between, so the balance is the sum of    *)
(* the changes of the calls that succeeded.                                 *)
NoLostUpdate == balance = net

(* As long as none of the five unguarded handlers is called, a mutex that is  *)
(* locked has a goroutine inside that will unlock it: no path of the others,  *)
(* success or error, first section or second, returns with it locked.        *)
LockReleased == unsafe = "no" /\ mutex = "held" => \E w \in Workers : Inside(w)

(* As long as none of the five is called, every call is answered, however    *)
(* many others keep arriving.                                               *)
EveryCallReturns ==
    \A w \in Workers : pc[w] = "locking" ~> (pc[w] = "idle" \/ unsafe = "yes")

(* "gotta put these here cause if it errors out then oops just locked        *)
(* everything": no handler that has returned holds the mutex.                *)
NobodyLockedOut == mutex = "held" => \E w \in Workers : Inside(w)
=============================================================================
