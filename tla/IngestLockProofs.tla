-------------------------- MODULE IngestLockProofs --------------------------
(***************************************************************************)
(* Proofs about the ingest mutex, for any number of goroutines and any set  *)
(* of the server's handlers, the ones that forget to unlock included.       *)
(***************************************************************************)
EXTENDS IngestLock, TLAPS

(* A well-formed section is a section.                                      *)
LEMMA SectionFacts ==
    ASSUME NEW n \in 0..2, NEW d \in -1..1, NEW ok \in Outcome, NEW err \in Outcome,
           n + d >= 0
    PROVE  Section(n, d, ok, err) \in SectionType
  BY DEF Section, SectionType

(* Every handler has at least one section, and each is well formed.         *)
LEMMA HandlerSections ==
    ASSUME NEW h \in DOMAIN Sections
    PROVE  Sections[h] \in Seq(SectionType) /\ Sections[h] # <<>>
  <1>1. /\ NoChange \in SectionType
        /\ Section(2, -1, "unlock", "unlock") \in SectionType
        /\ Section(1, -1, "unlock", "unlock") \in SectionType
        /\ Section(0, 1, "unlock", "unlock") \in SectionType
        /\ Section(0, 1, "unlock", "keep") \in SectionType
        /\ Section(0, 0, "unlock", "keep") \in SectionType
        /\ Section(0, 0, "keep", "keep") \in SectionType
    BY SectionFacts DEF NoChange, Outcome
  <1>2. \A s \in SectionType : <<s>> \in Seq(SectionType) /\ <<s>> # <<>>
    OBVIOUS
  <1>3. \A s, t \in SectionType : <<s, t>> \in Seq(SectionType) /\ <<s, t>> # <<>>
    OBVIOUS
  <1>4. \A s, t, u \in SectionType : <<s, t, u>> \in Seq(SectionType) /\ <<s, t, u>> # <<>>
    OBVIOUS
  <1>5. Sections[h] \in {SubmitOrder, ViewOrderBook, GetPrice, GetBalance, GetDepositAddress,
                         Register, WithdrawFromChain, WithdrawFromLightning,
                         IngestChannelFund, IngestTransactionList, IngestChannelPush,
                         IngestChannelConfirm, GetOrder, GetOrdersForPubkey, CancelOrder}
    BY DEF Sections
  <1> DEFINE Good(x) == x \in Seq(SectionType) /\ x # <<>>
  <1>6. Good(SubmitOrder) /\ Good(ViewOrderBook) /\ Good(GetPrice) /\ Good(GetBalance)
    BY <1>1, <1>2 DEF SubmitOrder, ViewOrderBook, GetPrice, GetBalance
  <1>7. Good(GetDepositAddress) /\ Good(Register) /\ Good(WithdrawFromChain)
        /\ Good(WithdrawFromLightning) /\ Good(IngestChannelFund)
    BY <1>1, <1>2 DEF GetDepositAddress, Register, WithdrawFromChain, WithdrawFromLightning,
                      IngestChannelFund
  <1>8. Good(IngestTransactionList)
    BY <1>1, <1>3 DEF IngestTransactionList
  <1>9. Good(IngestChannelPush) /\ Good(IngestChannelConfirm) /\ Good(GetOrder)
        /\ Good(GetOrdersForPubkey)
    BY <1>1, <1>2 DEF IngestChannelPush, IngestChannelConfirm, GetOrder, GetOrdersForPubkey
  <1>10. Good(CancelOrder)
    BY <1>1, <1>4 DEF CancelOrder
  <1>11. QED
    BY <1>5, <1>6, <1>7, <1>8, <1>9, <1>10

(* The section at the head of a worker's list.                              *)
LEMMA HeadSection ==
    ASSUME TypeOK, NEW w \in Workers, Inside(w)
    PROVE  /\ Head(todo[w]) \in SectionType
           /\ Tail(todo[w]) \in Seq(SectionType)
  <1>1. todo[w] \in Seq(SectionType) /\ todo[w] # <<>>
    BY DEF TypeOK, Inside
  <1>2. QED
    BY <1>1

(* Types are preserved by every step.                                       *)
LEMMA TypeStep == TypeOK /\ [Next]_vars => TypeOK'
  <1> SUFFICES ASSUME TypeOK, [Next]_vars PROVE TypeOK'
    OBVIOUS
  <1>1. ASSUME NEW w \in Workers, NEW h \in Handlers, Start(w, h) PROVE TypeOK'
    <2>1. Sections[h] \in Seq(SectionType) /\ Sections[h] # <<>>
      BY HandlerSections, IngestLockAssumption
    <2>2. QED
      BY <1>1, <2>1 DEF TypeOK, Start
  <1>2. ASSUME NEW w \in Workers, LockIngests(w) PROVE TypeOK'
    BY <1>2 DEF TypeOK, LockIngests
  <1>3. ASSUME NEW w \in Workers, Query(w) PROVE TypeOK'
    BY <1>3 DEF TypeOK, Query
  <1>4. ASSUME NEW w \in Workers, Succeed(w) PROVE TypeOK'
    <2> DEFINE s == Head(todo[w])
    <2>1. Inside(w)
      BY <1>4 DEF Succeed, Inside
    <2>2. s \in SectionType /\ Tail(todo[w]) \in Seq(SectionType)
      BY <2>1, HeadSection
    <2>3. s.delta \in Int /\ s.need \in Int /\ s.need + s.delta >= 0
      BY <2>2 DEF SectionType
    <2>4. seen[w] \in Nat /\ seen[w] >= s.need
      BY <1>4 DEF Succeed, TypeOK
    <2>5. seen[w] + s.delta \in Nat
      BY <2>3, <2>4
    <2>6. balance' \in Nat /\ net' \in Int
      BY <1>4, <2>3, <2>5 DEF Succeed, TypeOK
    <2>7. mutex' \in {"free", "held"}
      BY <1>4 DEF Succeed, UnlockIngests, TypeOK
    <2>8. /\ todo' \in [Workers -> Seq(SectionType)]
          /\ pc' \in [Workers -> {"idle", "locking", "calling", "queried"}]
          /\ seen' \in [Workers -> Nat]
      BY <1>4, <2>2 DEF Succeed, TypeOK
    <2>9. \A v \in Workers : pc'[v] # "idle" => todo'[v] # <<>>
      BY <1>4, <2>2 DEF Succeed, TypeOK
    <2>10. unsafe' \in {"no", "yes"}
      BY <1>4 DEF Succeed, TypeOK
    <2>11. QED
      BY <2>6, <2>7, <2>8, <2>9, <2>10 DEF TypeOK
  <1>5. ASSUME NEW w \in Workers, Fail(w) PROVE TypeOK'
    BY <1>5 DEF TypeOK, Fail, UnlockIngests
  <1>6. CASE UNCHANGED vars
    BY <1>6 DEF TypeOK, vars
  <1>7. QED
    BY <1>1, <1>2, <1>3, <1>4, <1>5, <1>6 DEF Next

(* Mutual exclusion is inductive given types.                               *)
LEMMA ExclusionStep == TypeOK /\ MutualExclusion /\ [Next]_vars => MutualExclusion'
  <1> SUFFICES ASSUME TypeOK, MutualExclusion, [Next]_vars PROVE MutualExclusion'
    OBVIOUS
  <1> USE DEF TypeOK, MutualExclusion, Inside
  <1>1. ASSUME NEW w \in Workers, NEW h \in Handlers, Start(w, h) PROVE MutualExclusion'
    BY <1>1 DEF Start
  <1>2. ASSUME NEW w \in Workers, LockIngests(w) PROVE MutualExclusion'
    BY <1>2 DEF LockIngests
  <1>3. ASSUME NEW w \in Workers, Query(w) PROVE MutualExclusion'
    BY <1>3 DEF Query
  <1>4. ASSUME NEW w \in Workers, Succeed(w) \/ Fail(w) PROVE MutualExclusion'
    <2>1. Inside(w) /\ pc'[w] \in {"idle", "locking"}
      BY <1>4 DEF Succeed, Fail
    <2>2. \A v \in Workers : v # w => pc'[v] = pc[v]
      BY <1>4 DEF Succeed, Fail
    <2>3. \A v \in Workers : ~(pc'[v] \in {"calling", "queried"})
      BY <2>1, <2>2
    <2>4. QED
      BY <2>3
  <1>5. CASE UNCHANGED vars
    BY <1>5 DEF vars
  <1>6. QED
    BY <1>1, <1>2, <1>3, <1>4, <1>5 DEF Next

(* What the open transaction has read is still what the table holds: the     *)
(* strengthening that makes NoLostUpdate inductive.                         *)
ReadIsFresh == \A w \in Workers : pc[w] = "queried" => seen[w] = balance

(* Fresh reads and the balance are kept together.                           *)
LEMMA FreshStep ==
    TypeOK /\ MutualExclusion /\ ReadIsFresh /\ NoLostUpdate /\ [Next]_vars
        => ReadIsFresh' /\ NoLostUpdate'
  <1> SUFFICES ASSUME TypeOK, MutualExclusion, ReadIsFresh, NoLostUpdate, [Next]_vars
               PROVE  ReadIsFresh' /\ NoLostUpdate'
    OBVIOUS
  <1> USE DEF ReadIsFresh, NoLostUpdate
  <1>1. ASSUME NEW w \in Workers, NEW h \in Handlers, Start(w, h)
        PROVE  ReadIsFresh' /\ NoLostUpdate'
    BY <1>1 DEF TypeOK, Start
  <1>2. ASSUME NEW w \in Workers, LockIngests(w) PROVE ReadIsFresh' /\ NoLostUpdate'
    BY <1>2 DEF TypeOK, LockIngests
  <1>3. ASSUME NEW w \in Workers, Query(w) PROVE ReadIsFresh' /\ NoLostUpdate'
    BY <1>3 DEF TypeOK, Query
  <1>4. ASSUME NEW w \in Workers, Succeed(w) PROVE ReadIsFresh' /\ NoLostUpdate'
    <2>1. Inside(w) /\ pc[w] = "queried"
      BY <1>4 DEF Succeed, Inside
    <2>2. Head(todo[w]).delta \in Int
      <3>1. Head(todo[w]) \in SectionType
        BY <2>1, HeadSection
      <3>2. QED
        BY <3>1 DEF SectionType
    <2>3. \A v \in Workers : pc'[v] # "queried"
      BY <1>4, <2>1 DEF Succeed, MutualExclusion, Inside, TypeOK
    <2>4. balance' = net'
      BY <1>4, <2>1, <2>2 DEF Succeed, TypeOK
    <2>5. QED
      BY <2>3, <2>4
  <1>5. ASSUME NEW w \in Workers, Fail(w) PROVE ReadIsFresh' /\ NoLostUpdate'
    BY <1>5 DEF TypeOK, Fail
  <1>6. CASE UNCHANGED vars
    BY <1>6 DEF vars
  <1>7. QED
    BY <1>1, <1>2, <1>3, <1>4, <1>5, <1>6 DEF Next

(* The sections of a handler that is not one of Unguarded all unlock.        *)
Unlocks(q) == \A i \in DOMAIN q : q[i].onOk = "unlock" /\ q[i].onErr = "unlock"

LEMMA GuardedUnlock ==
    ASSUME NEW h \in DOMAIN Sections \ Unguarded
    PROVE  Unlocks(Sections[h])
  <1>1. \A n, d : /\ Section(n, d, "unlock", "unlock").onOk = "unlock"
                  /\ Section(n, d, "unlock", "unlock").onErr = "unlock"
    BY DEF Section
  <1>2. \A n, d : Unlocks(<<Section(n, d, "unlock", "unlock")>>)
    BY <1>1 DEF Unlocks
  <1>3. Unlocks(IngestTransactionList)
    BY <1>1 DEF Unlocks, IngestTransactionList, NoChange
  <1>4. Sections[h] \in {SubmitOrder, ViewOrderBook, GetPrice, GetBalance, GetDepositAddress,
                         Register, WithdrawFromChain, WithdrawFromLightning,
                         IngestChannelFund, IngestTransactionList}
    BY DEF Sections, Unguarded
  <1>5. Unlocks(SubmitOrder) /\ Unlocks(ViewOrderBook) /\ Unlocks(GetPrice) /\ Unlocks(GetBalance)
    BY <1>2 DEF SubmitOrder, ViewOrderBook, GetPrice, GetBalance, NoChange
  <1>6. Unlocks(GetDepositAddress) /\ Unlocks(Register) /\ Unlocks(WithdrawFromChain)
        /\ Unlocks(WithdrawFromLightning) /\ Unlocks(IngestChannelFund)
    BY <1>2 DEF GetDepositAddress, Register, WithdrawFromChain, WithdrawFromLightning,
                IngestChannelFund, NoChange
  <1>7. QED
    BY <1>3, <1>4, <1>5, <1>6

(* While no unguarded handler was called, every section to come unlocks: the  *)
(* strengthening that makes LockReleased inductive.                         *)
SectionsUnlock == unsafe = "no" => \A w \in Workers : Unlocks(todo[w])

(* The mutex is given back together with the sections that give it back.     *)
LEMMA ReleaseStep ==
    TypeOK /\ MutualExclusion /\ SectionsUnlock /\ LockReleased /\ [Next]_vars
        => SectionsUnlock' /\ LockReleased'
  <1> SUFFICES ASSUME TypeOK, MutualExclusion, SectionsUnlock, LockReleased, [Next]_vars
               PROVE  SectionsUnlock' /\ LockReleased'
    OBVIOUS
  <1>1. ASSUME NEW w \in Workers, NEW h \in Handlers, Start(w, h)
        PROVE  SectionsUnlock' /\ LockReleased'
    <2>1. h \notin Unguarded => Unlocks(Sections[h])
      BY GuardedUnlock, IngestLockAssumption
    <2>2. SectionsUnlock'
      BY <1>1, <2>1 DEF Start, TypeOK, SectionsUnlock
    <2>3. LockReleased'
      BY <1>1 DEF Start, TypeOK, LockReleased, Inside
    <2>4. QED
      BY <2>2, <2>3
  <1>2. ASSUME NEW w \in Workers, LockIngests(w) PROVE SectionsUnlock' /\ LockReleased'
    BY <1>2 DEF LockIngests, TypeOK, SectionsUnlock, LockReleased, Inside
  <1>3. ASSUME NEW w \in Workers, Query(w) PROVE SectionsUnlock' /\ LockReleased'
    BY <1>3 DEF Query, TypeOK, SectionsUnlock, LockReleased, Inside
  <1>4. ASSUME NEW w \in Workers, Succeed(w) \/ Fail(w) PROVE SectionsUnlock' /\ LockReleased'
    <2>1. Inside(w) /\ todo[w] \in Seq(SectionType) /\ todo[w] # <<>>
      BY <1>4 DEF Succeed, Fail, Inside, TypeOK
    <2>2. todo' = [todo EXCEPT ![w] = Tail(@)] \/ todo' = [todo EXCEPT ![w] = <<>>]
      BY <1>4 DEF Succeed, Fail
    <2>3. unsafe' = unsafe
      BY <1>4 DEF Succeed, Fail
    <2>4. Unlocks(todo[w]) => Unlocks(Tail(todo[w])) /\ Unlocks(<<>>)
      BY <2>1 DEF Unlocks
    <2>5. SectionsUnlock'
      BY <2>2, <2>3, <2>4 DEF SectionsUnlock, TypeOK
    <2>6. Unlocks(todo[w]) => Head(todo[w]).onOk = "unlock" /\ Head(todo[w]).onErr = "unlock"
      BY <2>1 DEF Unlocks
    <2>7. unsafe = "no" => mutex' = "free"
      BY <1>4, <2>6 DEF SectionsUnlock, Succeed, Fail, UnlockIngests
    <2>8. QED
      BY <2>3, <2>5, <2>7 DEF LockReleased
  <1>5. CASE UNCHANGED vars
    BY <1>5 DEF vars, SectionsUnlock, LockReleased, Inside
  <1>6. QED
    BY <1>1, <1>2, <1>3, <1>4, <1>5 DEF Next

(* No handler's check is passed and then drives the balance below zero,       *)
(* because what it has read is what it checks.                               *)
THEOREM TypeCorrect == Spec => []TypeOK
  <1>1. Init => TypeOK
    BY DEF Init, TypeOK
  <1>2. QED
    BY <1>1, TypeStep, PTL DEF Spec

(* At most one goroutine is in a database call, and it holds the mutex,      *)
(* whichever handlers run and however their calls end.                      *)
THEOREM OneCallAtATime == Spec => []MutualExclusion
  <1>1. Init => TypeOK /\ MutualExclusion
    BY DEF Init, TypeOK, MutualExclusion, Inside
  <1>2. QED
    BY <1>1, TypeStep, ExclusionStep, PTL DEF Spec

(* No committed credit or debit is overwritten by a call that had read the   *)
(* balance before it.                                                       *)
THEOREM UpdatesKept == Spec => []NoLostUpdate
  <1>1. Init => TypeOK /\ MutualExclusion /\ ReadIsFresh /\ NoLostUpdate
    BY DEF Init, TypeOK, MutualExclusion, Inside, ReadIsFresh, NoLostUpdate
  <1>2. QED
    BY <1>1, TypeStep, ExclusionStep, FreshStep, PTL DEF Spec

(* Without a call of GetOrder, GetOrdersForPubkey, CancelOrder or the two     *)
(* lightning credits, the ingest mutex is never locked with nobody inside.   *)
THEOREM LockGivenBack == Spec => []LockReleased
  <1>1. Init => TypeOK /\ MutualExclusion /\ SectionsUnlock /\ LockReleased
    BY DEF Init, TypeOK, MutualExclusion, Inside, SectionsUnlock, LockReleased, Unlocks
  <1>2. QED
    BY <1>1, TypeStep, ExclusionStep, ReleaseStep, PTL DEF Spec
=============================================================================
