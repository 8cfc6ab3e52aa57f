------------------------ MODULE AuctionServerProofs ------------------------
(***************************************************************************)
(* Proofs about the auction server, for any submissions, capacity of the    *)
(* channel and number of auctions and restarts: its types, the exactness of *)
(* the commitments, the links between stored auctions, and that it          *)
(* implements CommitmentChain.                                              *)
(***************************************************************************)
EXTENDS AuctionServer, TLAPS

(* The inductive strengthening: dbLock keeps the clock and the submissions     *)
(* apart, so what the clock has read is still there when it changes the ID;   *)
(* the rows are the puzzles that were stored, by the ID that is in memory or    *)
(* before, and the commitments are to auctions of the past.                   *)
ClockHolds == clock \in {"viewing", "copying", "storing"}

LockInv ==
    /\ ClockHolds => dbLock = "held" /\ \A s \in Submissions : pc[s] # "placing"
    /\ \A s \in Submissions : pc[s] = "placing" => dbLock = "held"
    /\ \A s, t \in Submissions : pc[s] = "placing" /\ pc[t] = "placing" => s = t

RowBounds ==
    \A s \in Submissions :
        /\ pc[s] \in {"reading", "locking", "placing", "refused"} => arrivedIn[s] = 0
        /\ arrivedIn[s] <= auctionID

RowInv ==
    /\ RowBounds
    /\ puzzleTable = {[puzzle |-> s, auctionID |-> intended[s]] : s \in {t \in Submissions : arrivedIn[t] # 0}}
    /\ clock = "copying" => viewed = ViewAuctionPuzzleBook(auctionID)

LogInv ==
    /\ \A i \in DOMAIN log : 0 < log[i].id /\ log[i].id < auctionID
    /\ CommitmentExact

Linked(id) ==
    \/ id \in starts
    \/ auctionTable # <<>> /\ id = auctionTable[Len(auctionTable)]

LinkInv ==
    /\ ChainLinked
    /\ \A n \in DOMAIN auctionTable :
           IF clock = "storing" THEN auctionTable[n] < auctionID ELSE auctionTable[n] <= auctionID
    /\ IF clock = "storing"
       THEN \E i \in DOMAIN log : log[i].next = auctionID /\ Linked(log[i].id)
       ELSE Linked(auctionID)


-----------------------------------------------------------------------------
LEMMA TypeInit == Init => TypeOK
BY AuctionServerAssumption DEF Init, TypeOK, MemoryOK, ChannelOK, CallsOK, TablesOK, Mixed

LEMMA VerdictType ==
    ASSUME NEW o \in Orders
    PROVE  HandlerVerdict(o) \in {"not solved", "nothing wanted", "not buy or sell",
                                  "no side", "not signed", "valid"}
BY DEF HandlerVerdict, ValidateOrder, PriceError

LEMMA TypeStep == TypeOK /\ [Next]_vars => TypeOK'
<1> SUFFICES ASSUME MemoryOK, ChannelOK, CallsOK, TablesOK, Next \/ UNCHANGED vars
             PROVE  MemoryOK' /\ ChannelOK' /\ CallsOK' /\ TablesOK'
  BY DEF TypeOK
<1> USE DEF memory, tables, Goto
<1>1. ASSUME NEW s \in Submissions, GetPublicParameters(s)
      PROVE  MemoryOK' /\ ChannelOK' /\ CallsOK' /\ TablesOK'
  <2>1. MemoryOK'
    BY <1>1 DEF GetPublicParameters, MemoryOK
  <2>2. ChannelOK'
    BY <1>1 DEF GetPublicParameters, ChannelOK
  <2>3. CallsOK'
    <3>1. \A id \in CurrentAuctionID \cup (0..MaxID) : id \in Nat
      BY DEF CurrentAuctionID, Mixed, MemoryOK
    <3> QED
      BY <1>1, <3>1 DEF GetPublicParameters, CallsOK
  <2>4. TablesOK'
    BY <1>1 DEF GetPublicParameters, TablesOK
  <2> QED
    BY <2>1, <2>2, <2>3, <2>4
<1>2. ASSUME NEW s \in Submissions, PlaceLock(s)
      PROVE  MemoryOK' /\ ChannelOK' /\ CallsOK' /\ TablesOK'
  <2>1. MemoryOK'
    BY <1>2 DEF PlaceLock, MemoryOK
  <2>2. ChannelOK'
    BY <1>2 DEF PlaceLock, ChannelOK
  <2>3. CallsOK'
    BY <1>2 DEF PlaceLock, CallsOK
  <2>4. TablesOK'
    BY <1>2 DEF PlaceLock, TablesOK
  <2> QED
    BY <2>1, <2>2, <2>3, <2>4
<1>3. ASSUME NEW s \in Submissions, PlaceAuctionPuzzle(s)
      PROVE  MemoryOK' /\ ChannelOK' /\ CallsOK' /\ TablesOK'
  <2>1. MemoryOK'
    BY <1>3 DEF PlaceAuctionPuzzle, MemoryOK
  <2>2. ChannelOK'
    BY <1>3 DEF PlaceAuctionPuzzle, ChannelOK
  <2>3. CallsOK'
    BY <1>3 DEF PlaceAuctionPuzzle, CallsOK, MemoryOK
  <2>4. TablesOK'
    <3>1. [puzzle |-> s, auctionID |-> intended[s]] \in [puzzle : Submissions, auctionID : Nat]
      BY DEF CallsOK
    <3>2. puzzleTable' \in SUBSET [puzzle : Submissions, auctionID : Nat]
      BY <1>3, <3>1 DEF PlaceAuctionPuzzle, TablesOK
    <3> QED
      BY <1>3, <3>2 DEF PlaceAuctionPuzzle, TablesOK
  <2> QED
    BY <2>1, <2>2, <2>3, <2>4
<1>4. ASSUME NEW s \in Submissions, PlaceFails(s)
      PROVE  MemoryOK' /\ ChannelOK' /\ CallsOK' /\ TablesOK'
  <2>1. MemoryOK'
    BY <1>4 DEF PlaceFails, MemoryOK
  <2>2. ChannelOK'
    BY <1>4 DEF PlaceFails, ChannelOK
  <2>3. CallsOK'
    BY <1>4 DEF PlaceFails, CallsOK
  <2>4. TablesOK'
    BY <1>4 DEF PlaceFails, TablesOK
  <2> QED
    BY <2>1, <2>2, <2>3, <2>4
<1>5. ASSUME NEW s \in Submissions, SolveOrderIntoResChan(s)
      PROVE  MemoryOK' /\ ChannelOK' /\ CallsOK' /\ TablesOK'
  <2>1. MemoryOK'
    BY <1>5 DEF SolveOrderIntoResChan, MemoryOK
  <2>2. ChannelOK'
    BY <1>5, AuctionServerAssumption DEF SolveOrderIntoResChan, ChannelOK
  <2>3. CallsOK'
    BY <1>5 DEF SolveOrderIntoResChan, CallsOK
  <2>4. TablesOK'
    BY <1>5 DEF SolveOrderIntoResChan, TablesOK
  <2> QED
    BY <2>1, <2>2, <2>3, <2>4
<1>6. CASE AuctionOrderHandler
  <2>1. MemoryOK'
    BY <1>6 DEF AuctionOrderHandler, MemoryOK
  <2>2. ChannelOK'
    BY <1>6, AuctionServerAssumption DEF AuctionOrderHandler, ChannelOK
  <2>3. CallsOK'
    <3>1. PICK s \in Submissions : s = Head(orderChannel)
      BY <1>6 DEF AuctionOrderHandler, ChannelOK
    <3>2. HandlerVerdict(Order(s)) \in {"not solved", "nothing wanted", "not buy or sell",
                                       "no side", "not signed", "valid"}
      BY VerdictType, AuctionServerAssumption
    <3>3. /\ verdict' = [verdict EXCEPT ![s] = HandlerVerdict(Order(s))]
          /\ pc' = [pc EXCEPT ![s] = "handled"]
          /\ UNCHANGED <<intended, arrivedIn>>
      BY <1>6, <3>1 DEF AuctionOrderHandler
    <3> QED
      BY <3>2, <3>3 DEF CallsOK
  <2>4. TablesOK'
    BY <1>6 DEF AuctionOrderHandler, TablesOK
  <2> QED
    BY <2>1, <2>2, <2>3, <2>4
<1>7. CASE AuctionTick
  <2>1. MemoryOK'
    BY <1>7 DEF AuctionTick, MemoryOK
  <2>2. ChannelOK'
    BY <1>7 DEF AuctionTick, ChannelOK
  <2>3. CallsOK'
    BY <1>7 DEF AuctionTick, CallsOK
  <2>4. TablesOK'
    BY <1>7 DEF AuctionTick, TablesOK
  <2> QED
    BY <2>1, <2>2, <2>3, <2>4
<1>8. CASE CommitLock
  <2>1. MemoryOK'
    BY <1>8 DEF CommitLock, MemoryOK
  <2>2. ChannelOK'
    BY <1>8 DEF CommitLock, ChannelOK
  <2>3. CallsOK'
    BY <1>8 DEF CommitLock, CallsOK
  <2>4. TablesOK'
    BY <1>8 DEF CommitLock, TablesOK
  <2> QED
    BY <2>1, <2>2, <2>3, <2>4
<1>9. CASE HashPuzzles
  <2>1. MemoryOK'
    BY <1>9 DEF HashPuzzles, MemoryOK, TablesOK, ViewAuctionPuzzleBook
  <2>2. ChannelOK'
    BY <1>9 DEF HashPuzzles, ChannelOK
  <2>3. CallsOK'
    BY <1>9 DEF HashPuzzles, CallsOK
  <2>4. TablesOK'
    BY <1>9 DEF HashPuzzles, TablesOK
  <2> QED
    BY <2>1, <2>2, <2>3, <2>4
<1>10. CASE CopyID
  <2>1. MemoryOK'
    BY <1>10 DEF CopyID, MemoryOK
  <2>2. ChannelOK'
    BY <1>10 DEF CopyID, ChannelOK
  <2>3. CallsOK'
    BY <1>10 DEF CopyID, CallsOK
  <2>4. TablesOK'
    <3>1. [id |-> auctionID, puzzles |-> viewed, next |-> lastID]
              \in [id : Nat, puzzles : SUBSET Submissions, next : Nat]
      BY <1>10 DEF CopyID, MemoryOK
    <3> QED
      BY <1>10, <3>1 DEF CopyID, TablesOK
  <2> QED
    BY <2>1, <2>2, <2>3, <2>4
<1>11. CASE NewAuction
  <2>1. MemoryOK'
    BY <1>11 DEF NewAuction, MemoryOK
  <2>2. ChannelOK'
    BY <1>11 DEF NewAuction, ChannelOK
  <2>3. CallsOK'
    BY <1>11 DEF NewAuction, CallsOK
  <2>4. TablesOK'
    BY <1>11 DEF NewAuction, TablesOK, MemoryOK
  <2> QED
    BY <2>1, <2>2, <2>3, <2>4
<1>12. CASE Restart
  <2>1. MemoryOK'
    BY <1>12 DEF Restart, MemoryOK
  <2>2. ChannelOK'
    BY <1>12, AuctionServerAssumption DEF Restart, ChannelOK
  <2>3. CallsOK'
    BY <1>12 DEF Restart, CallsOK
  <2>4. TablesOK'
    BY <1>12 DEF Restart, TablesOK, MemoryOK
  <2> QED
    BY <2>1, <2>2, <2>3, <2>4
<1>13. CASE UNCHANGED vars
  BY <1>13 DEF vars, MemoryOK, ChannelOK, CallsOK, TablesOK
<1> QED
  BY <1>1, <1>2, <1>3, <1>4, <1>5, <1>6, <1>7, <1>8, <1>9, <1>10, <1>11, <1>12, <1>13 DEF Next

(* No submission, restart or commitment takes the server out of its types:     *)
(* the channel never holds more than its capacity, and the ID in memory is the *)
(* last one made except while CommitOrdersNewAuction copies a new one.         *)
THEOREM TypeCorrect == Spec => []TypeOK
BY TypeInit, TypeStep, PTL DEF Spec

-----------------------------------------------------------------------------
LEMMA LockInit == Init => LockInv
BY DEF Init, LockInv, ClockHolds

(* The lock keeps the clock and the submissions apart.                       *)
LEMMA LockStep == TypeOK /\ LockInv /\ [Next]_vars => LockInv'
<1> SUFFICES ASSUME MemoryOK, ChannelOK, CallsOK, LockInv, Next \/ UNCHANGED vars
             PROVE  LockInv'
  BY DEF TypeOK
<1> USE DEF LockInv, ClockHolds, memory, tables, Goto
<1>1. ASSUME NEW s \in Submissions, GetPublicParameters(s) PROVE LockInv'
  BY <1>1 DEF GetPublicParameters, CallsOK
<1>2. ASSUME NEW s \in Submissions, PlaceLock(s) PROVE LockInv'
  BY <1>2 DEF PlaceLock, CallsOK
<1>3. ASSUME NEW s \in Submissions, PlaceAuctionPuzzle(s) PROVE LockInv'
  BY <1>3 DEF PlaceAuctionPuzzle, CallsOK
<1>4. ASSUME NEW s \in Submissions, PlaceFails(s) PROVE LockInv'
  BY <1>4 DEF PlaceFails, CallsOK
<1>5. ASSUME NEW s \in Submissions, SolveOrderIntoResChan(s) PROVE LockInv'
  BY <1>5 DEF SolveOrderIntoResChan, CallsOK
<1>6. CASE AuctionOrderHandler
  <2>1. PICK s \in Submissions : s = Head(orderChannel)
    BY <1>6 DEF AuctionOrderHandler, ChannelOK
  <2>2. pc' = [pc EXCEPT ![s] = "handled"] /\ UNCHANGED <<clock, dbLock>>
    BY <1>6, <2>1 DEF AuctionOrderHandler
  <2> QED
    BY <2>2 DEF CallsOK
<1>7. CASE AuctionTick
  BY <1>7 DEF AuctionTick
<1>8. CASE CommitLock
  BY <1>8 DEF CommitLock
<1>9. CASE HashPuzzles
  BY <1>9 DEF HashPuzzles
<1>10. CASE CopyID
  BY <1>10 DEF CopyID
<1>11. CASE NewAuction
  BY <1>11 DEF NewAuction
<1>12. CASE Restart
  BY <1>12 DEF Restart
<1>13. CASE UNCHANGED vars
  BY <1>13 DEF vars
<1> QED
  BY <1>1, <1>2, <1>3, <1>4, <1>5, <1>6, <1>7, <1>8, <1>9, <1>10, <1>11, <1>12, <1>13 DEF Next

-----------------------------------------------------------------------------
LEMMA RowInit == Init => RowInv
BY DEF Init, RowInv, RowBounds, Mixed

Unplaced == {"reading", "locking", "placing", "refused"}

(* The rows, through a step that changes neither them nor the submissions'     *)
(* part in them.                                                              *)
LEMMA RowsKept ==
    ASSUME TypeOK, RowInv, UNCHANGED <<intended, arrivedIn, puzzleTable, auctionID, viewed, clock>>,
           \A s \in Submissions : pc'[s] \in Unplaced => pc[s] \in Unplaced
    PROVE  RowInv'
BY DEF RowInv, RowBounds, Unplaced, ViewAuctionPuzzleBook

LEMMA RowStep == TypeOK /\ LockInv /\ RowInv /\ [Next]_vars => RowInv'
<1> SUFFICES ASSUME TypeOK, MemoryOK, ChannelOK, CallsOK, LockInv, RowInv, Next \/ UNCHANGED vars
             PROVE  RowInv'
  BY DEF TypeOK
<1> USE DEF memory, tables, Goto
<1>a. RowBounds
  BY DEF RowInv
<1>b. /\ auctionID \in Nat /\ lastID \in Nat /\ auctionID <= lastID
      /\ clock # "copying" => auctionID = lastID
  BY DEF MemoryOK
<1>c. \A t \in Submissions : intended[t] \in Nat /\ arrivedIn[t] \in Nat
  BY DEF CallsOK
<1>1. ASSUME NEW s \in Submissions, GetPublicParameters(s) PROVE RowInv'
  <2>1. arrivedIn[s] = 0
    BY <1>1, <1>a DEF GetPublicParameters, RowBounds
  <2>2. PICK id : intended' = [intended EXCEPT ![s] = id]
    BY <1>1 DEF GetPublicParameters
  <2>4. \A t \in Submissions : arrivedIn[t] # 0 => intended'[t] = intended[t]
    BY <2>1, <2>2 DEF CallsOK
  <2>5. puzzleTable' = {[puzzle |-> t, auctionID |-> intended'[t]] : t \in {u \in Submissions : arrivedIn'[u] # 0}}
    BY <1>1, <2>4 DEF GetPublicParameters, RowInv
  <2>6. \A t \in Submissions : pc'[t] \in Unplaced => pc[t] \in Unplaced
    BY <1>1 DEF GetPublicParameters, CallsOK, Unplaced
  <2>7. UNCHANGED <<arrivedIn, auctionID, lastID, viewed, clock, puzzleTable>>
    BY <1>1 DEF GetPublicParameters
  <2> QED
    BY <2>4, <2>5, <2>6, <2>7 DEF RowInv, RowBounds, Unplaced, ViewAuctionPuzzleBook
<1>2. ASSUME NEW s \in Submissions, PlaceLock(s) PROVE RowInv'
  BY <1>2, RowsKept DEF PlaceLock, CallsOK, Unplaced
<1>3. ASSUME NEW s \in Submissions, PlaceAuctionPuzzle(s) PROVE RowInv'
  <2>1. clock # "copying" /\ lastID = auctionID
    BY <1>3 DEF PlaceAuctionPuzzle, LockInv, ClockHolds, MemoryOK
  <2>2. UNCHANGED <<intended, auctionID, lastID, viewed, clock>>
    BY <1>3 DEF PlaceAuctionPuzzle
  <2>3. /\ arrivedIn' = [arrivedIn EXCEPT ![s] = auctionID]
        /\ pc' = [pc EXCEPT ![s] = "solving"]
        /\ puzzleTable' = puzzleTable \cup {[puzzle |-> s, auctionID |-> intended[s]]}
    BY <1>3 DEF PlaceAuctionPuzzle
  <2>4. auctionID # 0
    BY DEF MemoryOK
  <2>5. {u \in Submissions : arrivedIn'[u] # 0} = {u \in Submissions : arrivedIn[u] # 0} \cup {s}
    BY <2>3, <2>4 DEF CallsOK
  <2>6. puzzleTable' = {[puzzle |-> t, auctionID |-> intended'[t]] : t \in {u \in Submissions : arrivedIn'[u] # 0}}
    BY <2>2, <2>3, <2>5 DEF RowInv
  <2>7. \A t \in Submissions : arrivedIn'[t] <= auctionID'
    BY <1>a, <1>b, <1>c, <2>1, <2>2, <2>3 DEF RowBounds, CallsOK
  <2>8. \A t \in Submissions : pc'[t] \in Unplaced => arrivedIn'[t] = 0
    BY <1>a, <2>3 DEF RowBounds, CallsOK, Unplaced
  <2> QED
    BY <2>1, <2>2, <2>6, <2>7, <2>8 DEF RowInv, RowBounds, Unplaced
<1>4. ASSUME NEW s \in Submissions, PlaceFails(s) PROVE RowInv'
  BY <1>4, RowsKept DEF PlaceFails, CallsOK, Unplaced
<1>5. ASSUME NEW s \in Submissions, SolveOrderIntoResChan(s) PROVE RowInv'
  BY <1>5, RowsKept DEF SolveOrderIntoResChan, CallsOK, Unplaced
<1>6. CASE AuctionOrderHandler
  <2>1. PICK s \in Submissions : s = Head(orderChannel)
    BY <1>6 DEF AuctionOrderHandler, ChannelOK
  <2>2. pc' = [pc EXCEPT ![s] = "handled"]
    BY <1>6, <2>1 DEF AuctionOrderHandler
  <2>3. \A t \in Submissions : pc'[t] \in Unplaced => pc[t] \in Unplaced
    BY <2>2 DEF CallsOK, Unplaced
  <2> QED
    BY <1>6, <2>3, RowsKept DEF AuctionOrderHandler
<1>7. CASE AuctionTick
  BY <1>7 DEF AuctionTick, RowInv, RowBounds, ViewAuctionPuzzleBook
<1>8. CASE CommitLock
  BY <1>8 DEF CommitLock, RowInv, RowBounds, ViewAuctionPuzzleBook
<1>9. CASE HashPuzzles
  <2>1. /\ UNCHANGED <<intended, arrivedIn, puzzleTable, auctionID, pc>>
        /\ lastID' = lastID + 1
        /\ viewed' = ViewAuctionPuzzleBook(auctionID)
    BY <1>9 DEF HashPuzzles
  <2>2. RowBounds'
    BY <1>a, <1>b, <1>c, <2>1 DEF RowBounds
  <2> QED
    BY <2>1, <2>2 DEF RowInv, ViewAuctionPuzzleBook
<1>10. CASE CopyID
  <2>1. UNCHANGED <<intended, arrivedIn, puzzleTable, lastID, pc>> /\ auctionID' = lastID /\ clock' = "storing"
    BY <1>10 DEF CopyID
  <2>2. RowBounds'
    BY <1>a, <1>b, <1>c, <2>1 DEF RowBounds
  <2> QED
    BY <2>1, <2>2 DEF RowInv
<1>11. CASE NewAuction
  BY <1>11 DEF NewAuction, RowInv, RowBounds, ViewAuctionPuzzleBook
<1>12. CASE Restart
  <2>1. /\ UNCHANGED <<intended, arrivedIn, puzzleTable>>
        /\ auctionID' = lastID + 1 /\ lastID' = lastID + 1 /\ clock' = "waiting"
    BY <1>12 DEF Restart
  <2>2. \A t \in Submissions : pc'[t] \in Unplaced => pc[t] \in Unplaced
    BY <1>12 DEF Restart, Unplaced
  <2>3. RowBounds'
    BY <1>a, <1>b, <1>c, <2>1, <2>2 DEF RowBounds, Unplaced
  <2> QED
    BY <2>1, <2>3 DEF RowInv
<1>13. CASE UNCHANGED vars
  BY <1>13 DEF vars, RowInv, RowBounds, ViewAuctionPuzzleBook
<1> QED
  BY <1>1, <1>2, <1>3, <1>4, <1>5, <1>6, <1>7, <1>8, <1>9, <1>10, <1>11, <1>12, <1>13 DEF Next

-----------------------------------------------------------------------------
(* The puzzles of an auction are those that were stored with its ID; those of  *)
(* the open one were all stored before it is closed.                          *)
LEMMA BookOf ==
    ASSUME TypeOK, RowInv, NEW id \in Nat
    PROVE  ViewAuctionPuzzleBook(id) = {s \in Submissions : arrivedIn[s] # 0 /\ intended[s] = id}
<1> DEFINE Row(s) == [puzzle |-> s, auctionID |-> intended[s]]
           Placed == {s \in Submissions : arrivedIn[s] # 0}
<1>1. puzzleTable = {Row(s) : s \in Placed}
  BY DEF RowInv
<1>2. \A s \in Placed : Row(s).puzzle = s /\ Row(s).auctionID = intended[s]
  OBVIOUS
<1> HIDE DEF Row
<1>3. {r \in puzzleTable : r.auctionID = id} = {Row(s) : s \in {t \in Placed : intended[t] = id}}
  BY <1>1, <1>2
<1>4. {r.puzzle : r \in {Row(s) : s \in {t \in Placed : intended[t] = id}}} = {t \in Placed : intended[t] = id}
  BY <1>2
<1> QED
  BY <1>3, <1>4 DEF ViewAuctionPuzzleBook

LEMMA OpenBook ==
    ASSUME TypeOK, RowInv
    PROVE  ViewAuctionPuzzleBook(auctionID)
             = {s \in Submissions : intended[s] = auctionID /\ arrivedIn[s] # 0 /\ arrivedIn[s] <= auctionID}
<1>1. auctionID \in Nat \ {0}
  BY DEF TypeOK, MemoryOK
<1>2. \A s \in Submissions : arrivedIn[s] <= auctionID
  BY DEF RowInv, RowBounds
<1> QED
  BY <1>1, <1>2, BookOf

LEMMA Elements ==
    ASSUME NEW S, NEW q \in Seq(S), NEW i \in DOMAIN q
    PROVE  q[i] \in S
OBVIOUS

LEMMA LogInit == Init => LogInv
BY DEF Init, LogInv, CommitmentExact, Stored, Mixed

LEMMA LogStep == TypeOK /\ RowInv /\ LogInv /\ [Next]_vars => LogInv'
<1> SUFFICES ASSUME TypeOK, RowInv, LogInv, Next \/ UNCHANGED vars
             PROVE  LogInv'
  OBVIOUS
<1> USE DEF memory, tables, Goto
<1>a. /\ auctionID \in Nat \ {0} /\ lastID \in Nat /\ auctionID <= lastID
      /\ clock = "copying" => lastID = auctionID + 1
  BY DEF TypeOK, MemoryOK
<1>b. /\ log \in Seq([id : Nat, puzzles : SUBSET Submissions, next : Nat])
      /\ \A i \in DOMAIN log : log[i].id \in Nat
  <2>1. log \in Seq([id : Nat, puzzles : SUBSET Submissions, next : Nat])
    BY DEF TypeOK, TablesOK
  <2>2. \A i \in DOMAIN log : log[i] \in [id : Nat, puzzles : SUBSET Submissions, next : Nat]
    BY <2>1, Elements
  <2> QED
    BY <2>1, <2>2
<1>c. arrivedIn \in [Submissions -> Nat] /\ intended \in [Submissions -> Nat]
  BY DEF TypeOK, CallsOK
<1>1. ASSUME NEW s \in Submissions, GetPublicParameters(s) PROVE LogInv'
  <2>1. arrivedIn[s] = 0
    BY <1>1 DEF GetPublicParameters, RowInv, RowBounds
  <2>2. UNCHANGED <<log, auctionID, arrivedIn>>
    BY <1>1 DEF GetPublicParameters
  <2>3. \A t \in Submissions : t # s => intended'[t] = intended[t]
    BY <1>1, <1>c DEF GetPublicParameters
  <2>4. ASSUME NEW i \in DOMAIN log
        PROVE  {t \in Submissions : intended'[t] = log[i].id /\ arrivedIn'[t] # 0 /\ arrivedIn'[t] <= log[i].id}
                 = {t \in Submissions : intended[t] = log[i].id /\ arrivedIn[t] # 0 /\ arrivedIn[t] <= log[i].id}
    BY <1>b, <2>1, <2>2, <2>3 DEF LogInv
  <2> QED
    BY <2>2, <2>4 DEF LogInv, CommitmentExact, Stored, Mixed
<1>2. ASSUME NEW s \in Submissions, PlaceLock(s) PROVE LogInv'
  BY <1>2 DEF PlaceLock, LogInv, CommitmentExact, Stored, Mixed
<1>3. ASSUME NEW s \in Submissions, PlaceAuctionPuzzle(s) PROVE LogInv'
  <2>1. arrivedIn[s] = 0 /\ arrivedIn'[s] = auctionID
    BY <1>3, <1>c DEF PlaceAuctionPuzzle, RowInv, RowBounds
  <2>2. UNCHANGED <<log, auctionID, intended>>
    BY <1>3 DEF PlaceAuctionPuzzle
  <2>3. \A t \in Submissions : t # s => arrivedIn'[t] = arrivedIn[t]
    BY <1>3, <1>c DEF PlaceAuctionPuzzle
  <2>4. ASSUME NEW i \in DOMAIN log
        PROVE  {t \in Submissions : intended'[t] = log[i].id /\ arrivedIn'[t] # 0 /\ arrivedIn'[t] <= log[i].id}
                 = {t \in Submissions : intended[t] = log[i].id /\ arrivedIn[t] # 0 /\ arrivedIn[t] <= log[i].id}
    <3>1. ~(auctionID <= log[i].id)
      BY <1>a, <1>b DEF LogInv
    <3> QED
      BY <2>1, <2>2, <2>3, <3>1
  <2> QED
    BY <2>2, <2>4 DEF LogInv, CommitmentExact, Stored, Mixed
<1>4. ASSUME NEW s \in Submissions, PlaceFails(s) PROVE LogInv'
  BY <1>4 DEF PlaceFails, LogInv, CommitmentExact, Stored, Mixed
<1>5. ASSUME NEW s \in Submissions, SolveOrderIntoResChan(s) PROVE LogInv'
  BY <1>5 DEF SolveOrderIntoResChan, LogInv, CommitmentExact, Stored, Mixed
<1>6. CASE AuctionOrderHandler
  BY <1>6 DEF AuctionOrderHandler, LogInv, CommitmentExact, Stored, Mixed
<1>7. CASE AuctionTick
  BY <1>7 DEF AuctionTick, LogInv, CommitmentExact, Stored, Mixed
<1>8. CASE CommitLock
  BY <1>8 DEF CommitLock, LogInv, CommitmentExact, Stored, Mixed
<1>9. CASE HashPuzzles
  BY <1>9 DEF HashPuzzles, LogInv, CommitmentExact, Stored, Mixed
<1>10. CASE CopyID
  <2> DEFINE c == [id |-> auctionID, puzzles |-> viewed, next |-> lastID]
  <2>1. /\ log' = Append(log, c) /\ auctionID' = auctionID + 1
        /\ UNCHANGED <<intended, arrivedIn>>
    BY <1>10, <1>a DEF CopyID
  <2>2. viewed = {s \in Submissions : intended[s] = auctionID /\ arrivedIn[s] # 0 /\ arrivedIn[s] <= auctionID}
    BY <1>10, OpenBook DEF CopyID, RowInv
  <2>3. \A i \in DOMAIN log' : (i \in DOMAIN log /\ log'[i] = log[i]) \/ log'[i] = c
    BY <2>1, <1>b
  <2>4. c.id = auctionID /\ c.puzzles = viewed
    OBVIOUS
  <2> HIDE DEF c
  <2>5. ASSUME NEW i \in DOMAIN log' PROVE 0 < log'[i].id /\ log'[i].id < auctionID'
    BY <2>1, <2>3, <2>4, <1>a, <1>b DEF LogInv
  <2>6. ASSUME NEW i \in DOMAIN log'
        PROVE  log'[i].puzzles = {s \in Submissions : /\ intended'[s] = log'[i].id
                                                      /\ arrivedIn'[s] # 0 /\ arrivedIn'[s] <= log'[i].id}
    BY <2>1, <2>2, <2>3, <2>4 DEF LogInv, CommitmentExact, Stored, Mixed
  <2> QED
    BY <2>5, <2>6 DEF LogInv, CommitmentExact, Stored, Mixed
<1>11. CASE NewAuction
  BY <1>11 DEF NewAuction, LogInv, CommitmentExact, Stored, Mixed
<1>12. CASE Restart
  <2>1. UNCHANGED <<log, intended, arrivedIn>> /\ auctionID' = lastID + 1
    BY <1>12 DEF Restart
  <2> QED
    BY <2>1, <1>a, <1>b DEF LogInv, CommitmentExact, Stored, Mixed
<1>13. CASE UNCHANGED vars
  BY <1>13 DEF vars, LogInv, CommitmentExact, Stored, Mixed
<1> QED
  BY <1>1, <1>2, <1>3, <1>4, <1>5, <1>6, <1>7, <1>8, <1>9, <1>10, <1>11, <1>12, <1>13 DEF Next

Safe == TypeOK /\ LockInv /\ RowInv /\ LogInv

LEMMA SafeAlways == Spec => []Safe
<1>1. Init => Safe
  BY TypeInit, LockInit, RowInit, LogInit DEF Safe
<1>2. Safe /\ [Next]_vars => Safe'
  BY TypeStep, LockStep, RowStep, LogStep DEF Safe
<1> QED
  BY <1>1, <1>2, PTL DEF Spec

(* CommitOrdersNewAuction commits to exactly the puzzles for the auction that  *)
(* PlacePuzzledOrder stored until its ID was replaced, those included that      *)
(* named it before it was made, whatever runs beside it and however often the  *)
(* server is restarted.                                                       *)
THEOREM CommitmentsExact == Spec => []CommitmentExact
<1>1. Safe => CommitmentExact
  BY DEF Safe, LogInv
<1> QED
  BY <1>1, SafeAlways, PTL

-----------------------------------------------------------------------------
LEMMA LinkInit == Init => LinkInv
BY DEF Init, LinkInv, ChainLinked, Linked

LEMMA LinkKept ==
    ASSUME LinkInv, UNCHANGED <<auctionTable, log, starts, auctionID>>,
           clock' = "storing" <=> clock = "storing"
    PROVE  LinkInv'
BY DEF LinkInv, ChainLinked, Linked

(* Links are kept as the log and the starts grow.                            *)
LEMMA LinksStay ==
    ASSUME ChainLinked, UNCHANGED auctionTable, starts \subseteq starts',
           \A i \in DOMAIN log : i \in DOMAIN log' /\ log'[i] = log[i]
    PROVE  ChainLinked'
BY DEF ChainLinked

LEMMA LinkStep == TypeOK /\ LinkInv /\ [Next]_vars => LinkInv'
<1> SUFFICES ASSUME TypeOK, LinkInv, Next \/ UNCHANGED vars
             PROVE  LinkInv'
  OBVIOUS
<1> USE DEF memory, tables
<1>a. /\ auctionID \in Nat \ {0} /\ lastID \in Nat /\ auctionID <= lastID
      /\ clock = "copying" => lastID = auctionID + 1
  BY DEF TypeOK, MemoryOK
<1>b. log \in Seq([id : Nat, puzzles : SUBSET Submissions, next : Nat])
  BY DEF TypeOK, TablesOK
<1>c. /\ auctionTable \in Seq(Nat)
      /\ \A n \in DOMAIN auctionTable : auctionTable[n] \in Nat
      /\ DOMAIN auctionTable = 1..Len(auctionTable) /\ Len(auctionTable) \in Nat
  BY Elements DEF TypeOK, TablesOK
<1>1. CASE CopyID
  <2> DEFINE c == [id |-> auctionID, puzzles |-> viewed, next |-> lastID]
  <2>1. /\ log' = Append(log, c) /\ auctionID' = lastID
        /\ UNCHANGED <<auctionTable, starts>> /\ clock = "copying" /\ clock' = "storing"
    BY <1>1 DEF CopyID
  <2>2. c.id = auctionID /\ c.next = lastID
    OBVIOUS
  <2> HIDE DEF c
  <2>3. /\ \A i \in DOMAIN log : i \in DOMAIN log' /\ log'[i] = log[i]
        /\ Len(log) + 1 \in DOMAIN log' /\ log'[Len(log) + 1] = c
    BY <2>1, <1>b
  <2>4. ChainLinked'
    BY <2>1, <2>3, LinksStay DEF LinkInv
  <2>5. \A n \in DOMAIN auctionTable' : auctionTable'[n] < auctionID'
    BY <2>1, <1>a, <1>c DEF LinkInv
  <2>6. Linked(auctionID)
    BY <2>1 DEF LinkInv
  <2>7. (\E i \in DOMAIN log : log[i].next = auctionID /\ Linked(log[i].id))'
    BY <2>1, <2>2, <2>3, <2>6 DEF Linked
  <2> QED
    BY <2>1, <2>4, <2>5, <2>7 DEF LinkInv
<1>2. CASE NewAuction
  <2>1. /\ auctionTable' = Append(auctionTable, auctionID)
        /\ UNCHANGED <<log, starts, auctionID>> /\ clock = "storing" /\ clock' = "waiting"
    BY <1>2 DEF NewAuction
  <2> DEFINE N == Len(auctionTable) + 1
  <2>2. /\ DOMAIN auctionTable' = DOMAIN auctionTable \cup {N} /\ Len(auctionTable') = N
        /\ auctionTable'[N] = auctionID /\ auctionTable' # <<>>
        /\ \A n \in DOMAIN auctionTable : auctionTable'[n] = auctionTable[n]
    BY <2>1, <1>a, <1>c
  <2>3. \A n \in DOMAIN auctionTable : auctionTable[n] < auctionID
    BY <2>1 DEF LinkInv
  <2>4. PICK i \in DOMAIN log : log[i].next = auctionID /\ Linked(log[i].id)
    BY <2>1 DEF LinkInv
  <2>5. \/ N > 1 /\ log[i].id = auctionTable'[N - 1]
        \/ log[i].id \in starts
    <3>1. auctionTable # <<>> => /\ N - 1 = Len(auctionTable) /\ N > 1
                                 /\ Len(auctionTable) \in DOMAIN auctionTable
      BY <1>c
    <3>2. log[i].id \in starts \/ (auctionTable # <<>> /\ log[i].id = auctionTable[Len(auctionTable)])
      BY <2>4 DEF Linked
    <3> HIDE DEF N
    <3> QED
      BY <2>2, <3>1, <3>2
  <2>6. ASSUME NEW n \in DOMAIN auctionTable'
        PROVE  /\ \E j \in DOMAIN log' :
                      /\ log'[j].next = auctionTable'[n]
                      /\ \/ n > 1 /\ log'[j].id = auctionTable'[n - 1]
                         \/ log'[j].id \in starts'
               /\ \A m \in 1..(n - 1) : auctionTable'[m] < auctionTable'[n]
    <3>1. CASE n = N
      <4>1. \A m \in 1..(n - 1) : m \in DOMAIN auctionTable
        BY <1>c, <3>1
      <4>2. \A m \in 1..(n - 1) : auctionTable'[m] < auctionTable'[n]
        BY <2>2, <2>3, <3>1, <4>1
      <4> HIDE DEF N
      <4> QED
        BY <2>1, <2>2, <2>4, <2>5, <3>1, <4>2
    <3>2. CASE n \in DOMAIN auctionTable
      <4>1. PICK j \in DOMAIN log :
                /\ log[j].next = auctionTable[n]
                /\ (n > 1 /\ log[j].id = auctionTable[n - 1]) \/ log[j].id \in starts
        BY <3>2 DEF LinkInv, ChainLinked
      <4>2. \A m \in 1..(n - 1) : m \in DOMAIN auctionTable /\ auctionTable[m] < auctionTable[n]
        BY <3>2, <1>c DEF LinkInv, ChainLinked
      <4>3. n > 1 => n - 1 \in DOMAIN auctionTable
        BY <3>2, <1>c
      <4> QED
        BY <2>1, <2>2, <3>2, <4>1, <4>2, <4>3
    <3> QED
      BY <2>2, <3>1, <3>2
  <2>7. ChainLinked'
    BY <2>6 DEF ChainLinked
  <2>8. Linked(auctionID)'
    BY <2>1, <2>2 DEF Linked
  <2>9. \A n \in DOMAIN auctionTable' : auctionTable'[n] <= auctionID'
    BY <2>1, <2>2, <2>3, <1>a, <1>c
  <2> QED
    BY <2>1, <2>7, <2>8, <2>9 DEF LinkInv
<1>3. CASE Restart
  <2>1. /\ UNCHANGED <<auctionTable, log>> /\ auctionID' = lastID + 1
        /\ starts' = starts \cup {lastID + 1} /\ clock' = "waiting"
    BY <1>3 DEF Restart
  <2>2. ChainLinked'
    BY <2>1, LinksStay DEF LinkInv
  <2>3. \A n \in DOMAIN auctionTable : auctionTable[n] <= auctionID
    BY <1>a, <1>c DEF LinkInv
  <2>4. \A n \in DOMAIN auctionTable' : auctionTable'[n] <= auctionID'
    BY <2>1, <2>3, <1>a, <1>c
  <2>5. Linked(auctionID)'
    BY <2>1 DEF Linked
  <2> QED
    BY <2>1, <2>2, <2>4, <2>5 DEF LinkInv
<1>4. ASSUME \/ \E s \in Submissions : \/ GetPublicParameters(s) \/ PlaceLock(s) \/ PlaceAuctionPuzzle(s)
                                      \/ PlaceFails(s) \/ SolveOrderIntoResChan(s)
             \/ AuctionOrderHandler \/ AuctionTick \/ CommitLock \/ HashPuzzles \/ UNCHANGED vars
      PROVE  LinkInv'
  <2>1. /\ UNCHANGED <<auctionTable, log, starts, auctionID>>
        /\ clock' = "storing" <=> clock = "storing"
    BY <1>4 DEF GetPublicParameters, PlaceLock, PlaceAuctionPuzzle, PlaceFails, SolveOrderIntoResChan,
                AuctionOrderHandler, AuctionTick, CommitLock, HashPuzzles, vars
  <2> QED
    BY <2>1, LinkKept
<1> QED
  BY <1>1, <1>2, <1>3, <1>4 DEF Next

(* The auctions that NewAuction numbers are linked, each to the one before it  *)
(* or to the ID drawn by InitServer, by a commitment, in the order they were   *)
(* made, across restarts.                                                     *)
THEOREM AuctionsLinked == Spec => []ChainLinked
<1>1. LinkInv => ChainLinked
  BY DEF LinkInv
<1>2. TypeOK /\ LinkInv /\ [Next]_vars => TypeOK' /\ LinkInv'
  BY TypeStep, LinkStep
<1> QED
  BY <1>1, <1>2, TypeInit, LinkInit, PTL DEF Spec

-----------------------------------------------------------------------------
(* A step that leaves the ID, the rows and the log alone is no step of the     *)
(* abstract chain.                                                            *)
LEMMA ChainStutters ==
    UNCHANGED <<auctionID, puzzleTable, log>> => UNCHANGED Chain!chainVars
BY DEF Chain!chainVars, Waiting

LEMMA ChainStep == Safe /\ [Next]_vars => [Chain!Next]_Chain!chainVars
<1> SUFFICES ASSUME Safe, Next \/ UNCHANGED vars
             PROVE  Chain!Next \/ UNCHANGED Chain!chainVars
  OBVIOUS
<1> USE DEF memory, tables
<1>a. TypeOK /\ RowInv
  BY DEF Safe
<1>b. /\ auctionID \in Nat \ {0} /\ lastID \in Nat /\ auctionID <= lastID
      /\ clock = "copying" => lastID = auctionID + 1
  BY <1>a DEF TypeOK, MemoryOK
<1>c. puzzleTable \in SUBSET [puzzle : Submissions, auctionID : Nat]
  BY <1>a DEF TypeOK, TablesOK
<1>d. ASSUME auctionID' > auctionID, auctionID' \in Nat, UNCHANGED puzzleTable PROVE Chain!Renew
  <2>1. \A r \in puzzleTable : r.auctionID \in Nat
    BY <1>c
  <2>2. \A r \in puzzleTable : r.auctionID >= auctionID' => r.auctionID >= auctionID
    BY <1>b, <1>d, <2>1
  <2>3. Waiting' = {r \in Waiting : r.auctionID >= auctionID'}
    BY <1>d, <2>2 DEF Waiting
  <2> QED
    BY <1>d, <2>3 DEF Chain!Renew
<1>1. ASSUME NEW s \in Submissions, PlaceAuctionPuzzle(s)
      PROVE  Chain!Next \/ UNCHANGED Chain!chainVars
  <2> DEFINE row == [puzzle |-> s, auctionID |-> intended[s]]
  <2>1. puzzleTable' = puzzleTable \cup {row} /\ UNCHANGED <<auctionID, log>>
    BY <1>1 DEF PlaceAuctionPuzzle
  <2>2. row \in [puzzle : Submissions, auctionID : Nat]
    BY <1>a DEF TypeOK, CallsOK
  <2> HIDE DEF row
  <2>3. CASE row.auctionID >= auctionID /\ row \notin puzzleTable
    <3>1. Waiting' = Waiting \cup {row} /\ row \in Waiting' \ Waiting
      BY <2>1, <2>3 DEF Waiting
    <3>2. Chain!Collect(row)
      BY <2>1, <2>2, <2>3, <3>1 DEF Chain!Collect, Chain!Rows
    <3> QED
      BY <3>1, <3>2 DEF Chain!Next
  <2>4. CASE ~(row.auctionID >= auctionID) \/ row \in puzzleTable
    <3>1. Waiting' = Waiting
      BY <2>1, <2>4 DEF Waiting
    <3> QED
      BY <2>1, <3>1 DEF Chain!chainVars
  <2> QED
    BY <2>3, <2>4
<1>2. CASE CopyID
  <2>1. /\ log' = Append(log, [id |-> auctionID, puzzles |-> viewed, next |-> auctionID'])
        /\ auctionID' = lastID /\ UNCHANGED puzzleTable
    BY <1>2 DEF CopyID
  <2>2. {r \in puzzleTable : r.auctionID = auctionID} = {r \in Waiting : r.auctionID = auctionID}
    BY <1>b DEF Waiting
  <2>3. viewed = Chain!CollectedFor(auctionID)
    BY <1>2, <1>a, <2>2 DEF CopyID, RowInv, ViewAuctionPuzzleBook, Chain!CollectedFor
  <2>4. auctionID' \in Nat /\ auctionID' > auctionID
    BY <1>2, <1>b, <2>1 DEF CopyID
  <2>5. Chain!Renew
    BY <1>d, <2>1, <2>4
  <2> QED
    BY <2>1, <2>3, <2>5 DEF Chain!Next, Chain!Close
<1>3. CASE Restart
  <2>1. auctionID' = lastID + 1 /\ UNCHANGED <<puzzleTable, log>>
    BY <1>3 DEF Restart
  <2>2. auctionID' \in Nat /\ auctionID' > auctionID
    BY <1>b, <2>1
  <2>3. Chain!Renew
    BY <1>d, <2>1, <2>2
  <2> QED
    BY <2>1, <2>3 DEF Chain!Next, Chain!Abandon
<1>4. ASSUME \/ \E s \in Submissions : \/ GetPublicParameters(s) \/ PlaceLock(s)
                                      \/ PlaceFails(s) \/ SolveOrderIntoResChan(s)
             \/ AuctionOrderHandler \/ AuctionTick \/ CommitLock \/ HashPuzzles \/ NewAuction
             \/ UNCHANGED vars
      PROVE  UNCHANGED Chain!chainVars
  <2>1. UNCHANGED <<auctionID, puzzleTable, log>>
    BY <1>4 DEF GetPublicParameters, PlaceLock, PlaceFails, SolveOrderIntoResChan,
                AuctionOrderHandler, AuctionTick, CommitLock, HashPuzzles, NewAuction, vars
  <2> QED
    BY <2>1, ChainStutters
<1> QED
  BY <1>1, <1>2, <1>3, <1>4 DEF Next

(* The auction server implements the abstract chain of commitments: its steps  *)
(* collect a puzzle for the open auction or one to come, close the open one     *)
(* with a commitment to all of its puzzles, abandon it, or are invisible.      *)
THEOREM ServerImplementsChain == Spec => ImplementsChain
<1>1. Init => Chain!Init
  BY DEF Init, Chain!Init, Waiting
<1>2. Safe /\ [Next]_vars => [Chain!Next]_Chain!chainVars
  BY ChainStep
<1> QED
  BY <1>1, <1>2, SafeAlways, PTL DEF Spec, ImplementsChain, Chain!Spec
=============================================================================
