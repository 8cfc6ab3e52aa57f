--------------------------- MODULE AuctionServer ---------------------------
(***************************************************************************)
(* The auction server.  Clients read the auction ID, submit orders locked   *)
(* in a puzzle for it, and each submission is stored and then solved in a   *)
(* goroutine of its own, which sends the result over orderChannel to the    *)
(* one handler that validates it.  A clock commits to the puzzles of the    *)
(* current auction: the next auction ID is the hash of the ID and them.     *)
(*                                                                         *)
(* dbLock is held for the storing of a puzzle and for the whole commitment, *)
(* but not for reading the ID: [32]byte is copied in more than one move, so *)
(* who reads during the copy of line 100 may see the old ID, the new one or *)
(* a mixture.  A commitment that fails ends the process (logging.Fatalf),   *)
(* as may anything else at any time; the tables survive, the ID does not.   *)
(*                                                                         *)
(* IDs are hashes and random numbers, so a new one differs from every other *)
(* one: they are numbered in the order they are made, and 0 stands for the  *)
(* mixtures and for all else that is no auction's ID.                       *)
(***************************************************************************)
EXTENDS Integers, Sequences, FiniteSets

CONSTANTS Submissions,   \* calls of SubmitPuzzledOrder
          Order(_),      \* what is locked in the puzzle of a submission
          OrderChanSize, \* capacity of orderChannel (100 in cmd/fred)
          MaxID,         \* bound: auction IDs that are made
          MaxRestarts    \* bound: restarts of the server

Sides == {"buy", "sell", "other"}

(* What solving yields: an error, bytes that are no order, or an order with  *)
(* its side, the amounts and the key that can be recovered from the          *)
(* signature: its owner's, another one, or none.                             *)
Orders == [solves : {"error", "garbage", "order"}, side : Sides,
           amountWant : Nat, amountHave : Nat, recovered : {"own", "other", "none"}]

ASSUME AuctionServerAssumption ==
    /\ IsFiniteSet(Submissions)
    /\ \A s \in Submissions : Order(s) \in Orders
    /\ OrderChanSize \in Nat \ {0}
    /\ {MaxID, MaxRestarts} \subseteq Nat

VARIABLES auctionID,     \* the ID in memory
          lastID,        \* the last ID that was made
          dbLock,        \* "free" or "held"
          orderChannel,  \* submissions whose results wait for the handler
          clock,         \* where AuctionClock is
          viewed,        \* the puzzles CommitOrdersNewAuction has read
          pc,            \* where each submission is
          intended,      \* the auction ID that each submission names
          puzzleTable,   \* rows: puzzles and the IDs they were stored with
          auctionTable,  \* auction IDs; the auction number is the index
          verdict,       \* what validateOrder said of each submission
          arrivedIn,     \* history: the ID in memory when each puzzle was stored
          log,           \* history: the commitments that were made
          starts         \* history: the ID drawn by each InitServer

tables == <<puzzleTable, auctionTable>>
memory == <<auctionID, lastID, clock, viewed>>
vars == <<memory, dbLock, orderChannel, pc, intended, tables, verdict, arrivedIn, log, starts>>

Mixed == 0

Init ==
    /\ auctionID = 1
    /\ lastID = 1
    /\ dbLock = "free"
    /\ orderChannel = <<>>
    /\ clock = "waiting"
    /\ viewed = {}
    /\ pc = [s \in Submissions |-> "reading"]
    /\ intended = [s \in Submissions |-> Mixed]
    /\ puzzleTable = {}
    /\ auctionTable = <<>>
    /\ verdict = [s \in Submissions |-> "none"]
    /\ arrivedIn = [s \in Submissions |-> Mixed]
    /\ log = <<>>
    /\ starts = {1}

Goto(s, l) == pc' = [pc EXCEPT ![s] = l]

-----------------------------------------------------------------------------
(* What CurrentAuctionID returns, without the lock.                         *)
CurrentAuctionID == IF clock = "copying" THEN {auctionID, lastID, Mixed} ELSE {auctionID}

(* A client asks for the parameters.  The order that it signs, encrypts and  *)
(* submits some time later names the auction it was told, or any other one:  *)
(* the ID is the client's word, and as the next one is a hash of what is      *)
(* public, it may be that of an auction that is yet to come.                 *)
GetPublicParameters(s) ==
    /\ pc[s] = "reading"
    /\ \E id \in CurrentAuctionID \cup (0..MaxID) : intended' = [intended EXCEPT ![s] = id]
    /\ Goto(s, "locking")
    /\ UNCHANGED <<memory, dbLock, orderChannel, tables, verdict, arrivedIn, log, starts>>

(* Mistake: storing puzzles without the lock.                               *)
PlaceLockNone(s) ==
    /\ pc[s] = "locking"
    /\ Goto(s, "placing")
    /\ UNCHANGED <<memory, dbLock, orderChannel, intended, tables, verdict, arrivedIn, log, starts>>

PlaceLock(s) ==
    /\ pc[s] = "locking"
    /\ dbLock = "free"
    /\ dbLock' = "held"
    /\ Goto(s, "placing")
    /\ UNCHANGED <<memory, orderChannel, intended, tables, verdict, arrivedIn, log, starts>>

(* The INSERT commits, the lock is released, the call is answered, and the   *)
(* solver is started.  Neither the ID nor the result of                      *)
(* validateEncryptedOrder keeps a puzzle out.                                *)
PlaceAuctionPuzzle(s) ==
    /\ pc[s] = "placing"
    /\ puzzleTable' = puzzleTable \cup {[puzzle |-> s, auctionID |-> intended[s]]}
    /\ arrivedIn' = [arrivedIn EXCEPT ![s] = auctionID]
    /\ dbLock' = "free"
    /\ Goto(s, "solving")
    /\ UNCHANGED <<memory, orderChannel, intended, auctionTable, verdict, log, starts>>

(* Mistake: returning from the failed transaction with the lock.             *)
PlaceFailsKeepsLock(s) ==
    /\ pc[s] = "placing"
    /\ Goto(s, "refused")
    /\ UNCHANGED <<memory, dbLock, orderChannel, intended, tables, verdict, arrivedIn, log, starts>>

(* The transaction fails and the call returns an error.                     *)
PlaceFails(s) ==
    /\ pc[s] = "placing"
    /\ dbLock' = "free"
    /\ Goto(s, "refused")
    /\ UNCHANGED <<memory, orderChannel, intended, tables, verdict, arrivedIn, log, starts>>

(* Mistakes: a solver that does not wait for room; one that gives up when     *)
(* there is none.                                                            *)
SolveOrderUnbounded(s) ==
    /\ pc[s] = "solving"
    /\ orderChannel' = Append(orderChannel, s)
    /\ Goto(s, "sent")
    /\ UNCHANGED <<memory, dbLock, intended, tables, verdict, arrivedIn, log, starts>>

SolveOrderDrops(s) ==
    /\ pc[s] = "solving"
    /\ orderChannel' = IF Len(orderChannel) < OrderChanSize
                       THEN Append(orderChannel, s) ELSE orderChannel
    /\ Goto(s, "sent")
    /\ UNCHANGED <<memory, dbLock, intended, tables, verdict, arrivedIn, log, starts>>

(* The puzzle is solved, or fails to be, and either result is sent once      *)
(* there is room.                                                           *)
SolveOrderIntoResChan(s) ==
    /\ pc[s] = "solving"
    /\ Len(orderChannel) < OrderChanSize
    /\ orderChannel' = Append(orderChannel, s)
    /\ Goto(s, "sent")
    /\ UNCHANGED <<memory, dbLock, intended, tables, verdict, arrivedIn, log, starts>>

-----------------------------------------------------------------------------
IsBuySide(o) == o.side = "buy"
IsSellSide(o) == o.side = "sell"

(* Price computes a sell order's price and then returns the error below it.  *)
PriceError(o) ==
    IF o.amountWant = 0 THEN "nothing wanted"
    ELSE IF IsBuySide(o) THEN "none" ELSE "not buy or sell"

(* Once the price is known the side is, too; then the key recovered from the *)
(* signature must be the order's.  The auction ID is not compared.           *)
ValidateOrder(o) ==
    IF PriceError(o) # "none" THEN PriceError(o)
    ELSE IF ~IsBuySide(o) /\ ~IsSellSide(o) THEN "no side"
    ELSE IF o.recovered # "own" THEN "not signed" ELSE "valid"

(* The handler skips results that came with an error, of the solving or of   *)
(* the decoding; of a valid order it only takes note.                       *)
HandlerVerdict(o) == IF o.solves # "order" THEN "not solved" ELSE ValidateOrder(o)

AuctionOrderHandler ==
    /\ orderChannel # <<>>
    /\ LET s == Head(orderChannel)
       IN  /\ verdict' = [verdict EXCEPT ![s] = HandlerVerdict(Order(s))]
           /\ Goto(s, "handled")
    /\ orderChannel' = Tail(orderChannel)
    /\ UNCHANGED <<memory, dbLock, intended, tables, arrivedIn, log, starts>>

-----------------------------------------------------------------------------
(* The timer fires; the next one is set only when this tick is done.         *)
AuctionTick ==
    /\ clock = "waiting"
    /\ lastID < MaxID
    /\ clock' = "locking"
    /\ UNCHANGED <<auctionID, lastID, viewed, dbLock, orderChannel, pc, intended, tables, verdict, arrivedIn, log, starts>>

CommitLock ==
    /\ clock = "locking"
    /\ dbLock = "free"
    /\ dbLock' = "held"
    /\ clock' = "viewing"
    /\ UNCHANGED <<auctionID, lastID, viewed, orderChannel, pc, intended, tables, verdict, arrivedIn, log, starts>>

ViewAuctionPuzzleBook(id) == {row.puzzle : row \in {r \in puzzleTable : r.auctionID = id}}

(* The puzzles are read and hashed with the current ID.                     *)
HashPuzzles ==
    /\ clock = "viewing"
    /\ viewed' = ViewAuctionPuzzleBook(auctionID)
    /\ lastID' = lastID + 1
    /\ clock' = "copying"
    /\ UNCHANGED <<auctionID, dbLock, orderChannel, pc, intended, tables, verdict, arrivedIn, log, starts>>

(* The hash is the new ID, from here on in memory.                          *)
CopyID ==
    /\ clock = "copying"
    /\ log' = Append(log, [id |-> auctionID, puzzles |-> viewed, next |-> lastID])
    /\ auctionID' = lastID
    /\ viewed' = {}
    /\ clock' = "storing"
    /\ UNCHANGED <<lastID, dbLock, orderChannel, pc, intended, tables, verdict, arrivedIn, starts>>

(* Mistake: going on when the ID could not be stored.                        *)
NewAuctionOptional ==
    /\ clock = "storing"
    /\ auctionTable' \in {auctionTable, Append(auctionTable, auctionID)}
    /\ dbLock' = "free"
    /\ clock' = "waiting"
    /\ UNCHANGED <<auctionID, lastID, viewed, orderChannel, pc, intended, puzzleTable, verdict, arrivedIn, log, starts>>

(* The ID is stored with the largest number so far plus one.                *)
NewAuction ==
    /\ clock = "storing"
    /\ auctionTable' = Append(auctionTable, auctionID)
    /\ dbLock' = "free"
    /\ clock' = "waiting"
    /\ UNCHANGED <<auctionID, lastID, viewed, orderChannel, pc, intended, puzzleTable, verdict, arrivedIn, log, starts>>

(* Mistake: taking the last stored ID up again.                              *)
RestartResumes ==
    /\ Cardinality(starts) <= MaxRestarts
    /\ auctionTable # <<>>
    /\ auctionID' = auctionTable[Len(auctionTable)]
    /\ starts' = starts \cup {auctionID'}
    /\ clock' = "waiting"
    /\ viewed' = {}
    /\ dbLock' = "free"
    /\ orderChannel' = <<>>
    /\ pc' = [s \in Submissions |-> IF pc[s] \in {"reading", "handled", "refused"} THEN pc[s] ELSE "lost"]
    /\ UNCHANGED <<lastID, intended, tables, verdict, arrivedIn, log>>

(* The process ends, because a commitment failed or for any other reason,    *)
(* and is started again: the goroutines, the channel and the lock are new,   *)
(* the tables are there already, and the ID is drawn at random.              *)
Restart ==
    /\ Cardinality(starts) <= MaxRestarts
    /\ lastID < MaxID
    /\ auctionID' = lastID + 1
    /\ lastID' = lastID + 1
    /\ starts' = starts \cup {lastID + 1}
    /\ clock' = "waiting"
    /\ viewed' = {}
    /\ dbLock' = "free"
    /\ orderChannel' = <<>>
    /\ pc' = [s \in Submissions |-> IF pc[s] \in {"reading", "handled", "refused"} THEN pc[s] ELSE "lost"]
    /\ UNCHANGED <<intended, tables, verdict, arrivedIn, log>>

Next ==
    \/ \E s \in Submissions :
           \/ GetPublicParameters(s)
           \/ PlaceLock(s)
           \/ PlaceAuctionPuzzle(s)
           \/ PlaceFails(s)
           \/ SolveOrderIntoResChan(s)
    \/ AuctionOrderHandler
    \/ AuctionTick
    \/ CommitLock
    \/ HashPuzzles
    \/ CopyID
    \/ NewAuction
    \/ Restart

Spec == Init /\ [][Next]_vars

(* Database calls return, puzzles get solved (the number of squarings is the   *)
(* client's choice, but a number), the handler's loop goes on, and goroutines *)
(* that wait for the mutex or for room in the channel get their turn: both    *)
(* queue their waiters.  Clients, the timer and restarts owe nothing.         *)
FairSpec ==
    /\ Spec
    /\ \A s \in Submissions : /\ SF_vars(PlaceLock(s))
                              /\ WF_vars(PlaceAuctionPuzzle(s) \/ PlaceFails(s))
                              /\ SF_vars(SolveOrderIntoResChan(s))
    /\ WF_vars(AuctionOrderHandler)
    /\ SF_vars(CommitLock)
    /\ WF_vars(HashPuzzles \/ CopyID \/ NewAuction)

-----------------------------------------------------------------------------
Stored(s) == arrivedIn[s] # Mixed
Committed(s) == \E i \in DOMAIN log : s \in log[i].puzzles

MemoryOK ==
    /\ auctionID \in Nat \ {0}
    /\ lastID = IF clock = "copying" THEN auctionID + 1 ELSE auctionID
    /\ dbLock \in {"free", "held"}
    /\ clock \in {"waiting", "locking", "viewing", "copying", "storing"}
    /\ viewed \in SUBSET Submissions

ChannelOK ==
    /\ orderChannel \in Seq(Submissions)
    /\ Len(orderChannel) <= OrderChanSize

CallsOK ==
    /\ pc \in [Submissions -> {"reading", "locking", "placing", "refused",
                               "solving", "sent", "handled", "lost"}]
    /\ intended \in [Submissions -> Nat]
    /\ verdict \in [Submissions -> {"none", "not solved", "nothing wanted", "not buy or sell",
                                    "no side", "not signed", "valid"}]
    /\ arrivedIn \in [Submissions -> Nat]

TablesOK ==
    /\ puzzleTable \in SUBSET [puzzle : Submissions, auctionID : Nat]
    /\ auctionTable \in Seq(Nat)
    /\ log \in Seq([id : Nat, puzzles : SUBSET Submissions, next : Nat])
    /\ starts \in SUBSET Nat

(* The ID in memory is the last one made, but for the time it takes to copy   *)
(* a new one, and the channel does not overflow.                              *)
TypeOK == MemoryOK /\ ChannelOK /\ CallsOK /\ TablesOK

(* A commitment is to exactly the puzzles for the auction that were stored    *)
(* before it was closed, while it was open or ahead of it: none that was       *)
(* stored between the reading of the puzzles and the change of the ID is left  *)
(* out, and none that comes later is let in.                                 *)
CommitmentExact ==
    \A i \in DOMAIN log :
        log[i].puzzles = {s \in Submissions : /\ intended[s] = log[i].id
                                              /\ Stored(s) /\ arrivedIn[s] <= log[i].id}

(* Each stored auction is linked to the one before it by a commitment, except *)
(* where the server was started in between: then it is linked to the ID drawn *)
(* at the start.  The numbers never jump back and no ID is stored twice.      *)
ChainLinked ==
    \A n \in DOMAIN auctionTable :
        /\ \E i \in DOMAIN log :
               /\ log[i].next = auctionTable[n]
               /\ \/ n > 1 /\ log[i].id = auctionTable[n - 1]
                  \/ log[i].id \in starts
        /\ \A m \in 1..(n - 1) : auctionTable[m] < auctionTable[n]

(* Commitments follow the abstract chain, whatever is submitted when, and      *)
(* wherever the server stops: the puzzles that wait for a commitment are the   *)
(* rows with the ID of the open auction or of one to come.                    *)
Waiting == {r \in puzzleTable : r.auctionID >= auctionID}
Chain == INSTANCE CommitmentChain
             WITH Puzzles <- Submissions, current <- auctionID, waiting <- Waiting, log <- log
ImplementsChain == Chain!Spec

(* Every puzzle that is stored is solved and handled, however full the        *)
(* channel, unless the server stops.                                         *)
EveryPuzzleHandled ==
    \A s \in Submissions : pc[s] = "solving" ~> pc[s] \in {"handled", "lost"}

(* Every tick of the clock ends in a new auction, unless the server stops: no  *)
(* traffic of submissions holds the commitment up for ever.                   *)
EveryTickCommits == clock = "locking" ~> clock = "waiting"

(* "Placing an auction puzzle is how the exchange will then recall and commit  *)
(* to a set of puzzles": a puzzle that was accepted for an auction there is,    *)
(* or was, is committed to, unless that auction is still open or the server     *)
(* was stopped.                                                              *)
AcceptedIsCommitted ==
    \A s \in Submissions :
        Stored(s) /\ intended[s] \in 1..auctionID
            => Committed(s) \/ intended[s] = auctionID \/ Cardinality(starts) > 1
=============================================================================
