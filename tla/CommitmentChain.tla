-------------------------- MODULE CommitmentChain --------------------------
(***************************************************************************)
(* What the auction server promises about puzzles, in the abstract.  There  *)
(* is one auction at a time; puzzles are collected for it, or for one that  *)
(* is yet to come, until it is closed, when the server commits to exactly   *)
(* the puzzles collected for it and opens the next auction, whose ID is the *)
(* commitment.  An auction that is open when the server stops is abandoned. *)
(* No ID is ever used for two auctions.                                     *)
(*                                                                         *)
(* IDs are hashes or random numbers, which do not repeat; here the later    *)
(* one is the larger one.  AuctionServer implements this module.            *)
(***************************************************************************)
EXTENDS Integers, Sequences

CONSTANT Puzzles

VARIABLES current,  \* ID of the auction that is open
          waiting,  \* rows: puzzles and the auctions they are for, none of the past
          log       \* the commitments that were made, oldest first

chainVars == <<current, waiting, log>>

Init ==
    /\ current = 1
    /\ waiting = {}
    /\ log = <<>>

Rows == [puzzle : Puzzles, auctionID : Nat]

Collect(row) ==
    /\ row \in Rows
    /\ row.auctionID >= current
    /\ waiting' = waiting \cup {row}
    /\ UNCHANGED <<current, log>>

CollectedFor(id) == {row.puzzle : row \in {r \in waiting : r.auctionID = id}}

Renew ==
    /\ current' \in Nat
    /\ current' > current
    /\ waiting' = {row \in waiting : row.auctionID >= current'}

Close ==
    /\ Renew
    /\ log' = Append(log, [id |-> current, puzzles |-> CollectedFor(current), next |-> current'])

Abandon ==
    /\ Renew
    /\ UNCHANGED log

Next ==
    \/ \E row \in waiting' \ waiting : Collect(row)
    \/ Close
    \/ Abandon

Spec == Init /\ [][Next]_chainVars
=============================================================================
