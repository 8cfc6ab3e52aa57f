-------------------------- MODULE MCAuctionServer --------------------------
EXTENDS AuctionServer

CONSTANTS s1, s2

(* A signed purchase, and a submission whose puzzle cannot be solved.         *)
MCOrder(s) ==
    [solves |-> IF s = s2 THEN "error" ELSE "order", side |-> "buy",
     amountWant |-> 1, amountHave |-> 1, recovered |-> "own"]
=============================================================================
