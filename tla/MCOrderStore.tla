---------------------------- MODULE MCOrderStore ----------------------------
(* Instances of OrderStore for TLC.                                         *)
EXTENDS OrderStore

TwoCoins == <<"btc", "ltc">>

(* A server of two coins from the start, and one that got its second later.  *)
BothCoins == {{"btc", "ltc"}}
CoinAdded == {{"btc"}, {"btc", "ltc"}}
=============================================================================
