-------------------------- MODULE MCTimelockPuzzle --------------------------
(* Primes small enough that 2^t wraps around phi, keys of two bytes of two bits *)
(* each, so that a quarter of them starts with a zero.                        *)
EXTENDS TimelockPuzzle
=============================================================================
