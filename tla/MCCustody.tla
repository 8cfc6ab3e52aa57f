----------------------------- MODULE MCCustody -----------------------------
(* Instances of Custody for TLC.                                            *)
EXTENDS Custody

Output(tx, out, addr, amount) == [tx |-> tx, out |-> out, addr |-> addr, amount |-> amount]

(* A transaction that pays two addresses, of one client or of two.            *)
TwoOutputs == {Output("t1", 1, 1, 1), Output("t1", 2, 2, 2)}
OneOutput == {Output("t1", 1, 1, 1)}
=============================================================================
