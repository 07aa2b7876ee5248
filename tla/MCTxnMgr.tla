------------------------------ MODULE MCTxnMgr ------------------------------
(* TxnMgr for TLC: what may go wrong.                                      *)
EXTENDS TxnMgr

Benign == FaultKinds \ {"findcoord"}
=============================================================================
