-------------------------- MODULE MCTransactionLease --------------------------
(* A small instance of TransactionLease. *)
EXTENDS TransactionLease

CONSTANTS r1, r2
===============================================================================
