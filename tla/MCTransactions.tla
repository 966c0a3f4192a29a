--------------------------- MODULE MCTransactions ---------------------------
(* Model checking of Transactions and TransactionWalk, with ids of two bits*)
(* instead of sixteen.                                                     *)
EXTENDS TransactionWalk
=============================================================================
