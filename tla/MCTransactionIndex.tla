------------------------ MODULE MCTransactionIndex ------------------------
(* Model-checking instances of TransactionIndex: concurrent calls for one  *)
(* transaction.                                                            *)
EXTENDS TransactionIndex
===========================================================================
