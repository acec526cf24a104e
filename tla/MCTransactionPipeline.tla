------------------------ MODULE MCTransactionPipeline ------------------------
(* One download, which may be cancelled at any moment.                     *)
EXTENDS TransactionPipeline
CONSTANT p1
=============================================================================
