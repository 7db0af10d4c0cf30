------------------------- MODULE MCTransferProposer -------------------------
(* Model-checking instance of TransferProposer.                           *)
EXTENDS TransferProposer

=============================================================================
