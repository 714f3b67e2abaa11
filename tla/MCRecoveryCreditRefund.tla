----------------------- MODULE MCRecoveryCreditRefund -----------------------
(* RecoveryCreditRefund for TLC. The calls are not declared symmetric: which  *)
(* of two live refunds a read returns is a fixed choice between them.         *)
EXTENDS RecoveryCreditRefund, TLC
=============================================================================
