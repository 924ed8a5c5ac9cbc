----------------------- MODULE MCWithdrawalPipeline -----------------------
(* Small instances of WithdrawalPipeline for TLC. *)
EXTENDS WithdrawalPipeline
=============================================================================
