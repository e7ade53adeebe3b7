----------------------- MODULE MCWithdrawalProcessing -----------------------
(* Small instances of WithdrawalProcessing for TLC. *)
EXTENDS WithdrawalProcessing

MCAmount == [w \in Withdrawals |-> w]
=============================================================================
