------------------------------ MODULE MCBridge ------------------------------
(* The bridge with one deposit in each of the first two source-chain       *)
(* blocks, one transaction of another account to the bridge's Fichain      *)
(* address, and at most two crashes of the bridge process.                 *)
EXTENDS Bridge, TLC

CONSTANTS d1, d2, o1

MCDeposits == (1 :> <<d1>>) @@ (2 :> <<d2>>)

MCOtherTxs == {o1}
=============================================================================
