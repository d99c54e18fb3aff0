---------------------------- MODULE DepositLedger ----------------------------
(***************************************************************************)
(* What the bridge's minter promises its DB, stated without the scanner,   *)
(* the client or crashes: every source-chain deposit gets one audit        *)
(* record, which goes from PROCESSING to SUCCESS or FAILED once and never  *)
(* back; opening a record locks the deposit's amount, which moves from     *)
(* locked to withdrawn once ("paid", still PROCESSING in the table) before *)
(* the record may become SUCCESS, and never for a FAILED record.  A record *)
(* may stay PROCESSING, paid or not, for ever (the process died).          *)
(***************************************************************************)
EXTENDS Naturals

CONSTANTS Deposits

VARIABLES
    ledger,     \* deposit -> "new", "processing", "paid", "success", "failed"
    locked,     \* the wallet's locked amount
    withdrawn   \* the wallet's withdrawn amount

Open(d) ==
    /\ ledger[d] = "new"
    /\ ledger' = [ledger EXCEPT ![d] = "processing"]
    /\ locked' = locked + 1
    /\ UNCHANGED withdrawn

Withdraw(d) ==
    /\ ledger[d] = "processing"
    /\ ledger' = [ledger EXCEPT ![d] = "paid"]
    /\ locked' = locked - 1
    /\ withdrawn' = withdrawn + 1

Succeed(d) ==
    /\ ledger[d] = "paid"
    /\ ledger' = [ledger EXCEPT ![d] = "success"]
    /\ UNCHANGED <<locked, withdrawn>>

Fail(d) ==
    /\ ledger[d] = "processing"
    /\ ledger' = [ledger EXCEPT ![d] = "failed"]
    /\ UNCHANGED <<locked, withdrawn>>

Init ==
    /\ ledger = [d \in Deposits |-> "new"]
    /\ locked = 0
    /\ withdrawn = 0

Next == \E d \in Deposits : Open(d) \/ Withdraw(d) \/ Succeed(d) \/ Fail(d)

Spec == Init /\ [][Next]_<<ledger, locked, withdrawn>>
=============================================================================
