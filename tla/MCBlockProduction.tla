------------------------- MODULE MCBlockProduction --------------------------
(* Model-checking instance of BlockProduction.                             *)
(*                                                                         *)
(* Accounts A and B send; C is this node (the coinbase) and V the other    *)
(* validator, of equal weight, so that the schedule gives C either the     *)
(* first or the second half of an epoch of four heights.  K is the         *)
(* address of the contract A creates.  Gas is counted in units where       *)
(* TxGas is 2 and uint64 is four bits wide.  The transactions cover the    *)
(* engine's paths: a transfer (t1), a call that reverts (t2, nonce 1      *)
(* after t1), a creation that earns a refund (t5, also nonce 1, so it      *)
(* competes with t2), a call whose value B cannot pay once gas is bought  *)
(* (t3: the EVM fails with ErrInsufficientBalance) and a call whose gas    *)
(* does not cover its intrinsic gas (t4, the same nonce as t3).            *)
EXTENDS BlockProduction

CONSTANTS A, B, C, V, K, NoAddr, BadSender

MCAccounts == {A, B, C, K}
MCValidators == (C :> 1) @@ (V :> 1)
MCInitState == [a \in MCAccounts |-> [balance |-> IF a = A THEN 10 ELSE IF a = B THEN 5 ELSE 0,
                                      nonce |-> 0]]
MCCreateAddress(from, nonce) == K

Tx(from, to, nonce, value, gas, nz, z, exec, revert, refund) ==
    [from |-> from, to |-> to, nonce |-> nonce, value |-> value, gas |-> gas,
     price |-> 1, nz |-> nz, z |-> z, exec |-> exec, revert |-> revert,
     refund |-> refund]

MCTxs == {
    Tx(A, B, 0, 2, 3, 0, 0, 0, FALSE, 0),       \* t1
    Tx(A, B, 1, 1, 4, 0, 1, 1, TRUE, 0),        \* t2
    Tx(B, A, 0, 9, 2, 0, 0, 0, FALSE, 0),       \* t3
    Tx(B, A, 0, 0, 1, 0, 0, 0, FALSE, 0),       \* t4
    Tx(A, NoAddr, 1, 1, 5, 0, 0, 1, FALSE, 1)   \* t5
}
=============================================================================
