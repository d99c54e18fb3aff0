--------------------------- MODULE BlockProduction ---------------------------
(***************************************************************************)
(* Block production on one node: the mempool (transaction_pool), the       *)
(* transaction handler that admits or forwards incoming transactions       *)
(* (handlers/transaction.go), the block-building goroutine of node.Start   *)
(* (block_builder.GenerateBlock followed by InsertChain), the              *)
(* state-transition engine (state_processor) shared by the builder and by  *)
(* the validator's replay in InsertChain, and the proposer schedule the    *)
(* node builds once at start-up.                                           *)
(*                                                                         *)
(* The builder goroutine and the peer read-loops that call the handler run *)
(* concurrently; they meet only at the mempool, whose every method holds   *)
(* its mutex.  GenerateBlock takes that mutex twice in a row               *)
(* (GetPendingTransactions, then Clear), so it is split into two actions   *)
(* at that point; everything after Clear touches only the builder's own    *)
(* data and the chain, and is one action.                                  *)
(*                                                                         *)
(* Data abstraction: amounts are small naturals, a transaction is a record *)
(* of the fields the engine reads, its calldata is the pair of counts of   *)
(* non-zero and zero bytes, the EVM's effect is fixed by the fields exec   *)
(* (gas its code burns), revert and refund, and a trie root is the         *)
(* account table it commits (roots are compared for equality only, and    *)
(* the trie is collision-free).  Logs and blooms are not modelled.         *)
(***************************************************************************)
EXTENDS Integers, Sequences, FiniteSets, Functions, FiniteSetsExt,
        SequencesExt, TLC

CONSTANTS
    Accounts,        \* addresses that hold an account
    Self,            \* this node's address: coinBase of the builder
    Validators,      \* authorities with their weights (a function)
    Txs,             \* the signed transactions users may submit (records)
    InitState,       \* genesis: Accounts -> [balance, nonce]
    NoAddress,       \* common.Address{}: tx.To() of a contract creation
    InvalidSender,   \* tx.From(chainId) fails to recover a sender
    CreateAddress(_, _), \* crypto.CreateAddress(sender, nonce)
    TxGas, TxGasContractCreation, TxDataNonZeroGas, TxDataZeroGas,
    MaxUint64,       \* math.MaxUint64, scaled down to the model's width
    BlockGasLimit,   \* params.TempGasLimit (also block.GasLimit())
    EpochLength,     \* params.TempEpochLength
    MaxHeight        \* the builder stops once the chain has this height

PS == INSTANCE ProposerSchedule WITH
        Authorities <- DOMAIN Validators, Weights <- Range(Validators),
        StartHeights <- {0}, NoProposer <- NoAddress, genesis <- Validators,
        valDB <- <<>>, phase <- "started", startHeight <- 0,
        weights <- Validators, order <- <<>>, fromBlock <- 0

NoError == "none"

VARIABLES
    pool,        \* TransactionPool.transactions (a set: duplicates are refused)
    bpc,         \* builder goroutine: "idle" or "pending" (between GetPending and Clear)
    pending,     \* the builder's copy of GetPendingTransactions, in loop order
    chain,       \* the canonical blocks after genesis
    chainState,  \* the account table at the head of the chain
    schedule,    \* node.proposerSchedule, built in initBlockchain
    lastBuilt,   \* the last block GenerateBlock returned: gas used, gas pool left
                 \* and whether InsertChain accepted it
    lost         \* ghost: pooled txs that Clear discarded unseen by the builder

vars == <<pool, bpc, pending, chain, chainState, schedule, lastBuilt, lost>>

-----------------------------------------------------------------------------
(* Helpers                                                                 *)

Sender(tx) == tx.from

IsCreation(tx) == tx.to = NoAddress

Credit(st, a, v) == [st EXCEPT ![a].balance = @ + v]

Debit(st, a, v) == [st EXCEPT ![a].balance = @ - v]

IncNonce(st, a) == [st EXCEPT ![a].nonce = @ + 1]

Height == Len(chain)

-----------------------------------------------------------------------------
(* The EVM (package evm, not part of this repository; geth semantics).     *)
(* Call and Create first check that the caller can pay the value (failing  *)
(* with ErrInsufficientBalance and returning all gas); Create then bumps   *)
(* the caller's nonce; the value moves and the code runs, and on any other *)
(* error the EVM reverts to its own snapshot: out of gas burns all gas,    *)
(* REVERT keeps the gas left.  The refund counter is what the code earned. *)
EvmRun(st, from, to, gas, tx) ==
    LET moved == Credit(Debit(st, from, tx.value), to, tx.value)
    IN CASE st[from].balance < tx.value ->
              [vmerr |-> "InsufficientBalance", st |-> st, gas |-> gas, refund |-> 0]
         [] tx.exec > gas ->
              [vmerr |-> "OutOfGas", st |-> st, gas |-> 0, refund |-> 0]
         [] tx.revert ->
              [vmerr |-> "Revert", st |-> st, gas |-> gas - tx.exec, refund |-> 0]
         [] OTHER ->
              [vmerr |-> NoError, st |-> moved, gas |-> gas - tx.exec, refund |-> tx.refund]

EvmCall(st, from, to, gas, tx) == EvmRun(st, from, to, gas, tx)

EvmCreate(st, from, gas, tx) ==
    IF st[from].balance < tx.value
    THEN [vmerr |-> "InsufficientBalance", st |-> st, gas |-> gas, refund |-> 0]
    ELSE EvmRun(IncNonce(st, from), from,
                CreateAddress(from, st[from].nonce), gas, tx)

-----------------------------------------------------------------------------
(* The state-transition engine (state_transition.go).                      *)

(* IntrinsicGas: base cost plus the calldata cost, refusing with           *)
(* ErrOutOfGas (and gas 0) when the sum would exceed MaxUint64.            *)
IntrinsicGas(tx) ==
    LET base == IF IsCreation(tx) THEN TxGasContractCreation ELSE TxGas
        g1   == base + tx.nz * TxDataNonZeroGas
    IN CASE (MaxUint64 - base) \div TxDataNonZeroGas < tx.nz ->
              [gas |-> 0, err |-> "OutOfGas"]
         [] (MaxUint64 - g1) \div TxDataZeroGas < tx.z ->
              [gas |-> 0, err |-> "OutOfGas"]
         [] OTHER -> [gas |-> g1 + tx.z * TxDataZeroGas, err |-> NoError]

(* Mutant: preCheck without the NonceTooLow branch.                       *)
PreCheckNoNonceTooLow(st, gp, tx) ==
    CASE st[Sender(tx)].nonce < tx.nonce -> [err |-> "NonceTooHigh", st |-> st, gp |-> gp]
      [] st[Sender(tx)].balance < tx.gas * tx.price ->
           [err |-> "InsufficientBalanceForGas", st |-> st, gp |-> gp]
      [] gp < tx.gas -> [err |-> "GasLimitReached", st |-> st, gp |-> gp]
      [] OTHER -> [err |-> NoError, st |-> Debit(st, Sender(tx), tx.gas * tx.price),
                   gp |-> gp - tx.gas]

(* Mutant: buyGas ignores the error of gp.SubGas and takes the gas anyway. *)
PreCheckIgnoreSubGas(st, gp, tx) ==
    CASE st[Sender(tx)].nonce < tx.nonce -> [err |-> "NonceTooHigh", st |-> st, gp |-> gp]
      [] st[Sender(tx)].nonce > tx.nonce -> [err |-> "NonceTooLow", st |-> st, gp |-> gp]
      [] st[Sender(tx)].balance < tx.gas * tx.price ->
           [err |-> "InsufficientBalanceForGas", st |-> st, gp |-> gp]
      [] OTHER -> [err |-> NoError, st |-> Debit(st, Sender(tx), tx.gas * tx.price),
                   gp |-> gp - tx.gas]

(* preCheck and buyGas: the error, or the state after the sender paid      *)
(* gas * price up front and the gas left in the block's pool.              *)
PreCheck(st, gp, tx) ==
    LET nonce == st[Sender(tx)].nonce
    IN CASE nonce < tx.nonce -> [err |-> "NonceTooHigh", st |-> st, gp |-> gp]
         [] nonce > tx.nonce -> [err |-> "NonceTooLow", st |-> st, gp |-> gp]
         [] st[Sender(tx)].balance < tx.gas * tx.price ->
              [err |-> "InsufficientBalanceForGas", st |-> st, gp |-> gp]
         [] gp < tx.gas -> [err |-> "GasLimitReached", st |-> st, gp |-> gp]
         [] OTHER -> [err |-> NoError, st |-> Debit(st, Sender(tx), tx.gas * tx.price),
                      gp |-> gp - tx.gas]

(* Mutant: the coinbase is paid gasUsed computed before the refund.        *)
RefundAndPayEarlyFee(st, gp, tx, gas, refundCounter, coinbase) ==
    LET refund == Min({(tx.gas - gas) \div 2, refundCounter})
        left   == gas + refund
    IN [st |-> Credit(Credit(st, Sender(tx), left * tx.price), coinbase, (tx.gas - gas) * tx.price),
        gp |-> gp + left, used |-> tx.gas - left]

(* refundGas and the coinbase credit that follows it in TransitionDb:      *)
(* gas is what the EVM left, used is initialGas - gas before the refund.   *)
RefundAndPay(st, gp, tx, gas, refundCounter, coinbase) ==
    LET refund == Min({(tx.gas - gas) \div 2, refundCounter})
        left   == gas + refund
        st1    == Credit(st, Sender(tx), left * tx.price)
    IN [st |-> Credit(st1, coinbase, (tx.gas - left) * tx.price),
        gp |-> gp + left, used |-> tx.gas - left]

(* Mutant: the call's nonce is bumped only when the EVM call succeeds.     *)
TransitionDbNonceOnSuccess(st, gp, tx, coinbase) ==
    LET pc  == PreCheck(st, gp, tx)
        ig  == IntrinsicGas(tx)
        g0  == tx.gas - ig.gas
        vm  == IF IsCreation(tx) THEN EvmCreate(pc.st, Sender(tx), g0, tx)
                                 ELSE EvmCall(pc.st, Sender(tx), tx.to, g0, tx)
        st2 == IF IsCreation(tx) \/ vm.vmerr # NoError THEN vm.st ELSE IncNonce(vm.st, Sender(tx))
        fin == RefundAndPay(st2, pc.gp, tx, vm.gas, vm.refund, coinbase)
    IN CASE pc.err # NoError -> [err |-> pc.err, st |-> pc.st, gp |-> pc.gp]
         [] tx.gas < ig.gas -> [err |-> "OutOfGas", st |-> pc.st, gp |-> pc.gp]
         [] vm.vmerr = "InsufficientBalance" ->
              [err |-> vm.vmerr, st |-> vm.st, gp |-> pc.gp]
         [] OTHER -> [err |-> NoError, st |-> fin.st, gp |-> fin.gp,
                      used |-> fin.used, failed |-> vm.vmerr # NoError]

(* TransitionDb.  The error of IntrinsicGas is assigned to err and then    *)
(* overwritten by useGas's result, so only useGas can fail here.  Every    *)
(* error after buyGas returns the state and gas pool as they are at that   *)
(* point: the caller decides what to revert.                               *)
TransitionDb(st, gp, tx, coinbase) ==
    LET pc  == PreCheck(st, gp, tx)
        ig  == IntrinsicGas(tx)
        g0  == tx.gas - ig.gas
        st1 == IF IsCreation(tx) THEN pc.st ELSE IncNonce(pc.st, Sender(tx))
        vm  == IF IsCreation(tx) THEN EvmCreate(pc.st, Sender(tx), g0, tx)
                                 ELSE EvmCall(st1, Sender(tx), tx.to, g0, tx)
        fin == RefundAndPay(vm.st, pc.gp, tx, vm.gas, vm.refund, coinbase)
    IN CASE pc.err # NoError -> [err |-> pc.err, st |-> pc.st, gp |-> pc.gp]
         [] tx.gas < ig.gas -> [err |-> "OutOfGas", st |-> pc.st, gp |-> pc.gp]
         [] vm.vmerr = "InsufficientBalance" ->
              [err |-> vm.vmerr, st |-> vm.st, gp |-> pc.gp]
         [] OTHER -> [err |-> NoError, st |-> fin.st, gp |-> fin.gp,
                      used |-> fin.used, failed |-> vm.vmerr # NoError]

(* state_processor.ApplyTransaction: recover the sender, apply the message *)
(* and, on success, add its gas to the block's usedGas and build the       *)
(* receipt (cumulative gas, own gas, status, created contract).            *)
ApplyTransactionWith(st, gp, tx, usedGas, r) ==
    CASE Sender(tx) = InvalidSender -> [err |-> "InvalidSender", st |-> st, gp |-> gp]
      [] r.err # NoError -> r
      [] OTHER ->
           [err |-> NoError, st |-> r.st, gp |-> r.gp, usedGas |-> usedGas + r.used,
            receipt |-> [tx |-> tx, failed |-> r.failed, gasUsed |-> r.used,
                         cumulativeGasUsed |-> usedGas + r.used,
                         contract |-> IF IsCreation(tx)
                                      THEN CreateAddress(Sender(tx), tx.nonce)
                                      ELSE NoAddress]]

(* The call: r is ApplyMessage's (TransitionDb's) result.                 *)
ApplyTransaction(st, gp, tx, usedGas, coinbase) ==
    ApplyTransactionWith(st, gp, tx, usedGas, TransitionDb(st, gp, tx, coinbase))

-----------------------------------------------------------------------------
(* The block builder (block_builder.go).                                   *)

(* Mutant: a failed transaction's partial effects are kept.                *)
ApplyInBuilderNoRevert(acc, tx) ==
    LET r == ApplyTransaction(acc.st, acc.gp, tx, acc.used, Self)
    IN IF r.err # NoError
       THEN [acc EXCEPT !.st = r.st, !.gp = r.gp]
       ELSE [acc EXCEPT !.st = r.st, !.gp = r.gp, !.used = r.usedGas,
                        !.txs = Append(@, tx), !.receipts = Append(@, r.receipt)]

(* One turn of GenerateBlock's loop: DeepVerify (always nil), then         *)
(* applyTransaction, which reverts the state to its snapshot on error but  *)
(* leaves the gas pool as TransitionDb left it.                            *)
ApplyInBuilderWith(acc, tx, r) ==
    IF r.err # NoError
    THEN [acc EXCEPT !.gp = r.gp]
    ELSE [acc EXCEPT !.st = r.st, !.gp = r.gp, !.used = r.usedGas,
                     !.txs = Append(@, tx), !.receipts = Append(@, r.receipt)]

(* The snapshot and the call to state_processor.ApplyTransaction.          *)
ApplyInBuilder(acc, tx) ==
    ApplyInBuilderWith(acc, tx, ApplyTransaction(acc.st, acc.gp, tx, acc.used, Self))

(* GenerateBlock after Clear: the loop over the pending transactions from  *)
(* a fresh TempGasLimit pool, then the header's roots.                     *)
GenerateBlock(parentState, seq) ==
    LET acc == FoldLeft(ApplyInBuilder,
                        [st |-> parentState, gp |-> BlockGasLimit, used |-> 0,
                         txs |-> <<>>, receipts |-> <<>>], seq)
    IN [height |-> Height + 1, proposer |-> Self, txs |-> acc.txs,
        receipts |-> acc.receipts, gasUsed |-> acc.used, stateRoot |-> acc.st,
        gpLeft |-> acc.gp]

(* GetPendingTransactions as the loop sees it: the senders' groups come in *)
(* Go map order (any), each group sorted by nonce with the unstable        *)
(* sort.Slice (equal nonces in any order).                                 *)
PendingOrders(P) ==
    { s \in SetToSeqs(P) :
        \A i, j, k \in 1..Len(s) :
            /\ (i < j /\ j < k /\ Sender(s[i]) = Sender(s[k])) => Sender(s[j]) = Sender(s[i])
            /\ (i < j /\ Sender(s[i]) = Sender(s[j])) => s[i].nonce <= s[j].nonce }

-----------------------------------------------------------------------------
(* The validator's replay: StateProcessor.Process and                      *)
(* BlockValidator.ValidateState, run by InsertChain.                       *)

(* One turn of Process's loop on the result r of ApplyTransaction: the     *)
(* first error ends the replay, otherwise the receipt is collected.        *)
ProcessStepWith(acc, r) ==
    CASE acc.err # NoError -> acc
      [] r.err # NoError -> [acc EXCEPT !.err = r.err]
      [] OTHER -> [acc EXCEPT !.st = r.st, !.gp = r.gp, !.used = r.usedGas,
                              !.receipts = Append(@, r.receipt)]

(* The call, with the block's proposer as the author.                     *)
ProcessStep(acc, tx, coinbase) ==
    ProcessStepWith(acc, ApplyTransaction(acc.st, acc.gp, tx, acc.used, coinbase))

Process(blk, parentState) ==
    FoldLeft(LAMBDA acc, tx : ProcessStep(acc, tx, blk.proposer),
             [err |-> NoError, st |-> parentState, gp |-> BlockGasLimit,
              used |-> 0, receipts |-> <<>>], blk.txs)

ValidateState(blk, res) ==
    /\ blk.gasUsed = res.used
    /\ blk.receipts = res.receipts
    /\ blk.stateRoot = res.st

(* The stored form of a block: the fields its hash commits to here.      *)
BlockRecord(blk) ==
    [f \in {"height", "proposer", "txs", "receipts", "gasUsed", "stateRoot"} |-> blk[f]]

(* BlockValidator.ValidateBody: a block already stored is ErrKnownBlock,   *)
(* one whose parent (height - 1) is not stored is ErrUnknownAncestor.      *)
(* The PoA engine's VerifyUncles returns nil, and the uncle and            *)
(* transaction roots the builder wrote are derived from the same content,  *)
(* so the remaining checks pass and are not modelled.                      *)
ValidateBody(blk) ==
    /\ ~\E i \in DOMAIN chain : chain[i] = BlockRecord(blk)
    /\ blk.height - 1 <= Height

(* InsertChain (package block_chain, not part of this repository): the     *)
(* block extends the head, is replayed on the parent state and accepted    *)
(* only if the replay succeeds and every derived value matches.            *)
InsertChainAccepts(blk, parentState) ==
    LET res == Process(blk, parentState)
    IN ValidateBody(blk) /\ res.err = NoError /\ ValidateState(blk, res)

-----------------------------------------------------------------------------
(* Actions                                                                 *)

(* TransactionPool.AddTransaction: a tx already pooled (same hash) is      *)
(* refused, any other is appended.                                         *)
AddTransaction(p, tx) == p \cup {tx}

Init ==
    /\ pool = {}
    /\ bpc = "idle"
    /\ pending = <<>>
    /\ chain = <<>>
    /\ chainState = InitState
    /\ schedule \in { PS!UpdateSchedule(0, Validators, o) : o \in PS!SortedOrders(Validators) }
    /\ lastBuilt = [gasUsed |-> 0, gpLeft |-> BlockGasLimit, accepted |-> TRUE]
    /\ lost = {}

(* TransactionHandler.Transaction: a peer delivers tx.  QuickVerify always *)
(* passes; no proposer for height+2 drops it; if this node is that         *)
(* proposer it goes into the pool, otherwise it is forwarded and, if the   *)
(* send fails, pooled here.                                                *)
Transaction(tx) ==
    LET next == PS!GetProposer(schedule, Height + 2)
    IN \/ /\ next = NoAddress
          /\ UNCHANGED vars
       \/ /\ next # NoAddress
          /\ \E sent \in BOOLEAN :
               pool' = IF next = Self \/ ~sent THEN AddTransaction(pool, tx) ELSE pool
          /\ UNCHANGED <<bpc, pending, chain, chainState, schedule, lastBuilt, lost>>

(* node.Start's loop, first half of GenerateBlock(CurrentHeader):          *)
(* statedb.Reset, the header, the gas pool and GetPendingTransactions.     *)
GetPending ==
    /\ bpc = "idle"
    /\ Height < MaxHeight
    /\ pending' \in PendingOrders(pool)
    /\ bpc' = "pending"
    /\ UNCHANGED <<pool, chain, chainState, schedule, lastBuilt, lost>>

(* The rest of the loop body: Clear, the apply loop and the roots, then    *)
(* InsertChain, whose error the loop ignores before sleeping.              *)
BuildAndInsert ==
    LET blk == GenerateBlock(chainState, pending)
        ok  == InsertChainAccepts(blk, chainState)
    IN /\ bpc = "pending"
       /\ pool' = {}
       /\ chain' = IF ok THEN Append(chain, BlockRecord(blk)) ELSE chain
       /\ chainState' = IF ok THEN blk.stateRoot ELSE chainState
       /\ lastBuilt' = [gasUsed |-> blk.gasUsed, gpLeft |-> blk.gpLeft, accepted |-> ok]
       /\ lost' = lost \cup (pool \ ToSet(pending))
       /\ pending' = <<>>
       /\ bpc' = "idle"
       /\ UNCHANGED schedule

Next ==
    \/ \E tx \in Txs : Transaction(tx)
    \/ GetPending
    \/ BuildAndInsert

Spec == Init /\ [][Next]_vars

-----------------------------------------------------------------------------
(* Properties                                                              *)

AccountT == [balance : Nat, nonce : Nat]

(* Type invariant.  Balances are naturals: the code keeps balance >= 0 by  *)
(* buyGas's check and the EVM's CanTransfer check (spec 2: balance >= 0 at *)
(* every observable boundary).                                             *)
TypeOK ==
    /\ pool \subseteq Txs
    /\ bpc \in {"idle", "pending"}
    /\ pending \in Seq(Txs)
    /\ chainState \in [Accounts -> AccountT]
    /\ \A i \in 1..Len(chain) : chain[i].stateRoot \in [Accounts -> AccountT]
    /\ lost \subseteq Txs
    /\ lastBuilt \in [gasUsed : 0..BlockGasLimit, gpLeft : 0..BlockGasLimit,
                      accepted : BOOLEAN]
    /\ \A i \in 1..Len(chain) : chain[i].gasUsed \in 0..BlockGasLimit


Balance(st) == MapThenSumSet(LAMBDA a : st[a].balance, Accounts)

Inclusions == UNION { { <<i, k>> : k \in 1..Len(chain[i].txs) } : i \in 1..Len(chain) }

TxAt(p) == chain[p[1]].txs[p[2]]

IncludedFrom(a) == Quantify(Inclusions, LAMBDA p : Sender(TxAt(p)) = a)

(* Builder-validator equivalence (spec 8): every block GenerateBlock       *)
(* returns is accepted by InsertChain, whose replay from a fresh gas pool  *)
(* reaches the same gas used, receipts and state root.  The loop ignores   *)
(* InsertChain's error after the pool was cleared, so a rejected block     *)
(* would silently drop its transactions.                                   *)
BlocksAccepted == lastBuilt.accepted

(* Gas conservation (spec 8): the fees the coinbase is credited are        *)
(* exactly what senders paid for gas, net of refunds, and values only      *)
(* move between accounts, so the total balance of the canonical state      *)
(* never changes.                                                          *)
SupplyConserved == Balance(chainState) = Balance(InitState)

(* Nonce semantics (spec 8): every transaction in the chain bumped its     *)
(* sender's nonce exactly once, whatever the EVM did (revert, out of gas,  *)
(* creation), so each account's nonce counts its included transactions.   *)
NonceCountsIncluded ==
    \A a \in Accounts : chainState[a].nonce = InitState[a].nonce + IncludedFrom(a)

(* At-most-once inclusion (spec 1): a transaction a user resubmits after   *)
(* it was mined never enters the chain a second time.                      *)
IncludedAtMostOnce ==
    \A p, q \in Inclusions : TxAt(p) = TxAt(q) => p = q

(* The block's gas pool accounts for the block (spec 4.4 steps 3 and 7):   *)
(* after the loop, the gas left in the builder's pool is the block limit   *)
(* minus the header's gas used, so a transaction that fits is never        *)
(* skipped with GasLimitReached.                                           *)
GasPoolAccounted == lastBuilt.gpLeft = BlockGasLimit - lastBuilt.gasUsed

(* The mempool's add is the commit point (spec 4.5): a transaction the     *)
(* handler pooled is never thrown away by the builder's Clear before the   *)
(* builder has seen it.                                                    *)
NoTxLost == lost = {}

(* Proposer schedule per epoch (spec 4.6): the handler can always name the *)
(* proposer of height + 2, so it can place every incoming transaction.     *)
ScheduleCoversNextHeight == PS!GetProposer(schedule, Height + 2) # NoAddress

(* Only the scheduled proposer builds (spec glossary, "Proposer"): every   *)
(* block in the chain was built by the authority the schedule names for    *)
(* its height.                                                             *)
OnlyScheduledProposerBuilds ==
    \A i \in 1..Len(chain) : chain[i].proposer = PS!GetProposer(schedule, i)

=============================================================================
