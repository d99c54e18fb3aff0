------------------------------- MODULE Bridge -------------------------------
(***************************************************************************)
(* The bridge DApp (src/Dapps/bridge/server): the block scanner that       *)
(* watches the source chain for ERC20 deposits to the bridge's deposit     *)
(* wallets, and the minter that mints the deposited amount on Fichain      *)
(* through a Fichain client (ClientSession), composed with that client.    *)
(*                                                                         *)
(* The scanner is one goroutine.  Its loop reads the source chain's head,  *)
(* and for every block after lastBlockNumber runs processBlock, then       *)
(* saveLastBlock.  processBlock credits each deposit to the wallet's       *)
(* balance (updateWalletBalance) and calls MintToken, which locks the      *)
(* amount and writes a PROCESSING deposit log in one DB transaction, sends *)
(* the mint with Client.SendTransaction, and then either marks the log     *)
(* FAILED (error or status != 1) or moves the amount from locked to        *)
(* withdrawn in one DB transaction (finalizeMint) and then, in a second    *)
(* write, marks the log SUCCESS (updateLogState); a crash can fall between *)
(* the two.                                                                *)
(*                                                                         *)
(* The DB (balances, logs) and last_block.json survive a crash of the      *)
(* bridge process; the scanner's lastBlockNumber and the client session    *)
(* do not.  Every deposit moves one unit of one token to one wallet, and   *)
(* the DB transactions are atomic steps that succeed.                     *)
(***************************************************************************)
EXTENDS ClientSession

CONSTANTS
    Deposits,       \* source-chain block number -> sequence of deposit ids
    MaxHead,        \* the source chain grows up to this height
    MaxCrashes,     \* bound on crashes of the bridge process
    FetchOutcomes   \* subset of BOOLEAN: can a BlockByNumber or
                    \* TransactionReceipt call to the source chain fail?

DepositIds == UNION { { Deposits[b][i] : i \in DOMAIN Deposits[b] } : b \in 1..MaxHead }

VARIABLES
    head,       \* the source chain's latest block number
    spc,        \* the scanner: "poll", "fetch", "deposit", "mint", "finalized"
    lastBlock,  \* lastBlockNumber, in memory
    target,     \* currentBlock.NumberU64() of this turn of the loop
    blk,        \* blockNum, the block being processed
    todo,       \* deposits of blk still to process
    saved,      \* last_block.json (0: no file)
    wallet,     \* the deposit wallet row: balance, locked, withdrawn
    logs,       \* the deposit_logs table: [dep, status], id = index
    crashes,    \* crashes so far
    finalized   \* history: ids of the logs finalizeMint committed for

bridgeVars == <<head, spc, lastBlock, target, blk, todo, saved, wallet, logs, crashes, finalized>>
vars == <<clientVars, nodeVars, bridgeVars>>

(* The deposit a mint transaction carries ("Bridge Mint for log %d").      *)
MintDeposit(t) == logs[t.pay].dep

-----------------------------------------------------------------------------
(* The scanner: BlockScannerService.SubscribeAndProcess.                   *)

(* One turn of the loop: read the head; on a fresh start (lastBlockNumber  *)
(* 0) start just below it; if there are new blocks, process them in order. *)
Poll ==
    /\ spc = "poll"
    /\ LET last == IF lastBlock = 0 THEN head - 1 ELSE lastBlock
       IN /\ head > last
          /\ lastBlock' = last
          /\ target' = head
          /\ blk' = last + 1
    /\ spc' = "fetch"
    /\ UNCHANGED <<clientVars, nodeVars, head, todo, saved, wallet, logs, crashes, finalized>>

(* Mutant: the block after the processed one is saved.                     *)
SaveLastBlockAhead ==
    /\ saved' = blk + 1
    /\ lastBlock' = blk
    /\ IF blk < target
       THEN blk' = blk + 1 /\ spc' = "fetch"
       ELSE spc' = "poll" /\ UNCHANGED blk

(* saveLastBlock(blockNum) and lastBlockNumber = blockNum; the loop moves  *)
(* on to the next block or back to the head.                               *)
SaveLastBlock ==
    /\ saved' = blk
    /\ lastBlock' = blk
    /\ IF blk < target
       THEN blk' = blk + 1 /\ spc' = "fetch"
       ELSE spc' = "poll" /\ UNCHANGED blk

(* processBlock: BlockByNumber; on an error it returns and the block is    *)
(* saved as processed all the same.                                       *)
FetchBlock ==
    /\ spc = "fetch"
    /\ \E ok \in FetchOutcomes :
         IF ok THEN todo' = Deposits[blk] /\ spc' = "deposit"
                     /\ UNCHANGED <<saved, lastBlock, blk>>
         ELSE SaveLastBlock /\ UNCHANGED todo
    /\ UNCHANGED <<clientVars, nodeVars, head, target, wallet, logs, crashes, finalized>>

(* The block's transactions are done: saveLastBlock.                       *)
BlockDone ==
    /\ spc = "deposit"
    /\ todo = <<>>
    /\ SaveLastBlock
    /\ UNCHANGED <<clientVars, nodeVars, head, target, todo, wallet, logs, crashes, finalized>>

(* updateWalletBalance: the deposit is added to the wallet's balance.      *)
UpdateWalletBalance(w) == [w EXCEPT !.balance = @ + 1]

(* Mutant: the unique index lets a deposit whose log FAILED be logged and  *)
(* minted again.                                                           *)
HasLogNotFailed(d) == \E i \in DOMAIN logs : logs[i].dep = d /\ logs[i].status # "failed"

(* A deposit log for the source transaction of deposit d exists.          *)
HasLog(d) == \E i \in DOMAIN logs : logs[i].dep = d

(* Mutant: phase 1 does not meet the unique index on SourceChainTxHash.     *)
MintTokenNoUnique(w, d) ==
    /\ wallet' = [w EXCEPT !.locked = @ + 1]
    /\ logs' = Append(logs, [dep |-> d, status |-> "processing"])
    /\ SendTransaction(Len(logs) + 1)
    /\ spc' = "mint"
    /\ UNCHANGED todo

(* MintToken on wallet row w for deposit d.  Phase 1, one DB transaction:  *)
(* create the PROCESSING log and lock the amount.  The log's               *)
(* SourceChainTxHash has a unique index, so for a deposit already logged   *)
(* the create fails, the transaction rolls back and MintToken returns the  *)
(* error; processERC20Logs logs it and goes on.  Otherwise                 *)
(* attemptOnChainMint calls SendTransaction with the new log's id.         *)
MintToken(w, d) ==
    IF HasLog(d)
    THEN /\ wallet' = w
         /\ todo' = Tail(todo)
         /\ UNCHANGED <<clientVars, logs, spc>>
    ELSE /\ wallet' = [w EXCEPT !.locked = @ + 1]
         /\ logs' = Append(logs, [dep |-> d, status |-> "processing"])
         /\ SendTransaction(Len(logs) + 1)
         /\ spc' = "mint"
         /\ UNCHANGED todo

(* processERC20Logs for the next deposit: TransactionReceipt from the      *)
(* source chain (an error skips the deposit), updateWalletBalance in its   *)
(* own DB transaction, then MintToken.                                     *)
Deposit ==
    /\ spc = "deposit"
    /\ todo # <<>>
    /\ \E ok \in FetchOutcomes :
         IF ok
         THEN MintToken(UpdateWalletBalance(wallet), Head(todo))
         ELSE /\ todo' = Tail(todo)
              /\ UNCHANGED <<clientVars, wallet, logs, spc>>
    /\ UNCHANGED <<nodeVars, head, lastBlock, target, blk, saved, crashes, finalized>>

(* Mutant: finalizeMint adds to withdrawn without taking from locked.      *)
FinalizeMintNoUnlock(w) == [w EXCEPT !.withdrawn = @ + 1]

(* finalizeMint: move the amount from locked to withdrawn.                 *)
FinalizeMint(w) == [w EXCEPT !.locked = @ - 1, !.withdrawn = @ + 1]

(* attemptOnChainMint after SendTransaction returns: an error or a receipt *)
(* with status != 1 marks the log FAILED and leaves the amount locked, and *)
(* the scanner goes on with the block's next deposit; otherwise            *)
(* finalizeMint's DB transaction moves the amount to withdrawn.            *)
MintReturned ==
    /\ spc = "mint"
    /\ ReceiveReceipt \/ ReceiptTimeout \/ SendTxFailed
    /\ LET id == Len(logs)
       IN IF result'.kind = "receipt" /\ result'.rcpt.status = 1
          THEN /\ wallet' = FinalizeMint(wallet)
               /\ finalized' = finalized \cup {id}
               /\ spc' = "finalized"
               /\ UNCHANGED <<logs, todo>>
          ELSE /\ logs' = [logs EXCEPT ![id].status = "failed"]
               /\ todo' = Tail(todo)
               /\ spc' = "deposit"
               /\ UNCHANGED <<wallet, finalized>>
    /\ UNCHANGED <<nodeVars, head, lastBlock, target, blk, saved, crashes>>

(* finalizeMint's last step, a separate write: updateLogState marks the    *)
(* log SUCCESS; the scanner goes on with the block's next deposit.         *)
LogSuccess ==
    /\ spc = "finalized"
    /\ logs' = [logs EXCEPT ![Len(logs)].status = "success"]
    /\ todo' = Tail(todo)
    /\ spc' = "deposit"
    /\ UNCHANGED <<clientVars, nodeVars, head, lastBlock, target, blk, saved, wallet,
                   crashes, finalized>>

(* The source chain grows.                                                 *)
NewSourceBlock ==
    /\ head < MaxHead
    /\ head' = head + 1
    /\ UNCHANGED <<clientVars, nodeVars, spc, lastBlock, target, blk, todo, saved,
                   wallet, logs, crashes, finalized>>

(* The bridge process dies and is started again: the DB and              *)
(* last_block.json remain, loadLastBlock reads lastBlockNumber back, and   *)
(* a new client connects.                                                 *)
Crash ==
    /\ crashes < MaxCrashes
    /\ crashes' = crashes + 1
    /\ ConnectionLost
    /\ spc' = "poll"
    /\ lastBlock' = saved
    /\ todo' = <<>>
    /\ UNCHANGED <<head, target, blk, saved, wallet, logs, finalized>>

-----------------------------------------------------------------------------
Init ==
    /\ InitSession
    /\ head = 1
    /\ spc = "poll"
    /\ lastBlock = 0
    /\ target = 0
    /\ blk = 0
    /\ todo = <<>>
    /\ saved = 0
    /\ wallet = [balance |-> 0, locked |-> 0, withdrawn |-> 0]
    /\ logs = <<>>
    /\ crashes = 0
    /\ finalized = {}

(* The client steps that the scanner's own steps do not include.           *)
ClientEnvironment ==
    \/ ReceiveNonce
    \/ ClientReadLoop
    \/ NodeReadLoop
    \/ Mine
    \/ \E t \in notify : NotifyTxMined(t)
    \/ \E o \in OtherTxs : OtherSend(o)
    \/ ConnectionDrop

BridgeStep == Poll \/ FetchBlock \/ Deposit \/ MintReturned \/ LogSuccess \/ BlockDone

Next ==
    \/ ClientEnvironment /\ UNCHANGED bridgeVars
    \/ BridgeStep
    \/ NewSourceBlock
    \/ Crash

(* The scanner goroutine runs; the client and node run as in               *)
(* SessionFairness; the source chain and crashes are not forced.           *)
Fairness ==
    /\ SessionFairness
    /\ WF_vars(BridgeStep)

Spec == Init /\ [][Next]_vars /\ Fairness

-----------------------------------------------------------------------------
OwnTxs == [pay : Nat, nonce : Nat]

Msgs == [type : {"GetNonce"}, req : Nat] \cup [type : {"SendTransaction", "GetReceipt"}, tx : OwnTxs \cup OtherTxs]
        \cup [type : {"Nonce"}, req : Nat, nonce : Nat] \cup [type : {"TxMined"}, tx : OwnTxs \cup OtherTxs]
        \cup [type : {"Receipt"}, rcpt : [tx : OwnTxs \cup OtherTxs, status : {0, 1}]]

TypeOK ==
    /\ cpc \in {"idle", "nonce", "receipt"}
    /\ cur \in OwnTxs \cup {NoTx}
    /\ rlMsg \in Msgs \cup {NoMsg}
    /\ toNode \in Seq(Msgs) /\ toClient \in Seq(Msgs)
    /\ connected \in BOOLEAN
    /\ pool \subseteq OwnTxs \cup OtherTxs
    /\ mined \subseteq [tx : OwnTxs \cup OtherTxs, status : {0, 1}]
    /\ spc \in {"poll", "fetch", "deposit", "mint", "finalized"}
    /\ head \in 1..MaxHead /\ saved \in 0..MaxHead /\ lastBlock \in 0..MaxHead
    /\ logs \in Seq([dep : DepositIds, status : {"processing", "failed", "success"}])
    /\ wallet \in [balance : Nat, locked : Nat, withdrawn : Nat]
    /\ finalized \subseteq DOMAIN logs

SuccessLogs == { i \in DOMAIN logs : logs[i].status = "success" }

FailedLogs == { i \in DOMAIN logs : logs[i].status = "failed" }

(* The wallet's DB accounting survives failed mints and crashes, also one  *)
(* between finalizeMint and updateLogState: every logged deposit's amount  *)
(* is either still locked or withdrawn, never both or neither; a SUCCESS   *)
(* log's amount has been withdrawn and a FAILED log's is still locked.    *)
LockedMatchesLogs ==
    /\ wallet.locked + wallet.withdrawn = Len(logs)
    /\ Cardinality(SuccessLogs) <= wallet.withdrawn
    /\ Cardinality(FailedLogs) <= wallet.locked

(* A deposit is minted on Fichain at most once, across crashes and the    *)
(* replay of blocks not yet saved in last_block.json: the unique index on  *)
(* DepositLog.SourceChainTxHash "MUST be unique to prevent                 *)
(* double-processing of the same deposit".                                *)
NoDoubleMint ==
    \A d \in DepositIds :
        Cardinality({ r \in mined : OwnTx(r.tx) /\ r.status = 1 /\ MintDeposit(r.tx) = d }) <= 1

(* The deposit wallet's Balance ("current on-chain balance") never exceeds *)
(* what was deposited on the source chain: updateWalletBalance credits     *)
(* each deposit once, also when a block is processed again after a crash.  *)
BalanceNotAboveDeposits ==
    wallet.balance <= Cardinality(UNION { { Deposits[b][i] : i \in DOMAIN Deposits[b] } : b \in 1..head })

(* A SUCCESS log's own mint transaction is on chain and succeeded:         *)
(* attemptOnChainMint finalizes only on the receipt SendTransaction        *)
(* returns for that transaction.                                          *)
SuccessLogIsMinted ==
    \A i \in SuccessLogs : \E r \in mined : OwnTx(r.tx) /\ r.tx.pay = i /\ r.status = 1


-----------------------------------------------------------------------------
(* Refinement: the deposit_logs table seen through each deposit's newest   *)
(* log, and the wallet row's locked and withdrawn amounts, behave as the   *)
(* DepositLedger; every scanner, client, node and crash step is a          *)
(* DepositLedger step or leaves that view unchanged.  A PROCESSING log     *)
(* whose finalizeMint has committed (the history variable finalized) is   *)
(* the ledger's "paid" record.                                             *)
LedgerView ==
    [d \in DepositIds |->
        IF \E i \in DOMAIN logs : logs[i].dep = d
        THEN LET i == CHOOSE i \in DOMAIN logs :
                          logs[i].dep = d /\ \A j \in DOMAIN logs : logs[j].dep = d => j <= i
             IN IF logs[i].status = "processing" /\ i \in finalized THEN "paid"
                ELSE logs[i].status
        ELSE "new"]

Ledger == INSTANCE DepositLedger
              WITH Deposits <- DepositIds, ledger <- LedgerView,
                   locked <- wallet.locked, withdrawn <- wallet.withdrawn

(* Bridge implements DepositLedger: one audit record per deposit across    *)
(* crashes and replays, a status that settles once, the amount moved from  *)
(* locked to withdrawn at most once per record and only before its        *)
(* SUCCESS, never for a FAILED one (MintToken phase 1, attemptOnChainMint, *)
(* finalizeMint, updateLogState).                                          *)
LedgerRefined == Ledger!Spec

=============================================================================
