# TLA+ models of the Fichain node

These modules model the block-production pipeline of the Fichain PoA node
(`src/Core`): the mempool, the transaction handler, the state-transition
engine, the block builder, the validator's replay and the proposer schedule.
They also model the request/response session of a Fichain client
(`src/Core/client`) and the bridge DApp that uses that client
(`src/Dapps/bridge/server`), and the TCP peer lifecycle with its lookup
table (`src/Core/p2p`). The TLC configurations check them. The rest of the system is listed in this
file and in `PROJECT.json` with the plan for it.

## The system

| Part | Code | Runs on |
|---|---|---|
| Mempool | `transaction_pool/transaction_pool.go` | shared. Every method takes one mutex. |
| Transaction handler | `handlers/transaction.go` | peer read-loops, concurrently |
| State-transition engine | `state_processor/state_transition.go`, `state_processor.go` | the builder goroutine and the chain insertion |
| Block builder | `block_builder/block_builder.go` | the block-production goroutine of `node.Start` |
| Block validator | `block_validator/block_validator.go` | `InsertChain` (package `block_chain`, not in this repository) |
| Proposer schedule | `consensus/poa_consensus/proposer_schedule.go` | built once in `node.initBlockchain` |
| Validator store | `consensus/poa_consensus/authority.go`, `genesis/genesis.go`, `cmd/gen_genesis` | written by the `gen_genesis` tool and loaded at each node start |
| Client request/response | `client/client.go`, `client/handlers/client_handler.go` | a client process: a read-loop plus the caller |
| P2P | `p2p/peer`, `p2p/server`, `p2p/ws/*`, `p2p/lookup_table`, `p2p/message_sender`, `p2p/router` | one read-loop per peer |
| Notifiers | `notifier/*` | one goroutine per chain-event subscription |
| Bridge DApp | `Dapps/bridge/server/scanner`, `minter` | a scanner loop plus HTTP handlers |

A transaction arrives from a peer. `TransactionHandler.Transaction` then handles it:

1. It asks the schedule for the proposer of height `current+2`. If there is none, it drops the transaction.
2. If this node is that proposer, it pools the transaction.
3. Otherwise it forwards the transaction to the proposer. If the send fails, it pools the transaction here.

The node's builder goroutine loops forever over these steps:

1. `GenerateBlock(CurrentHeader)`:
   1. Reset the state to the parent root.
   2. Build the header and a fresh `TempGasLimit` gas pool.
   3. Call `GetPendingTransactions`, then `Clear`.
   4. Apply each pending transaction in order. A failed transaction is reverted to its snapshot and skipped.
   5. Derive the roots.
2. `InsertChain`, which checks the block with `ValidateBody`, replays it with `StateProcessor.Process` and checks the result with `ValidateState`. The loop ignores its error.
3. Sleep for 1.5 s.

## Modules

### `ProposerSchedule.tla`

This module holds `UpdateSchedule` and `GetProposer` as pure operators. `AssignHeights` is the height loop, and it is RECURSIVE.

- **Sort order:** the code ranges over a Go map and then calls `sort.SliceStable` on weight alone. `SortedOrders(w)` is therefore every permutation whose weights do not increase. Ties come in any order.
- **Quotas:** `Quota` is big.Int floor division.
- **Assignment:** each height goes to the first authority in the order that still has quota left (`HasQuotaLeft`, `FirstFree`). Heights left after all quotas are used get no entry.
- **Where the weights come from:** the module also models the validator store between the genesis tool and the node. It does this in two actions:
  - `CommitAuthorities` is `gen_genesis` calling `Genesis.CommitAuthorities`. It adds the genesis validators to a fresh `Authority`, and `CommitToStorage` Puts each address with `weight.Bytes()`.
  - `InitBlockchain` is the authority and schedule part of `node.initBlockchain`, at the first start or at a restart at a later height:
    - it loads a fresh `Authority` with `LoadFromDB`, which reads each value back with `SetBytes`;
    - it floors the height to the epoch start (`ScheduleBlockNum`);
    - it builds the schedule from `ListValidators`, in one of the orders the map iteration allows.

  The byte conversions are modelled by what they do:
  - `BigBytes` is big-endian base 256 with no leading zero byte, and zero becomes the empty slice;
  - `SetBytes` is the unsigned big-endian reading.
  
  `GenesisTables` lists the genesis files the schedule can divide by: a non-empty table whose total is not zero. A zero total makes `big.Int` Div panic, which is a hazard in `PROJECT.json`. The observer store is written and loaded but never read, so it is left out.
- **Reference:** `RefProposer` is a closed-form version of the same table. Authority k owns the heights from prefix-sum(k-1) up to prefix-sum(k) of the quotas.

`MCProposerSchedule` uses three authorities and an epoch of 7 heights. It checks every genesis table over a non-empty subset of them, with weights in {0, 1, 2, 256}: 117 tables. 256 is the first weight that takes two bytes, and a weight of 0 gets no quota. The node starts at height 3 (epoch 0) and may restart at height 10 (epoch 7). The run also covers every sort order. Ties, full and partial coverage of the epoch, and slack heights all occur. The run reaches 588 distinct states.

### `BlockProduction.tla`

**State.** The variables map to the code as follows:

| Variable | Code |
|---|---|
| `pool` | `TransactionPool.transactions`. It is a set because duplicates by hash are refused. |
| `bpc`, `pending` | the builder goroutine, between `GetPendingTransactions` and `Clear` |
| `chain`, `chainState` | the canonical blocks and the account table at the head |
| `schedule` | `node.proposerSchedule` |
| `lastBuilt` | the last block `GenerateBlock` returned: its gas used, the gas left in its pool, and whether `InsertChain` accepted it |
| `lost` | a history variable: pooled transactions that `Clear` wiped before the builder saw them |

**Actions.**

- `Transaction(tx)` is the handler.
  - The drop is a step of its own that changes nothing, because the handler really runs and returns an error.
  - `\E sent \in BOOLEAN` is the outcome of `SendMessageToAddress`.
- `GetPending` is the first half of the loop body, from `statedb.Reset` to `GetPendingTransactions`.
- `BuildAndInsert` is the rest of the loop body: `Clear`, the apply loop (`GenerateBlock`, a `FoldLeft` of `ApplyInBuilder`), the roots, `InsertChain` and the ignored error.
- The split between the two halves sits exactly where the mempool's lock is released between `GetPendingTransactions` and `Clear`. After `Clear`, the builder touches only its own data and the chain, so the rest is one step.

**Engine.** The engine is a chain of operators, each returning the error together with the state and gas pool as the code leaves them:

- `IntrinsicGas`: the overflow checks are kept, and the uint64 bound is the constant `MaxUint64`.
- `PreCheck`: preCheck and buyGas.
- `TransitionDb`: the `IntrinsicGas` error is overwritten by `useGas`'s result, as in the code.
- `RefundAndPay`: refundGas and the coinbase fee.
- `ApplyTransaction`.

The builder and the validator's replay (`Process`, `ProcessStep`, `ValidateState`) call the same `ApplyTransaction`, as the code does. Each caller hands the callee's result to an operator of its own (`ApplyTransactionWith`, `ApplyInBuilderWith`, `ProcessStepWith`), which models the code after the call: the error branch, or the receipt and the append. These operators take the result as a parameter rather than naming it in a LET. A LET would be re-expanded at each of its uses when TLC profiles coverage, and that runs out of memory. The builder reverts the state on an error but keeps the gas pool.

**Abstractions.** These packages are outside `src/`, so their entries in `PROJECT.json` are marked spec-modelled:

- The EVM. It checks CanTransfer, bumps the nonce on create, moves the value, and then burns `exec` gas, reverts, or earns `refund`.
- `StateDB` arithmetic.
- `InsertChain`. It is `ValidateBody`, then the replay, then `ValidateState`.

`ValidateBody` keeps its first two checks: a block already stored is refused, and so is a block whose parent is not stored. `BlockRecord` is what a stored block's hash commits to. The PoA engine's `VerifyUncles` returns nil, and the builder derives the uncle and transaction roots from the block's own content, so the remaining checks always pass and are left out.

A trie root is the account table it commits. Logs, blooms and hashes are not modelled: the properties compare only roots, and they assume the trie is collision-free.

**Bounds.** `MCBlockProduction` uses the following:

- **Accounts:** two senders (A and B), the coinbase C, and K, the created contract.
- **Validators:** C and V with equal weight, so both schedules (C first or V first) are initial states.
- **Constants:**
  - epoch 4;
  - `MaxHeight` 3;
  - TxGas 2, creation 3, data bytes 4 and 1;
  - block gas limit 5.
- **Transactions:** five, covering every path of the engine:
  - t1: a transfer;
  - t2: a call that reverts;
  - t5: a creation that earns a refund;
  - t3: a transfer whose value B cannot pay once gas is bought (the VM's ErrInsufficientBalance);
  - t4: a call with less gas than its intrinsic gas.
- **Why the gas limit is 5:** some pairs of transactions do not fit in one block, so the GasLimitReached path runs.
- **Nonce conflicts:** t2 and t5 share nonce 1, and t3 and t4 share nonce 0, so they compete, and the loser fails with a nonce error.
- **Resubmission:** users may submit any transaction at any time, including one already mined, so the NonceTooLow path runs.
- **Size:** the run explores about 100,000 distinct states in under 30 s.

`BlockProduction` has no fairness, because every property it checks is a safety property. The builder's chance to run is left to the scheduler, and users are never required to act.

### `ClientSession.tla`

This module models a client's session with a node. It has three actors:

- **The caller inside `Client.SendTransaction`** (`cpc`: idle, nonce, receipt).
  - `SendTransaction(p)` sends GetNonce and blocks on `NonceChan`.
  - `ReceiveNonce` sends the transaction once the nonce arrives.
  - `ReceiveReceipt` and `ReceiptTimeout` are the two cases of the `select`.
- **The client's read-loop** (`ClientReadLoop`). It takes one message at a time and runs its handler to completion:
  - `Nonce` and `TxReceipt` push into the unbuffered channels (`PushToChannel`). `rlMsg` holds the value while the read-loop is blocked.
  - `TxMined` sends `GetReceipt` (`ClientTxMined`).
- **The node.**
  - `NodeReadLoop` is the client peer's read-loop with `Router.Route`. It handles `GetNonce`, `Transaction` and `GetReceipt`.
  - `Mine` is a block as far as this client sees it. It includes at most one of the client's transactions, the one with the account nonce, and it may revert. The block pipeline itself is `BlockProduction`.
  - `NotifyTxMined(t)` is one `ClientNotifier` goroutine that writes `TxMined` to the client.

Messages on a connection are sequences, because TCP keeps them in order. Notifier goroutines append in any order among themselves.

`ConnectionLost` is the client process stopping:

- the node still handles a prefix of what was sent;
- its replies are lost;
- notifier sends in flight reach the next connection of the address or are lost.

`ConnectionDrop` is the connection closing while the client process lives (the node restarts, the network fails). `NewClient` dials once and nothing redials, so `connected` stays false until the bridge process restarts:

- the node handles a prefix of what was sent, and the rest and every unread reply are lost;
- a read-loop handler blocked in a channel push keeps its value;
- every later `SendMessageToPeer` fails with "peer is not alive" and writes nothing;
- the `GetNonce` send error is ignored (client.go:107), so the caller waits on `NonceChan` for ever;
- a failed transaction send makes `SendTransaction` return the error (`SendTxFailed`), and the bridge records the mint FAILED.

`GetNonce` and `Nonce` carry a `req` tag. This is a history variable that only the properties read.

Fairness (`SessionFairness`) is weak fairness of the two read-loops, the builder loop, the notifier goroutines, the 30 s timer and the caller taking a value offered on its channel. These are goroutines that always run; Go's scheduler is fair to runnable goroutines. Other accounts' sends and crashes are never forced.

### `Bridge.tla`

`Bridge` EXTENDS `ClientSession` and is the caller of `SendTransaction`. The scanner goroutine (`spc`) works as follows:

- `Poll` reads the source chain's head. On a fresh start (`lastBlockNumber` 0) it begins just below the head.
- `FetchBlock` is `BlockByNumber`. An error skips the block, and `SaveLastBlock` still marks it done.
- `Deposit` is `processERC20Logs` for one deposit:
  1. `TransactionReceipt`; an error skips the deposit.
  2. `UpdateWalletBalance`, committed on its own.
  3. `MintToken` phase 1: the PROCESSING log and the lock, in one DB transaction. A deposit that already has a log fails on the unique index on `SourceChainTxHash` and rolls back (`HasLog`). Otherwise phase 2 calls `SendTransaction`.
- `MintReturned` is `attemptOnChainMint` after the call returns. For a receipt with status 1, `FinalizeMint` moves the amount from locked to withdrawn in its own DB transaction. Anything else marks the log FAILED and leaves the amount locked.
- `LogSuccess` is the separate `updateLogState(SUCCESS)` write that follows. A crash can fall between the two writes, and the log then stays PROCESSING with the amount withdrawn.
- `finalized` is a history variable. It records the logs whose `finalizeMint` committed. It only feeds the refinement mapping and never guards a step.
- `BlockDone` runs `saveLastBlock` after the block's deposits.
- `Crash` restarts the process. The DB and `last_block.json` survive. `loadLastBlock` reloads the position, the client session is lost (`ConnectionLost`), and a new client connects.

Deposits are model values, and each one moves one unit of one token into one wallet row. A deposit's id stands for its source transaction hash. A mint's payload is its log id ("Bridge Mint for log %d"). The repository has no schema migration; the unique index is taken from the model's gorm tag.

`MCBridge` bounds:

- **Source chain:** two blocks with one deposit each. The chain grows from head 1, so both the fresh-start rule and a later block occur.
- **Other traffic:** one transfer from another account to the bridge's Fichain address.
- **Fetch errors:** possible on every source-chain call.
- **Crashes:** at most two, enough for a crash during a replay.
- **Size:** the run explores 479,159 distinct states in about 30 s.

`DepositLedger.tla` is the abstract specification of what the minter promises its DB:

- every deposit gets one audit record;
- the record goes from PROCESSING to SUCCESS or FAILED once, and never back;
- opening a record locks the amount;
- the amount moves from locked to withdrawn at most once per record (`Withdraw`, which makes the record "paid"), and never for a FAILED record;
- SUCCESS comes only after that move;
- a record may stay PROCESSING forever, paid or not, because the process can die.

`Bridge` instantiates it as `Ledger`. The refinement mapping (`LedgerView`) reads each deposit's newest log and the wallet row's locked and withdrawn amounts. A PROCESSING log in `finalized` maps to "paid". `LedgerRefined` (`Ledger!Spec`) is checked as a property of the `bridge` run.

The scanner gets weak fairness on its steps (`WF_vars(BridgeStep)`), because it is one goroutine in an endless loop.

### `PeerRegistry.tla`

This module models the TCP side of `src/Core/p2p`. Each accepted connection is a fresh `TcpPeer`, an element of `Peers`.

- `HandleConnection(a, p)` is `TCPServer.handleConnection`. The handshake is abstracted to success or failure. On success the peer is added to the lookup table (`LookupAdd`), then to the peers map, and its ReadLoop starts.
- `ReadLoopExit(p)` is ReadLoop's read failing once either side has closed, followed by its deferred `Close`.
- `SendToAddress` and `SendWrite` are `SendMessageToAddress` and `TcpPeer.Send`:
  - the lookup, then the unsynchronized `IsAlive` check;
  - then the write under `sendLock`. The writer is buffered: a failing `Write` (a message larger than the buffer) calls `Close`, while an error that shows only in the final `Flush` is returned without `Close`.
- `PeerDone(p)` is the handler's wait on `Done()` followed by the delete from the peers map.
- `ServerClose` is `TCPServer.Close`, called from `node.Stop`.
- `Disconnect(p)` is the remote end going away.

`TcpClose` closes `done` with no guard. A second call sets `panicked`: an unrecovered panic in any goroutine ends the node.

The WebSocket server of `src/Core/p2p/ws` shares the lookup table (`node.initNetwork` passes the same table to both servers). Its peers are the elements of `WsPeers`, and each has an ID (`WsIdOf`) built from the remote ip:port.

- `WsHandshake(a, p)` is the HTTP upgrade, `handleConnection` and `performServerHandshake`. The handshake is abstracted to success or failure. On success the peer is added to the lookup table and waits for `RegisterPeer` (`rl` is `"pending"`).
- `WsRegisterPeer(p)` is `RegisterPeer`. It closes a peer that is no longer alive, because a send through its fresh lookup entry can already have failed. It also closes a peer whose ID is already in the map, even when that peer is closed and only its monitor has not run yet. Otherwise the peer enters `wsMap` and its ReadLoop and Done monitor start.
- `WsPeerDone(p)` is the monitor goroutine. It deletes the map entry only if the entry is still this peer. The lookup entry stays, because `lookupTable.Remove` is commented out.
- `WsReadLoopExit(p)` is any of ReadLoop's exits: a read error, a failed ping or a closed peer. The deferred `Close` follows.
- `WsServerCloseBegin`, `WsServerClosePeer(p)` and `WsShutdown` are the three steps of `WebSocketServer.Close`:
  1. copy the map's peers and clear the map under `peerLock`;
  2. close the copied peers one by one outside the lock;
  3. `httpServer.Shutdown`.
  They run after `TCPServer.Close`, in `node.Stop` order.
- `WsClose` is `WebSocketPeer.Close`. Its body runs once (`sync.Once`), so a WebSocket peer never panics where a `TcpPeer` does.

Sends to WebSocket peers use the same `SendToAddress` and `SendWrite` steps as TCP peers. `Close(p)` dispatches on the peer's kind, which is the `p2p.Peer` interface call.

The instance `MCPeerRegistry` has:

- one address that connects twice over TCP (the reconnect gets a new `TcpPeer`);
- two WebSocket connections that share one ID, as a reconnect from the same ip:port would;
- two sender goroutines.

Only the `peer_double_close` run checks this module. TLC's shortest violation is still the TCP one.

The WebSocket steps reach the states that the hazards list for `ws/server/server.go`:

- a peer registered between the map clear and `Shutdown` stays open;
- a rejected duplicate-ID peer is left in the lookup table.

Both are recorded as hazards. Neither is recorded as a finding: the first happens only just before the process exits, and the second is a lost send like the TCP stale entry.

## Runs

| Run | Expect | Shows |
|---|---|---|
| `schedule` | pass | For every input, `UpdateSchedule` equals the closed-form reference table (`ScheduleMatchesReference`), and each authority gets exactly its floor quota (`Proportional`, spec §8). Every node start schedules the epoch that contains its start height, using exactly the genesis validators and weights (`StartupScheduleFromGenesis`): they survive `Bytes`, the store and `SetBytes`. |
| `schedule_tie_order` | violation | `Deterministic`: two equal-weight authorities come out in map order, so one input gives two tables. Spec §4.6 breaks ties by address. |
| `block_production` | pass | See below. |
| `clear_race` | violation | `NoTxLost`: an `AddTransaction` between `GetPendingTransactions` and `Clear` is wiped unseen, although spec §4.5 makes add the commit point. |
| `gas_pool_leak` | violation | `GasPoolAccounted`: a transaction that fails after buyGas keeps its gas limit out of the block's pool (`state_transition.go:197`, `:224`). Later transactions then hit GasLimitReached with room left. |
| `schedule_stale` | violation | `ScheduleCoversNextHeight`: the schedule is built once, for the first epoch. From height EPOCH−2 on, the handler finds no proposer and drops every transaction. |
| `unscheduled_builder` | violation | `OnlyScheduledProposerBuilds`: the loop never consults the schedule and builds at heights that belong to another validator. |
| `bridge` | pass | See below. |
| `bridge_balance_replay` | violation | `BalanceNotAboveDeposits`: a crash after a mint and before `saveLastBlock` makes the restarted scanner credit the deposit to `Balance` again. The unique source hash stops only the second mint. |
| `bridge_foreign_receipt` | violation | `SuccessLogIsMinted`: the client takes the receipt of another account's transfer to the bridge as the mint's receipt, so the log is SUCCESS and the amount is withdrawn with no mint on chain. |
| `client_nonce_hang` | violation | `NonceWaitEnds`: a receipt no caller waits for blocks the client read-loop, so the next nonce reply is never read. The nonce wait has no deadline, against spec §5. A dropped connection hangs it the same way, because the failed `GetNonce` send is ignored. |
| `peer_double_close` | violation | `NoClosePanic`: TLC's shortest trace is `node.Stop` closing a peer, then that peer's ReadLoop closing it again. The runtime path is a Send that passed `IsAlive` before the ReadLoop exited. Its failed write closes the peer a second time. `WebSocketPeer.Close` uses a `sync.Once` for this. |

The `block_production` run checks four properties:

- `BlocksAccepted`: the builder and validator agree, so every built block passes the replay.
- `SupplyConserved`: fees and refunds net to zero across the whole chain.
- `NonceCountsIncluded`: every included transaction bumps its sender's nonce once, even one that reverts or runs out of gas.
- `IncludedAtMostOnce`: resubmitting a mined transaction never includes it twice.

The `bridge` run checks five properties:

- `LockedMatchesLogs`: across failed mints and crashes, including one between `finalizeMint` and the SUCCESS update, every logged amount is either locked or withdrawn. A SUCCESS log's amount has been withdrawn, and a FAILED log's amount is still locked.
- `NoDoubleMint`: a replayed block never mints a deposit twice.
- `LedgerRefined`: the DB refines `DepositLedger`.
- `NonceAnswersCurrentCall`: the nonce a call signs with answers that call's own query.
- `TypeOK`.

Each property of a passing run has a mutant in `PROJECT.json`: a plausible bug in the mapped code that TLC catches.

- `schedule` run:
  - the height loop starts one height late (`TypeOK`);
  - the inner loop picks the last authority with quota left instead of the first (`ScheduleMatchesReference`);
  - the quota test uses `<=` (`Proportional`);
  - `LoadFromDB` reads the weight bytes least significant first (`StartupScheduleFromGenesis`: a weight of 256 comes back as 1).
- `block_production` run:
  - buyGas ignores `SubGas`'s error (`TypeOK`: the block gas goes over the limit);
  - the builder keeps a failed transaction's partial effects (`BlocksAccepted`);
  - the coinbase is paid before the refund is taken off (`SupplyConserved`);
  - the nonce is bumped only when the call succeeds (`NonceCountsIncluded`);
  - preCheck loses its NonceTooLow branch (`IncludedAtMostOnce`).
- `bridge` run:
  - saveLastBlock saves the next block (`TypeOK`);
  - finalizeMint does not unlock (`LockedMatchesLogs`);
  - phase 1 ignores the unique index (`NoDoubleMint`);
  - the unique check skips FAILED logs, so a replay opens a second record (`LedgerRefined`);
  - the timeout also abandons a nonce wait (`NonceAnswersCurrentCall`). A later call then takes the stale reply.

## Not modelled yet, and the plan

1. **The lookup table's stale entries.** These are in `PeerRegistry`, for TCP and WebSocket peers alike. A send to one of them only returns an error, and `ClientSession` models that as a lost send. The WebSocket peers have no passing run of their own.
2. **Bridge `RetryMint`.** It has no caller in the repository.
3. **Query handlers.** `GetBalance` and `CallSmartContract` read the shared state DB mid-block.
4. **An abstract chain specification.** An abstract mempool-and-chain spec that `BlockProduction` refines (INSTANCE ... WITH). This needs the fixes for the race to hold, so it will be stated over the code's behaviour as it is.
5. **FiatReserve.** Only genesis deposits into it. `LoadFromStorage` and `Withdraw` have no caller, so nothing the node runs reads it.
6. **The bridge's deposit-wallet requests.** `GetDepositWallet` checks for a wallet and then creates one, and no unique index covers (fichain_address, token_name). Two concurrent requests can therefore create two wallets, and the scanner credits deposits to whichever row `First` returns. This needs two HTTP handlers and a cache lock added to `Bridge`. The hazards list it, together with the cache's RLock, which is held across the mints.

These parts stay out of reach of the models:

- hashing, the bloom bit layout, the MPT internals, protobuf and RLP encodings, and the badger and memory stores. These are data transforms that the properties treat as injective.
- the CLI, the genesis tools, the gold_invest DApp and the deploy scripts. These are I/O with no concurrency of their own.
- the explorer (`cmd/explorer`) and the node's `ExplorerNotifier`. The explorer saves each chain event it receives. The hazards list three places where its data can go wrong:
  - events dropped while no explorer is connected;
  - a block saved without its transactions;
  - the connection is never redialed.
- the EVM itself, which is outside this repository.

A hazard that no run covers yet is listed in `PROJECT.json` with a note saying why.
