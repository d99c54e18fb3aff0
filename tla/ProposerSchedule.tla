-------------------------- MODULE ProposerSchedule --------------------------
(***************************************************************************)
(* The proposer schedule of the PoA consensus                              *)
(* (src/Core/consensus/poa_consensus/proposer_schedule.go).               *)
(*                                                                         *)
(* UpdateSchedule sorts the authorities by weight, gives each one the      *)
(* quota floor(weight * EpochLength / totalWeight), and walks the heights  *)
(* of the epoch in order, giving each height to the first authority of     *)
(* the sorted list whose quota is not used up.  The sorted list comes from *)
(* sort.SliceStable over a slice filled by ranging over a Go map, so the   *)
(* order of authorities of equal weight is the map's iteration order,      *)
(* which Go randomises: SortedOrders is the set of every list the code can *)
(* produce.                                                                *)
(*                                                                         *)
(* The weight table comes from the validator store: gen_genesis          *)
(* (Genesis.CommitAuthorities) adds the genesis validators to a fresh      *)
(* Authority and commits it, one Put of weight.Bytes() per address; each   *)
(* start of the node (node.initBlockchain) loads a fresh Authority from    *)
(* the store with SetBytes, floors its start height to the epoch and       *)
(* builds the schedule from ListValidators.  The observer store is written *)
(* and loaded the same way but never read, and is not modelled.            *)
(***************************************************************************)
EXTENDS Integers, Sequences, FiniteSets, Functions, FiniteSetsExt,
        SequencesExt, TLC

CONSTANTS
    Authorities,   \* addresses of the validators
    EpochLength,   \* params.TempEpochLength
    Weights,       \* the genesis file's validator weights (uint256)
    StartHeights,  \* chain heights at which the node may be started
    NoProposer     \* model value: GetProposer's "no proposer found" error

ASSUME EpochLength \in Nat \ {0}
ASSUME Weights \subseteq Nat

VARIABLES
    genesis,      \* g.Authority.Validators: address -> weight
    valDB,        \* the validator store: address -> weight bytes
    phase,        \* "genesis", "committed" (gen_genesis ran), "started"
    startHeight,  \* blockNumber of the last initBlockchain
    weights,      \* authoritiesWithWeight: address -> weight
    order,        \* sortedAuthorities after sort.SliceStable
    fromBlock     \* the fromBlock argument

vars == <<genesis, valDB, phase, startHeight, weights, order, fromBlock>>

TotalWeight(w) == SumFunction(w)

(* sortedAuthorities: a permutation of the map's keys with non-increasing  *)
(* weight; authorities of equal weight may come in any order.              *)
SortedOrders(w) ==
    { s \in SetToSeqs(DOMAIN w) :
        \A i, j \in 1..Len(s) : i < j => w[s[i]] >= w[s[j]] }

(* assignedBlocks = weight * TempEpochLength / totalWeight (big.Int Div,   *)
(* floor division for the non-negative operands used here).               *)
Quota(w, a) == (w[a] * EpochLength) \div TotalWeight(w)

(* Mutant: the quota test written with <= instead of <.                   *)
HasQuotaLeftLe(w, o, assigned, i) == assigned[o[i]] <= Quota(w, o[i])

(* authoritiesAssigned[auth.address] < assignedBlocks                      *)
HasQuotaLeft(w, o, assigned, i) == assigned[o[i]] < Quota(w, o[i])

(* Mutant: the loop starts one height after fromBlock.                    *)
FirstHeightNext(from) == from + 1

(* The first height of the loop, blockHeight := fromBlock.                 *)
FirstHeight(from) == from

(* The last height of the loop blockHeight < fromBlock + TempEpochLength.   *)
LastHeight(from) == FirstHeight(from) + EpochLength - 1

(* Mutant: the inner loop keeps the last authority with quota left.       *)
LastFree(o, free) == o[Max(free)]

(* The authority the inner loop breaks on: the first, in sorted order,     *)
(* with quota left.                                                        *)
FirstFree(o, free) == o[Min(free)]

(* The loop over the heights of the epoch.  acc.sched is ps.schedule and   *)
(* acc.assigned is authoritiesAssigned; a height for which no authority    *)
(* has quota left gets no entry.                                           *)
RECURSIVE AssignHeights(_, _, _, _, _)
AssignHeights(w, o, h, last, acc) ==
    IF h > last THEN acc
    ELSE
      LET free == { i \in 1..Len(o) : HasQuotaLeft(w, o, acc.assigned, i) }
          a    == FirstFree(o, free)
          next == IF free = {} THEN acc
                  ELSE [sched    |-> acc.sched @@ (h :> a),
                        assigned |-> [acc.assigned EXCEPT ![a] = @ + 1]]
      IN AssignHeights(w, o, h + 1, last, next)

UpdateSchedule(from, w, o) ==
    AssignHeights(w, o, FirstHeight(from), LastHeight(from),
                  [sched |-> <<>>, assigned |-> [a \in DOMAIN w |-> 0]]).sched

GetProposer(sched, h) == IF h \in DOMAIN sched THEN sched[h] ELSE NoProposer

-----------------------------------------------------------------------------
(* The validator store and the node's start-up.                           *)

(* big.Int.Bytes: the absolute value as big-endian bytes, no leading zero  *)
(* byte; zero is the empty slice.                                          *)
RECURSIVE BigBytes(_)
BigBytes(n) == IF n = 0 THEN <<>> ELSE Append(BigBytes(n \div 256), n % 256)

(* Mutant: the bytes are read least significant first.                    *)
SetBytesLE(bytes) == FoldLeft(LAMBDA acc, b : acc * 256 + b, 0, Reverse(bytes))

(* new(big.Int).SetBytes: the bytes read as an unsigned big-endian number. *)
SetBytes(bytes) == FoldLeft(LAMBDA acc, b : acc * 256 + b, 0, bytes)

(* Genesis files whose validators the schedule can divide by: a non-empty  *)
(* table with a non-zero total (a zero total makes big.Int Div panic).     *)
GenesisTables ==
    { g \in UNION { [S -> Weights] : S \in SUBSET Authorities \ {{}} } :
        TotalWeight(g) > 0 }

(* Authority.CommitToStorage's validator batch: one Put per validator of  *)
(* the address and weight.Bytes(); keys already stored and not in the map *)
(* are left as they are.                                                  *)
CommitToStorage(db, vals) == [a \in DOMAIN vals |-> BigBytes(vals[a])] @@ db

(* Authority.LoadFromDB's validator pass: IterateKeys over the store,     *)
(* each value read back with SetBytes into the fresh Authority.            *)
LoadFromDB(db) == [a \in DOMAIN db |-> SetBytes(db[a])]

(* scheduleBlockNum: TempEpochLength * floor(blockNumber / TempEpochLength) *)
(* in float64, exact for the heights used here.                            *)
ScheduleBlockNum(h) == EpochLength * (h \div EpochLength)

(* gen_genesis: Genesis.CommitAuthorities adds every genesis validator to  *)
(* a new Authority (the keys of a JSON map are distinct, so AddValidator   *)
(* never fails) and commits it.                                            *)
CommitAuthorities ==
    /\ phase = "genesis"
    /\ valDB' = CommitToStorage(valDB, genesis)
    /\ phase' = "committed"
    /\ UNCHANGED <<genesis, startHeight, weights, order, fromBlock>>

(* node.initBlockchain, at the first start or a restart at a later height: *)
(* a new Authority loaded from the store, the epoch start of the current   *)
(* height, and NewProposerSchedule over ListValidators (a copy of the      *)
(* loaded table) in one of the orders the map iteration allows.            *)
InitBlockchain ==
    /\ phase \in {"committed", "started"}
    /\ \E h \in StartHeights :
         /\ h >= startHeight
         /\ startHeight' = h
         /\ fromBlock' = ScheduleBlockNum(h)
    /\ weights' = LoadFromDB(valDB)
    /\ order' \in SortedOrders(weights')
    /\ phase' = "started"
    /\ UNCHANGED <<genesis, valDB>>

Init ==
    /\ genesis \in GenesisTables
    /\ valDB = <<>>
    /\ phase = "genesis"
    /\ startHeight = 0
    /\ weights = <<>>
    /\ order = <<>>
    /\ fromBlock = 0

Next == CommitAuthorities \/ InitBlockchain

Spec == Init /\ [][Next]_vars

Schedule == UpdateSchedule(fromBlock, weights, order)

-----------------------------------------------------------------------------
TypeOK ==
    /\ genesis \in GenesisTables
    /\ DOMAIN valDB \subseteq Authorities
    /\ phase \in {"genesis", "committed", "started"}
    /\ startHeight \in {0} \cup StartHeights
    /\ phase = "started" =>
         /\ order \in SetToSeqs(DOMAIN weights)
         /\ DOMAIN Schedule \subseteq fromBlock..(fromBlock + EpochLength - 1)
         /\ Range(Schedule) \subseteq DOMAIN weights

(* Reference definition: authority k of the sorted order owns the          *)
(* consecutive run of heights after the quotas of authorities 1..k-1, and  *)
(* the heights past the sum of all quotas have no proposer.                *)
PrefixQuota(k) == SumFunctionOnSet([i \in 1..Len(order) |-> Quota(weights, order[i])], 1..k)

RefProposer(h) ==
    LET off   == h - fromBlock
        owner == { k \in 1..Len(order) : PrefixQuota(k - 1) <= off /\ off < PrefixQuota(k) }
    IN IF owner = {} THEN NoProposer ELSE order[Min(owner)]

(* UpdateSchedule's first-fit walk gives every height of the epoch to the  *)
(* authority the closed-form reference names (GetProposer agrees with      *)
(* RefProposer on every height, in and around the epoch).                  *)
ScheduleMatchesReference ==
    phase = "started" =>
    \A h \in (fromBlock - 1)..(fromBlock + EpochLength) :
        GetProposer(Schedule, h) = RefProposer(h)

(* Spec 8, proposer-schedule proportionality: each authority proposes      *)
(* exactly floor(weight * EPOCH_LENGTH / total weight) heights.           *)
Proportional ==
    phase = "started" =>
    \A a \in DOMAIN weights :
        Cardinality({ h \in DOMAIN Schedule : Schedule[h] = a }) = Quota(weights, a)

(* Spec 4.6 and 8, proposer-schedule determinism: every order the map      *)
(* iteration can produce yields the same table, so two nodes agree on the  *)
(* proposer of every height.                                               *)
Deterministic ==
    phase = "started" =>
    \A o \in SortedOrders(weights) : UpdateSchedule(fromBlock, weights, o) = Schedule

(* Every start of the node schedules the epoch that contains its start    *)
(* height over exactly the validators and weights of the genesis file:    *)
(* the weights come back unchanged through weight.Bytes(), the store and  *)
(* SetBytes, also at and above 256, and the float floor of                 *)
(* initBlockchain puts the start height inside the scheduled epoch.       *)
StartupScheduleFromGenesis ==
    phase = "started" =>
        /\ weights = genesis
        /\ startHeight \in FirstHeight(fromBlock)..LastHeight(fromBlock)

=============================================================================
