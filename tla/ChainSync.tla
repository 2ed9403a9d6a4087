------------------------------ MODULE ChainSync ------------------------------
(***************************************************************************)
(* The core synchroniser of core/synchronizer/synchronizer.go, the block   *)
(* Validator of core/validator/validator.go that it calls, and the         *)
(* difficulty rule of consensus/nogopow/difficulty.go.                     *)
(*                                                                         *)
(* One goroutine, syncLoop, calls sync() forever, two seconds apart.  The  *)
(* node's other goroutines add and remove peers, change the sync mode and  *)
(* (the miner) append blocks to the chain while a round is under way.  Of  *)
(* the chain only its head number matters here; Blockchain models the rest.*)
(* Every access to s.peers and s.state is one step under s.mu; the head is *)
(* read under the chain's own lock, outside s.mu.                          *)
(*                                                                         *)
(* fetchBlockFromPeer returns nil, so the body of the loop in syncBlocks   *)
(* always takes its first `continue`.                                      *)
(*                                                                         *)
(* The TransactionPool of core/blockchain/chain.go sits beside them: a map *)
(* from a transaction's hash to the transaction behind a RWMutex, so each  *)
(* method is one step.  A hash is a digest of the whole transaction, so    *)
(* the pool is kept as the set of hashes it holds.                         *)
(***************************************************************************)
EXTENDS Integers, Sequences, FiniteSets, Functions

CONSTANTS
    Peers,      \* peer IDs
    MaxNumber,  \* bound: block numbers, announced and in the chain
    Parents,    \* parent difficulties given to CalculateDifficulty
    Deltas,     \* seconds between a parent's and a child's timestamps
    TxHashes,   \* hashes of the transactions handed to the pool
    None

SyncModes == {"full", "fast", "light"}

VARIABLES
    peers,      \* peers[p]: the BlockNumber peer p announced, None if absent
    head,       \* the chain's CurrentHead().NumberU64()
    state,      \* s.state: [current, highest, starting]
    mode,       \* s.mode
    pc,         \* the sync goroutine: "idle", "check", "update", "blocks", "loop"
    best,       \* bestPeer.BlockNumber of the round
    seen,       \* the head number sync() read
    i, end,     \* the loop variables of syncBlocks
    pool        \* the hashes in TransactionPool.txs

vars == <<peers, head, state, mode, pc, best, seen, i, end, pool>>
syncVars == <<state, pc, best, seen, i, end>>

\* NewSynchronizer: no peers, every state field at the head.
Init ==
    /\ peers = [p \in Peers |-> None]
    /\ head = 0
    /\ state = [current |-> 0, highest |-> 0, starting |-> 0]
    /\ mode \in SyncModes
    /\ pc = "idle"
    /\ best = None /\ seen = 0 /\ i = 0 /\ end = 0
    /\ pool = {}

\* Blockchain.CurrentHead().NumberU64(), and Blockchain.Length: the head's
\* number plus one.
CurrentHead == head
Length == CurrentHead + 1

\* fetchBlockFromPeer(peer, number): a stub that returns nil.
FetchBlockFromPeer(number) == None

\* getBestPeer, under RLock: a peer with the greatest BlockNumber (which
\* one of equals depends on map order; only its number is used).  With no
\* peer, sync returns and the loop sleeps.
GetBestPeer ==
    /\ pc = "idle"
    /\ \E p \in Peers :
          /\ peers[p] # None
          /\ \A q \in Peers : peers[q] # None => peers[q] <= peers[p]
          /\ best' = peers[p]
    /\ pc' = "check"
    /\ UNCHANGED <<peers, head, state, mode, seen, i, end, pool>>

\* Mutant: the early return of synchronizer.go:94 left out.
CheckHeadNoReturn ==
    /\ pc = "check"
    /\ seen' = CurrentHead
    /\ pc' = "update"
    /\ UNCHANGED <<peers, head, state, mode, best, i, end, pool>>

\* `if bestPeer.BlockNumber <= currentHead.NumberU64() { return }`
CheckHead ==
    /\ pc = "check"
    /\ seen' = CurrentHead
    /\ pc' = IF best <= CurrentHead THEN "idle" ELSE "update"
    /\ UNCHANGED <<peers, head, state, mode, best, i, end, pool>>

\* Under s.mu: HighestBlock and CurrentBlock from the values read above.
UpdateState ==
    /\ pc = "update"
    /\ state' = [state EXCEPT !.highest = best, !.current = seen]
    /\ pc' = "blocks"
    /\ UNCHANGED <<peers, head, mode, best, seen, i, end, pool>>

\* syncBlocks reads the head again: i from head + 1 to the peer's number.
SyncBlocks ==
    /\ pc = "blocks"
    /\ i' = CurrentHead + 1
    /\ end' = best
    /\ pc' = "loop"
    /\ UNCHANGED <<peers, head, state, mode, best, seen, pool>>

\* Mutant: the loop's i++ left out.
LoopStepNoIncrement ==
    /\ pc = "loop"
    /\ IF i <= end
       THEN /\ FetchBlockFromPeer(i) = None /\ UNCHANGED <<i, pc>>
       ELSE pc' = "idle" /\ UNCHANGED i
    /\ UNCHANGED <<peers, head, state, mode, best, seen, end, pool>>

\* One iteration: the fetched block is nil, so `continue`; past endNumber
\* the round ends.
LoopStep ==
    /\ pc = "loop"
    /\ IF i <= end
       THEN /\ FetchBlockFromPeer(i) = None
            /\ i' = i + 1
            /\ UNCHANGED pc
       ELSE pc' = "idle" /\ UNCHANGED i
    /\ UNCHANGED <<peers, head, state, mode, best, seen, end, pool>>

\* AddPeer stores (or replaces) the peer record; RemovePeer deletes it.
AddPeer(p, n) ==
    /\ peers' = [peers EXCEPT ![p] = n]
    /\ UNCHANGED <<head, mode, pool>> /\ UNCHANGED syncVars

RemovePeer(p) ==
    /\ peers' = [peers EXCEPT ![p] = None]
    /\ UNCHANGED <<head, mode, pool>> /\ UNCHANGED syncVars

SetSyncMode(m) ==
    /\ mode' = m
    /\ UNCHANGED <<peers, head, pool>> /\ UNCHANGED syncVars

\* The miner's Blockchain.AddBlock of a child of the head moves the head.
AddBlock ==
    /\ head < MaxNumber
    /\ head' = head + 1
    /\ UNCHANGED <<peers, mode, pool>> /\ UNCHANGED syncVars

\* GetSyncState, GetSyncMode and GetPeers only read.
GetSyncState == state
GetPeers == {p \in Peers : peers[p] # None}

\* AddTransaction keeps the first transaction of a hash; RemoveTransaction
\* and RemoveTransactions delete what they find.
AddTransaction(h) ==
    /\ pool' = pool \cup {h}
    /\ UNCHANGED <<peers, head, mode>> /\ UNCHANGED syncVars

RemoveTransactions(hs) ==
    /\ pool' = pool \ hs
    /\ UNCHANGED <<peers, head, mode>> /\ UNCHANGED syncVars

RemoveTransaction(h) == RemoveTransactions({h})

\* GetTransaction, GetTransactions and Size only read.
GetTransaction(h) == IF h \in pool THEN h ELSE None
GetTransactions == pool
PoolSize == Cardinality(pool)

SyncStep == GetBestPeer \/ CheckHead \/ UpdateState \/ SyncBlocks \/ LoopStep

Next ==
    \/ SyncStep
    \/ \E p \in Peers, n \in 0 .. MaxNumber : AddPeer(p, n)
    \/ \E p \in Peers : RemovePeer(p)
    \/ \E m \in SyncModes : SetSyncMode(m)
    \/ AddBlock
    \/ \E h \in TxHashes : AddTransaction(h) \/ RemoveTransaction(h)
    \/ \E hs \in SUBSET TxHashes : RemoveTransactions(hs)

\* syncLoop never exits and only sleeps between rounds: the goroutine
\* keeps taking steps.  Nothing obliges the miner or the peers to act.
Spec == Init /\ [][Next]_vars /\ WF_vars(SyncStep)
-----------------------------------------------------------------------------
(* The Validator.  validateHeader, validateStateRoot, validateDifficulty   *)
(* and validatePow return nil on every path, so ValidateBlock returns what *)
(* validateTransactions returns; the two goroutines it starts share no     *)
(* variable it writes.  Sender() returns the zero address for every        *)
(* transaction, so every nonce and balance read is that one account's.     *)

\* The fields validation reads; gasPrice, value and gas are big.Int,
\* big.Int and uint64.
TxRecords == [gasPrice : {0, 1}, value : {0, 1}, gas : {0, 1}, nonce : {0, 1}]
Accounts == [nonce : {0, 1}, balance : {0, 1}]

\* Transaction.Validate.
TxValidate(tx) ==
    CASE tx.gasPrice < 0 -> "invalid gas price"
      [] tx.value < 0    -> "invalid value"
      [] tx.gas = 0      -> "invalid gas"
      [] OTHER           -> "nil"

\* The exchange sort at the head of validateTransactions, in place on the
\* block's own slice: for each i, every later j whose GasPrice is greater
\* is swapped into position i.
ExchangeSort(txs) ==
    LET Swap(s, a, b) == [s EXCEPT ![a] = s[b], ![b] = s[a]]
        RECURSIVE Inner(_, _, _), Outer(_, _)
        Inner(s, a, b) ==
            IF b > Len(s) THEN s
            ELSE Inner(IF s[a].gasPrice < s[b].gasPrice THEN Swap(s, a, b) ELSE s, a, b + 1)
        Outer(s, a) == IF a > Len(s) THEN s ELSE Outer(Inner(s, a, a + 1), a + 1)
    IN  Outer(txs, 1)

\* validateTransactions: the sort, then each transaction in turn.  A
\* malformed one is an error; a nonce below the account's, or a balance
\* below the value or below gas * gasPrice, returns nil at once and the
\* remaining transactions go unchecked.
ValidateTransactions(txs, acct) ==
    LET sorted == ExchangeSort(txs)
        RECURSIVE Check(_)
        Check(k) ==
            IF k > Len(sorted) THEN "nil"
            ELSE LET tx == sorted[k] IN
                 IF TxValidate(tx) # "nil" THEN TxValidate(tx)
                 ELSE IF \/ tx.nonce < acct.nonce
                         \/ acct.balance < tx.value
                         \/ acct.balance < tx.gas * tx.gasPrice
                      THEN "nil"
                      ELSE Check(k + 1)
    IN  [err |-> Check(1), txs |-> sorted]

ValidateBlock(txs, acct) == ValidateTransactions(txs, acct)

-----------------------------------------------------------------------------
(* CalculateDifficulty.  timeRatio = actualTime / (10 * 20 s) as float64,  *)
(* clamped to [1, 2]; the new difficulty is Int(parent * (1 / timeRatio))  *)
(* with the product a 64-bit big.Float and Int truncating.  For the ratios *)
(* a Delta can give, float64(1 / timeRatio) is exact at 1 and 2, above the *)
(* true value at 1.25 and below it at 1.5 and 1.75: there an exact quotient *)
(* k comes out as k - 1; elsewhere the result is the floor of the quotient.*)

TargetBlockTime == 20
DifficultyAdjustmentInterval == 10
InitialDifficulty == 1000000

\* 100 * timeRatio for the clamped ratios whose reciprocal rounds down.
ReciprocalBelow == {150, 175}

CalculateDifficulty(actualTime, parentDifficulty, height) ==
    LET targetTime == DifficultyAdjustmentInterval * TargetBlockTime
        clamped == IF actualTime > 2 * targetTime THEN 2 * targetTime
                   ELSE IF actualTime < targetTime THEN targetTime ELSE actualTime
        q == (parentDifficulty * targetTime) \div clamped
        exact == (parentDifficulty * targetTime) % clamped = 0
        result == IF exact /\ (100 * clamped) \div targetTime \in ReciprocalBelow
                  THEN q - 1 ELSE q
    IN  IF height < DifficultyAdjustmentInterval THEN InitialDifficulty
        ELSE IF result < 1 THEN 1 ELSE result

\* VerifyDifficulty: the header's difficulty is the one CalculateDifficulty
\* gives.  Nothing under src/ calls it; validateDifficulty returns nil.
VerifyDifficulty(parentDifficulty, currentDifficulty, actualTime, height) ==
    CalculateDifficulty(actualTime, parentDifficulty, height) = currentDifficulty
-----------------------------------------------------------------------------

TypeOK ==
    /\ peers \in [Peers -> (0 .. MaxNumber) \cup {None}]
    /\ head \in 0 .. MaxNumber
    /\ state \in [current : 0 .. MaxNumber, highest : 0 .. MaxNumber,
                  starting : {0}]
    /\ mode \in SyncModes
    /\ pc \in {"idle", "check", "update", "blocks", "loop"}
    /\ i \in 0 .. MaxNumber + 1
    /\ pool \subseteq TxHashes /\ PoolSize <= Cardinality(TxHashes)

\* The progress GetSyncState reports is consistent: CurrentBlock is never
\* above HighestBlock nor above the chain's real head, although sync()
\* writes both from values it read before taking s.mu, while peers come
\* and go and the miner extends the chain.
SyncStateSound ==
    /\ state.current <= state.highest
    /\ state.current <= head

\* Every round of syncLoop ends: the loop of syncBlocks is bounded by the
\* number read at its start, whatever the peers announce meanwhile.
RoundEnds == []<>(pc = "idle")

\* The exchange sort orders every block's transactions by non-increasing
\* gas price and keeps them all: the reference is a sequence that is a
\* rearrangement of the input and sorted.
ExchangeSortOrders ==
    \A n \in 0 .. 4 : \A pr \in [1 .. n -> 0 .. 2] :
        LET in  == [k \in 1 .. n |-> [id |-> k, gasPrice |-> pr[k]]]
            out == ExchangeSort(in)
        IN  /\ Len(out) = n /\ Range(out) = Range(in)
            /\ \A a, b \in 1 .. n : a < b => out[a].gasPrice >= out[b].gasPrice

\* ValidateBlock rejects a block that holds a malformed transaction (spec
\* 5: every transaction of a block is validated).  After the sort, an
\* earlier transaction with a stale nonce or too little balance makes
\* validateTransactions return nil before the malformed one is seen.
MalformedRejected ==
    \A n \in 1 .. 2 : \A txs \in [1 .. n -> TxRecords], acct \in Accounts :
        (\E k \in 1 .. n : TxValidate(txs[k]) # "nil")
            => ValidateBlock(txs, acct).err # "nil"

\* CalculateDifficulty computes parent / ratio in arbitrary precision and
\* floors it (spec 4.1).  The float64 reciprocal of 1.5 and 1.75 lies below
\* the true one, so an exact quotient loses one: 999999 at 300 s gives
\* 666665, not 666666.
DifficultyExact ==
    \A p \in Parents, dt \in Deltas :
        LET c == IF dt > 400 THEN 400 ELSE IF dt < 200 THEN 200 ELSE dt
            spec == (p * 200) \div c
        IN  CalculateDifficulty(dt, p, DifficultyAdjustmentInterval)
                = IF spec < 1 THEN 1 ELSE spec
=============================================================================
