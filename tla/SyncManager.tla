---------------------------- MODULE SyncManager ----------------------------
(***************************************************************************)
(* network/sync/sync.go: the SyncManager driving the chain store of        *)
(* core/blockchain/chain.go (module Blockchain, instantiated on the same   *)
(* variables).                                                             *)
(*                                                                         *)
(* fetchBlocks builds each block with createMockBlock: its parent is       *)
(* whatever GetBlockByNumber(height - 1) returns at fetch time (the zero   *)
(* hash when there is none), its number the height, its time the current  *)
(* second.  Block.Hash hashes the JSON header, so a mock block's hash is   *)
(* the tuple <<parent, number, second>>.  The peers are abstracted to the  *)
(* highest BlockNum among them (getBestPeer's result), None when there are *)
(* none; peers come and go at any time.                                    *)
(***************************************************************************)
EXTENDS Naturals, Sequences, FiniteSets

CONSTANTS
    Genesis,     \* the genesis block of NewBlockchain
    NoHash,      \* absent entry of bc.blockNumber
    ZeroHash,    \* common.Hash{}: createMockBlock's parent when there is none
    Times,       \* seconds time.Now().Unix() may return during a run
    MaxHeight,   \* highest BlockNum a peer announces
    PeerHeights, \* BlockNum values the best peer may announce
    BatchSize,   \* syncBlocks' batchSize (128 in the code)
    Syncs,       \* identities of sync goroutines; a finished one's is reused
    MaxStarts,   \* Start calls in a run
    None

\* createMockBlock(height) with the parent hash it read and the second.
MockBlock(parent, n, t) == [hash |-> <<parent, n, t>>, parent |-> parent, number |-> n]

\* Every block createMockBlock can return at height n.
RECURSIVE MockLevel(_)
MockLevel(n) ==
    IF n = 0 THEN {Genesis}
    ELSE {MockBlock(p, n, t) :
            p \in {b.hash : b \in MockLevel(n - 1)} \cup {ZeroHash}, t \in Times}

MockBlocks == UNION {MockLevel(n) : n \in 1 .. MaxHeight}

VARIABLES
    blocks, blockNumber, currentHead,   \* the chain store (module Blockchain)
    best,        \* getBestPeer(GetPeers()).BlockNum, or None without peers
    isRunning,   \* sm.isRunning
    isSyncing,   \* sm.isSyncing
    ctxDone,     \* sm.ctx is cancelled
    loops,       \* syncLoop goroutines still running
    starts,      \* Start calls that spawned a syncLoop
    pc,          \* pc[s]: "none", "begin", "batch", "fetch", "process", "done"
    height,      \* height[s]: syncBlocks' loop variable
    end,         \* end[s]: endHeight, the target read at sync start
    batchEnd,    \* batchEnd[s]
    batch        \* batch[s]: the fetched blocks not yet processed

Chain == INSTANCE Blockchain WITH Candidates <- MockBlocks

chainVars == <<blocks, blockNumber, currentHead>>
syncVars == <<pc, height, end, batchEnd, batch>>
vars == <<chainVars, best, isRunning, isSyncing, ctxDone, loops, starts, syncVars>>

Active == {s \in Syncs : pc[s] \notin {"none", "done"}}

\* NewSyncManager over NewBlockchain(genesis); no peers yet.
Init ==
    /\ Chain!Init
    /\ best = None
    /\ isRunning = FALSE /\ isSyncing = FALSE /\ ctxDone = FALSE
    /\ loops = 0 /\ starts = 0
    /\ pc = [s \in Syncs |-> "none"]
    /\ height = [s \in Syncs |-> 0]
    /\ end = [s \in Syncs |-> 0]
    /\ batchEnd = [s \in Syncs |-> 0]
    /\ batch = [s \in Syncs |-> << >>]

\* Network.AddPeer / RemovePeer change the best announced height.
PeersChange ==
    /\ \E b \in PeerHeights \cup {None} : best' = b
    /\ UNCHANGED <<chainVars, isRunning, isSyncing, ctxDone, loops, starts, syncVars>>

\* Start: return if running; else set running and spawn syncLoop.  The
\* context cancelled by an earlier Stop is not renewed.
Start ==
    /\ ~isRunning /\ starts < MaxStarts
    /\ isRunning' = TRUE
    /\ loops' = loops + 1 /\ starts' = starts + 1
    /\ UNCHANGED <<chainVars, best, isSyncing, ctxDone, syncVars>>

\* Stop: return if not running; cancel, clear both flags (without sm.mu).
Stop ==
    /\ isRunning
    /\ ctxDone' = TRUE /\ isRunning' = FALSE /\ isSyncing' = FALSE
    /\ UNCHANGED <<chainVars, best, loops, starts, syncVars>>

\* syncLoop: ctx.Done() is ready, and select returns.
LoopExit ==
    /\ loops > 0 /\ ctxDone
    /\ loops' = loops - 1
    /\ UNCHANGED <<chainVars, best, isRunning, isSyncing, ctxDone, starts, syncVars>>

\* syncLoop: the ticker fires (select may pick it even when ctx.Done() is
\* ready) and checkSyncNeeded runs: with a best peer above the head it calls
\* StartSync, which returns unless running and not already syncing, and
\* otherwise sets isSyncing under sm.mu and spawns sync().
StartsSync ==
    /\ best # None /\ best > currentHead.number
    /\ isRunning /\ ~isSyncing

LoopTick ==
    /\ loops > 0
    /\ IF StartsSync
         THEN \E s \in Syncs :
                /\ pc[s] \in {"none", "done"}
                /\ pc' = [pc EXCEPT ![s] = "begin"]
                /\ isSyncing' = TRUE
         ELSE UNCHANGED <<pc, isSyncing>>
    /\ UNCHANGED <<chainVars, best, isRunning, ctxDone, loops, starts, height, end,
                   batchEnd, batch>>

\* The deferred reset of sync(): isSyncing = false under sm.mu.
Finish(s) ==
    /\ pc' = [pc EXCEPT ![s] = "done"]
    /\ isSyncing' = FALSE

\* Mutant: the reset written at the end of sync() instead of deferred, so
\* the early return skips it.
SyncBeginNoReset(s) ==
    /\ pc[s] = "begin"
    /\ IF best = None
         THEN pc' = [pc EXCEPT ![s] = "done"] /\ UNCHANGED <<height, end, isSyncing>>
         ELSE /\ height' = [height EXCEPT ![s] = currentHead.number + 1]
              /\ end' = [end EXCEPT ![s] = best]
              /\ pc' = [pc EXCEPT ![s] = "batch"]
              /\ UNCHANGED isSyncing
    /\ UNCHANGED <<chainVars, best, isRunning, ctxDone, loops, starts, batchEnd, batch>>

\* sync(): no peer returns; else read the head and the target and enter
\* syncBlocks(peer, head + 1, target).
SyncBegin(s) ==
    /\ pc[s] = "begin"
    /\ IF best = None
         THEN Finish(s) /\ UNCHANGED <<height, end>>
         ELSE /\ height' = [height EXCEPT ![s] = currentHead.number + 1]
              /\ end' = [end EXCEPT ![s] = best]
              /\ pc' = [pc EXCEPT ![s] = "batch"]
              /\ UNCHANGED isSyncing
    /\ UNCHANGED <<chainVars, best, isRunning, ctxDone, loops, starts, batchEnd, batch>>

\* Mutant: batchEnd not clamped to endHeight.
SyncBatchNoClamp(s) ==
    /\ pc[s] = "batch"
    /\ IF height[s] > end[s]
         THEN Finish(s) /\ UNCHANGED batchEnd
         ELSE /\ batchEnd' = [batchEnd EXCEPT ![s] = height[s] + BatchSize - 1]
              /\ pc' = [pc EXCEPT ![s] = "fetch"]
              /\ UNCHANGED isSyncing
    /\ UNCHANGED <<chainVars, best, isRunning, ctxDone, loops, starts, height, end, batch>>

\* The head of syncBlocks' for loop: past the end returns from sync();
\* otherwise the batch is height .. min(height + batchSize - 1, end).
SyncBatch(s) ==
    /\ pc[s] = "batch"
    /\ IF height[s] > end[s]
         THEN Finish(s) /\ UNCHANGED batchEnd
         ELSE /\ batchEnd' = [batchEnd EXCEPT ![s] =
                                 IF height[s] + BatchSize - 1 > end[s] THEN end[s]
                                 ELSE height[s] + BatchSize - 1]
              /\ pc' = [pc EXCEPT ![s] = "fetch"]
              /\ UNCHANGED isSyncing
    /\ UNCHANGED <<chainVars, best, isRunning, ctxDone, loops, starts, height, end, batch>>

\* Mutant: createMockBlock reads GetBlockByNumber(height).
MockParentOffByOne(n) ==
    IF Chain!GetBlockByNumber(n) = {} THEN ZeroHash ELSE blockNumber[n]

\* The parent hash createMockBlock reads for height n.
MockParent(n) ==
    IF Chain!GetBlockByNumber(n - 1) = {} THEN ZeroHash
    ELSE blockNumber[n - 1]

\* One createMockBlock call of fetchBlocks (each reads the chain afresh).
SyncFetch(s) ==
    /\ pc[s] = "fetch"
    /\ LET n == height[s] + Len(batch[s]) IN
       \E t \in Times :
          /\ batch' = [batch EXCEPT ![s] = Append(@, MockBlock(MockParent(n), n, t))]
          /\ pc' = [pc EXCEPT ![s] = IF n = batchEnd[s] THEN "process" ELSE "fetch"]
    /\ UNCHANGED <<chainVars, best, isRunning, isSyncing, ctxDone, loops, starts,
                   height, end, batchEnd>>

\* AddBlock; its early returns leave the chain unchanged and return nil.
AddBlockCall(b) ==
    IF Chain!Accepted(b) THEN Chain!AddBlock(b) ELSE UNCHANGED chainVars

\* One iteration over the batch: a block whose parent is unknown sets
\* height = number - 1 and breaks out (the for loop then adds batchSize);
\* otherwise AddBlock and BroadcastBlock.  After the batch, height += batchSize.
SyncProcess(s) ==
    /\ pc[s] = "process"
    /\ IF batch[s] = << >>
         THEN /\ height' = [height EXCEPT ![s] = @ + BatchSize]
              /\ pc' = [pc EXCEPT ![s] = "batch"]
              /\ UNCHANGED <<chainVars, batch>>
         ELSE LET b == Head(batch[s]) IN
              IF Chain!Stored(b.parent) = {}
                THEN /\ height' = [height EXCEPT ![s] = b.number - 1 + BatchSize]
                     /\ batch' = [batch EXCEPT ![s] = << >>]
                     /\ pc' = [pc EXCEPT ![s] = "batch"]
                     /\ UNCHANGED chainVars
                ELSE /\ AddBlockCall(b)
                     /\ batch' = [batch EXCEPT ![s] = Tail(@)]
                     /\ UNCHANGED <<height, pc>>
    /\ UNCHANGED <<best, isRunning, isSyncing, ctxDone, loops, starts, end, batchEnd>>

SyncStep(s) == SyncBegin(s) \/ SyncBatch(s) \/ SyncFetch(s) \/ SyncProcess(s)

LoopStep == LoopTick \/ LoopExit

Next ==
    \/ PeersChange \/ Start \/ Stop \/ LoopStep
    \/ \E s \in Syncs : SyncStep(s)

\* The ticker fires every 5 s and every spawned sync goroutine runs; the
\* peers and the callers of Start and Stop get no fairness.
Fairness ==
    /\ WF_vars(LoopStep)
    /\ \A s \in Syncs : WF_vars(SyncStep(s))

Spec == Init /\ [][Next]_vars

FairSpec == Spec /\ Fairness

-----------------------------------------------------------------------------

TypeOK ==
    /\ Chain!TypeOK
    /\ best \in PeerHeights \cup {None}
    /\ isRunning \in BOOLEAN /\ isSyncing \in BOOLEAN /\ ctxDone \in BOOLEAN
    /\ loops \in 0 .. MaxStarts /\ starts \in 0 .. MaxStarts
    /\ pc \in [Syncs -> {"none", "begin", "batch", "fetch", "process", "done"}]
    /\ height \in [Syncs -> Nat] /\ end \in [Syncs -> 0 .. MaxHeight]
    /\ batchEnd \in [Syncs -> 0 .. MaxHeight]
    /\ batch \in [Syncs -> Seq(MockBlocks)]

\* isSyncing is set exactly while a sync goroutine runs, until Stop: every
\* path out of sync() (no peer, loop done) clears it, and StartSync never
\* spawns a second sync beside a running one.
SyncFlagTracks ==
    ~ctxDone => (isSyncing <=> Active # {})

\* While the manager runs and the best peer is ahead of the head, the head
\* eventually reaches the peer's height (unless the peers change or the
\* manager is stopped): the ticker keeps starting sync rounds, and each adds
\* at least the first block of its first batch.
SyncCatchesUp ==
    (isRunning /\ best # None /\ best > currentHead.number)
        ~> (best = None \/ currentHead.number >= best \/ ~isRunning)
=============================================================================
