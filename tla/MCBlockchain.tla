--------------------------- MODULE MCBlockchain ---------------------------
(***************************************************************************)
(* Blocks offered to AddBlock: three competing branches from genesis (A,  *)
(* B and C; A and B reach the same height), a block whose number skips    *)
(* one, and an orphan whose parent is unknown.                            *)
(*                                                                         *)
(* cmd/nogochain/main.go runs the core synchroniser on the node's chain:   *)
(* NewSynchronizer(bc, FastSync), Start, and AddPeer.  Its syncLoop reads  *)
(* the head number of this store while AddBlock moves it, and the peers    *)
(* come and go; ChainSync is instantiated with its head the number of      *)
(* bc.currentHead.  Only the core of sync is run here: the pool and the    *)
(* difficulty rule are not used, and the mode stays FastSync.             *)
(***************************************************************************)
EXTENDS Blockchain

CONSTANTS hG, hA1, hA2, hB1, hB2, hB3, hA3, hC1, hC2, hBad, hOrphan, hUnknown
CONSTANTS Peers, None

VARIABLES peers, state, pc, best, seen, i, end

Blk(h, p, n) == [hash |-> h, parent |-> p, number |-> n]

MCGenesis == Blk(hG, NoHash, 0)

MCCandidates ==
    { Blk(hA1, hG, 1), Blk(hA2, hA1, 2), Blk(hA3, hA2, 3),
      Blk(hC1, hG, 1), Blk(hC2, hC1, 2),
      Blk(hB1, hG, 1), Blk(hB2, hB1, 2), Blk(hB3, hB2, 3),
      Blk(hBad, hG, 2),
      Blk(hOrphan, hUnknown, 1) }
\* The store implements the abstract block tree: bc.blocks is the tree and
\* bc.currentHead its head.
Ledger == INSTANCE BlockTree WITH tree <- blocks, head <- currentHead

\* Every behaviour of AddBlock is a behaviour of the block tree: no block
\* is stored without its parent one number lower, none is ever removed,
\* and the head is always a highest block, kept while it still is one.
LedgerSpec == Ledger!Spec
-----------------------------------------------------------------------------
\* The highest block number a candidate has, which bounds the peers' too.
SyncBound == 3

Sync == INSTANCE ChainSync
    WITH head <- currentHead.number, mode <- "fast", pool <- {},
         MaxNumber <- SyncBound, Parents <- {}, Deltas <- {}, TxHashes <- {}

syncVars == <<peers, state, pc, best, seen, i, end>>
allVars == <<vars, syncVars>>

\* main.go: NewBlockchain, then NewSynchronizer.
NodeInit == Init /\ Sync!Init

\* Peers announce a number, or leave.
PeerChange ==
    /\ UNCHANGED vars
    /\ \E p \in Peers : \/ \E n \in 0 .. SyncBound : Sync!AddPeer(p, n)
                      \/ Sync!RemovePeer(p)

\* The miner's AddBlock, the sync goroutine's steps, and the peer set.  The
\* chain is left unchanged first, so that the synchroniser's head is fixed
\* when its steps are evaluated.
NodeNext ==
    \/ Next /\ UNCHANGED syncVars
    \/ UNCHANGED vars /\ Sync!SyncStep
    \/ PeerChange

\* syncLoop never exits: the sync goroutine keeps taking steps.
NodeSpec == NodeInit /\ [][NodeNext]_allVars /\ WF_allVars(UNCHANGED vars /\ Sync!SyncStep)

\* The synchroniser's progress report stays consistent while AddBlock moves
\* the head between sync's read of CurrentHead and its write under s.mu.
SyncStateSound == Sync!SyncStateSound

\* Every round of syncLoop ends, however the head and the peers move.
RoundEnds == Sync!RoundEnds
=============================================================================
