---------------------------- MODULE Blockchain ----------------------------
(***************************************************************************)
(* The in-memory block store of core/blockchain/chain.go.                  *)
(*                                                                         *)
(* A block is abstracted to the three fields AddBlock reads: its hash, its *)
(* parent hash and its number.  Block hashes are model values; the store   *)
(* is keyed by them exactly as bc.blocks is keyed by common.Hash.  Every   *)
(* call of AddBlock runs under bc.mu.Lock, so it is one atomic step.       *)
(***************************************************************************)
EXTENDS Naturals, FiniteSets

CONSTANTS
    Candidates,   \* blocks that may be handed to AddBlock (peers, miners, sync)
    Genesis,      \* the genesis block passed to NewBlockchain
    NoHash        \* absent entry of bc.blockNumber (the map has no key)

Hashes == {b.hash : b \in Candidates \cup {Genesis}}

Numbers == {b.number : b \in Candidates \cup {Genesis}}

ASSUME /\ NoHash \notin Hashes
       /\ \A b, c \in Candidates \cup {Genesis} : b.hash = c.hash => b = c

VARIABLES
    blocks,       \* bc.blocks: the set of stored blocks (map hash -> block)
    blockNumber,  \* bc.blockNumber: number -> hash, NoHash when the key is absent
    currentHead   \* bc.currentHead

vars == <<blocks, blockNumber, currentHead>>

\* bc.blocks[h] as a partial lookup: the stored blocks with hash h.
Stored(h) == {b \in blocks : b.hash = h}

\* GetBlockByNumber: bc.blocks[bc.blockNumber[n]], or nil.
GetBlockByNumber(n) == Stored(blockNumber[n])

\* NewBlockchain(genesis): both maps hold only genesis, which is the head.
Init ==
    /\ blocks = {Genesis}
    /\ blockNumber = [n \in Numbers |-> IF n = Genesis.number THEN Genesis.hash
                                                             ELSE NoHash]
    /\ currentHead = Genesis

(***************************************************************************)
(* AddBlock(block).  Three early returns, each returning nil:              *)
(*   the hash is already stored; the parent is not stored; the number is   *)
(*   not parent+1.                                                         *)
(* Those leave every variable unchanged, i.e. they are stuttering steps.   *)
(* Otherwise the block is stored, the number index is overwritten with its *)
(* hash whatever block held that number before, and the head moves only    *)
(* when the block's number exceeds the head's.                            *)
(***************************************************************************)
Accepted(block) ==
    /\ Stored(block.hash) = {}
    /\ \E parent \in Stored(block.parent) : block.number = parent.number + 1

\* Mutant: the head comparison of chain.go:141 made non-strict.
NewHeadAtLeast(block) ==
    IF block.number >= currentHead.number THEN block ELSE currentHead

NewHead(block) ==
    IF block.number > currentHead.number THEN block ELSE currentHead

\* Mutant: bc.blocks not written (chain.go:136 left out).
AddBlockUnstored(block) ==
    /\ Accepted(block)
    /\ UNCHANGED blocks
    /\ blockNumber' = [blockNumber EXCEPT ![block.number] = block.hash]
    /\ currentHead' = NewHead(block)

\* Mutant: bc.blockNumber not written (chain.go:137 left out).
AddBlockUnindexed(block) ==
    /\ Accepted(block)
    /\ blocks' = blocks \cup {block}
    /\ UNCHANGED blockNumber
    /\ currentHead' = NewHead(block)

AddBlock(block) ==
    /\ Accepted(block)
    /\ blocks' = blocks \cup {block}
    /\ blockNumber' = [blockNumber EXCEPT ![block.number] = block.hash]
    /\ currentHead' = NewHead(block)

Next == \E b \in Candidates : AddBlock(b)

Spec == Init /\ [][Next]_vars

-----------------------------------------------------------------------------

TypeOK ==
    /\ blocks \subseteq Candidates \cup {Genesis}
    /\ blockNumber \in [Numbers -> Hashes \cup {NoHash}]
    /\ currentHead \in blocks

\* For every number up to the head, GetBlockByNumber returns a stored block
\* of that number: a caller iterating 0 .. Length()-1, as the sync managers
\* do, never receives nil.
IndexDense ==
    \A n \in Numbers :
        n <= currentHead.number =>
            \E b \in GetBlockByNumber(n) : b.number = n
=============================================================================
