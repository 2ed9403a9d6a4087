------------------------------- MODULE Index --------------------------------
(***************************************************************************)
(* The indexes of core/storage/index/index.go.  A MemoryIndex is a map     *)
(* from byte-string keys to values behind a RWMutex.  A BlockIndex keeps   *)
(* two of them, number -> hash and hash -> block data; a StateIndex keeps  *)
(* two more, account -> data and account ++ slot -> data.  Every method    *)
(* holds the index's own mutex for its whole body, and no MemoryIndex      *)
(* method returns an error, so each call is one atomic step and the        *)
(* `if err != nil { return err }` branches are never taken.                *)
(*                                                                         *)
(* A key is the byte sequence the code builds: a one-byte tag, then the    *)
(* number, hash, address or slot bytes.  Block data is identified by its   *)
(* hash (a block's hash is a digest of its data), so hashIndex maps a      *)
(* hash key to that hash.                                                  *)
(***************************************************************************)
EXTENDS Integers, Sequences, FiniteSets

CONSTANTS
    Blocks,     \* <<number, hash>> of the blocks callers index
    Addrs,      \* addresses, as byte sequences
    Slots,      \* storage slot keys, as byte sequences
    Data,       \* account and storage data
    None

Numbers == {b[1] : b \in Blocks}
Hashes == {b[2] : b \in Blocks}

\* uint64ToBytes: the number big-endian in eight bytes.  Numbers in every
\* model are below 2^32, so the four high bytes are zero.
Uint64ToBytes(n) == [i \in 1 .. 8 |-> IF i <= 4 THEN 0 ELSE (n \div 256^(8 - i)) % 256]

NumberKey(n) == <<0>> \o Uint64ToBytes(n)
HashKey(h) == <<1>> \o <<h>>
AccountKey(a) == <<0>> \o a
StorageKey(a, s) == <<1>> \o a \o s

NumberKeys == {NumberKey(n) : n \in Numbers}
HashKeys == {HashKey(h) : h \in Hashes}
AccountKeys == {AccountKey(a) : a \in Addrs}
StorageKeys == {StorageKey(a, s) : a \in Addrs, s \in Slots}

VARIABLES
    numberIndex,   \* BlockIndex.numberIndex.data
    hashIndex,     \* BlockIndex.hashIndex.data
    accountIndex,  \* StateIndex.accountIndex.data
    storageIndex,  \* StateIndex.storageIndex.data
    added,         \* the blocks Add has indexed and Delete has not removed
    stored         \* stored[a][s]: the data of the last AddStorage(a, s), or None

vars == <<numberIndex, hashIndex, accountIndex, storageIndex, added, stored>>

\* MemoryIndex operations on a map m.
IndexAdd(m, key, value) == [m EXCEPT ![key] = value]
IndexDelete(m, key) == [m EXCEPT ![key] = None]
IndexGet(m, key) == m[key]
IndexClear(keys) == [k \in keys |-> None]
IndexSize(m) == Cardinality({k \in DOMAIN m : m[k] # None})

\* NewBlockIndex and NewStateIndex: two empty MemoryIndexes each.
InitBlocks ==
    /\ numberIndex = IndexClear(NumberKeys)
    /\ hashIndex = IndexClear(HashKeys)
    /\ added = {}

InitState ==
    /\ accountIndex = IndexClear(AccountKeys)
    /\ storageIndex = IndexClear(StorageKeys)
    /\ stored = [a \in Addrs |-> [s \in Slots |-> None]]

Init == InitBlocks /\ InitState

blockVars == <<numberIndex, hashIndex, added>>
stateVars == <<accountIndex, storageIndex, stored>>

\* BlockIndex.Add: number -> hash, then hash -> data.
Add(n, h) ==
    /\ numberIndex' = IndexAdd(numberIndex, NumberKey(n), h)
    /\ hashIndex' = IndexAdd(hashIndex, HashKey(h), h)
    /\ added' = added \cup {<<n, h>>}
    /\ UNCHANGED stateVars

\* BlockIndex.Delete: removes the number's entry, whatever hash it now
\* names, and the given hash's data.
Delete(n, h) ==
    /\ numberIndex' = IndexDelete(numberIndex, NumberKey(n))
    /\ hashIndex' = IndexDelete(hashIndex, HashKey(h))
    /\ added' = added \ {<<n, h>>}
    /\ UNCHANGED stateVars

\* GetByNumber: the number's hash, then that hash's data.
GetByNumber(n) ==
    LET h == IndexGet(numberIndex, NumberKey(n))
    IN  IF h = None THEN None ELSE IndexGet(hashIndex, HashKey(h))

GetByHash(h) == IndexGet(hashIndex, HashKey(h))

\* BlockIndex.Size: the entries of the number index.
BlockSize == IndexSize(numberIndex)

\* BlockIndex.Clear and StateIndex.Clear: fresh maps.
ClearBlocks ==
    /\ numberIndex' = IndexClear(NumberKeys)
    /\ hashIndex' = IndexClear(HashKeys)
    /\ added' = {}
    /\ UNCHANGED stateVars

AddAccount(a, d) ==
    /\ accountIndex' = IndexAdd(accountIndex, AccountKey(a), d)
    /\ UNCHANGED <<storageIndex, stored>> /\ UNCHANGED blockVars

DeleteAccount(a) ==
    /\ accountIndex' = IndexDelete(accountIndex, AccountKey(a))
    /\ UNCHANGED <<storageIndex, stored>> /\ UNCHANGED blockVars

AddStorage(a, s, d) ==
    /\ storageIndex' = IndexAdd(storageIndex, StorageKey(a, s), d)
    /\ stored' = [stored EXCEPT ![a][s] = d]
    /\ UNCHANGED accountIndex /\ UNCHANGED blockVars

DeleteStorage(a, s) ==
    /\ storageIndex' = IndexDelete(storageIndex, StorageKey(a, s))
    /\ stored' = [stored EXCEPT ![a][s] = None]
    /\ UNCHANGED accountIndex /\ UNCHANGED blockVars

GetStorage(a, s) == IndexGet(storageIndex, StorageKey(a, s))

GetAccount(a) == IndexGet(accountIndex, AccountKey(a))

\* StateIndex.Size: the entries of both maps.
StateSize == IndexSize(accountIndex) + IndexSize(storageIndex)

ClearState ==
    /\ accountIndex' = IndexClear(AccountKeys)
    /\ storageIndex' = IndexClear(StorageKeys)
    /\ stored' = [a \in Addrs |-> [s \in Slots |-> None]]
    /\ UNCHANGED blockVars

Next ==
    \/ \E b \in Blocks : Add(b[1], b[2]) \/ Delete(b[1], b[2])
    \/ ClearBlocks
    \/ \E a \in Addrs, d \in Data : AddAccount(a, d)
    \/ \E a \in Addrs : DeleteAccount(a)
    \/ \E a \in Addrs, s \in Slots, d \in Data : AddStorage(a, s, d)
    \/ \E a \in Addrs, s \in Slots : DeleteStorage(a, s)
    \/ ClearState

Spec == Init /\ [][Next]_vars
-----------------------------------------------------------------------------

TypeOK ==
    /\ numberIndex \in [NumberKeys -> Hashes \cup {None}]
    /\ hashIndex \in [HashKeys -> Hashes \cup {None}]
    /\ accountIndex \in [AccountKeys -> Data \cup {None}]
    /\ storageIndex \in [StorageKeys -> Data \cup {None}]
    /\ added \subseteq Blocks
    /\ BlockSize \in 0 .. Cardinality(Numbers)
    /\ StateSize \in 0 .. Cardinality(AccountKeys \cup StorageKeys)
    /\ \A a \in Addrs : GetAccount(a) \in Data \cup {None}

\* GetStorage(a, s) returns what the last AddStorage(a, s) stored, or
\* nothing after DeleteStorage(a, s) or Clear: the key 1 ++ a ++ s of one
\* account's slot is never the key of another account's slot.  This holds
\* when all addresses have one length; StateIndex itself does not check it.
StorageIsolated == \A a \in Addrs, s \in Slots : GetStorage(a, s) = stored[a][s]

\* Every block Add indexed and Delete has not removed is found by
\* GetByHash, whatever Adds and Deletes of other blocks, forks at the same
\* number included, came between.
HashesRetrievable == \A b \in added : GetByHash(b[2]) = b[2]

\* A number at which some indexed block has not been deleted is found by
\* GetByNumber.  Delete(n, h) removes the number entry without checking
\* that it still names h, so Add(n, h1), Add(n, h2), Delete(n, h1) leaves
\* h2 indexed and its number unreachable.
CanonicalResolves ==
    \A n \in Numbers : (\E b \in added : b[1] = n) => GetByNumber(n) # None
=============================================================================
