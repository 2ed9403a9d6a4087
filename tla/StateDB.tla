------------------------------ MODULE StateDB ------------------------------
(***************************************************************************)
(* MemoryStateDB of core/state/state.go: accounts, storage and code maps,  *)
(* a stack of deep-copied snapshots, three read caches and a cached state  *)
(* root.  The database has no lock; its owner (the chain verifier or an    *)
(* EVM run) calls it from one goroutine, so every method is one step.      *)
(*                                                                         *)
(* Maps are objects with identity.  mem[0] is the accounts/storage pair    *)
(* made by NewMemoryStateDB, mem[i] the pair pushed by the i-th Snapshot() *)
(* (returned id i-1).  cur names the pair s.accounts/s.storage point to:   *)
(* RevertToSnapshot assigns the snapshot's own maps, so after it writes go *)
(* into mem[cur], the snapshot itself.  An *Account in accountCache is a   *)
(* pointer, kept as the map it lives in.                                   *)
(***************************************************************************)
EXTENDS Integers, Sequences, SequencesExt

CONSTANTS
    Addrs,        \* account addresses
    Keys,         \* storage keys
    Vals,         \* storage values, ZeroVal among them
    ZeroVal,      \* common.Hash{}
    Codes,        \* contract codes handed to SetCode
    Nonces,       \* nonces handed to SetNonce
    BalanceBound, \* |balance| stays within it (amounts are 1)
    MaxSnaps,     \* bound on Snapshot() calls
    None          \* absent account, code, or cache entry

ASSUME ZeroVal \in Vals /\ BalanceBound \in Nat /\ MaxSnaps \in Nat

\* A fresh account of CreateAccount; codeHash None stands for []byte{}, and
\* codeHash c for Keccak256(c).
NewAccount == [nonce |-> 0, balance |-> 0, codeHash |-> None]

EmptyMaps == [accounts |-> [a \in Addrs |-> None],
              storage  |-> [a \in Addrs |-> [k \in Keys |-> None]]]

\* A storage slot as GetState returns it: a missing key reads as zero.
SlotValue(v) == IF v = None THEN ZeroVal ELSE v

VARIABLES
    mem,            \* mem[m]: accounts/storage maps of object m
    cur,            \* the object s.accounts and s.storage point to
    snapCount,      \* len(s.snapshots)
    code,           \* s.code (never snapshotted)
    accountCache,   \* addr -> object holding the cached *Account, or None
    storageCache,   \* cache key -> value, or None
    codeCache,      \* addr -> code, or None
    stateRootCache, \* s.stateRootCache: the (addr, |balance|) list hashed
    rootCalculated, \* s.rootCalculated
    taken,          \* history: taken[i] = accounts/storage when snapshot i was made
    rootView        \* history: accounts/storage the cached root was computed from

vars == <<mem, cur, snapCount, code, accountCache, storageCache, codeCache,
          stateRootCache, rootCalculated, taken, rootView>>

Live == mem[cur]

Objects == 0 .. MaxSnaps

\* NewMemoryStateDB.
Init ==
    /\ mem = [m \in Objects |-> EmptyMaps]
    /\ cur = 0
    /\ snapCount = 0
    /\ code = [a \in Addrs |-> None]
    /\ accountCache = [a \in Addrs |-> None]
    /\ storageCache = [k \in Keys |-> None]
    /\ codeCache = [a \in Addrs |-> None]
    /\ stateRootCache = <<>>
    /\ rootCalculated = FALSE
    /\ taken = [i \in 1 .. MaxSnaps |-> EmptyMaps]
    /\ rootView = EmptyMaps

\* The live accounts after CreateAccount(addr): a new account only when absent.
Created(addr) ==
    IF Live.accounts[addr] = None
    THEN [Live.accounts EXCEPT ![addr] = NewAccount]
    ELSE Live.accounts

\* cacheKey := common.BytesToHash(append(addr.Bytes(), key.Bytes()...)):
\* BytesToHash keeps the rightmost 32 bytes, which are the key alone.
CacheKey(addr, key) == key

\* Write the live accounts map (into whichever object cur names).
SetAccounts(accts) == mem' = [mem EXCEPT ![cur].accounts = accts]

\* The bookkeeping every mutator ends with: the account pointer goes into
\* accountCache and the root must be recomputed.
Touch(addr) ==
    /\ accountCache' = [accountCache EXCEPT ![addr] = cur]
    /\ rootCalculated' = FALSE

History == UNCHANGED <<taken, rootView>>

CreateAccount(addr) ==
    /\ Live.accounts[addr] = None
    /\ SetAccounts(Created(addr))
    /\ Touch(addr)
    /\ UNCHANGED <<cur, snapCount, code, storageCache, codeCache, stateRootCache>>
    /\ History

\* AddBalance / SubBalance: CreateAccount, then Balance.Add / Balance.Sub in
\* place on the *big.Int (no underflow check: balances go negative).
\* Mutant: the balance changes but the cached root stays marked valid.
ChangeBalanceKeepRoot(addr, delta) ==
    LET accts == Created(addr)
        nb == accts[addr].balance + delta
    IN /\ nb \in -BalanceBound .. BalanceBound
       /\ SetAccounts([accts EXCEPT ![addr].balance = nb])
       /\ accountCache' = [accountCache EXCEPT ![addr] = cur]
       /\ UNCHANGED <<cur, snapCount, code, storageCache, codeCache,
                      stateRootCache, rootCalculated>>
       /\ History

ChangeBalance(addr, delta) ==
    LET accts == Created(addr)
        nb == accts[addr].balance + delta
    IN /\ nb \in -BalanceBound .. BalanceBound
       /\ SetAccounts([accts EXCEPT ![addr].balance = nb])
       /\ Touch(addr)
       /\ UNCHANGED <<cur, snapCount, code, storageCache, codeCache, stateRootCache>>
       /\ History

AddBalance(addr) == ChangeBalance(addr, 1)

SubBalance(addr) == ChangeBalance(addr, -1)

SetNonce(addr, n) ==
    /\ SetAccounts([Created(addr) EXCEPT ![addr].nonce = n])
    /\ Touch(addr)
    /\ UNCHANGED <<cur, snapCount, code, storageCache, codeCache, stateRootCache>>
    /\ History

\* SetCode writes s.code and the account's CodeHash, and both caches.
SetCode(addr, c) ==
    /\ SetAccounts([Created(addr) EXCEPT ![addr].codeHash = c])
    /\ code' = [code EXCEPT ![addr] = c]
    /\ codeCache' = [codeCache EXCEPT ![addr] = c]
    /\ Touch(addr)
    /\ UNCHANGED <<cur, snapCount, storageCache, stateRootCache>>
    /\ History

\* SetState: CreateAccount, the storage write, the cache write.
SetState(addr, key, val) ==
    /\ mem' = [mem EXCEPT ![cur] = [accounts |-> Created(addr),
                                    storage |-> [@.storage EXCEPT ![addr][key] = val]]]
    /\ storageCache' = [storageCache EXCEPT ![CacheKey(addr, key)] = val]
    /\ accountCache' = IF Live.accounts[addr] = None
                       THEN [accountCache EXCEPT ![addr] = cur]
                       ELSE accountCache
    /\ rootCalculated' = FALSE
    /\ UNCHANGED <<cur, snapCount, code, codeCache, stateRootCache>>
    /\ History

\* Suicide only calls CreateAccount and returns true.
Suicide(addr) == CreateAccount(addr)

\* GetBalance / GetNonce / GetCodeHash: on a cache miss the live pointer is
\* stored in accountCache.  Reads of absent accounts store nothing.
LoadAccount(addr) ==
    /\ accountCache[addr] = None
    /\ Live.accounts[addr] # None
    /\ accountCache' = [accountCache EXCEPT ![addr] = cur]
    /\ UNCHANGED <<mem, cur, snapCount, code, storageCache, codeCache,
                   stateRootCache, rootCalculated>>
    /\ History

\* The account GetBalance and GetNonce read: through the cached pointer
\* when there is one.
ReadAccount(addr) ==
    IF accountCache[addr] # None THEN mem[accountCache[addr]].accounts[addr]
                                 ELSE Live.accounts[addr]

\* GetCodeHash: Keccak256 of the account's CodeHash field, which SetCode
\* filled with Keccak256(code): a hash of the hash.  An absent account
\* gives common.Hash{}.  The cache store on a miss is LoadAccount.
GetCodeHash(addr) ==
    IF ReadAccount(addr) = None THEN "zeroHash"
    ELSE <<"keccak", ReadAccount(addr).codeHash>>

\* GetCode: the code cache, else s.code (and on a miss the cache stores it;
\* SetCode fills both and nothing clears codeCache, so no miss finds code).
GetCode(addr) == IF codeCache[addr] # None THEN codeCache[addr] ELSE code[addr]

\* GetCodeSize reads s.code directly, past the cache.
GetCodeSize(addr) == IF code[addr] = None THEN 0 ELSE 1

\* HasSuicided is false for every account, after Suicide too.
HasSuicided(addr) == FALSE

\* Empty: absent, or nonce 0, balance 0 and an empty CodeHash.
Empty(addr) ==
    LET acc == Live.accounts[addr] IN
    acc = None \/ (acc.nonce = 0 /\ acc.balance = 0 /\ acc.codeHash = None)

\* ForEachStorage visits these pairs of the live storage in map order,
\* until the callback returns false.
StorageEntries(addr) ==
    {<<k, Live.storage[addr][k]>> : k \in {k \in Keys : Live.storage[addr][k] # None}}

\* GetState: a cache hit wins; otherwise a present key is read (and cached).
GetStateValue(addr, key) ==
    IF storageCache[CacheKey(addr, key)] # None
    THEN storageCache[CacheKey(addr, key)]
    ELSE SlotValue(Live.storage[addr][key])

LoadState(addr, key) ==
    /\ storageCache[CacheKey(addr, key)] = None
    /\ Live.storage[addr][key] # None
    /\ storageCache' = [storageCache EXCEPT ![CacheKey(addr, key)] =
                                                Live.storage[addr][key]]
    /\ UNCHANGED <<mem, cur, snapCount, code, accountCache, codeCache,
                   stateRootCache, rootCalculated>>
    /\ History

\* Snapshot: deep copy of the live accounts and storage pushed on the stack.
Snapshot ==
    /\ snapCount < MaxSnaps
    /\ mem' = [mem EXCEPT ![snapCount + 1] = Live]
    /\ snapCount' = snapCount + 1
    /\ taken' = [taken EXCEPT ![snapCount + 1] = Live]
    /\ UNCHANGED <<cur, code, accountCache, storageCache, codeCache,
                   stateRootCache, rootCalculated, rootView>>

\* RevertToSnapshot(idx): out-of-range ids return early (a stutter).  The
\* live maps become the snapshot's own maps; the stack is not truncated;
\* account and storage caches are dropped, the code cache is not.
\* Mutant: the range check admits idx = len(s.snapshots).
RevertToSnapshotOffByOne(idx) ==
    /\ 0 <= idx /\ idx <= snapCount
    /\ cur' = idx + 1
    /\ accountCache' = [a \in Addrs |-> None]
    /\ storageCache' = [k \in Keys |-> None]
    /\ rootCalculated' = FALSE
    /\ UNCHANGED <<mem, snapCount, code, codeCache, stateRootCache>>
    /\ History

\* Mutant: accountCache is not reset (state.go:313 left out).
RevertToSnapshotKeepCache(idx) ==
    /\ 0 <= idx /\ idx < snapCount
    /\ cur' = idx + 1
    /\ storageCache' = [k \in Keys |-> None]
    /\ rootCalculated' = FALSE
    /\ UNCHANGED <<mem, snapCount, code, accountCache, codeCache, stateRootCache>>
    /\ History

RevertToSnapshot(idx) ==
    /\ 0 <= idx /\ idx < snapCount
    /\ cur' = idx + 1
    /\ accountCache' = [a \in Addrs |-> None]
    /\ storageCache' = [k \in Keys |-> None]
    /\ rootCalculated' = FALSE
    /\ UNCHANGED <<mem, snapCount, code, codeCache, stateRootCache>>
    /\ History

\* CalculateStateRoot: unless cached, hash (addr, Balance.Bytes()) over the
\* live accounts in Go's randomised map order.  Bytes() drops the sign.
RootEntry(accts, a) ==
    <<a, IF accts[a].balance < 0 THEN -accts[a].balance ELSE accts[a].balance>>

CalculateStateRoot ==
    /\ ~rootCalculated
    /\ \E order \in SetToSeqs({a \in Addrs : Live.accounts[a] # None}) :
          stateRootCache' = [i \in DOMAIN order |-> RootEntry(Live.accounts, order[i])]
    /\ rootCalculated' = TRUE
    /\ rootView' = Live
    /\ UNCHANGED <<mem, cur, snapCount, code, accountCache, storageCache,
                   codeCache, taken>>

Next ==
    \/ \E a \in Addrs :
          \/ CreateAccount(a) \/ AddBalance(a) \/ SubBalance(a) \/ Suicide(a)
          \/ LoadAccount(a)
          \/ \E n \in Nonces : SetNonce(a, n)
          \/ \E c \in Codes : SetCode(a, c)
          \/ \E k \in Keys : LoadState(a, k) \/ \E v \in Vals : SetState(a, k, v)
    \/ Snapshot
    \/ \E i \in -1 .. MaxSnaps : RevertToSnapshot(i)
    \/ CalculateStateRoot

Spec == Init /\ [][Next]_vars

-----------------------------------------------------------------------------

Account == [nonce : Nonces \cup {0}, balance : -BalanceBound .. BalanceBound,
            codeHash : Codes \cup {None}]

Maps == [accounts : [Addrs -> Account \cup {None}],
         storage  : [Addrs -> [Keys -> Vals \cup {None}]]]

TypeOK ==
    /\ mem \in [Objects -> Maps]
    /\ cur \in 0 .. snapCount /\ snapCount \in 0 .. MaxSnaps
    /\ code \in [Addrs -> Codes \cup {None}]
    /\ accountCache \in [Addrs -> Objects \cup {None}]
    /\ storageCache \in [Keys -> Vals \cup {None}]
    /\ codeCache \in [Addrs -> Codes \cup {None}]
    /\ rootCalculated \in BOOLEAN

\* The roots CalculateStateRoot may produce for maps m, one per map order.
RootsOf(m) ==
    { [i \in DOMAIN order |-> RootEntry(m.accounts, order[i])] :
        order \in SetToSeqs({a \in Addrs : m.accounts[a] # None}) }

\* GetBalance, GetNonce and GetCodeHash, which go through accountCache,
\* return the account as it is in the live map: a cached *Account never
\* points into a map that RevertToSnapshot has swapped out.
AccountReadsSeeWrites ==
    \A a \in Addrs : ReadAccount(a) = Live.accounts[a]

\* While rootCalculated holds, the cached root is a root of the live
\* accounts: every mutation and every revert invalidates it.
RootCacheFresh ==
    rootCalculated => stateRootCache \in RootsOf(Live)

\* Spec section 8 snapshot round trip: RevertToSnapshot(id) restores the
\* accounts and storage that Snapshot() captured when it returned id.
SnapshotRoundTrip ==
    [][\A i \in 0 .. MaxSnaps - 1 :
          RevertToSnapshot(i) => Live' = taken[i + 1]]_vars
=============================================================================
