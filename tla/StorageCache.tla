---------------------------- MODULE StorageCache ----------------------------
(***************************************************************************)
(* The two-level cache of core/storage/cache/cache.go: MemoryCache (a map  *)
(* with LRU eviction at capacity and expiring items), DiskCache (one file  *)
(* per key, a byte budget and eviction of the oldest files) and            *)
(* MultiLevelCache, whose Get, Set, Delete and Clear call the two levels   *)
(* one after the other.                                                    *)
(*                                                                         *)
(* Each MemoryCache and DiskCache method runs under that cache's own       *)
(* mutex and is one step here.  A MultiLevelCache call holds no lock of    *)
(* its own, so the calls of several client goroutines interleave between  *)
(* the two levels.                                                         *)
(*                                                                         *)
(* Time.  AccessTime and SelectVictim's Now() are wall-clock UnixNano      *)
(* readings.  lru keeps the keys of the memory level in the order of their *)
(* accesses, and SelectVictim picks the first of them, unless no AccessTime *)
(* is strictly older than its Now() (a coarse clock that has not ticked    *)
(* since the oldest access, or a clock set back): then it returns "" and   *)
(* Set evicts nothing.  Files are kept in the order of their modification  *)
(* times.  An item with an expiration may expire at any moment (Expire);   *)
(* one without never does.                                                 *)
(*                                                                         *)
(* Values are strings: the disk level stores json.Marshal(value) and       *)
(* returns json.Unmarshal of it, which gives the same string back.         *)
(***************************************************************************)
EXTENDS Naturals, Integers, Sequences, FiniteSets, SequencesExt

CONSTANTS
    Clients,    \* goroutines calling the MultiLevelCache
    Keys,
    Vals,       \* string values
    SizeOf,     \* SizeOf[v]: len(json.Marshal(v)), the file size
    Capacity,   \* memoryCapacity of NewMultiLevelCache
    DiskCap,    \* diskCapacity of NewMultiLevelCache
    None

ASSUME Capacity >= 1

Item == [val : Vals, ttl : BOOLEAN, expired : BOOLEAN]

VARIABLES
    mem,      \* MemoryCache.data: mem[k] is an Item or None
    lru,      \* the keys of mem, oldest AccessTime first
    files,    \* the files of the DiskCache directory: files[k] is a value or None
    dorder,   \* the keys of files, oldest modification time first
    dsize,    \* DiskCache.size
    pc,       \* pc[c]: "idle" or the next step of client c's call
    arg,      \* arg[c]: the call's [key, val, ttl]
    got,      \* got[c]: the value a Get read from disk, or None
    result,   \* result[c]: what c's last call returned: None, "found", "missing"
    deleted,  \* deleted[k]: a Delete(k) or Clear returned that no Set(k)
              \* overlapped, and no Set(k) has begun since
    tainted,  \* tainted[c]: the keys of c's Delete or Clear a Set overlapped
    stale     \* stale[c]: c's Get began while deleted[its key] held, and no
              \* Set of that key has begun since

vars == <<mem, lru, files, dorder, dsize, pc, arg, got, result, deleted, tainted, stale>>

cacheVars == <<mem, lru, files, dorder, dsize>>

InMem == {k \in Keys : mem[k] # None}

OnDisk == {k \in Keys : files[k] # None}

-----------------------------------------------------------------------------
(* MemoryCache                                                             *)

\* Get: a hit is present and not expired, and refreshes AccessTime.
MemHit(k) == mem[k] # None /\ ~mem[k].expired

MemTouch(k) == IF MemHit(k) THEN Append(Remove(lru, k), k) ELSE lru

\* SelectVictim: the key with the oldest AccessTime strictly older than
\* Now(), or "" (None) when there is none.
Victims == IF lru = << >> THEN {None} ELSE {lru[1], None}

MemFull == Cardinality(InMem) >= Capacity

\* Set: at capacity, delete the victim if SelectVictim found one (the key
\* being set included); then store the item.
MemSet(k, v, ttl) ==
    \E victim \in Victims :
        LET evict == MemFull /\ victim # None
            m1 == IF evict THEN [mem EXCEPT ![victim] = None] ELSE mem
            l1 == IF evict THEN Tail(lru) ELSE lru
        IN  /\ mem' = [m1 EXCEPT ![k] = [val |-> v, ttl |-> ttl, expired |-> FALSE]]
            /\ lru' = Append(Remove(l1, k), k)

MemDelete(k) ==
    /\ mem' = [mem EXCEPT ![k] = None]
    /\ lru' = Remove(lru, k)

MemClear ==
    /\ mem' = [k \in Keys |-> None]
    /\ lru' = << >>

-----------------------------------------------------------------------------
(* DiskCache                                                               *)

Size(fs) == LET F[S \in SUBSET Keys] ==
                    IF S = {} THEN 0
                    ELSE LET k == CHOOSE x \in S : TRUE IN SizeOf[fs[k]] + F[S \ {k}]
            IN  F[{k \in Keys : fs[k] # None}]

\* evict: remove the oldest files, each time subtracting its size, until
\* size is at most 70% of the capacity or no file is left.
RECURSIVE Evict(_, _, _)
Evict(fs, order, size) ==
    IF size > (DiskCap * 7) \div 10 /\ order # << >>
    THEN Evict([fs EXCEPT ![Head(order)] = None], Tail(order),
               size - SizeOf[fs[Head(order)]])
    ELSE [files |-> fs, order |-> order, size |-> size]

\* Mutant: Set gives up without writing when it had to evict.
DiskSetSkipAfterEvict(k, v) ==
    LET fileSize == IF files[k] # None THEN SizeOf[files[k]] ELSE 0
    IN  IF dsize - fileSize + SizeOf[v] > DiskCap
        THEN LET e == Evict(files, dorder, dsize) IN
             /\ files' = e.files /\ dorder' = e.order /\ dsize' = e.size
        ELSE /\ files' = [files EXCEPT ![k] = v]
             /\ dorder' = Append(Remove(dorder, k), k)
             /\ dsize' = dsize - fileSize + SizeOf[v]

\* Set: fileSize is stat'ed before evict; evict runs if the new size would
\* pass the capacity; then the file is written and size adjusted by the
\* fileSize read before evict.
FileSize(k) == IF files[k] # None THEN SizeOf[files[k]] ELSE 0

\* The directory once Set has checked the capacity and run evict if needed.
EvictFor(k, v) ==
    IF dsize - FileSize(k) + SizeOf[v] > DiskCap
    THEN Evict(files, dorder, dsize)
    ELSE [files |-> files, order |-> dorder, size |-> dsize]

DiskSet(k, v) ==
    LET e == EvictFor(k, v)
    IN  /\ files' = [e.files EXCEPT ![k] = v]
        /\ dorder' = Append(Remove(e.order, k), k)
        /\ dsize' = e.size - FileSize(k) + SizeOf[v]

\* Mutant: os.Remove fails and Delete returns with the file in place.
DiskDeleteKept(k) == UNCHANGED <<files, dorder, dsize>>

\* Delete: no file, nothing to do; else remove it and subtract its size.
DiskDelete(k) ==
    IF files[k] = None
    THEN UNCHANGED <<files, dorder, dsize>>
    ELSE /\ files' = [files EXCEPT ![k] = None]
         /\ dorder' = Remove(dorder, k)
         /\ dsize' = dsize - SizeOf[files[k]]

DiskClear ==
    /\ files' = [k \in Keys |-> None]
    /\ dorder' = << >>
    /\ dsize' = 0

-----------------------------------------------------------------------------
(* MultiLevelCache calls, one step per call of a level                     *)

Init ==
    /\ mem = [k \in Keys |-> None] /\ lru = << >>
    /\ files = [k \in Keys |-> None] /\ dorder = << >> /\ dsize = 0
    /\ pc = [c \in Clients |-> "idle"]
    /\ arg = [c \in Clients |-> [key |-> CHOOSE k \in Keys : TRUE,
                                 val |-> CHOOSE v \in Vals : TRUE, ttl |-> FALSE]]
    /\ got = [c \in Clients |-> None]
    /\ result = [c \in Clients |-> None]
    /\ deleted = [k \in Keys |-> FALSE]
    /\ tainted = [c \in Clients |-> {}]
    /\ stale = [c \in Clients |-> FALSE]

\* The keys some client's Set is writing.
Writing == {arg[c].key : c \in {d \in Clients : pc[d] \in {"mset", "dset"}}}

\* The keys client d's Delete or Clear in progress removes.
RemovingKeys(d) ==
    CASE pc[d] \in {"mdel", "ddel"}     -> {arg[d].key}
      [] pc[d] \in {"mclear", "dclear"} -> Keys
      [] OTHER                          -> {}

\* A client calls Get(k), Set(k, v, expiration), Delete(k) or Clear().  A
\* Set(k) taints every Delete or Clear of k in progress and clears the
\* staleness of every Get(k) in progress; a Delete or Clear begins tainted
\* by the Sets already in progress.
Call(c) ==
    /\ pc[c] = "idle"
    /\ \E k \in Keys, v \in Vals, ttl \in BOOLEAN, op \in {"mget", "mset", "mdel", "mclear"} :
          /\ pc' = [pc EXCEPT ![c] = op]
          /\ arg' = [arg EXCEPT ![c] = [key |-> k, val |-> v, ttl |-> ttl]]
          /\ deleted' = IF op = "mset" THEN [deleted EXCEPT ![k] = FALSE] ELSE deleted
          /\ stale' = [d \in Clients |->
                          IF d = c THEN op = "mget" /\ deleted[k]
                          ELSE stale[d] /\ ~(op = "mset" /\ arg[d].key = k)]
          /\ tainted' = [d \in Clients |->
                            IF d = c
                            THEN CASE op = "mdel"   -> {k} \cap Writing
                                   [] op = "mclear" -> Writing
                                   [] OTHER         -> {}
                            ELSE IF op = "mset" THEN tainted[d] \cup ({k} \cap RemovingKeys(d))
                            ELSE tainted[d]]
    /\ UNCHANGED <<cacheVars, got, result>>

Return(c, r) ==
    /\ pc' = [pc EXCEPT ![c] = "idle"]
    /\ result' = [result EXCEPT ![c] = r]

\* Get: memoryCache.Get; a hit returns.
GetMem(c) ==
    LET k == arg[c].key IN
    /\ pc[c] = "mget"
    /\ lru' = MemTouch(k)
    /\ IF MemHit(k)
         THEN Return(c, "found")
         ELSE /\ pc' = [pc EXCEPT ![c] = "dget"] /\ UNCHANGED result
    /\ UNCHANGED <<mem, files, dorder, dsize, arg, got, deleted, tainted, stale>>

\* diskCache.Get; a miss returns nil, false.
GetDisk(c) ==
    LET k == arg[c].key IN
    /\ pc[c] = "dget"
    /\ IF files[k] # None
         THEN /\ got' = [got EXCEPT ![c] = files[k]]
              /\ pc' = [pc EXCEPT ![c] = "promote"]
              /\ UNCHANGED result
         ELSE /\ Return(c, "missing") /\ UNCHANGED got
    /\ UNCHANGED <<cacheVars, arg, deleted, tainted, stale>>

\* Mutant: the promotion stores a nil value.
GetPromoteNil(c) ==
    /\ pc[c] = "promote"
    /\ MemSet(arg[c].key, None, TRUE)
    /\ Return(c, "found")
    /\ got' = [got EXCEPT ![c] = None]
    /\ UNCHANGED <<files, dorder, dsize, arg, deleted, tainted, stale>>

\* memoryCache.Set(key, value, 10*time.Minute), and return the value.
GetPromote(c) ==
    /\ pc[c] = "promote"
    /\ MemSet(arg[c].key, got[c], TRUE)
    /\ Return(c, "found")
    /\ got' = [got EXCEPT ![c] = None]
    /\ UNCHANGED <<files, dorder, dsize, arg, deleted, tainted, stale>>

SetMem(c) ==
    /\ pc[c] = "mset"
    /\ MemSet(arg[c].key, arg[c].val, arg[c].ttl)
    /\ pc' = [pc EXCEPT ![c] = "dset"]
    /\ UNCHANGED <<files, dorder, dsize, arg, got, result, deleted, tainted, stale>>

SetDisk(c) ==
    /\ pc[c] = "dset"
    /\ DiskSet(arg[c].key, arg[c].val)
    /\ Return(c, None)
    /\ UNCHANGED <<mem, lru, arg, got, deleted, tainted, stale>>

DeleteMem(c) ==
    /\ pc[c] = "mdel"
    /\ MemDelete(arg[c].key)
    /\ pc' = [pc EXCEPT ![c] = "ddel"]
    /\ UNCHANGED <<files, dorder, dsize, arg, got, result, deleted, tainted, stale>>

DeleteDisk(c) ==
    /\ pc[c] = "ddel"
    /\ DiskDelete(arg[c].key)
    /\ Return(c, None)
    /\ deleted' = [deleted EXCEPT ![arg[c].key] = @ \/ arg[c].key \notin tainted[c]]
    /\ UNCHANGED <<mem, lru, arg, got, tainted, stale>>

ClearMem(c) ==
    /\ pc[c] = "mclear"
    /\ MemClear
    /\ pc' = [pc EXCEPT ![c] = "dclear"]
    /\ UNCHANGED <<files, dorder, dsize, arg, got, result, deleted, tainted, stale>>

ClearDisk(c) ==
    /\ pc[c] = "dclear"
    /\ DiskClear
    /\ Return(c, None)
    /\ deleted' = [k \in Keys |-> deleted[k] \/ k \notin tainted[c]]
    /\ UNCHANGED <<mem, lru, arg, got, tainted, stale>>

-----------------------------------------------------------------------------
(* Time                                                                    *)

\* An item stored with an expiration passes it.
Expire(k) ==
    /\ mem[k] # None /\ mem[k].ttl /\ ~mem[k].expired
    /\ mem' = [mem EXCEPT ![k].expired = TRUE]
    /\ UNCHANGED <<lru, files, dorder, dsize, pc, arg, got, result, deleted, tainted, stale>>

\* cleanExpired, every five minutes: delete the expired items.
CleanExpired ==
    /\ \E k \in InMem : mem[k].expired
    /\ mem' = [k \in Keys |-> IF mem[k] # None /\ mem[k].expired THEN None ELSE mem[k]]
    /\ lru' = SelectSeq(lru, LAMBDA k : ~mem[k].expired)
    /\ UNCHANGED <<files, dorder, dsize, pc, arg, got, result, deleted, tainted, stale>>

ClientStep(c) ==
    \/ Call(c) \/ GetMem(c) \/ GetDisk(c) \/ GetPromote(c)
    \/ SetMem(c) \/ SetDisk(c) \/ DeleteMem(c) \/ DeleteDisk(c)
    \/ ClearMem(c) \/ ClearDisk(c)

Next ==
    \/ \E c \in Clients : ClientStep(c)
    \/ \E k \in Keys : Expire(k)
    \/ CleanExpired

Spec == Init /\ [][Next]_vars

-----------------------------------------------------------------------------
(* File-system errors, which DiskCache swallows: checked apart from Spec   *)

\* DiskCache.Set when os.WriteFile fails: the files evict removed are gone,
\* size is what evict left, the old file (if evict spared it) keeps its old
\* value, and Set returns nothing for the caller to see.
SetDiskWriteFails(c) ==
    LET e == EvictFor(arg[c].key, arg[c].val) IN
    /\ pc[c] = "dset"
    /\ files' = e.files /\ dorder' = e.order /\ dsize' = e.size
    /\ Return(c, None)
    /\ UNCHANGED <<mem, lru, arg, got, deleted, tainted, stale>>

\* DiskCache.Delete when os.Remove fails: it returns with the file in place.
DeleteDiskRemoveFails(c) ==
    /\ pc[c] = "ddel" /\ files[arg[c].key] # None
    /\ Return(c, None)
    /\ deleted' = [deleted EXCEPT ![arg[c].key] = @ \/ arg[c].key \notin tainted[c]]
    /\ UNCHANGED <<mem, lru, files, dorder, dsize, arg, got, tainted, stale>>

FaultNext ==
    \/ Next
    \/ \E c \in Clients : SetDiskWriteFails(c) \/ DeleteDiskRemoveFails(c)

FaultSpec == Init /\ [][FaultNext]_vars
-----------------------------------------------------------------------------

TypeOK ==
    /\ mem \in [Keys -> Item \cup {None}]
    /\ lru \in Seq(Keys) /\ Len(lru) = Cardinality(InMem) /\ ToSet(lru) = InMem
    /\ files \in [Keys -> Vals \cup {None}]
    /\ dorder \in Seq(Keys) /\ Len(dorder) = Cardinality(OnDisk) /\ ToSet(dorder) = OnDisk
    /\ dsize \in Int
    /\ pc \in [Clients -> {"idle", "mget", "dget", "promote", "mset", "dset",
                           "mdel", "ddel", "mclear", "dclear"}]
    /\ got \in [Clients -> Vals \cup {None}]
    /\ result \in [Clients -> {None, "found", "missing"}]
    /\ deleted \in [Keys -> BOOLEAN] /\ stale \in [Clients -> BOOLEAN]
    /\ tainted \in [Clients -> SUBSET Keys]

\* MemoryCache.Set evicts before it inserts whenever the map is at capacity,
\* so the memory level never holds more than memoryCapacity items, whatever
\* mix of Set, promotion by Get, expiry and cleanExpired runs.
MemoryWithinCapacity == Cardinality(InMem) <= Capacity

\* When no call is in progress, a key held by both levels has the same
\* value in both: Set writes both levels and Get promotes what the disk
\* holds, whatever either level evicted in between.
LevelsCoherent ==
    (\A c \in Clients : pc[c] = "idle") =>
        \A k \in InMem \cap OnDisk : mem[k].val = files[k]

\* A deleted key stays deleted: a Get that begins after a Delete(k) (or
\* Clear) has returned, when no Set(k) overlapped that Delete or has begun
\* since, does not find k.  Only a history no atomic map could produce
\* breaks it: a Get that read the disk before the Delete promotes the value
\* back into memory after it.
NoResurrection ==
    \A c \in Clients : (pc[c] = "idle" /\ result[c] = "found") => ~stale[c]

\* The value a Get(k) would return, with a call whose first level is done
\* taken as already done: Set's value, or nothing after Delete or Clear.
\* (With several clients in such a step the map picks one of them.)
View ==
    LET SetBy(k) == {c \in Clients : pc[c] = "dset" /\ arg[c].key = k}
        Removing(k) == \E c \in Clients :
                          pc[c] = "dclear" \/ (pc[c] = "ddel" /\ arg[c].key = k)
    IN  [k \in Keys |->
           IF SetBy(k) # {} THEN arg[CHOOSE c \in SetBy(k) : TRUE].val
           ELSE IF Removing(k) THEN None
           ELSE IF MemHit(k) THEN mem[k].val
           ELSE files[k]]

\* The <<key, value>> pairs of the Set calls in progress.
SetsInProgress == {<<arg[c].key, arg[c].val>> : c \in {d \in Clients : pc[d] \in {"mset", "dset"}}}

Lossy == INSTANCE LossyMap WITH store <- View, writes <- SetsInProgress

\* The MultiLevelCache is a lossy map: what Get(k) would return changes only
\* to nothing or to the value of a Set(k) in progress, whatever each level
\* evicts or expires in between; no overwritten or deleted value comes back
\* from the disk level.
CacheRefinesLossyMap == Lossy!Spec

\* DiskCache.size is the total size of the files in the cache directory,
\* the figure Set compares with the capacity before it writes.
DiskSizeAccounted == dsize = Size(files)
=============================================================================
