-------------------------- MODULE OptimizedStorage --------------------------
(***************************************************************************)
(* OptimizedStorage of core/storage/storage.go: a hot MemoryCache (LRU)    *)
(* over a cold DiskCache, with a count of reads served by the cold level.  *)
(* BlockStorage and StateStorage only forward to one of these.             *)
(*                                                                         *)
(* The struct's own mutex is never taken, so a call interleaves with the   *)
(* calls of other goroutines between its steps: each MemoryCache or        *)
(* DiskCache method, and each section under coldAccessMutex, is one step.  *)
(* Set stores with expiration 0, so no item expires; the goroutine it      *)
(* starts, checkHotToColdMigration, has an empty body, and migrateToCold   *)
(* is never called.  The cold level therefore holds only the files an      *)
(* earlier process left in dataDir/cold: NewDiskCache finds them there but *)
(* starts its size at 0.                                                   *)
(***************************************************************************)
EXTENDS Naturals, Integers, Sequences, FiniteSets, SequencesExt

CONSTANTS
    Clients,    \* goroutines calling the storage
    Keys,
    Vals,
    FileBytes,  \* the size of every cold file
    Capacity,   \* hotCapacity
    DiskCap,    \* coldCapacity
    None

\* coldAccessCount passes this bound, "if count > 3", before a migration.
MigrateAfter == 3

VARIABLES
    mem, lru,               \* the hot MemoryCache, as in StorageCache
    files, dorder, dsize,   \* the cold DiskCache, as in StorageCache
    coldAccessCount,        \* coldAccessCount[k], 0 when absent
    pc,                     \* pc[c]: "idle" or the next step of c's call
    arg,                    \* arg[c]: the call's [key, val]
    got,                    \* got[c]: the value Get read from the cold level
    last                    \* last[k]: what Get(k) should return: the value of the
                            \* last Set(k), None once a Delete(k) or Clear has
                            \* emptied the hot level, the leftover file at start

vars == <<mem, lru, files, dorder, dsize, coldAccessCount, pc, arg, got, last>>

Levels == INSTANCE StorageCache
    WITH SizeOf <- [v \in Vals |-> FileBytes],
         result <- [c \in Clients |-> None],
         deleted <- [k \in Keys |-> FALSE],
         stale <- [c \in Clients |-> FALSE],
         tainted <- [c \in Clients |-> {}]

Init ==
    /\ mem = [k \in Keys |-> None] /\ lru = << >>
    /\ files \in [Keys -> Vals \cup {None}]
    /\ dorder \in SetToSeqs({k \in Keys : files[k] # None})
    /\ dsize = 0
    /\ coldAccessCount = [k \in Keys |-> 0]
    /\ pc = [c \in Clients |-> "idle"]
    /\ arg = [c \in Clients |-> [key |-> CHOOSE k \in Keys : TRUE,
                                 val |-> CHOOSE v \in Vals : TRUE]]
    /\ got = [c \in Clients |-> None]
    /\ last = files

Goto(c, step) == pc' = [pc EXCEPT ![c] = step]

Done(c) == pc' = [pc EXCEPT ![c] = "idle"]

\* Get(k), Delete(k) or Clear() begins.  Set(k, v) is one MemoryCache.Set
\* and returns: the goroutine it starts does nothing.
Call(c) ==
    /\ pc[c] = "idle"
    /\ \E k \in Keys, v \in Vals :
          /\ arg' = [arg EXCEPT ![c] = [key |-> k, val |-> v]]
          /\ \/ Goto(c, "getHot") /\ UNCHANGED <<mem, lru, files, dorder, dsize, last>>
             \/ /\ Levels!MemSet(k, v, FALSE)
                /\ last' = [last EXCEPT ![k] = v]
                /\ UNCHANGED <<pc, files, dorder, dsize>>
             \/ Goto(c, "delHot") /\ UNCHANGED <<mem, lru, files, dorder, dsize, last>>
             \/ Goto(c, "clrHot") /\ UNCHANGED <<mem, lru, files, dorder, dsize, last>>
    /\ UNCHANGED <<coldAccessCount, got>>

\* Get: a hot hit returns; otherwise the cold level is read.
GetHot(c) ==
    LET k == arg[c].key IN
    /\ pc[c] = "getHot"
    /\ lru' = Levels!MemTouch(k)
    /\ IF Levels!MemHit(k) THEN Done(c) ELSE Goto(c, "getCold")
    /\ UNCHANGED <<mem, files, dorder, dsize, coldAccessCount, arg, got, last>>

GetCold(c) ==
    LET k == arg[c].key IN
    /\ pc[c] = "getCold"
    /\ got' = [got EXCEPT ![c] = files[k]]
    /\ IF files[k] = None THEN Done(c) ELSE Goto(c, "count")
    /\ UNCHANGED <<mem, lru, files, dorder, dsize, coldAccessCount, arg, last>>

\* Under coldAccessMutex: count the read and take the new count; above
\* the bound the value migrates to the hot level.
Count(c) ==
    LET k == arg[c].key IN
    /\ pc[c] = "count"
    /\ coldAccessCount' = [coldAccessCount EXCEPT ![k] = @ + 1]
    /\ IF coldAccessCount[k] + 1 > MigrateAfter THEN Goto(c, "migHot") ELSE Done(c)
    /\ UNCHANGED <<mem, lru, files, dorder, dsize, arg, got, last>>

\* migrateToHot: hotStorage.Set of the value read, then coldStorage.Delete.
MigHot(c) ==
    /\ pc[c] = "migHot"
    /\ Levels!MemSet(arg[c].key, got[c], FALSE)
    /\ Goto(c, "migCold")
    /\ UNCHANGED <<files, dorder, dsize, coldAccessCount, arg, got, last>>

MigCold(c) ==
    /\ pc[c] = "migCold"
    /\ Levels!DiskDelete(arg[c].key)
    /\ Goto(c, "migCount")
    /\ UNCHANGED <<mem, lru, coldAccessCount, arg, got, last>>

\* Under coldAccessMutex: delete(s.coldAccessCount, key).
MigCount(c) ==
    /\ pc[c] = "migCount"
    /\ coldAccessCount' = [coldAccessCount EXCEPT ![arg[c].key] = 0]
    /\ Done(c)
    /\ UNCHANGED <<mem, lru, files, dorder, dsize, arg, got, last>>

\* Delete: hot level, cold level, then the count under coldAccessMutex.
DelHot(c) ==
    /\ pc[c] = "delHot"
    /\ Levels!MemDelete(arg[c].key)
    /\ last' = [last EXCEPT ![arg[c].key] = None]
    /\ Goto(c, "delCold")
    /\ UNCHANGED <<files, dorder, dsize, coldAccessCount, arg, got>>

DelCold(c) ==
    /\ pc[c] = "delCold"
    /\ Levels!DiskDelete(arg[c].key)
    /\ Goto(c, "delCount")
    /\ UNCHANGED <<mem, lru, coldAccessCount, arg, got, last>>

DelCount(c) ==
    /\ pc[c] = "delCount"
    /\ coldAccessCount' = [coldAccessCount EXCEPT ![arg[c].key] = 0]
    /\ Done(c)
    /\ UNCHANGED <<mem, lru, files, dorder, dsize, arg, got, last>>

\* Clear: hot level, cold level, then a fresh count map.
ClrHot(c) ==
    /\ pc[c] = "clrHot"
    /\ Levels!MemClear
    /\ last' = [k \in Keys |-> None]
    /\ Goto(c, "clrCold")
    /\ UNCHANGED <<files, dorder, dsize, coldAccessCount, arg, got>>

ClrCold(c) ==
    /\ pc[c] = "clrCold"
    /\ Levels!DiskClear
    /\ Goto(c, "clrCount")
    /\ UNCHANGED <<mem, lru, coldAccessCount, arg, got, last>>

ClrCount(c) ==
    /\ pc[c] = "clrCount"
    /\ coldAccessCount' = [k \in Keys |-> 0]
    /\ Done(c)
    /\ UNCHANGED <<mem, lru, files, dorder, dsize, arg, got, last>>

Next ==
    \E c \in Clients :
        \/ Call(c)
        \/ GetHot(c) \/ GetCold(c) \/ Count(c)
        \/ MigHot(c) \/ MigCold(c) \/ MigCount(c)
        \/ DelHot(c) \/ DelCold(c) \/ DelCount(c)
        \/ ClrHot(c) \/ ClrCold(c) \/ ClrCount(c)

Spec == Init /\ [][Next]_vars
-----------------------------------------------------------------------------

\* What a Get(k) beginning now would return.
Visible(k) == IF Levels!MemHit(k) THEN mem[k].val ELSE files[k]

TypeOK ==
    /\ mem \in [Keys -> Levels!Item \cup {None}]
    /\ files \in [Keys -> Vals \cup {None}]
    /\ dsize \in Int
    /\ coldAccessCount \in [Keys -> 0 .. MigrateAfter + Cardinality(Clients)]
    /\ pc \in [Clients -> {"idle", "getHot", "getCold", "count", "migHot", "migCold",
                            "migCount", "delHot", "delCold", "delCount",
                            "clrHot", "clrCold", "clrCount"}]
    /\ last \in [Keys -> Vals \cup {None}]

\* Reads see the last write: unless a Delete(k) or Clear is under way, a
\* Get(k) returns the value of the last Set(k) that returned, or nothing
\* after a Delete(k) or Clear, or else the file the cold level started
\* with.  A Get that read the cold level before a Set(k) and migrates
\* after it puts the older value back in the hot level.
ReadYourWrites ==
    \A k \in Keys :
        (\A c \in Clients : pc[c] \in {"delHot", "delCold", "delCount",
                                       "clrHot", "clrCold", "clrCount"}
                             => arg[c].key # k /\ pc[c] \notin {"clrHot", "clrCold", "clrCount"})
        => Visible(k) = last[k]
=============================================================================
