--------------------------- MODULE MCStorageCache ---------------------------
EXTENDS StorageCache

CONSTANTS c1, c2, k1, k2, k3, v1, v2

MCClients == {c1, c2}
MCOneClient == {c1}
MCKeys == {k1, k2, k3}
MCTwoKeys == {k1, k2}
MCOneKey == {k1}
MCVals == {v1, v2}

\* The JSON encodings of the two strings are 1 and 2 size units long.
MCSizeOf == [v \in MCVals |-> IF v = v1 THEN 1 ELSE 2]
\* deleted, stale, result and the arguments of an idle client are read by
\* NoResurrection alone (Call overwrites the arguments, Return the result):
\* runs that do not check it may identify states that differ in them only.
CallsView ==
    <<mem, lru, files, dorder, dsize, pc, got,
      [c \in Clients |-> IF pc[c] = "idle" THEN None ELSE arg[c]]>>
=============================================================================
