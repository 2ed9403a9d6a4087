--------------------------- MODULE MCSyncManager ---------------------------
EXTENDS SyncManager

CONSTANTS hG, t1, t2, s1, s2

\* createGenesisBlock: parent common.Hash{}, number 0.
MCGenesis == [hash |-> hG, parent |-> ZeroHash, number |-> 0]

\* Two distinct seconds of time.Now().Unix().
MCTimes == {t1, t2}

\* One second: blocks fetched for the same parent and height are identical.
MCOneTime == {t1}

MCSyncs == {s1, s2}
=============================================================================
