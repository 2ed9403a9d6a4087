------------------------------ MODULE MCIndex -------------------------------
EXTENDS Index

\* Two blocks competing at number 1 and one at number 2.
MCBlocks == {<<1, "h1">>, <<1, "h2">>, <<2, "h3">>}

\* One-byte addresses and slots: every address has the same length, as a
\* common.Address has.
MCAddrs == {<<7>>, <<8>>}
MCSlots == {<<1>>, <<2>>}
=============================================================================
