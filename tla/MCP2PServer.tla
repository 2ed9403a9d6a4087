---------------------------- MODULE MCP2PServer -----------------------------
(***************************************************************************)
(* The server of P2PServer with the send path of PeerWriter on connection  *)
(* c1: the Peer handleConnection made for c1 is the one whose WriteMsg the *)
(* writer models, and its Conn is open until the server's Peer.Close (from *)
(* Stop's sweep or handlePeer's defer) closes c1.  Writes may fail once    *)
(* c1's remote is "hungup"; that state also stands for a frame that does   *)
(* not decompress, after which writes could in fact still succeed.         *)
(***************************************************************************)
EXTENDS P2PServer

CONSTANTS c1, c2, i1, i2, MaxMsgs, Priorities, WritePriority

VARIABLES heap, submitted, flusher, local, wire

W == INSTANCE PeerWriter WITH connOpen <- ~closed[c1], peerUp <- remote[c1] # "hungup"

wVars == <<heap, submitted, flusher, local, wire>>

allVars == <<srvVars, wVars>>

\* The connection the writer sends on.
MCConns == {c1}
MCIds == {i1}

\* Two connections whose handleConnection calls may read the same time.
MCTwoConns == {c1, c2}
MCTwoIds == {i1, i2}

\* priority.LowPriority, NormalPriority, HighPriority
MCPriorities == {0, 1, 2}

NodeInit == Init /\ W!Init

\* WriteMsg needs the *Peer, which exists once handleConnection made it.
NodeNext ==
    \/ SrvNext /\ UNCHANGED wVars
    \/ UNCHANGED srvVars /\ id[c1] # None /\ W!WriteMsg
    \/ UNCHANGED srvVars /\ \E f \in W!Msgs : W!FlushStep(f)

NodeFairness ==
    /\ SrvFairness
    /\ \A f \in W!Msgs : WF_allVars(UNCHANGED srvVars /\ W!FlushStep(f))

NodeSpec == NodeInit /\ [][NodeNext]_allVars /\ NodeFairness

MessageAccounted == W!MessageAccounted

EventuallyWritten == W!EventuallyWritten
=============================================================================
