----------------------------- MODULE P2PServer ------------------------------
(***************************************************************************)
(* p2p.Server of network/p2p/p2p.go: Start with its accept goroutine,      *)
(* handleConnection, the handlePeer read loop with its deferred close and  *)
(* delete, and Stop.  Each connection c is dialed by a remote node, which  *)
(* then sends frames or hangs up; Peer.Close closes our side.              *)
(*                                                                         *)
(* s.isRunning is read without a lock by the accept goroutine and by every *)
(* handlePeer.  A handler registers its peer under peersMu before its      *)
(* first read, and Stop sweeps the map under peersMu after clearing the    *)
(* flag, so a handler that misses the cleared flag has a peer Stop closes: *)
(* a stale read changes no outcome, and reads see the last write here.     *)
(* The listener is never closed, so a second Start fails in net.Listen and *)
(* the accept goroutine stays blocked in Accept until a remote dials.      *)
(***************************************************************************)
EXTENDS FiniteSets, Functions

CONSTANTS
    Conns,        \* connections remote nodes may open
    Ids,          \* values of time.Now().UnixNano() handleConnection may read
    ClockRepeats, \* two handleConnection calls may read the same time
    None

VARIABLES
    isRunning,  \* s.isRunning
    bound,      \* the listener of Start is open (Stop never closes it)
    acceptPc,   \* accept goroutine: "none", "check", "accept", "exited"
    stopPc,     \* Stop caller: "idle", "sweep", "done"
    remote,     \* remote[c]: "idle", "dialed", "open", "hungup"
    handler,    \* handler[c]: "none", "register", "check", "read", "exit", "done"
    closed,     \* closed[c]: Peer.Close was called on c
    id,         \* id[c]: the NodeID handleConnection gave c, or None
    peers       \* s.peers: peerID -> connection, or None

srvVars == <<isRunning, bound, acceptPc, stopPc, remote, handler, closed, id, peers>>

\* NewServer.
Init ==
    /\ isRunning = FALSE
    /\ bound = FALSE
    /\ acceptPc = "none"
    /\ stopPc = "idle"
    /\ remote = [c \in Conns |-> "idle"]
    /\ handler = [c \in Conns |-> "none"]
    /\ closed = [c \in Conns |-> FALSE]
    /\ id = [c \in Conns |-> None]
    /\ peers = [i \in Ids |-> None]

\* The connections s.peers holds.
Registered == Range(peers) \ {None}

\* Start: returns nil when running and an error when net.Listen fails (the
\* port is still held); both leave the state as it is, so only the first
\* call is a step.  It sets isRunning and spawns the accept goroutine.
Start ==
    /\ ~isRunning /\ ~bound
    /\ isRunning' = TRUE
    /\ bound' = TRUE
    /\ acceptPc' = "check"
    /\ UNCHANGED <<stopPc, remote, handler, closed, id, peers>>

\* A remote node connects to the open listener.
Dial(c) ==
    /\ bound /\ remote[c] = "idle"
    /\ remote' = [remote EXCEPT ![c] = "dialed"]
    /\ UNCHANGED <<isRunning, bound, acceptPc, stopPc, handler, closed, id, peers>>

\* The remote sends bytes ReadMsg cannot complete: it hangs up, or the
\* payload does not decompress.
HangUp(c) ==
    /\ remote[c] = "open"
    /\ remote' = [remote EXCEPT ![c] = "hungup"]
    /\ UNCHANGED <<isRunning, bound, acceptPc, stopPc, handler, closed, id, peers>>

\* The accept loop's condition `for s.isRunning`.
AcceptCheck ==
    /\ acceptPc = "check"
    /\ acceptPc' = IF isRunning THEN "accept" ELSE "exited"
    /\ UNCHANGED <<isRunning, bound, stopPc, remote, handler, closed, id, peers>>

\* listener.Accept returns c; `go s.handleConnection(conn)` without a
\* second look at s.isRunning.
Accept(c) ==
    /\ acceptPc = "accept" /\ remote[c] = "dialed"
    /\ remote' = [remote EXCEPT ![c] = "open"]
    /\ handler' = [handler EXCEPT ![c] = "register"]
    /\ acceptPc' = "check"
    /\ UNCHANGED <<isRunning, bound, stopPc, closed, id, peers>>

\* listener.Accept fails (too many open files, say): the goroutine returns
\* when it sees the server stopped, and loops again otherwise.
AcceptFail ==
    /\ acceptPc = "accept"
    /\ acceptPc' = IF isRunning THEN "check" ELSE "exited"
    /\ UNCHANGED <<isRunning, bound, stopPc, remote, handler, closed, id, peers>>

\* handleConnection: the id from the clock, the peer put in s.peers under
\* peersMu (replacing any peer of the same id), `go s.handlePeer(peer)`.
\* Without ClockRepeats the clock reading differs from every earlier one.
Register(c, i) ==
    /\ handler[c] = "register"
    /\ ClockRepeats \/ i \notin Range(id)
    /\ id' = [id EXCEPT ![c] = i]
    /\ peers' = [peers EXCEPT ![i] = c]
    /\ handler' = [handler EXCEPT ![c] = "check"]
    /\ UNCHANGED <<isRunning, bound, acceptPc, stopPc, remote, closed>>

HandlerCheck(c) ==
    /\ handler[c] = "check"
    /\ handler' = [handler EXCEPT ![c] = IF isRunning THEN "read" ELSE "exit"]
    /\ UNCHANGED <<isRunning, bound, acceptPc, stopPc, remote, closed, id, peers>>

\* ReadMsg returns a frame the remote sent; handleMsg only logs it.
ReadOk(c) ==
    /\ handler[c] = "read" /\ remote[c] = "open" /\ ~closed[c]
    /\ handler' = [handler EXCEPT ![c] = "check"]
    /\ UNCHANGED <<isRunning, bound, acceptPc, stopPc, remote, closed, id, peers>>

\* ReadMsg fails: our side is closed or the remote's bytes ended.
ReadErr(c) ==
    /\ handler[c] = "read" /\ (closed[c] \/ remote[c] = "hungup")
    /\ handler' = [handler EXCEPT ![c] = "exit"]
    /\ UNCHANGED <<isRunning, bound, acceptPc, stopPc, remote, closed, id, peers>>

\* handlePeer's deferred function: peer.Close(), then delete(s.peers, peerID)
\* under peersMu, whichever peer that id now names.
HandlerExit(c) ==
    /\ handler[c] = "exit"
    /\ closed' = [closed EXCEPT ![c] = TRUE]
    /\ peers' = [peers EXCEPT ![id[c]] = None]
    /\ handler' = [handler EXCEPT ![c] = "done"]
    /\ UNCHANGED <<isRunning, bound, acceptPc, stopPc, remote, id>>

\* Stop: returns at once unless running; clears isRunning and cancels the
\* context (which nothing waits on).
StopFlag ==
    /\ stopPc = "idle" /\ isRunning
    /\ isRunning' = FALSE
    /\ stopPc' = "sweep"
    /\ UNCHANGED <<bound, acceptPc, remote, handler, closed, id, peers>>

StopSweep ==
    /\ stopPc = "sweep"
    /\ closed' = [c \in Conns |-> closed[c] \/ c \in Registered]
    /\ peers' = [i \in Ids |-> None]
    /\ stopPc' = "done"
    /\ UNCHANGED <<isRunning, bound, acceptPc, remote, handler, id>>

ConnStep(c) ==
    \/ Accept(c) \/ HandlerCheck(c) \/ ReadErr(c) \/ HandlerExit(c)
    \/ \E i \in Ids : Register(c, i)

SrvNext ==
    \/ Start \/ AcceptCheck \/ AcceptFail \/ StopFlag \/ StopSweep
    \/ \E c \in Conns : Dial(c) \/ HangUp(c) \/ ReadOk(c) \/ ConnStep(c)

\* The server's goroutines run whenever they can; the remote nodes and the
\* caller of Start and Stop are the environment.
SrvFairness ==
    /\ WF_srvVars(AcceptCheck) /\ WF_srvVars(StopSweep)
    /\ \A c \in Conns : WF_srvVars(ConnStep(c))

SrvSpec == Init /\ [][SrvNext]_srvVars /\ SrvFairness
-----------------------------------------------------------------------------

SrvTypeOK ==
    /\ isRunning \in BOOLEAN /\ bound \in BOOLEAN
    /\ acceptPc \in {"none", "check", "accept", "exited"}
    /\ stopPc \in {"idle", "sweep", "done"}
    /\ remote \in [Conns -> {"idle", "dialed", "open", "hungup"}]
    /\ handler \in [Conns -> {"none", "register", "check", "read", "exit", "done"}]
    /\ closed \in [Conns -> BOOLEAN]
    /\ id \in [Conns -> Ids \cup {None}]
    /\ peers \in [Ids -> Conns \cup {None}]

=============================================================================
