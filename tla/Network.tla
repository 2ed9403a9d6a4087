------------------------------ MODULE Network -------------------------------
(***************************************************************************)
(* network.Network of network/network.go with the RPC server of            *)
(* rpc/server.go it starts.  Start spawns the listener goroutine, the      *)
(* discovery goroutine (it only logs) and, when RPC is enabled, a          *)
(* goroutine running rpcServer.Start, and only then sets n.isStarted.      *)
(* The listener loops `for n.isStarted` around a blocking Accept and       *)
(* closes its listener when it returns; Stop closes the RPC server it      *)
(* finds in s.server and clears n.isStarted.  Start number g spawns the    *)
(* listener and RPC goroutines g.  isStarted and s.server are read and     *)
(* written without a lock, so a goroutine may read either the value before *)
(* or after a concurrent write: the interleavings give both.               *)
(***************************************************************************)
EXTENDS Naturals, FiniteSets

CONSTANTS
    MaxStarts,   \* Start calls in a run
    RpcEnabled,  \* cfg.RPC.Enabled: NewNetwork made an rpc.Server
    JwtEnabled,  \* config.JWT.Enabled with a secret set
    Peers,       \* peer ids AddPeer and RemovePeer are called with
    None

Starts == 1 .. MaxStarts

VARIABLES
    isStarted,   \* n.isStarted
    caller,      \* the goroutine calling Start and Stop: "idle", "starting", "running"
    starts,      \* Start calls that spawned goroutines
    lpc,         \* lpc[g]: listener g: "none", "listen", "check", "accept", "exited", "failed"
    port,        \* the listener goroutine whose listener holds cfg.Port, or None
    rpc,         \* rpc[g]: RPC goroutine g: "none", "start", "serve", "serving", "done"
    httpSrv,     \* s.server: the http.Server RPC goroutine g made, or None
    closedSrv,   \* the http.Servers Close was called on
    rpcPort,     \* the http.Server listening on the RPC port, or None
    peers,       \* the keys of n.peers
    gauge        \* metrics.PeerCount

vars == <<isStarted, caller, starts, lpc, port, rpc, httpSrv, closedSrv, rpcPort,
          peers, gauge>>

\* NewNetwork.
Init ==
    /\ isStarted = FALSE
    /\ caller = "idle"
    /\ starts = 0
    /\ lpc = [g \in Starts |-> "none"]
    /\ port = None
    /\ rpc = [g \in Starts |-> "none"]
    /\ httpSrv = None
    /\ closedSrv = {}
    /\ rpcPort = None
    /\ peers = {}
    /\ gauge = 0

\* Start past its `if n.isStarted` check: the goroutines are spawned, and
\* n.isStarted is still FALSE.
StartSpawn ==
    /\ caller = "idle" /\ ~isStarted /\ starts < MaxStarts
    /\ starts' = starts + 1
    /\ lpc' = [lpc EXCEPT ![starts + 1] = "listen"]
    /\ rpc' = IF RpcEnabled THEN [rpc EXCEPT ![starts + 1] = "start"] ELSE rpc
    /\ caller' = "starting"
    /\ UNCHANGED <<isStarted, port, httpSrv, closedSrv, rpcPort, peers, gauge>>

\* Start's `n.isStarted = true`; it returns nil.
StartReturn ==
    /\ caller = "starting"
    /\ isStarted' = TRUE
    /\ caller' = "running"
    /\ UNCHANGED <<starts, lpc, port, rpc, httpSrv, closedSrv, rpcPort, peers, gauge>>

\* Stop: rpcServer.Stop closes the http.Server s.server holds, if any
\* (ListenAndServe then returns ErrServerClosed and the goroutine logs it
\* and ends); n.cancel(), which nothing waits on; n.isStarted = false.  The
\* listener is not closed.
Stop ==
    /\ caller = "running" /\ isStarted
    /\ closedSrv' = IF httpSrv = None THEN closedSrv ELSE closedSrv \cup {httpSrv}
    /\ rpcPort' = IF rpcPort = httpSrv THEN None ELSE rpcPort
    /\ rpc' = IF httpSrv # None /\ rpc[httpSrv] = "serving"
                 THEN [rpc EXCEPT ![httpSrv] = "done"] ELSE rpc
    /\ isStarted' = FALSE
    /\ caller' = "idle"
    /\ UNCHANGED <<starts, lpc, port, httpSrv, peers, gauge>>

\* startListener's net.Listen: it fails while an earlier listener of this
\* node still holds the port, and the goroutine logs and returns.
Listen(g) ==
    /\ lpc[g] = "listen"
    /\ IF port = None
          THEN lpc' = [lpc EXCEPT ![g] = "check"] /\ port' = g
          ELSE lpc' = [lpc EXCEPT ![g] = "failed"] /\ UNCHANGED port
    /\ UNCHANGED <<isStarted, caller, starts, rpc, httpSrv, closedSrv, rpcPort, peers, gauge>>

\* The goroutine leaves with its deferred listener.Close().
Exit(g) ==
    /\ lpc' = [lpc EXCEPT ![g] = "exited"]
    /\ port' = IF port = g THEN None ELSE port

\* The loop condition `for n.isStarted`.
LoopCheck(g) ==
    /\ lpc[g] = "check"
    /\ IF isStarted
          THEN lpc' = [lpc EXCEPT ![g] = "accept"] /\ UNCHANGED port
          ELSE Exit(g)
    /\ UNCHANGED <<isStarted, caller, starts, rpc, httpSrv, closedSrv, rpcPort, peers, gauge>>

\* listener.Accept returns a connection a remote node opened; the
\* goroutine spawned for it only logs.  Accept blocks until then.
AcceptConn(g) ==
    /\ lpc[g] = "accept"
    /\ lpc' = [lpc EXCEPT ![g] = "check"]
    /\ UNCHANGED <<isStarted, caller, starts, port, rpc, httpSrv, closedSrv, rpcPort, peers, gauge>>

\* listener.Accept fails: the goroutine returns if n.isStarted is now
\* false, and loops again otherwise.
AcceptErr(g) ==
    /\ lpc[g] = "accept"
    /\ IF isStarted
          THEN lpc' = [lpc EXCEPT ![g] = "check"] /\ UNCHANGED port
          ELSE Exit(g)
    /\ UNCHANGED <<isStarted, caller, starts, rpc, httpSrv, closedSrv, rpcPort, peers, gauge>>

\* rpc.Server.Start up to ListenAndServe: with JWT enabled the token is
\* generated and written to its file, and a failed write ends Start with
\* an error; otherwise s.server is set to a new http.Server.
RpcStart(g) ==
    /\ rpc[g] = "start"
    /\ \/ /\ rpc' = [rpc EXCEPT ![g] = "serve"]
          /\ httpSrv' = g
       \/ /\ JwtEnabled
          /\ rpc' = [rpc EXCEPT ![g] = "done"]
          /\ UNCHANGED httpSrv
    /\ UNCHANGED <<isStarted, caller, starts, lpc, port, closedSrv, rpcPort, peers, gauge>>

\* ListenAndServe on the http.Server this goroutine made: ErrServerClosed
\* if Close came first, a bind error while another server holds the port,
\* and otherwise it serves until Close.
RpcListen(g) ==
    /\ rpc[g] = "serve"
    /\ IF g \notin closedSrv /\ rpcPort = None
          THEN rpc' = [rpc EXCEPT ![g] = "serving"] /\ rpcPort' = g
          ELSE rpc' = [rpc EXCEPT ![g] = "done"] /\ UNCHANGED rpcPort
    /\ UNCHANGED <<isStarted, caller, starts, lpc, port, httpSrv, closedSrv, peers, gauge>>

\* AddPeer and RemovePeer: the map and the gauge, both under peersMutex.
AddPeer(p) ==
    /\ peers' = peers \cup {p}
    /\ gauge' = Cardinality(peers')
    /\ UNCHANGED <<isStarted, caller, starts, lpc, port, rpc, httpSrv, closedSrv, rpcPort>>

RemovePeer(p) ==
    /\ peers' = peers \ {p}
    /\ gauge' = Cardinality(peers')
    /\ UNCHANGED <<isStarted, caller, starts, lpc, port, rpc, httpSrv, closedSrv, rpcPort>>

\* A goroutine's own step (the environment's are AcceptConn and AcceptErr).
GoroutineStep(g) == Listen(g) \/ LoopCheck(g) \/ RpcStart(g) \/ RpcListen(g)

Next ==
    \/ StartSpawn \/ StartReturn \/ Stop
    \/ \E g \in Starts : GoroutineStep(g) \/ AcceptConn(g) \/ AcceptErr(g)
    \/ \E p \in Peers : AddPeer(p) \/ RemovePeer(p)

\* Start runs to its return and every goroutine runs while it can; remote
\* dials, Accept errors and the caller's Stop are the environment's.
Fairness == WF_vars(StartReturn) /\ \A g \in Starts : WF_vars(GoroutineStep(g))

Spec == Init /\ [][Next]_vars /\ Fairness
-----------------------------------------------------------------------------

TypeOK ==
    /\ isStarted \in BOOLEAN
    /\ caller \in {"idle", "starting", "running"}
    /\ starts \in 0 .. MaxStarts
    /\ lpc \in [Starts -> {"none", "listen", "check", "accept", "exited", "failed"}]
    /\ port \in Starts \cup {None}
    /\ rpc \in [Starts -> {"none", "start", "serve", "serving", "done"}]
    /\ httpSrv \in Starts \cup {None}
    /\ closedSrv \subseteq Starts
    /\ rpcPort \in Starts \cup {None}
    /\ peers \subseteq Peers
    /\ gauge = Cardinality(peers)

\* Once Start has returned nil, the listener goroutine it spawned is still
\* in its accept loop: it neither read n.isStarted before Start set it
\* (and returned, closing its listener) nor failed to bind the port.
ListenerLives ==
    caller = "running" => lpc[starts] \notin {"exited", "failed"}

\* Once Stop has returned, no RPC server is listening: rpcServer.Stop
\* closed the one the RPC goroutine made, whenever that ran.
RpcDownAfterStop ==
    caller = "idle" => rpcPort = None

\* Once Stop has returned, the listener's port is eventually released.
PortReleased ==
    caller = "idle" /\ port # None ~> port = None
=============================================================================
