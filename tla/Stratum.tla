------------------------------ MODULE Stratum ------------------------------
(***************************************************************************)
(* The Stratum pool server of miner/stratum/server.go, as cmd/nogopool     *)
(* wires it (getWork never fails), with its goroutines: acceptLoop,        *)
(* jobLoop, shareLoop, one handleConnection per accepted client, and a     *)
(* caller of Stop.  Remote miners dial, send requests and hang up.         *)
(*                                                                         *)
(* s.clientsMu is a variable naming its holder.  A step that locks,        *)
(* changes s.clients and unlocks with nothing blocking in between is one   *)
(* step; Stop holds the lock across client.close(), which blocks, so its   *)
(* sweep is several steps.  Channels are BOOLEAN "closed" flags.          *)
(***************************************************************************)
EXTENDS Naturals, FiniteSets

CONSTANTS
    Conns,      \* remote miner connections
    Methods,    \* request methods: "mining.submit" and the others
    MaxReqs,    \* requests one connection sends at most
    None

VARIABLES
    stopCh,     \* s.stopCh closed
    listening,  \* s.listener open
    mu,         \* holder of s.clientsMu: None, "stop", "accept", "job" or a conn
    clients,    \* s.clients
    remote,     \* remote[c]: "idle", "dialed", "open", "hungup"
    handler,    \* handler[c]: "none", "select", "decode", "exit", "done"
    cStop,      \* cStop[c]: client.stopCh closed
    req,        \* req[c]: the request c has sent and not yet had decoded, or None
    sent,       \* sent[c]: requests c has sent
    answered,   \* answered[c]: requests answered on c
    notified,   \* notified[c]: a mining.notify was written to c
    acked,      \* mining.submit requests answered "true"
    forwarded,  \* shares that reached s.submitFn
    accept,     \* acceptLoop: "accept", "register", "exited"
    accepted,   \* the conn acceptLoop has accepted and not yet registered
    job,        \* jobLoop: "wait", "broadcast", "exited"
    share,      \* shareLoop: "wait", "exited"
    stopPc,     \* Stop caller: "running", "lock", "sweep", "waitClient",
                \*              "listener", "wait", "done"
    toClose,    \* clients Stop's range over s.clients has yet to close
    closing     \* the client whose close() Stop is in

serverVars == <<stopCh, listening, mu, clients, accept, accepted, job, share,
                stopPc, toClose, closing>>
clientVars == <<remote, handler, cStop, req, sent, answered, notified, acked,
                forwarded>>
vars == <<serverVars, clientVars>>

\* NewServer followed by Start: the three loops run, no client yet.
Init ==
    /\ stopCh = FALSE /\ listening = TRUE /\ mu = None /\ clients = {}
    /\ remote = [c \in Conns |-> "idle"]
    /\ handler = [c \in Conns |-> "none"]
    /\ cStop = [c \in Conns |-> FALSE]
    /\ req = [c \in Conns |-> None]
    /\ sent = [c \in Conns |-> 0]
    /\ answered = [c \in Conns |-> 0]
    /\ notified = [c \in Conns |-> FALSE]
    /\ acked = 0 /\ forwarded = 0
    /\ accept = "accept" /\ accepted = None
    /\ job = "wait" /\ share = "wait"
    /\ stopPc = "running" /\ toClose = {} /\ closing = None

-----------------------------------------------------------------------------
(* Remote miners.                                                          *)

Dial(c) ==
    /\ remote[c] = "idle"
    /\ remote' = [remote EXCEPT ![c] = "dialed"]
    /\ UNCHANGED <<serverVars, handler, cStop, req, sent, answered, notified,
                   acked, forwarded>>

SendRequest(c, m) ==
    /\ remote[c] = "open" /\ req[c] = None /\ sent[c] < MaxReqs
    /\ req' = [req EXCEPT ![c] = m]
    /\ sent' = [sent EXCEPT ![c] = @ + 1]
    /\ UNCHANGED <<serverVars, remote, handler, cStop, answered, notified,
                   acked, forwarded>>

HangUp(c) ==
    /\ remote[c] = "open"
    /\ remote' = [remote EXCEPT ![c] = "hungup"]
    /\ UNCHANGED <<serverVars, handler, cStop, req, sent, answered, notified,
                   acked, forwarded>>

-----------------------------------------------------------------------------
(* acceptLoop.                                                             *)

\* listener.Accept() returns a dialled connection.
AcceptConn(c) ==
    /\ accept = "accept" /\ listening
    /\ remote[c] = "dialed"
    /\ remote' = [remote EXCEPT ![c] = "open"]
    /\ accept' = "register" /\ accepted' = c
    /\ UNCHANGED <<stopCh, listening, mu, clients, job, share, stopPc, toClose,
                   closing, handler, cStop, req, sent, answered, notified,
                   acked, forwarded>>

\* Lock; s.clients[client] = struct{}{}; Unlock.
Register ==
    /\ accept = "register" /\ mu = None
    /\ clients' = clients \cup {accepted}
    /\ accept' = "spawn"
    /\ UNCHANGED <<stopCh, listening, mu, accepted, job, share, stopPc, toClose,
                   closing, clientVars>>

\* client.wg.Add(1); go client.handleConnection().  Until then the client's
\* WaitGroup counter is zero.
Spawn ==
    /\ accept = "spawn"
    /\ handler' = [handler EXCEPT ![accepted] = "select"]
    /\ accept' = "accept" /\ accepted' = None
    /\ UNCHANGED <<stopCh, listening, mu, clients, job, share, stopPc, toClose,
                   closing, remote, cStop, req, sent, answered, notified, acked,
                   forwarded>>

\* Accept fails once the listener is closed; with s.stopCh closed the loop
\* returns (wg.Done).
AcceptExit ==
    /\ accept = "accept" /\ ~listening /\ stopCh
    /\ accept' = "exited"
    /\ UNCHANGED <<stopCh, listening, mu, clients, accepted, job, share, stopPc,
                   toClose, closing, clientVars>>

-----------------------------------------------------------------------------
(* jobLoop and shareLoop.  Nothing in the package sends on s.shares, so    *)
(* shareLoop can only return.                                              *)

\* The ticker fires: broadcastJob calls getWork (no lock).  When s.stopCh
\* is closed as well, select may still pick the ticker.
JobTick ==
    /\ job = "wait"
    /\ job' = "broadcast"
    /\ UNCHANGED <<stopCh, listening, mu, clients, accept, accepted, share,
                   stopPc, toClose, closing, clientVars>>

\* Lock; sendJob to every registered client; Unlock.  A write to a client
\* whose handler has closed its conn fails silently.
Broadcast ==
    /\ job = "broadcast" /\ mu = None
    /\ notified' = [c \in Conns |-> notified[c] \/ (c \in clients /\ remote[c] = "open")]
    /\ job' = "wait"
    /\ UNCHANGED <<stopCh, listening, mu, clients, accept, accepted, share,
                   stopPc, toClose, closing, remote, handler, cStop, req, sent,
                   answered, acked, forwarded>>

JobExit ==
    /\ job = "wait" /\ stopCh
    /\ job' = "exited"
    /\ UNCHANGED <<stopCh, listening, mu, clients, accept, accepted, share,
                   stopPc, toClose, closing, clientVars>>

ShareExit ==
    /\ share = "wait" /\ stopCh
    /\ share' = "exited"
    /\ UNCHANGED <<stopCh, listening, mu, clients, accept, accepted, job,
                   stopPc, toClose, closing, clientVars>>

-----------------------------------------------------------------------------
(* handleConnection of client c.                                           *)

\* Mutant: the select without its default case, waiting for c.stopCh.
HandlerSelectBlocking(c) ==
    /\ handler[c] = "select" /\ cStop[c]
    /\ handler' = [handler EXCEPT ![c] = "exit"]
    /\ UNCHANGED <<serverVars, remote, cStop, req, sent, answered, notified,
                   acked, forwarded>>

\* select on c.stopCh with a default: closed -> return, else Decode.
HandlerSelect(c) ==
    /\ handler[c] = "select"
    /\ handler' = [handler EXCEPT ![c] = IF cStop[c] THEN "exit" ELSE "decode"]
    /\ UNCHANGED <<serverVars, remote, cStop, req, sent, answered, notified,
                   acked, forwarded>>

\* handleSubmit answers true and does nothing else: it never sends the share
\* on s.shares, so nothing reaches s.submitFn.
IsSubmit(m) == m = "mining.submit"

\* Mutant: the decoded request is handled but stays in the decoder's buffer.
HandleRequestNoConsume(c) ==
    /\ handler[c] = "decode" /\ req[c] # None
    /\ answered' = [answered EXCEPT ![c] = @ + 1]
    /\ acked' = IF IsSubmit(req[c]) THEN acked + 1 ELSE acked
    /\ handler' = [handler EXCEPT ![c] = "select"]
    /\ UNCHANGED <<serverVars, remote, cStop, req, sent, notified, forwarded>>

\* Decode returns the request; handleMessage encodes one answer.
HandleRequest(c) ==
    /\ handler[c] = "decode" /\ req[c] # None
    /\ answered' = [answered EXCEPT ![c] = @ + 1]
    /\ acked' = IF IsSubmit(req[c]) THEN acked + 1 ELSE acked
    /\ req' = [req EXCEPT ![c] = None]
    /\ handler' = [handler EXCEPT ![c] = "select"]
    /\ UNCHANGED <<serverVars, remote, cStop, sent, notified, forwarded>>

\* Decode fails: the remote hung up.
DecodeError(c) ==
    /\ handler[c] = "decode" /\ req[c] = None /\ remote[c] = "hungup"
    /\ handler' = [handler EXCEPT ![c] = "exit"]
    /\ UNCHANGED <<serverVars, remote, cStop, req, sent, answered, notified,
                   acked, forwarded>>

\* Mutant: the deferred removeClient left out.
HandlerExitKeepClient(c) ==
    /\ handler[c] = "exit" /\ mu = None
    /\ handler' = [handler EXCEPT ![c] = "done"]
    /\ remote' = [remote EXCEPT ![c] = IF @ = "open" THEN "hungup" ELSE @]
    /\ UNCHANGED <<stopCh, listening, mu, clients, accept, accepted, job, share,
                   stopPc, toClose, closing, cStop, req, sent, answered, notified,
                   acked, forwarded>>

\* The deferred calls: conn.Close(), removeClient (Lock; delete; Unlock),
\* c.wg.Done().
HandlerExit(c) ==
    /\ handler[c] = "exit" /\ mu = None
    /\ clients' = clients \ {c}
    /\ handler' = [handler EXCEPT ![c] = "done"]
    /\ remote' = [remote EXCEPT ![c] = IF @ = "open" THEN "hungup" ELSE @]
    /\ UNCHANGED <<stopCh, listening, mu, accept, accepted, job, share, stopPc,
                   toClose, closing, cStop, req, sent, answered, notified,
                   acked, forwarded>>

-----------------------------------------------------------------------------
(* Stop.                                                                   *)

StopClose ==
    /\ stopPc = "running"
    /\ stopCh' = TRUE
    /\ stopPc' = "lock"
    /\ UNCHANGED <<listening, mu, clients, accept, accepted, job, share,
                   toClose, closing, clientVars>>

\* clientsMu.Lock(); the range over s.clients starts.
StopLock ==
    /\ stopPc = "lock" /\ mu = None
    /\ mu' = "stop"
    /\ toClose' = clients
    /\ stopPc' = "sweep"
    /\ UNCHANGED <<stopCh, listening, clients, accept, accepted, job, share,
                   closing, clientVars>>

\* client.close(): close(c.stopCh), then c.wg.Wait(), which returns at once
\* while the handler is not yet spawned (counter zero) or has returned.
StopCloseClient(c) ==
    /\ stopPc = "sweep" /\ c \in toClose
    /\ cStop' = [cStop EXCEPT ![c] = TRUE]
    /\ toClose' = toClose \ {c}
    /\ closing' = c
    /\ stopPc' = "waitClient"
    /\ UNCHANGED <<stopCh, listening, mu, clients, accept, accepted, job, share,
                   remote, handler, req, sent, answered, notified, acked, forwarded>>

StopClientDone ==
    /\ stopPc = "waitClient" /\ handler[closing] \in {"none", "done"}
    /\ closing' = None
    /\ stopPc' = "sweep"
    /\ UNCHANGED <<stopCh, listening, mu, clients, accept, accepted, job, share,
                   toClose, clientVars>>

\* clientsMu.Unlock(); listener.Close().
StopUnlock ==
    /\ stopPc = "sweep" /\ toClose = {}
    /\ mu' = None
    /\ stopPc' = "listener"
    /\ UNCHANGED <<stopCh, listening, clients, accept, accepted, job, share,
                   toClose, closing, clientVars>>

StopListener ==
    /\ stopPc = "listener"
    /\ listening' = FALSE
    /\ stopPc' = "wait"
    /\ UNCHANGED <<stopCh, mu, clients, accept, accepted, job, share, toClose,
                   closing, clientVars>>

\* s.wg.Wait(): the three loops have returned.
StopWait ==
    /\ stopPc = "wait"
    /\ accept = "exited" /\ job = "exited" /\ share = "exited"
    /\ stopPc' = "done"
    /\ UNCHANGED <<stopCh, listening, mu, clients, accept, accepted, job, share,
                   toClose, closing, clientVars>>

-----------------------------------------------------------------------------

AcceptStep == (\E c \in Conns : AcceptConn(c)) \/ Register \/ Spawn \/ AcceptExit

JobStep == JobTick \/ Broadcast \/ JobExit

ServerStep == AcceptStep \/ JobStep \/ ShareExit

HandlerStep(c) ==
    HandlerSelect(c) \/ HandleRequest(c) \/ DecodeError(c) \/ HandlerExit(c)

StopStep ==
    \/ StopClose \/ StopLock \/ StopClientDone \/ StopUnlock \/ StopListener
    \/ StopWait \/ \E c \in Conns : StopCloseClient(c)

RemoteStep(c) ==
    Dial(c) \/ HangUp(c) \/ \E m \in Methods : SendRequest(c, m)

Next ==
    \/ ServerStep \/ StopStep
    \/ \E c \in Conns : HandlerStep(c) \/ RemoteStep(c)

\* Goroutines of the server take their enabled steps; the remote miners and
\* the Stop caller's decision to call Stop get no fairness.  jobLoop's
\* select chooses at random among its ready cases, and the ticker is ready
\* only once per 30 s while a closed stopCh stays ready: the exit is taken
\* if it is enabled again and again (strong fairness), even though a tick
\* may win some of the draws.
Fairness ==
    /\ WF_vars(AcceptStep) /\ WF_vars(JobStep) /\ WF_vars(ShareExit)
    /\ SF_vars(JobExit)
    /\ WF_vars(StopStep /\ stopPc # "running")
    /\ \A c \in Conns : WF_vars(HandlerStep(c))

Spec == Init /\ [][Next]_vars

FairSpec == Spec /\ Fairness

-----------------------------------------------------------------------------

TypeOK ==
    /\ stopCh \in BOOLEAN /\ listening \in BOOLEAN
    /\ mu \in {None, "stop", "accept", "job"} \cup Conns
    /\ clients \subseteq Conns
    /\ remote \in [Conns -> {"idle", "dialed", "open", "hungup"}]
    /\ handler \in [Conns -> {"none", "select", "decode", "exit", "done"}]
    /\ cStop \in [Conns -> BOOLEAN]
    /\ req \in [Conns -> Methods \cup {None}]
    /\ sent \in [Conns -> 0 .. MaxReqs] /\ answered \in [Conns -> 0 .. MaxReqs]
    /\ notified \in [Conns -> BOOLEAN]
    /\ acked \in Nat /\ forwarded \in Nat
    /\ accept \in {"accept", "register", "spawn", "exited"}
    /\ accepted \in Conns \cup {None}
    /\ job \in {"wait", "broadcast", "exited"} /\ share \in {"wait", "exited"}
    /\ stopPc \in {"running", "lock", "sweep", "waitClient", "listener", "wait", "done"}
    /\ toClose \subseteq Conns /\ closing \in Conns \cup {None}

\* s.clients holds exactly the clients acceptLoop has registered whose
\* handleConnection has not yet run its deferred removeClient, whichever of
\* a remote hang-up, Stop's close or a broadcast races with it: the miner
\* count and every broadcast see live connections only.
ClientsTracked ==
    \A c \in Conns :
        (c \in clients) <=> (handler[c] \in {"select", "decode", "exit"}
                              \/ (accept = "spawn" /\ accepted = c))

\* A request a miner has sent is eventually answered, unless Stop has been
\* called: acceptLoop registers and spawns a handler for the connection and
\* handleConnection keeps decoding, whatever the job broadcasts, the other
\* clients and their hang-ups do with s.clientsMu.
RequestAnswered ==
    \A c \in Conns : req[c] # None ~> (req[c] = None \/ stopCh)

\* A call of Stop returns: the server's goroutines and every client handler
\* it closes finish.
StopReturns ==
    stopPc = "lock" ~> stopPc = "done"

\* When Stop has returned, no client is registered: every connection was
\* closed by Stop's sweep.
NoClientAfterStop ==
    stopPc = "done" => clients = {}
=============================================================================
