------------------------------ MODULE Discovery ------------------------------
(***************************************************************************)
(* The node discovery service of network/discovery/discovery.go: Start and *)
(* Stop, the maintainNodeTable goroutine each Start spawns, its            *)
(* refreshNodeTable (expiry under nodesMutex, then the unlocked size check *)
(* and simulateFindNodes), and the table calls AddNode, UpdateNode and     *)
(* RemoveNode.  Each call that takes nodesMutex is one step.               *)
(*                                                                         *)
(* The context is made once, in NewDiscovery; Stop cancels it and nothing  *)
(* makes a new one.  connectToBootnodes only spawns goroutines that log,   *)
(* so it has no state.  The table is keyed by fmt.Sprintf("%x", node.ID);  *)
(* simulateFindNodes builds its five nodes with the zero NodeID, so all    *)
(* five have the key Zero.  LastSeen is a reading of the clock `clock`.    *)
(***************************************************************************)
EXTENDS Naturals, FiniteSets

CONSTANTS
    Enabled,    \* cfg.Enabled
    TTL,        \* cfg.TTL, in clock ticks
    NodeIds,    \* keys of the nodes callers add
    Zero,       \* the key of NodeID{}: 64 zeros
    MaxStarts,  \* bound: Start calls that spawn a goroutine
    MaxTime,    \* bound: the clock
    None

ASSUME Zero \in NodeIds

\* `if len(d.nodes) < 10` and `for i := 0; i < 5; i++` in refreshNodeTable
\* and simulateFindNodes.
MaxNodes == 10
FindBatch == 5

Loops == 1 .. MaxStarts

VARIABLES
    isRunning,  \* d.isRunning
    ctxDone,    \* d.cancel() was called
    starts,     \* maintainNodeTable goroutines spawned so far
    loop,       \* loop[g]: where goroutine g is, "unborn" before its Start
    found,      \* found[g]: AddNode calls of g's current simulateFindNodes
    nodes,      \* nodes[id]: LastSeen of the entry for id, or None
    clock       \* time.Now()

vars == <<isRunning, ctxDone, starts, loop, found, nodes, clock>>

\* NewDiscovery: an empty table and a live context.
Init ==
    /\ isRunning = FALSE
    /\ ctxDone = FALSE
    /\ starts = 0
    /\ loop = [g \in Loops |-> "unborn"]
    /\ found = [g \in Loops |-> 0]
    /\ nodes = [id \in NodeIds |-> None]
    /\ clock = 0

TableSize == Cardinality({id \in NodeIds : nodes[id] # None})

\* AddNode and UpdateNode: d.nodes[nodeID] = node, with node.LastSeen the
\* time the caller read.
AddNode(id) == nodes' = [nodes EXCEPT ![id] = clock]
UpdateNode(id) == AddNode(id)
RemoveNode(id) == nodes' = [nodes EXCEPT ![id] = None]

\* Start: disabled or already running returns at once (no state change);
\* otherwise spawn maintainNodeTable (and connectToBootnodes, which only
\* logs) and set isRunning.
Start ==
    /\ Enabled
    /\ ~isRunning
    /\ starts < MaxStarts
    /\ loop' = [loop EXCEPT ![starts + 1] = "select"]
    /\ starts' = starts + 1
    /\ isRunning' = TRUE
    /\ UNCHANGED <<ctxDone, found, nodes, clock>>

\* Stop: d.cancel() and isRunning = false, when running.
Stop ==
    /\ isRunning
    /\ ctxDone' = TRUE
    /\ isRunning' = FALSE
    /\ UNCHANGED <<starts, loop, found, nodes, clock>>

\* maintainNodeTable's select: ctx.Done() returns once the context is
\* cancelled; the ticker can fire at any time.  Go picks either when both
\* are ready.
Select(g) ==
    /\ loop[g] = "select"
    /\ \/ ctxDone /\ loop' = [loop EXCEPT ![g] = "exit"]
       \/ loop' = [loop EXCEPT ![g] = "expire"]
    /\ UNCHANGED <<isRunning, ctxDone, starts, found, nodes, clock>>

\* refreshNodeTable under nodesMutex: delete every node with
\* time.Since(LastSeen) > TTL.
Expire(g) ==
    /\ loop[g] = "expire"
    /\ nodes' = [id \in NodeIds |->
                    IF nodes[id] # None /\ clock - nodes[id] > TTL THEN None ELSE nodes[id]]
    /\ loop' = [loop EXCEPT ![g] = "check"]
    /\ UNCHANGED <<isRunning, ctxDone, starts, found, clock>>

\* After the unlock: len(d.nodes) < 10 starts simulateFindNodes.
Check(g) ==
    /\ loop[g] = "check"
    /\ loop' = [loop EXCEPT ![g] = IF TableSize < MaxNodes THEN "find" ELSE "select"]
    /\ found' = [found EXCEPT ![g] = 0]
    /\ UNCHANGED <<isRunning, ctxDone, starts, nodes, clock>>

\* One iteration of simulateFindNodes: AddNode of a node with NodeID{}.
Find(g) ==
    /\ loop[g] = "find"
    /\ AddNode(Zero)
    /\ found' = [found EXCEPT ![g] = @ + 1]
    /\ loop' = [loop EXCEPT ![g] = IF found[g] + 1 = FindBatch THEN "select" ELSE "find"]
    /\ UNCHANGED <<isRunning, ctxDone, starts, clock>>

LoopStep(g) == Select(g) \/ Expire(g) \/ Check(g) \/ Find(g)

\* Callers of the table, and the passing of time.
Caller ==
    /\ \E id \in NodeIds : AddNode(id) \/ UpdateNode(id) \/ RemoveNode(id)
    /\ UNCHANGED <<isRunning, ctxDone, starts, loop, found, clock>>

Tick ==
    /\ clock < MaxTime
    /\ clock' = clock + 1
    /\ UNCHANGED <<isRunning, ctxDone, starts, loop, found, nodes>>

Next ==
    \/ Start \/ Stop
    \/ \E g \in Loops : LoopStep(g)
    \/ Caller
    \/ Tick

\* Each spawned goroutine runs when it can.  Start, Stop, the callers and
\* the clock are the environment.
Spec == Init /\ [][Next]_vars /\ \A g \in Loops : WF_vars(LoopStep(g))

\* Readers: FindNodes returns up to count entries, GetNodes all of them.
FindNodes(count) ==
    CHOOSE s \in SUBSET {id \in NodeIds : nodes[id] # None} :
        Cardinality(s) = IF TableSize < count THEN TableSize ELSE count
GetNodes == {id \in NodeIds : nodes[id] # None}
IsRunning == isRunning
-----------------------------------------------------------------------------

TypeOK ==
    /\ isRunning \in BOOLEAN /\ ctxDone \in BOOLEAN
    /\ starts \in 0 .. MaxStarts
    /\ loop \in [Loops -> {"unborn", "select", "expire", "check", "find", "exit"}]
    /\ found \in [Loops -> 0 .. FindBatch]
    /\ nodes \in [NodeIds -> (0 .. MaxTime) \cup {None}]
    /\ clock \in 0 .. MaxTime

\* While the service reports itself running, some maintainNodeTable
\* goroutine is alive to expire nodes: Start after Stop spawns one that
\* finds the old, cancelled context.
MaintainerAlive ==
    isRunning => \E g \in Loops : loop[g] \notin {"unborn", "exit"}

Expired(id) == nodes[id] # None /\ clock - nodes[id] > TTL

\* A node whose LastSeen is older than the TTL while the service runs is
\* eventually removed, refreshed by a caller, or the service stops.
NodesExpire ==
    \A id \in NodeIds : (isRunning /\ Expired(id)) ~> (~Expired(id) \/ ~isRunning)
=============================================================================
