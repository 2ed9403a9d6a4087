------------------------------- MODULE Miner -------------------------------
(***************************************************************************)
(* Start/Stop of miner.Miner (miner/miner.go) and its miningLoop           *)
(* goroutines.                                                             *)
(*                                                                         *)
(* Callers are goroutines that call Start and Stop at any time.  Start and *)
(* Stop run under m.mu; Stop keeps holding it across wg.Wait().  Stop      *)
(* closes m.stopCh and then assigns a fresh channel to the field in a      *)
(* separate statement; miningLoop reads the field m.stopCh afresh in each  *)
(* select, without the lock: the select first loads the field, then finds *)
(* that channel closed or not.  Only whether a channel is closed matters: *)
(* the field is "open" or "closed", and the channel a loop has loaded is  *)
(* the field's ("cur") or one Stop has already replaced ("old", closed).  *)
(***************************************************************************)
EXTENDS Naturals

CONSTANTS
    Callers,    \* goroutines calling Start / Stop
    Loops,      \* identities for miningLoop goroutines; a returned one's is reused
    None

VARIABLES
    isRunning,  \* m.isRunning
    mu,         \* holder of m.mu, or None
    stopCh,     \* is the channel in field m.stopCh "open" or "closed"
    wg,         \* m.wg counter
    loops,      \* loops[l]: where miningLoop goroutine l is; "none" before Start spawns it
    loaded,     \* loaded[l]: the channel loop l's select has loaded: None, "cur", "old"
    pc,         \* pc[c]: "idle", or where caller c is inside Stop
    seal,       \* Seal's own goroutine: "idle", "wait", "deliver", "done"
    worker,     \* Seal's worker goroutine: "none", "mining", "sending", "done"
    found,      \* blocks buffered in channel found
    sealStop,   \* Seal's stop channel is closed
    ctxDone,    \* Seal's ctx is cancelled
    delivered   \* blocks sent on results

minerVars == <<isRunning, mu, stopCh, wg, loops, loaded, pc>>

sealVars == <<seal, worker, found, sealStop, ctxDone, delivered>>

vars == <<minerVars, sealVars>>

Live == {l \in Loops : loops[l] \notin {"none", "done"}}

\* NewMiner: not running, fresh channels, no goroutine.
Init ==
    /\ isRunning = FALSE
    /\ mu = None
    /\ stopCh = "open"
    /\ wg = 0
    /\ loops = [l \in Loops |-> "none"]
    /\ loaded = [l \in Loops |-> None]
    /\ pc = [c \in Callers |-> "idle"]
    /\ seal = "idle" /\ worker = "none" /\ found = 0
    /\ sealStop = FALSE /\ ctxDone = FALSE /\ delivered = 0

\* Start: Lock; return if running; else set running, wg.Add(1), spawn the
\* loop, Unlock.  The startCh close/replace is seen by no goroutine.
Start(c) ==
    /\ pc[c] = "idle" /\ mu = None
    /\ ~isRunning
    /\ \E l \in Loops :
          /\ loops[l] \in {"none", "done"}
          /\ loops' = [loops EXCEPT ![l] = "select"]
    /\ isRunning' = TRUE
    /\ wg' = wg + 1
    /\ UNCHANGED <<mu, stopCh, loaded, pc>>
    /\ UNCHANGED sealVars

\* Stop, up to close(m.stopCh): Lock; return if not running (a stutter);
\* isRunning = false; close.  The lock stays held.
StopClose(c) ==
    /\ pc[c] = "idle" /\ mu = None
    /\ isRunning
    /\ isRunning' = FALSE
    /\ stopCh' = "closed"
    /\ mu' = c
    /\ pc' = [pc EXCEPT ![c] = "replace"]
    /\ UNCHANGED <<wg, loops, loaded>>
    /\ UNCHANGED sealVars

\* m.stopCh = make(chan struct{}): a channel a loop loaded is now an old one.
StopReplace(c) ==
    /\ pc[c] = "replace"
    /\ stopCh' = "open"
    /\ loaded' = [l \in Loops |-> IF loaded[l] = "cur" THEN "old" ELSE loaded[l]]
    /\ pc' = [pc EXCEPT ![c] = "wait"]
    /\ UNCHANGED <<isRunning, mu, wg, loops>>
    /\ UNCHANGED sealVars

\* Mutant: Stop does not wait for the loop (wg.Wait() left out).
StopWaitNoWait(c) ==
    /\ pc[c] = "wait"
    /\ mu' = None
    /\ pc' = [pc EXCEPT ![c] = "idle"]
    /\ UNCHANGED <<isRunning, stopCh, wg, loops, loaded>>
    /\ UNCHANGED sealVars

\* m.wg.Wait() returns once the counter is zero; the deferred Unlock runs.
StopWait(c) ==
    /\ pc[c] = "wait"
    /\ wg = 0
    /\ mu' = None
    /\ pc' = [pc EXCEPT ![c] = "idle"]
    /\ UNCHANGED <<isRunning, stopCh, wg, loops, loaded>>
    /\ UNCHANGED sealVars

\* miningLoop's select loads the field m.stopCh (a racy read).
LoopLoad(l) ==
    /\ loops[l] = "select"
    /\ loaded' = [loaded EXCEPT ![l] = "cur"]
    /\ loops' = [loops EXCEPT ![l] = "check"]
    /\ UNCHANGED <<isRunning, mu, stopCh, wg, pc>>
    /\ UNCHANGED sealVars

\* Is the channel loop l loaded closed?
LoadedClosed(l) == loaded[l] = "old" \/ (loaded[l] = "cur" /\ stopCh = "closed")

\* The loaded channel is closed: return, and the deferred wg.Done() runs.
LoopExit(l) ==
    /\ loops[l] = "check"
    /\ LoadedClosed(l)
    /\ loops' = [loops EXCEPT ![l] = "done"]
    /\ loaded' = [loaded EXCEPT ![l] = None]
    /\ wg' = wg - 1
    /\ UNCHANGED <<isRunning, mu, stopCh, pc>>
    /\ UNCHANGED sealVars

\* Mutant: wg.Done() on every round instead of on return.
LoopTickDone(l) ==
    /\ loops[l] = "check"
    /\ ~LoadedClosed(l)
    /\ loops' = [loops EXCEPT ![l] = "select"]
    /\ loaded' = [loaded EXCEPT ![l] = None]
    /\ wg' = wg - 1
    /\ UNCHANGED <<isRunning, mu, stopCh, pc>>
    /\ UNCHANGED sealVars

\* Not closed: the ticker case (minePending, an empty stub) or the default
\* case (sleep 100ms), and the loop goes round.
LoopTick(l) ==
    /\ loops[l] = "check"
    /\ ~LoadedClosed(l)
    /\ loops' = [loops EXCEPT ![l] = "select"]
    /\ loaded' = [loaded EXCEPT ![l] = None]
    /\ UNCHANGED <<isRunning, mu, stopCh, wg, pc>>
    /\ UNCHANGED sealVars

(***************************************************************************)
(* Seal(ctx, block, results, stop): one call.  A worker goroutine runs     *)
(* MineParallel and, when it finds a nonce, offers the sealed block on the *)
(* channel found (capacity 1) or gives up when stop  *)
(* is closed.  Seal itself waits for found, stop or ctx.Done().  The       *)
(* caller's stop channel and context are closed / cancelled at any time.  *)
(***************************************************************************)
\* Mutant: found made unbuffered.
FoundSizeUnbuffered == 0

\* found := make(chan *types.Block, 1)
FoundSize == 1

SealBegin ==
    /\ seal = "idle"
    /\ seal' = "wait"
    /\ worker' = "mining"
    /\ UNCHANGED <<found, sealStop, ctxDone, delivered, minerVars>>

\* MineParallel returns; ok or not.
WorkerMine ==
    /\ worker = "mining"
    /\ \E ok \in BOOLEAN : worker' = IF ok THEN "sending" ELSE "done"
    /\ UNCHANGED <<seal, found, sealStop, ctxDone, delivered, minerVars>>

\* select { case found <- newBlock: case <-stop: }, either case when both
\* are ready.
WorkerSend ==
    /\ worker = "sending"
    /\ \/ found < FoundSize /\ found' = found + 1
       \/ sealStop /\ UNCHANGED found
    /\ worker' = "done"
    /\ UNCHANGED <<seal, sealStop, ctxDone, delivered, minerVars>>

\* Seal's select: a found block is forwarded to results (the caller reads
\* results); a closed stop returns nil; a cancelled ctx returns ctx.Err().
SealRecv ==
    /\ seal = "wait" /\ found > 0
    /\ found' = found - 1
    /\ seal' = "deliver"
    /\ UNCHANGED <<worker, sealStop, ctxDone, delivered, minerVars>>

SealDeliver ==
    /\ seal = "deliver"
    /\ delivered' = delivered + 1
    /\ seal' = "done"
    /\ UNCHANGED <<worker, found, sealStop, ctxDone, minerVars>>

SealQuit ==
    /\ seal = "wait"
    /\ sealStop \/ ctxDone
    /\ seal' = "done"
    /\ UNCHANGED <<worker, found, sealStop, ctxDone, delivered, minerVars>>

\* The caller closes stop or cancels ctx.
CloseSealStop ==
    /\ ~sealStop
    /\ sealStop' = TRUE
    /\ UNCHANGED <<seal, worker, found, ctxDone, delivered, minerVars>>

CancelCtx ==
    /\ ~ctxDone
    /\ ctxDone' = TRUE
    /\ UNCHANGED <<seal, worker, found, sealStop, delivered, minerVars>>

SealStep ==
    \/ SealBegin \/ WorkerMine \/ WorkerSend
    \/ SealRecv \/ SealDeliver \/ SealQuit \/ CloseSealStop \/ CancelCtx

Next ==
    \/ \E c \in Callers : Start(c) \/ StopClose(c) \/ StopReplace(c) \/ StopWait(c)
    \/ \E l \in Loops : LoopLoad(l) \/ LoopExit(l) \/ LoopTick(l)
    \/ SealStep

\* Every goroutine that can take a step eventually takes it: the Go
\* scheduler runs runnable goroutines.  Nothing makes a loop run between
\* close and the replacement of the field.
Fairness ==
    /\ \A c \in Callers : WF_vars(StopReplace(c)) /\ WF_vars(StopWait(c))
    /\ \A l \in Loops : WF_vars(LoopLoad(l) \/ LoopExit(l) \/ LoopTick(l))
    /\ WF_vars(WorkerMine) /\ WF_vars(WorkerSend)
    /\ WF_vars(SealRecv \/ SealDeliver \/ SealQuit)

Spec == Init /\ [][Next]_vars

FairSpec == Spec /\ Fairness

-----------------------------------------------------------------------------

TypeOK ==
    /\ isRunning \in BOOLEAN
    /\ mu \in Callers \cup {None}
    /\ stopCh \in {"open", "closed"}
    /\ wg \in Nat
    /\ loops \in [Loops -> {"none", "select", "check", "done"}]
    /\ loaded \in [Loops -> {None, "cur", "old"}]
    /\ pc \in [Callers -> {"idle", "replace", "wait"}]
    /\ seal \in {"idle", "wait", "deliver", "done"}
    /\ worker \in {"none", "mining", "sending", "done"}
    /\ found \in 0 .. FoundSize /\ delivered \in 0 .. 1
    /\ sealStop \in BOOLEAN /\ ctxDone \in BOOLEAN

\* Once Stop has returned and no Start has run since, no miningLoop is
\* still running: Stop's wg.Wait() covers every loop Start spawned, and no
\* second loop is ever spawned beside a running one.
NoLoopAfterStop ==
    (~isRunning /\ mu = None) => Live = {}

\* Seal's worker goroutine never leaks: once MineParallel returns, the
\* worker always finishes, whether Seal took the block, returned on stop,
\* or returned on ctx.Done() and will never read found again.
WorkerTerminates ==
    worker # "none" ~> worker = "done"

\* A call of Stop returns: a caller inside Stop is eventually back to idle
\* (and m.mu released).
StopReturns ==
    \A c \in Callers : pc[c] = "replace" ~> pc[c] = "idle"
=============================================================================
