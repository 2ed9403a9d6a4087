----------------------------- MODULE PeerWriter -----------------------------
(***************************************************************************)
(* The send path of p2p.Peer (network/p2p/p2p.go) and its per-peer         *)
(* priority queue (network/priority/priority.go).                          *)
(*                                                                         *)
(* One caller calls WriteMsg for messages 1, 2, ... in that order.  Each   *)
(* call pushes the message on the peer's heap under pm.mu and spawns a     *)
(* flush goroutine, named here by the message whose WriteMsg spawned it.   *)
(* After its sleep the goroutine calls HasMsg and then flushBatch, which   *)
(* pops messages one GetNextMsg call at a time (each under pm.mu) into a   *)
(* local list and writes each as two Conn.Write calls, header then         *)
(* payload.  The connection is a sequence of those writes.  Peer.Close     *)
(* (from handlePeer or Server.Stop) may close it at any time.  Once the    *)
(* remote has hung up, a Conn.Write may still succeed (the kernel buffers  *)
(* it) or fail (EPIPE, ECONNRESET) while the Peer is not yet closed.      *)
(***************************************************************************)
EXTENDS Naturals, Sequences, FiniteSets

CONSTANTS
    MaxMsgs,        \* messages the caller writes
    Priorities,     \* priorities WriteMsg may use
    WritePriority   \* the priority WriteMsg passes: priority.NormalPriority

Msgs == 1 .. MaxMsgs

VARIABLES
    heap,       \* pm.queues[peerID]: the heap array of [msg, prio] records
    submitted,  \* WriteMsg calls made so far: messages 1 .. submitted
    flusher,    \* flusher[f]: "none", "sleep", "drain", "header", "payload", "done"
    local,      \* local[f]: flushBatch's msgs, the popped messages not yet written
    wire,       \* the Conn.Write calls in order: [part |-> "header"/"payload", msg]
    connOpen,   \* p.Conn is open: Peer.Close has not been called
    peerUp      \* the remote has not hung up

vars == <<heap, submitted, flusher, local, wire, connOpen, peerUp>>

(***************************************************************************)
(* container/heap over PriorityQueue.  Indexes are Go's, from 0; element   *)
(* i is heap[i + 1].                                                       *)
(***************************************************************************)
\* PriorityQueue.Less: the higher priority comes first.
Less(h, i, j) == h[i + 1].prio > h[j + 1].prio

\* PriorityQueue.Swap (the Index fields it also updates are never read).
Swap(h, i, j) == [h EXCEPT ![i + 1] = h[j + 1], ![j + 1] = h[i + 1]]

\* heap.up: move element j towards the root while it is Less than its parent.
RECURSIVE Up(_, _)
Up(h, j) ==
    IF j = 0 \/ ~Less(h, j, (j - 1) \div 2) THEN h
    ELSE Up(Swap(h, (j - 1) \div 2, j), (j - 1) \div 2)

\* heap.down over the first n elements: move element i towards the leaves,
\* swapping with its Less child while that child is Less than it.
RECURSIVE Down(_, _, _)
Down(h, i, n) ==
    LET j1 == 2 * i + 1
        j  == IF j1 + 1 < n /\ Less(h, j1 + 1, j1) THEN j1 + 1 ELSE j1
    IN  IF j1 >= n \/ ~Less(h, j, i) THEN h ELSE Down(Swap(h, i, j), j, n)

\* heap.Push: PriorityQueue.Push appends, then up.
HeapPush(h, x) == Up(Append(h, x), Len(h))

\* heap.Pop: swap the root with the last element, down over the others,
\* then PriorityQueue.Pop removes and returns the last element.
Popped(h) == Down(Swap(h, 0, Len(h) - 1), 0, Len(h) - 1)

-----------------------------------------------------------------------------

Init ==
    /\ heap = << >>
    /\ submitted = 0
    /\ flusher = [f \in Msgs |-> "none"]
    /\ local = [f \in Msgs |-> << >>]
    /\ wire = << >>
    /\ connOpen = TRUE
    /\ peerUp = TRUE

\* WriteMsg: AddMsg (the queue is created on first use) and spawn the flush
\* goroutine; it returns nil at once.
WriteMsg ==
    /\ submitted < MaxMsgs
    /\ LET m == submitted + 1 IN
       /\ heap' = HeapPush(heap, [msg |-> m, prio |-> WritePriority])
       /\ flusher' = [flusher EXCEPT ![m] = "sleep"]
       /\ submitted' = m
    /\ UNCHANGED <<local, wire, connOpen, peerUp>>

\* After time.Sleep(50ms): HasMsg; an empty queue ends the goroutine.
Wake(f) ==
    /\ flusher[f] = "sleep"
    /\ flusher' = [flusher EXCEPT ![f] = IF heap = << >> THEN "done" ELSE "drain"]
    /\ UNCHANGED <<heap, submitted, local, wire, connOpen, peerUp>>

\* Mutant: GetNextMsg returns the top message without popping it.
DrainPeek(f) ==
    /\ flusher[f] = "drain"
    /\ IF heap = << >>
         THEN /\ flusher' = [flusher EXCEPT ![f] = IF local[f] = << >> THEN "done"
                                                                    ELSE "header"]
              /\ UNCHANGED <<heap, local>>
         ELSE /\ local' = [local EXCEPT ![f] = Append(@, heap[1].msg)]
              /\ UNCHANGED <<heap, flusher>>
    /\ UNCHANGED <<submitted, wire, connOpen, peerUp>>

\* Mutant: flushBatch returns early on a batch of one (len(msgs) <= 1).
DrainSkipSingle(f) ==
    /\ flusher[f] = "drain"
    /\ IF heap = << >>
         THEN /\ flusher' = [flusher EXCEPT ![f] = IF Len(local[f]) <= 1 THEN "done"
                                                                       ELSE "header"]
              /\ UNCHANGED <<heap, local>>
         ELSE LET h == Popped(heap) IN
              /\ heap' = SubSeq(h, 1, Len(h) - 1)
              /\ local' = [local EXCEPT ![f] = Append(@, h[Len(h)].msg)]
              /\ UNCHANGED flusher
    /\ UNCHANGED <<submitted, wire, connOpen, peerUp>>

\* Mutant: PriorityQueue.Pop returns old[n-1] without `*pq = old[0 : n-1]`.
DrainNoShrink(f) ==
    /\ flusher[f] = "drain"
    /\ IF heap = << >>
         THEN /\ flusher' = [flusher EXCEPT ![f] = IF local[f] = << >> THEN "done"
                                                                    ELSE "header"]
              /\ UNCHANGED <<heap, local>>
         ELSE LET h == Popped(heap) IN
              /\ heap' = h
              /\ local' = [local EXCEPT ![f] = Append(@, h[Len(h)].msg)]
              /\ UNCHANGED flusher
    /\ UNCHANGED <<submitted, wire, connOpen, peerUp>>

\* One GetNextMsg call of flushBatch's loop: pop the top message, or find
\* the queue empty and go on to write what was collected (nothing: return).
Drain(f) ==
    /\ flusher[f] = "drain"
    /\ IF heap = << >>
         THEN /\ flusher' = [flusher EXCEPT ![f] = IF local[f] = << >> THEN "done"
                                                                    ELSE "header"]
              /\ UNCHANGED <<heap, local>>
         ELSE LET h == Popped(heap) IN
              /\ heap' = SubSeq(h, 1, Len(h) - 1)
              /\ local' = [local EXCEPT ![f] = Append(@, h[Len(h)].msg)]
              /\ UNCHANGED flusher
    /\ UNCHANGED <<submitted, wire, connOpen, peerUp>>

\* A Conn.Write fails on a closed connection, and may fail once the remote
\* has hung up.
WriteMayFail == ~connOpen \/ ~peerUp

\* A failed write: flushBatch returns the error, dropping the messages it
\* still holds; WriteMsg has long returned nil.
DropBatch(f) ==
    /\ flusher' = [flusher EXCEPT ![f] = "done"]
    /\ local' = [local EXCEPT ![f] = << >>]
    /\ UNCHANGED wire

\* Conn.Write(header).
WriteHeader(f) ==
    /\ flusher[f] = "header"
    /\ \/ /\ connOpen
          /\ wire' = Append(wire, [part |-> "header", msg |-> Head(local[f])])
          /\ flusher' = [flusher EXCEPT ![f] = "payload"]
          /\ UNCHANGED local
       \/ WriteMayFail /\ DropBatch(f)
    /\ UNCHANGED <<heap, submitted, connOpen, peerUp>>

\* Conn.Write(compressedPayload), then the next message or return.
WritePayload(f) ==
    /\ flusher[f] = "payload"
    /\ \/ /\ connOpen
          /\ wire' = Append(wire, [part |-> "payload", msg |-> Head(local[f])])
          /\ flusher' = [flusher EXCEPT ![f] = IF Len(local[f]) = 1 THEN "done"
                                                                    ELSE "header"]
          /\ local' = [local EXCEPT ![f] = Tail(@)]
       \/ WriteMayFail /\ DropBatch(f)
    /\ UNCHANGED <<heap, submitted, connOpen, peerUp>>

\* Peer.Close.
Close ==
    /\ connOpen
    /\ connOpen' = FALSE
    /\ UNCHANGED <<heap, submitted, flusher, local, wire, peerUp>>

\* The remote node hangs up.
HangUp ==
    /\ peerUp
    /\ peerUp' = FALSE
    /\ UNCHANGED <<heap, submitted, flusher, local, wire, connOpen>>

FlushStep(f) == Wake(f) \/ Drain(f) \/ WriteHeader(f) \/ WritePayload(f)

Next ==
    \/ WriteMsg \/ Close \/ HangUp
    \/ \E f \in Msgs : FlushStep(f)

\* Every spawned flush goroutine runs; the caller, Close and the remote are
\* environment.
Fairness == \A f \in Msgs : WF_vars(FlushStep(f))

Spec == Init /\ [][Next]_vars

FairSpec == Spec /\ Fairness
-----------------------------------------------------------------------------

TypeOK ==
    /\ heap \in Seq([msg : Msgs, prio : Priorities]) /\ Len(heap) <= MaxMsgs
    /\ submitted \in 0 .. MaxMsgs
    /\ flusher \in [Msgs -> {"none", "sleep", "drain", "header", "payload", "done"}]
    /\ \A f \in Msgs : local[f] \in Seq(Msgs) /\ Len(local[f]) <= MaxMsgs
    /\ wire \in Seq([part : {"header", "payload"}, msg : Msgs])
    /\ connOpen \in BOOLEAN /\ peerUp \in BOOLEAN

\* Where message m is: heap slots, slots of flushBatch lists, payloads on the wire.
Copies(m) ==
    Cardinality({i \in DOMAIN heap : heap[i].msg = m})
    + Cardinality({<<f, i>> \in Msgs \X (1 .. MaxMsgs) :
                      i \in DOMAIN local[f] /\ local[f][i] = m})
    + Cardinality({i \in DOMAIN wire : wire[i].part = "payload" /\ wire[i].msg = m})

Written(m) == \E i \in DOMAIN wire : wire[i].part = "payload" /\ wire[i].msg = m

\* Every message given to WriteMsg is never in two places at once (the heap,
\* flush goroutines' batches, payloads on the wire): concurrent flush
\* goroutines, each popping under its own pm.mu call, never both take it.
\* While both ends are up, where writes cannot fail, it is in exactly one
\* place: no flush goroutine loses it.
MessageAccounted ==
    \A m \in 1 .. submitted :
        /\ Copies(m) <= 1
        /\ connOpen /\ peerUp => Copies(m) = 1

\* Every message given to WriteMsg eventually has its payload written,
\* unless the connection is closed or the remote hangs up: some flush
\* goroutine spawned at or after its WriteMsg finds it in the heap.
EventuallyWritten ==
    \A m \in Msgs : m <= submitted ~> (Written(m) \/ ~connOpen \/ ~peerUp)

\* Spec 4.8: frames are written back to back, each header directly
\* followed by its own payload, so ReadMsg can deframe the stream.
FramesIntact ==
    \A i \in DOMAIN wire :
        /\ wire[i].part = (IF i % 2 = 1 THEN "header" ELSE "payload")
        /\ i % 2 = 0 => wire[i].msg = wire[i - 1].msg

\* Spec 4.8/5: messages of equal priority go on the wire in the order of
\* their WriteMsg calls.
EqualPriorityFIFO ==
    \A i, j \in DOMAIN wire :
        (i < j /\ wire[i].part = "payload" /\ wire[j].part = "payload")
            => wire[i].msg < wire[j].msg
=============================================================================
