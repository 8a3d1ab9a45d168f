----------------------------- MODULE Threadpool -----------------------------
(***************************************************************************)
(* The thread pool of ggml-cpu (built without OpenMP): worker threads that *)
(* poll or sleep until the caller's thread, number 0, dispatches a graph,  *)
(* compute it together node by node with a spinning barrier between nodes, *)
(* and are paused, resumed and finally joined by the caller.               *)
(*                                                                         *)
(* A step is one access to shared memory, or one critical section: the     *)
(* variables the workers look at under the mutex are written by the caller *)
(* under the mutex too.  All accesses the code orders by fences are taken  *)
(* as sequentially consistent.                                             *)
(***************************************************************************)
EXTENDS Integers, Sequences, FiniteSets

CONSTANTS
    PoolSize,      \* threads of the pool, the caller's included
    GraphSet,      \* graphs: sequences of "nop", "share", "chunk", "fuse", "fused"
    BaseChunks,    \* chunks a matrix product is cut into by size
    ChunkFactor,   \* fewer than this many chunks per thread: one per thread (4)
    MaxGraphs,     \* bound on the graphs dispatched
    MaxPauses      \* bound on the calls of pause

VARIABLES
    mutex,             \* the caller is inside kickoff
    cgraph,            \* the graph of the pool
    n_graph,           \* [count, n]: graphs dispatched, threads of the last
    n_barrier, n_barrier_passed, current_chunk,
    stop, pause, abort,
    ec,                \* GGML_STATUS of the last graph
    pauses,            \* calls of pause so far
    pc,                \* where each thread is
    last_graph,        \* the n_graph each worker has seen
    node_n,            \* each thread's node
    n_passed,          \* n_barrier_passed as read on entering the barrier
    cont,              \* where each thread goes after the barrier
    cur,               \* each thread's chunk
    done,              \* history: shares finished, pairs of node and thread
    chunksDone         \* history: chunks finished of the current product

vars == <<mutex, cgraph, n_graph, n_barrier, n_barrier_passed, current_chunk, stop, pause,
          abort, ec, pauses, pc, last_graph, node_n, n_passed, cont, cur, done,
          chunksDone>>

pool    == <<mutex, cgraph, n_graph, stop, pause, pauses>>
barrier == <<n_barrier, n_barrier_passed, n_passed>>
chunks  == <<current_chunk, cur, chunksDone>>

Threads == 0..(PoolSize - 1)
Workers == 1..(PoolSize - 1)

ASSUME PoolAssumption ==
    /\ PoolSize \in Nat \ {0}
    /\ BaseChunks \in Nat \ {0} /\ ChunkFactor \in Nat \ {0}
    /\ MaxGraphs \in Nat /\ MaxPauses \in Nat
    /\ GraphSet \subseteq Seq({"nop", "share", "chunk", "fuse", "fused"}) \ {<<>>}

\* An operation is fused with the node behind it.
ASSUME FusedPairs ==
    \A g \in GraphSet : \A k \in 1..Len(g) :
        /\ g[k] = "fuse"  => k < Len(g) /\ g[k + 1] = "fused"
        /\ g[k] = "fused" => k > 1 /\ g[k - 1] = "fuse"

nth        == n_graph.n
NNodes     == Len(cgraph)
Kind(k)    == cgraph[k + 1]
NChunks    == IF BaseChunks < nth * ChunkFactor THEN nth ELSE BaseChunks
Goto(t, l) == pc' = [pc EXCEPT ![t] = l]

\* ggml_threadpool_new: the workers are started, possibly paused.
Init ==
    /\ mutex = FALSE /\ cgraph = <<>> /\ n_graph = [count |-> 0, n |-> 0]
    /\ n_barrier = 0 /\ n_barrier_passed = 0 /\ current_chunk = 0
    /\ stop = FALSE /\ pause \in BOOLEAN /\ abort = -1 /\ ec = "SUCCESS" /\ pauses = 0
    /\ pc = [t \in Threads |-> IF t = 0 THEN "idle" ELSE "top"]
    /\ last_graph = [t \in Threads |-> n_graph]
    /\ node_n = [t \in Threads |-> 0]
    /\ n_passed = [t \in Threads |-> 0]
    /\ cont = [t \in Threads |-> "loop"]
    /\ cur = [t \in Threads |-> 0]
    /\ done = {} /\ chunksDone = {}
-----------------------------------------------------------------------------
(* The caller.                                                             *)

\* Mutant: only the threads that wait in the pause loop are woken.
MUT_WakesPaused(l) ==
    [t \in Threads |-> IF t = 0 THEN l ELSE IF pc[t] = "pwait" THEN "plock" ELSE pc[t]]

\* ggml_cond_broadcast: every thread that waits is to run again.
Woken(l) == [t \in Threads |-> IF t = 0 THEN l
                               ELSE IF pc[t] = "cwait" THEN "lock"
                               ELSE IF pc[t] = "pwait" THEN "plock" ELSE pc[t]]

\* ggml_graph_compute resets the parameters of the pool, without the mutex.
GraphCompute(g) ==
    /\ pc[0] = "idle" /\ n_graph.count < MaxGraphs
    /\ cgraph' = g /\ abort' = -1 /\ ec' = "SUCCESS" /\ current_chunk' = 0
    /\ Goto(0, "kick")
    /\ UNCHANGED <<mutex, n_graph, barrier, last_graph, stop, pause, pauses, node_n, cont, cur, done,
                   chunksDone>>

\* Mutant: the plan's number of threads is used as it is.
MUT_AsPlanned(n) == n

\* A plan that asks for more threads than there are gets all of them.
Available(n) == IF n > PoolSize THEN PoolSize ELSE n

\* ggml_graph_compute_kickoff: the new n_graph can be seen by the threads that
\* poll before the pause is lifted and the sleeping threads are woken.
Kick(n) ==
    /\ pc[0] = "kick" /\ ~mutex
    /\ mutex' = TRUE
    /\ n_graph' = [count |-> n_graph.count + 1, n |-> Available(n)]
    /\ Goto(0, "wake")
    /\ UNCHANGED <<cgraph, barrier, last_graph, chunks, stop, pause, abort, ec, pauses, node_n, cont,
                   done>>

KickWake ==
    /\ pc[0] = "wake"
    /\ pause' = FALSE
    /\ pc' = Woken("loop")
    /\ mutex' = FALSE
    /\ UNCHANGED <<cgraph, n_graph, barrier, last_graph, chunks, stop, abort, ec, pauses, node_n, cont,
                   done>>

\* ggml_graph_compute reads ec after its own compute_thread returned.
GraphReturn ==
    /\ pc[0] = "ret"
    /\ Goto(0, "idle")
    /\ done' = {}
    /\ UNCHANGED <<pool, barrier, last_graph, chunks, abort, ec, node_n, cont>>

\* ggml_threadpool_pause, ggml_threadpool_resume.
PauseOrResume ==
    /\ pc[0] = "idle" /\ ~mutex
    /\ IF pause THEN UNCHANGED pauses
                ELSE pauses < MaxPauses /\ pauses' = pauses + 1
    /\ pause' = ~pause
    /\ pc' = Woken("idle")
    /\ UNCHANGED <<mutex, cgraph, n_graph, barrier, last_graph, chunks, stop, abort, ec, node_n, cont,
                   done>>

\* Mutant: a paused pool stays paused.
MUT_StaysPaused == stop' = TRUE /\ UNCHANGED pause

\* A paused worker does not look at the stop flag.
StopWorkers == stop' = TRUE /\ pause' = FALSE

\* ggml_threadpool_free: stop the workers, then join them.
Free ==
    /\ pc[0] = "idle" /\ ~mutex
    /\ StopWorkers
    /\ pc' = Woken("join")
    /\ UNCHANGED <<mutex, cgraph, n_graph, barrier, last_graph, chunks, abort, ec, pauses, node_n, cont,
                   done>>

Join ==
    /\ pc[0] = "join"
    /\ \A t \in Workers : pc[t] = "exited"
    /\ Goto(0, "freed")
    /\ UNCHANGED <<pool, barrier, last_graph, chunks, abort, ec, node_n, cont, done>>
-----------------------------------------------------------------------------
(* A worker between graphs: ggml_graph_compute_secondary_thread.           *)

Idles == UNCHANGED <<pool, barrier, chunks, abort, ec, node_n, cont, done>>

\* The head of the loop reads pause outside of the mutex, then stop.
Top(t) ==
    /\ pc[t] = "top"
    /\ Goto(t, IF pause THEN "plock" ELSE "stop?")
    /\ Idles /\ UNCHANGED last_graph

PauseLock(t) ==
    /\ pc[t] = "plock" /\ ~mutex
    /\ Goto(t, IF pause THEN "pwait" ELSE "top")
    /\ Idles /\ UNCHANGED last_graph

StopCheck(t) ==
    /\ pc[t] = "stop?"
    /\ Goto(t, IF stop THEN "exited" ELSE "poll")
    /\ Idles /\ UNCHANGED last_graph

\* ggml_graph_compute_thread_ready, first its flags, then n_graph.  The number
\* of polling rounds is bounded, so a thread may at any time go on to sleep.
PollFlags(t) ==
    /\ pc[t] = "poll"
    /\ IF stop \/ pause THEN Goto(t, "lock") ELSE Goto(t, "pollgraph")
    /\ Idles /\ UNCHANGED last_graph

\* The worker remembers the graph and, if it is one of its threads, computes it
\* (the code's pending flag is set, tested and cleared by the worker alone).
SeesGraph(t, otherwise) ==
    /\ last_graph' = [last_graph EXCEPT ![t] = n_graph]
    /\ Goto(t, IF t < n_graph.n THEN "loop" ELSE otherwise)

PollGraph(t) ==
    /\ pc[t] = "pollgraph"
    /\ IF n_graph # last_graph[t]
       THEN SeesGraph(t, "lock")
       ELSE UNCHANGED last_graph /\ (Goto(t, "poll") \/ Goto(t, "lock"))
    /\ Idles

\* The check under the mutex; cond_wait releases it and sleeps.
LockedCheck(t) ==
    /\ pc[t] = "lock" /\ ~mutex
    /\ IF stop \/ pause
       THEN UNCHANGED last_graph /\ Goto(t, "top")
       ELSE IF n_graph # last_graph[t]
            THEN SeesGraph(t, "top")
            ELSE UNCHANGED last_graph /\ Goto(t, "cwait")
    /\ Idles

\* A condition variable may also wake a thread for no reason.
SpuriousWakeup(t) ==
    /\ pc[t] \in {"cwait", "pwait"}
    /\ Goto(t, IF pc[t] = "cwait" THEN "lock" ELSE "plock")
    /\ Idles /\ UNCHANGED last_graph
-----------------------------------------------------------------------------
(* A thread that takes part in a graph: ggml_graph_compute_thread.         *)

\* The head of the node loop.
NextNode(t) ==
    /\ pc[t] = "loop"
    /\ IF node_n[t] >= NNodes \/ abort = node_n[t]
       THEN /\ cont' = [cont EXCEPT ![t] = "return"]
            /\ Goto(t, "barrier") /\ UNCHANGED node_n
       ELSE /\ UNCHANGED cont
            /\ IF Kind(node_n[t]) = "nop"
               THEN node_n' = [node_n EXCEPT ![t] = @ + 1] /\ UNCHANGED pc
               ELSE Goto(t, "compute") /\ UNCHANGED node_n
    /\ UNCHANGED <<pool, barrier, last_graph, chunks, abort, ec, done>>

\* A node whose work is divided by thread; the fused pair counts as its first.
ComputeShare(t) ==
    /\ pc[t] = "compute" /\ Kind(node_n[t]) # "chunk"
    /\ done' = done \cup {<<node_n[t], t>>}
    /\ node_n' = [node_n EXCEPT ![t] = IF Kind(@) = "fuse" THEN @ + 1 ELSE @]
    /\ Goto(t, "computed")
    /\ UNCHANGED <<pool, barrier, last_graph, chunks, abort, ec, cont>>

\* Mutant: the shared counter starts at the first chunk.
MUT_FromZero == 0

\* Every thread starts at its own number, so the first unprocessed chunk is nth.
FirstFreeChunk == nth

\* A matrix product converts its input, thread 0 resets the chunk counter, and
\* all meet at a barrier of their own.
PrepareChunks(t) ==
    /\ pc[t] = "compute" /\ Kind(node_n[t]) = "chunk"
    /\ IF t = 0 THEN current_chunk' = FirstFreeChunk /\ chunksDone' = {}
                ELSE UNCHANGED <<current_chunk, chunksDone>>
    /\ cur' = [cur EXCEPT ![t] = t]
    /\ cont' = [cont EXCEPT ![t] = "chunks"]
    /\ Goto(t, "barrier")
    /\ UNCHANGED <<pool, barrier, last_graph, abort, ec, node_n, done>>

FinishProduct(t) ==
    /\ done' = done \cup {<<node_n[t], t>>}
    /\ cur' = [cur EXCEPT ![t] = 0]
    /\ Goto(t, "computed")

ComputeChunk(t) ==
    /\ pc[t] = "chunks" /\ cur[t] < NChunks
    /\ chunksDone' = chunksDone \cup {cur[t]}
    /\ IF nth >= NChunks
       THEN FinishProduct(t)
       ELSE Goto(t, "take") /\ UNCHANGED <<done, cur>>
    /\ UNCHANGED <<pool, barrier, last_graph, current_chunk, abort, ec, node_n, cont>>

TakeChunk(t) ==
    /\ pc[t] = "take"
    /\ cur' = [cur EXCEPT ![t] = current_chunk]
    /\ current_chunk' = current_chunk + 1
    /\ Goto(t, "chunks")
    /\ UNCHANGED <<pool, barrier, last_graph, chunksDone, abort, ec, node_n, cont, done>>

NoMoreChunks(t) ==
    /\ pc[t] = "chunks" /\ cur[t] >= NChunks
    /\ FinishProduct(t)
    /\ UNCHANGED <<pool, barrier, last_graph, current_chunk, chunksDone, abort, ec, node_n, cont>>

\* Mutant: the threads leave at the node that was just computed.
MUT_AbortHere(t) == abort' = node_n[t]

\* Nothing after the node just computed is to be started.
AbortAfter(t) == abort' = node_n[t] + 1

\* After a node: thread 0 may be told to abort, and all meet unless it was the last.
AfterNode(t) ==
    /\ pc[t] = "computed"
    /\ \/ t = 0 /\ AbortAfter(t) /\ ec' = "ABORTED"
       \/ UNCHANGED <<abort, ec>>
    /\ cont' = [cont EXCEPT ![t] = "loop"]
    /\ IF node_n[t] + 1 < NNodes
       THEN Goto(t, "barrier") /\ UNCHANGED node_n
       ELSE Goto(t, "loop") /\ node_n' = [node_n EXCEPT ![t] = @ + 1]
    /\ UNCHANGED <<pool, barrier, last_graph, chunks, done>>
-----------------------------------------------------------------------------
(* ggml_barrier.                                                           *)

\* Where a thread goes when it has passed a barrier; its locals are dropped.
Leave(t) ==
    /\ node_n' = [node_n EXCEPT ![t] = CASE cont[t] = "loop"   -> @ + 1
                                        [] cont[t] = "chunks" -> @
                                        [] cont[t] = "return" -> 0]
    /\ n_passed' = [n_passed EXCEPT ![t] = 0]
    /\ cont' = [cont EXCEPT ![t] = "loop"]
    /\ Goto(t, CASE cont[t] # "return" -> cont[t]
                 [] cont[t] = "return" /\ t = 0 -> "ret"
                 [] OTHER -> "top")
    /\ UNCHANGED <<pool, last_graph, chunks, abort, ec, done>>

Waits == UNCHANGED <<pool, last_graph, chunks, abort, ec, node_n, cont, done>>

EnterBarrier(t) ==
    /\ pc[t] = "barrier"
    /\ IF nth = 1
       THEN Leave(t) /\ UNCHANGED <<n_barrier, n_barrier_passed>>
       ELSE /\ n_passed' = [n_passed EXCEPT ![t] = n_barrier_passed]
            /\ Goto(t, "add")
            /\ Waits /\ UNCHANGED <<n_barrier, n_barrier_passed>>

\* Mutant: the barrier opens one thread early.
MUT_OneEarly == n_barrier >= nth - 2

\* The thread that arrives now is the last.
AllArrived == n_barrier = nth - 1

Add(t) ==
    /\ pc[t] = "add"
    /\ n_barrier' = n_barrier + 1
    /\ Goto(t, IF AllArrived THEN "reset" ELSE "spin")
    /\ Waits /\ UNCHANGED <<n_barrier_passed, n_passed>>

\* The last thread resets the counter before it releases the others.
LastThread(t) ==
    \/ /\ pc[t] = "reset"
       /\ n_barrier' = 0
       /\ Goto(t, "release")
       /\ Waits /\ UNCHANGED <<n_barrier_passed, n_passed>>
    \/ /\ pc[t] = "release"
       /\ n_barrier_passed' = n_barrier_passed + 1
       /\ Leave(t) /\ UNCHANGED n_barrier

Spin(t) ==
    /\ pc[t] = "spin"
    /\ n_barrier_passed # n_passed[t]
    /\ Leave(t) /\ UNCHANGED <<n_barrier, n_barrier_passed>>
-----------------------------------------------------------------------------
Participates(t) ==
    \/ NextNode(t) \/ ComputeShare(t)
    \/ PrepareChunks(t) \/ ComputeChunk(t) \/ TakeChunk(t) \/ NoMoreChunks(t)
    \/ AfterNode(t)
    \/ EnterBarrier(t) \/ Add(t) \/ LastThread(t) \/ Spin(t)

WorkerStep(t) ==
    \/ Top(t) \/ PauseLock(t) \/ StopCheck(t) \/ PollFlags(t) \/ PollGraph(t)
    \/ LockedCheck(t)

\* What the caller does once it is inside a function of the pool.
CallerStep == (\E n \in 1..(PoolSize + 1) : Kick(n)) \/ KickWake \/ GraphReturn \/ Join

Freed == pc[0] = "freed" /\ UNCHANGED vars

Next ==
    \/ \E g \in GraphSet : GraphCompute(g)
    \/ PauseOrResume \/ Free \/ CallerStep \/ Freed
    \/ \E t \in Threads : Participates(t)
    \/ \E t \in Workers : WorkerStep(t) \/ SpuriousWakeup(t)

Spec == Init /\ [][Next]_vars

\* Every thread is scheduled; what the caller does next is its own choice, and
\* nothing is owed to a spurious wakeup.
FairSpec ==
    /\ Spec
    /\ WF_vars(CallerStep)
    /\ \A t \in Threads : WF_vars(Participates(t))
    /\ \A t \in Workers : WF_vars(WorkerStep(t))
-----------------------------------------------------------------------------
Inside == {"loop", "compute", "chunks", "take", "computed", "barrier", "add", "reset",
           "release", "spin"}

\* The type invariant of the pool.
PoolTypeOK ==
    /\ mutex \in BOOLEAN /\ stop \in BOOLEAN /\ pause \in BOOLEAN
    /\ cgraph \in GraphSet \cup {<<>>}
    /\ n_graph \in [count : 0..MaxGraphs, n : 0..PoolSize]
    /\ n_barrier \in 0..PoolSize /\ n_barrier_passed \in Nat /\ current_chunk \in Nat
    /\ abort \in Int /\ ec \in {"SUCCESS", "ABORTED"} /\ pauses \in 0..MaxPauses
    /\ pc \in [Threads -> Inside \cup {"idle", "kick", "wake", "ret", "join", "freed", "top",
                 "plock", "pwait", "stop?", "poll", "pollgraph", "lock", "cwait", "exited"}]
    /\ last_graph \in [Threads -> [count : 0..MaxGraphs, n : 0..PoolSize]]
    /\ node_n \in [Threads -> Nat] /\ n_passed \in [Threads -> Nat] /\ cur \in [Threads -> Nat]
    /\ cont \in [Threads -> {"loop", "chunks", "return"}]

\* A worker uses the graph, the abort flag or the chunk counter from the moment
\* it starts on a graph until it spins at the last barrier.
UsesPool(t) == pc[t] \in Inside /\ ~(cont[t] = "return" /\ pc[t] = "spin" /\ n_passed[t] # n_barrier_passed)

\* "No worker threads should be accessing the parameters below at this stage":
\* when the caller is free to reset the graph, the abort flag and the chunk
\* counter, every worker is behind the last barrier of the graph before, or
\* was no part of it, however late it is.
ParametersPrivate ==
    pc[0] \in {"idle", "kick"} => \A t \in Workers : ~UsesPool(t)

\* The chunks of a matrix product are handed out once each, and all of them are
\* done when every thread is through with the product.
ChunksOnce ==
    /\ \A t, u \in Threads :
          (t # u /\ pc[t] = "chunks" /\ pc[u] = "chunks" /\ cur[t] < NChunks) => cur[t] # cur[u]
    /\ \A t \in Threads : (pc[t] = "chunks" /\ cur[t] < NChunks) => cur[t] \notin chunksDone
    /\ \A k \in 0..(NNodes - 1) :
          (/\ pc[0] = "ret" /\ Kind(k) = "chunk" /\ \A t \in 0..(nth - 1) : <<k, t>> \in done
           /\ \A j \in (k + 1)..(NNodes - 1) : Kind(j) # "chunk")
          => chunksDone = 0..(NChunks - 1)

\* The graph as the caller sees it: from kickoff to return.
Running == pc[0] \in Inside \cup {"wake", "ret"}

Exec == INSTANCE GraphExec WITH
            graph <- IF Running THEN cgraph ELSE <<>>,
            n     <- IF Running THEN n_graph.n ELSE 0,
            done  <- done,
            cut   <- IF Running THEN abort ELSE -1

\* The pool computes a graph in lock step: no share of a node is finished before
\* the whole of every earlier node, the threads of one graph all stop at the
\* same node when it is aborted, and the call returns only when all of that is
\* complete, whichever threads are late from an earlier graph with more or
\* fewer threads.
InLockStep == Exec!Spec

\* A dispatched graph is computed and the call returns: no thread sleeps through
\* the dispatch, and no barrier waits for a thread that is not coming.
GraphReturns == (pc[0] \in Inside \cup {"kick", "wake", "ret"}) ~> (pc[0] = "idle")

\* ggml_threadpool_free joins every worker, also the paused and sleeping ones.
PoolIsFreed == (pc[0] = "join") ~> (pc[0] = "freed")
=============================================================================
