-------------------------- MODULE ThreadpoolProofs --------------------------
(***************************************************************************)
(* The safety of the thread pool for every number of threads, every set of *)
(* graphs and every way of cutting a product into chunks: its types, that  *)
(* the caller has the parameters of the pool to itself between graphs,     *)
(* that chunks are handed out once, and that the pool implements           *)
(* GraphExec.                                                              *)
(*                                                                         *)
(* The argument: the barriers cut the computation of a graph into segments *)
(* and all threads of the team are in the same one.  A segment has a stop  *)
(* e, the node its threads go to: they compute it ("node"; a product in    *)
(* two segments, the second is "chunks"), or the graph ends there          *)
(* ("exit").  Between graphs the segment is "over".  A thread that was     *)
(* released from a barrier and has not noticed counts as being behind it.  *)
(***************************************************************************)
EXTENDS Threadpool, FiniteSetTheorems, WellFoundedInduction, TLAPS

SegKinds == {"node", "chunks", "exit", "over"}

\* The threads of the current graph.
Team == 0..(nth - 1)

NodeSet == {k \in 0..(NNodes - 1) : Kind(k) \notin {"nop", "fused"}}

\* The barrier a thread spins at has been opened, or not.
Released(t) == pc[t] = "spin" /\ n_passed[t] # n_barrier_passed
Spinning(t) == pc[t] = "spin" /\ n_passed[t] = n_barrier_passed
Waiting(t)  == pc[t] \in {"barrier", "add", "reset", "release"} \/ Spinning(t)

\* Where a thread is, and at which node, once it has noticed.
At(t, l)  == pc[t] = l \/ (Released(t) /\ cont[t] = l)
NodeOf(t) == IF Released(t) /\ cont[t] = "loop" THEN node_n[t] + 1 ELSE node_n[t]

\* The thread has nothing to do with the current graph, or no more.
Out(t) ==
    \/ pc[t] \notin Inside \cup {"wake"} /\ node_n[t] = 0
    \/ Released(t) /\ cont[t] = "return"

OnlyNops(a, e) == a <= e /\ \A m \in a..(e - 1) : Kind(m) = "nop"

\* The last node that is computed with node e.
EndOf(e) == IF Kind(e) = "fuse" THEN e + 1 ELSE e

\* The share of node e is finished in this segment.
HasShare(kind, e) == kind = "chunks" \/ (kind = "node" /\ Kind(e) # "chunk")

Started(t)    == t > 0 => last_graph[t] = n_graph
NotStarted(t) == IF t = 0 THEN pc[0] = "wake" /\ node_n[0] = 0
                 ELSE Out(t) /\ last_graph[t] # n_graph

\* The thread is on its way to its share, or to the end of the graph.
Before(t, kind, e) ==
    \/ NotStarted(t) /\ kind \in {"node", "exit"} /\ OnlyNops(0, e)
    \/ Started(t) /\ kind \in {"node", "exit"} /\ At(t, "loop") /\ OnlyNops(NodeOf(t), e)
    \/ Started(t) /\ kind = "node" /\ pc[t] = "compute" /\ node_n[t] = e
    \/ /\ Started(t) /\ kind = "node" /\ Kind(e) = "chunk"
       /\ Waiting(t) /\ cont[t] = "chunks" /\ node_n[t] = e
    \/ Started(t) /\ kind = "chunks" /\ (At(t, "chunks") \/ pc[t] = "take") /\ node_n[t] = e
    \/ Started(t) /\ kind = "exit" /\ Waiting(t) /\ cont[t] = "return" /\ node_n[t] = e

\* The thread has finished its share of node e.
After(t, kind, e) ==
    /\ Started(t) /\ HasShare(kind, e)
    /\ \/ pc[t] = "computed" /\ node_n[t] = EndOf(e)
       \/ Waiting(t) /\ cont[t] = "loop" /\ node_n[t] = EndOf(e) /\ EndOf(e) + 1 < NNodes
       \/ /\ EndOf(e) + 1 = NNodes /\ node_n[t] = NNodes
          /\ pc[t] = "loop" \/ (Waiting(t) /\ cont[t] = "return")

\* All threads of the team are in the same segment, the others in none.
InSegment(kind, e) ==
    /\ kind = "over" =>
          \A t \in Threads : Out(t) /\ (t \in Workers /\ t < nth => last_graph[t] = n_graph)
    /\ kind # "over" =>
          /\ nth >= 1 /\ cgraph \in GraphSet
          /\ \A t \in Team : Before(t, kind, e) \/ After(t, kind, e)
          /\ \A t \in Threads \ Team : Out(t)

\* What the stop of a segment is; only thread 0 can have set the abort flag,
\* after its share.
StopsAt(kind, e) ==
    /\ kind \in {"node", "chunks"} =>
          /\ e \in NodeSet /\ (kind = "chunks" => Kind(e) = "chunk")
          /\ abort # -1 => abort = EndOf(e) + 1 /\ After(0, kind, e) /\ pc[0] # "computed"
    /\ kind = "exit" => e <= NNodes /\ ((abort = -1 /\ e = NNodes) \/ abort = e)

\* The shares that are done: those of the nodes before the stop, and of the stop
\* those of the threads behind it.
SharesDone(kind, e) ==
    /\ done \subseteq NodeSet \X Team
    /\ (kind = "over" /\ pc[0] \notin {"idle", "kick", "join", "freed"}) =>
          \A k \in NodeSet, t \in Team : (abort = -1 \/ k < abort) => <<k, t>> \in done
    /\ kind # "over" =>
          \A k \in NodeSet, t \in Team :
              <<k, t>> \in done <=> (k < e \/ (k = e /\ After(t, kind, e)))

\* n_barrier counts the threads that spin; a thread that is about to open the
\* barrier is the last.
BarrierCounts(kind) ==
    IF kind = "over" THEN n_barrier = 0
    ELSE \/ /\ \A t \in Team : pc[t] \notin {"reset", "release"}
            /\ n_barrier = Cardinality({t \in Team : Spinning(t)})
         \/ \E r \in Team :
               /\ (pc[r] = "reset" /\ n_barrier = nth) \/ (pc[r] = "release" /\ n_barrier = 0)
               /\ \A t \in Team \ {r} : Spinning(t)

\* n_passed was read in the current generation, or in an earlier one.
PassedRead ==
    \A t \in Threads :
        /\ n_passed[t] <= n_barrier_passed
        /\ pc[t] \in {"add", "reset", "release"} => n_passed[t] = n_barrier_passed

\* The chunks of a product: every chunk below the counter is done or in the hands
\* of one thread.
ChunksShared(kind, e) ==
    /\ (kind = "node" /\ Kind(e) = "chunk") =>
          /\ \A t \in Team : (Waiting(t) /\ cont[t] = "chunks") => cur[t] = t
          /\ (Waiting(0) /\ cont[0] = "chunks") => current_chunk = nth /\ chunksDone = {}
    /\ kind = "chunks" =>
          /\ current_chunk >= nth
          /\ \A c \in chunksDone : c \in 0..(NChunks - 1) /\ c < current_chunk
          /\ \A t \in Team : At(t, "chunks") => cur[t] < current_chunk /\ cur[t] \notin chunksDone
          /\ \A t, u \in Team : (t # u /\ At(t, "chunks") /\ At(u, "chunks")) => cur[t] # cur[u]
          /\ \A c \in 0..(NChunks - 1) : c < current_chunk =>
                c \in chunksDone \/ \E t \in Team : At(t, "chunks") /\ cur[t] = c
          /\ \A t \in Team : After(t, kind, e) => current_chunk >= NChunks

\* The last product of the graph is complete when all its shares are done.
LastProductDone ==
    \A k \in 0..(NNodes - 1) :
        (/\ nth >= 1 /\ Kind(k) = "chunk" /\ \A t \in Team : <<k, t>> \in done
         /\ \A j \in (k + 1)..(NNodes - 1) : Kind(j) # "chunk")
        => chunksDone = 0..(NChunks - 1)

CallerRest == {"idle", "kick", "ret", "join", "freed"}
WorkerRest == {"top", "plock", "pwait", "stop?", "poll", "pollgraph", "lock", "cwait", "exited"}

\* The caller and the workers between graphs.
Resting ==
    /\ pc[0] \in Inside \cup {"wake"} \cup CallerRest
    /\ \A t \in Workers : pc[t] \in Inside \cup WorkerRest
    /\ pc[0] \in Inside \cup {"wake", "ret"} => nth >= 1 /\ cgraph \in GraphSet
    /\ pc[0] = "kick" => cgraph \in GraphSet /\ abort = -1 /\ n_graph.count < MaxGraphs
    /\ pc[0] \in {"idle", "kick", "join", "freed"} => done = {}
    /\ \A t \in Workers : last_graph[t].count <= n_graph.count

Segment(kind, e) ==
    /\ StopsAt(kind, e)
    /\ InSegment(kind, e)
    /\ SharesDone(kind, e)
    /\ BarrierCounts(kind)
    /\ ChunksShared(kind, e)

IInv ==
    /\ PoolTypeOK
    /\ Resting
    /\ PassedRead
    /\ LastProductDone
    /\ \E kind \in SegKinds, e \in Nat : Segment(kind, e)
-----------------------------------------------------------------------------
(* The graph and its threads.                                              *)

\* A set of numbers that is not empty has a least element.
LEMMA NatMin ==
    ASSUME NEW S \in SUBSET Nat, S # {}
    PROVE  \E m \in S : \A k \in S : m <= k
<1>1. IsWellFoundedOn(OpToRel(<, Nat), Nat)
  BY NatLessThanWellFounded
<1>2. PICK m \in S : \A k \in S : ~(<<k, m>> \in OpToRel(<, Nat))
  BY <1>1, WFMin
<1>3. \A k \in S : ~(k < m)
  BY <1>2 DEF OpToRel
<1> QED BY <1>3

\* A graph has at most all threads of the pool.
LEMMA TeamFacts ==
    ASSUME PoolTypeOK
    PROVE  /\ nth \in 0..PoolSize /\ PoolSize \in Nat \ {0} /\ 0 \in Threads
           /\ Team \subseteq Threads
           /\ NChunks \in Nat \ {0}
<1>1. nth \in 0..PoolSize /\ PoolSize \in Nat \ {0}
  <2>1. n_graph \in [count : 0..MaxGraphs, n : 0..PoolSize]
    BY DEF PoolTypeOK
  <2> QED BY <2>1, PoolAssumption DEF nth
<1>2. Team \subseteq Threads /\ 0 \in Threads
  BY <1>1 DEF Team, Threads
<1>3. NChunks \in Nat \ {0}
  <2>1. BaseChunks \in Nat \ {0} /\ ChunkFactor \in Nat \ {0}
    BY PoolAssumption
  <2>2. CASE nth = 0
    BY <2>1, <2>2 DEF NChunks
  <2> QED BY <1>1, <2>1, <2>2 DEF NChunks
<1> QED BY <1>1, <1>2, <1>3

\* The nodes of a graph by their number, and the fused pairs.
LEMMA GraphFacts ==
    ASSUME PoolTypeOK, cgraph \in GraphSet
    PROVE  /\ NNodes \in Nat \ {0}
           /\ \A k \in 0..(NNodes - 1) :
                 /\ Kind(k) \in {"nop", "share", "chunk", "fuse", "fused"}
                 /\ Kind(k) = "fuse"  => k + 1 < NNodes /\ Kind(k + 1) = "fused"
                 /\ Kind(k) = "fused" => k > 0 /\ Kind(k - 1) = "fuse"
<1>1. cgraph \in Seq({"nop", "share", "chunk", "fuse", "fused"}) /\ cgraph # <<>>
  BY PoolAssumption
<1>2. NNodes \in Nat \ {0}
  BY <1>1 DEF NNodes
<1>3. ASSUME NEW k \in 0..(NNodes - 1)
      PROVE  k + 1 \in 1..Len(cgraph)
  BY <1>2 DEF NNodes
<1> QED BY <1>1, <1>2, <1>3, FusedPairs DEF NNodes, Kind

\* From every node the threads reach the same stop: the next node that is
\* computed, the node to leave at, or the end of the graph.
LEMMA FirstStop ==
    ASSUME PoolTypeOK, cgraph \in GraphSet, NEW m \in Nat, m <= NNodes
    PROVE  \E e \in m..NNodes :
              /\ OnlyNops(m, e)
              /\ e = NNodes \/ abort = e \/ Kind(e) # "nop"
              /\ abort \notin m..(e - 1)
<1> DEFINE S == {e \in m..NNodes : e = NNodes \/ abort = e \/ Kind(e) # "nop"}
<1>1. NNodes \in Nat
  BY GraphFacts
<1>2. S \in SUBSET Nat /\ NNodes \in S
  BY <1>1
<1>3. PICK e \in S : \A k \in S : e <= k
  <2> HIDE DEF S
  <2> QED BY <1>2, NatMin
<1>4. ASSUME NEW k \in m..(e - 1)
      PROVE  Kind(k) = "nop" /\ abort # k
  <2>1. k \in m..NNodes /\ ~(e <= k)
    BY <1>1, <1>3
  <2> QED BY <2>1, <1>3
<1> QED BY <1>1, <1>3, <1>4 DEF OnlyNops
-----------------------------------------------------------------------------
(* One thread.                                                             *)

\* What the predicates on a thread look at.
Same(t) ==
    /\ pc'[t] = pc[t] /\ cont'[t] = cont[t] /\ node_n'[t] = node_n[t]
    /\ n_passed'[t] = n_passed[t] /\ last_graph'[t] = last_graph[t]

Shared == <<cgraph, n_graph, n_barrier_passed>>

\* A thread that does not move is where it was.
LEMMA FrameThread ==
    ASSUME NEW t, NEW kind, NEW e, UNCHANGED Shared, Same(t)
    PROVE  /\ Before(t, kind, e)' <=> Before(t, kind, e)
           /\ After(t, kind, e)' <=> After(t, kind, e)
           /\ Out(t)' <=> Out(t)
           /\ Spinning(t)' <=> Spinning(t)
           /\ Waiting(t)' <=> Waiting(t)
           /\ At(t, "chunks")' <=> At(t, "chunks")
<1>1. /\ Released(t)' <=> Released(t)
      /\ Spinning(t)' <=> Spinning(t)
      /\ NodeOf(t)' = NodeOf(t)
  BY DEF Released, Spinning, Same, Shared, NodeOf
<1>2. /\ Waiting(t)' <=> Waiting(t)
      /\ At(t, "chunks")' <=> At(t, "chunks")
      /\ At(t, "loop")' <=> At(t, "loop")
      /\ Out(t)' <=> Out(t)
      /\ Started(t)' <=> Started(t)
  BY <1>1 DEF Waiting, At, Out, Same, Shared, Inside, Started
<1>3. NotStarted(t)' <=> NotStarted(t)
  BY <1>2 DEF NotStarted, Same, Shared
<1>4. /\ \A a : OnlyNops(a, e)' <=> OnlyNops(a, e)
      /\ EndOf(e)' = EndOf(e) /\ NNodes' = NNodes /\ Kind(e)' = Kind(e)
      /\ HasShare(kind, e)' <=> HasShare(kind, e)
  BY DEF OnlyNops, EndOf, NNodes, Kind, HasShare, Shared
<1> HIDE DEF Shared
<1>5. Before(t, kind, e)' <=> Before(t, kind, e)
  BY <1>1, <1>2, <1>3, <1>4 DEF Before, Same
<1>6. After(t, kind, e)' <=> After(t, kind, e)
  BY <1>1, <1>2, <1>3, <1>4 DEF After, Same
<1> QED BY <1>1, <1>2, <1>5, <1>6

\* A thread that is inside a graph and still has something to do there is one of
\* the team, in the segment of the team.
LEMMA Participant ==
    ASSUME IInv, NEW kind \in SegKinds, NEW e \in Nat, Segment(kind, e),
           NEW t \in Threads, pc[t] \in Inside, ~(Released(t) /\ cont[t] = "return")
    PROVE  /\ kind # "over" /\ t \in Team /\ Team \subseteq Threads
           /\ Started(t) /\ ~Out(t)
           /\ Before(t, kind, e) \/ After(t, kind, e)
           /\ cgraph \in GraphSet /\ nth \in 1..PoolSize
<1>1. ~Out(t)
  BY DEF Out
<1>2. kind # "over" /\ t \in Team /\ nth >= 1 /\ cgraph \in GraphSet
  BY <1>1 DEF Segment, InSegment
<1>3. Before(t, kind, e) \/ After(t, kind, e)
  BY <1>2 DEF Segment, InSegment
<1>4. ~NotStarted(t)
  BY <1>1 DEF NotStarted, Inside
<1>5. Started(t)
  BY <1>3, <1>4 DEF Before, After
<1>6. nth \in 0..PoolSize /\ Team \subseteq Threads
  BY TeamFacts DEF IInv
<1> QED BY <1>1, <1>2, <1>3, <1>5, <1>6

\* The operators on the graph do not change while the graph is computed.
LEMMA FrameGraph ==
    ASSUME UNCHANGED Shared
    PROVE  /\ nth' = nth /\ Team' = Team /\ NNodes' = NNodes /\ NodeSet' = NodeSet
           /\ NChunks' = NChunks
           /\ \A k : Kind(k)' = Kind(k) /\ EndOf(k)' = EndOf(k)
BY DEF Shared, nth, Team, NNodes, NodeSet, NChunks, Kind, EndOf

\* One thread of the team moves and stays in the segment.
Moves(t, kind, e) ==
    /\ kind # "over" /\ t \in Team
    /\ UNCHANGED Shared
    /\ \A u \in Threads \ {t} : Same(u)
    /\ Before(t, kind, e)' \/ After(t, kind, e)'

\* When the mover is still in the segment, so is everybody.
LEMMA SegmentKept ==
    ASSUME PoolTypeOK, NEW kind \in SegKinds, NEW e \in Nat, Segment(kind, e),
           NEW t \in Threads, Moves(t, kind, e)
    PROVE  InSegment(kind, e)'
<1>1. nth' = nth /\ Team' = Team /\ cgraph' = cgraph /\ UNCHANGED Shared
  BY FrameGraph DEF Moves, Shared
<1>2. kind # "over" /\ nth >= 1 /\ cgraph \in GraphSet
  BY DEF Moves, Segment, InSegment
<1>3. ASSUME NEW u \in Team
      PROVE  Before(u, kind, e)' \/ After(u, kind, e)'
  <2>1. CASE u = t
    BY <2>1 DEF Moves
  <2>2. CASE u # t
    <3>1. Same(u)
      BY <2>2, TeamFacts DEF Moves
    <3>2. Before(u, kind, e) \/ After(u, kind, e)
      BY <1>2 DEF Segment, InSegment
    <3> QED BY <1>1, <3>1, <3>2, FrameThread
  <2> QED BY <2>1, <2>2
<1>4. ASSUME NEW u \in Threads \ Team
      PROVE  Out(u)'
  <2>1. Same(u) /\ Out(u)
    BY <1>2 DEF Moves, Segment, InSegment
  <2> QED BY <1>1, <2>1, FrameThread
<1>5. Threads' = Threads
  BY DEF Threads
<1> QED BY <1>1, <1>2, <1>3, <1>4, <1>5 DEF InSegment

\* A thread that stays on its side of its share leaves the shares as they are.
LEMMA SharesKept ==
    ASSUME PoolTypeOK, NEW kind \in SegKinds, NEW e \in Nat, Segment(kind, e),
           NEW t \in Threads, Moves(t, kind, e),
           done' = done, After(t, kind, e)' <=> After(t, kind, e)
    PROVE  SharesDone(kind, e)'
<1>1. Team' = Team /\ NodeSet' = NodeSet /\ UNCHANGED Shared /\ kind # "over"
  BY FrameGraph DEF Moves
<1>2. ASSUME NEW u \in Team
      PROVE  After(u, kind, e)' <=> After(u, kind, e)
  <2>1. CASE u # t
    BY <1>1, <2>1, FrameThread, TeamFacts DEF Moves
  <2> QED BY <2>1
<1>3. SharesDone(kind, e)
  BY DEF Segment
<1> QED BY <1>1, <1>2, <1>3 DEF SharesDone

\* The stop of the segment stays the stop while the abort flag is not touched.
LEMMA StopKept ==
    ASSUME PoolTypeOK, NEW kind \in SegKinds, NEW e \in Nat, Segment(kind, e),
           NEW t \in Threads, Moves(t, kind, e), abort' = abort,
           (t = 0 /\ abort # -1 /\ kind # "exit") => After(0, kind, e)' /\ pc'[0] # "computed"
    PROVE  StopsAt(kind, e)'
<1>1. /\ NodeSet' = NodeSet /\ NNodes' = NNodes /\ EndOf(e)' = EndOf(e)
      /\ Kind(e)' = Kind(e) /\ UNCHANGED Shared /\ kind # "over"
  BY FrameGraph DEF Moves
<1>2. StopsAt(kind, e)
  BY DEF Segment
<1>3. ASSUME kind \in {"node", "chunks"}, abort # -1
      PROVE  After(0, kind, e)' /\ pc'[0] # "computed"
  <2>1. CASE t = 0
    BY <1>3, <2>1
  <2>2. CASE t # 0
    <3>1. Same(0)
      BY <2>2, TeamFacts DEF Moves
    <3>2. After(0, kind, e) /\ pc[0] # "computed"
      BY <1>2, <1>3 DEF StopsAt
    <3> QED BY <1>1, <3>1, <3>2, FrameThread DEF Same
  <2> QED BY <2>1, <2>2
<1> QED BY <1>1, <1>2, <1>3 DEF StopsAt

\* A thread waits at the barrier in the middle of a product.
Prepared(t) == Waiting(t) /\ cont[t] = "chunks"

\* The chunks stay shared out while nobody touches them.
LEMMA ChunksKept ==
    ASSUME PoolTypeOK, NEW kind \in SegKinds, NEW e \in Nat, Segment(kind, e),
           NEW t \in Threads, Moves(t, kind, e), UNCHANGED chunks,
           After(t, kind, e)' <=> After(t, kind, e),
           At(t, "chunks")' <=> At(t, "chunks"),
           Prepared(t)' <=> Prepared(t)
    PROVE  ChunksShared(kind, e)'
<1>1. /\ Team' = Team /\ NChunks' = NChunks /\ nth' = nth
      /\ Kind(e)' = Kind(e) /\ UNCHANGED Shared /\ kind # "over"
  BY FrameGraph DEF Moves
<1>2. \A u \in Threads :
         /\ After(u, kind, e)' <=> After(u, kind, e)
         /\ At(u, "chunks")' <=> At(u, "chunks")
         /\ Prepared(u)' <=> Prepared(u)
  BY <1>1, FrameThread DEF Moves, Same, Prepared
<1>3. Team \subseteq Threads /\ 0 \in Threads
  BY TeamFacts
<1>4. ChunksShared(kind, e)
  BY DEF Segment
<1>5. cur' = cur /\ current_chunk' = current_chunk /\ chunksDone' = chunksDone
  BY DEF chunks
<1> QED BY <1>1, <1>2, <1>3, <1>4, <1>5 DEF ChunksShared, Prepared

\* The counter of the barrier stays right while the mover is not at the barrier.
LEMMA CountKept ==
    ASSUME PoolTypeOK, NEW kind \in SegKinds, NEW e \in Nat, Segment(kind, e),
           NEW t \in Threads, Moves(t, kind, e), n_barrier' = n_barrier,
           ~Spinning(t), ~Spinning(t)',
           pc[t] \notin {"reset", "release"}, pc'[t] \notin {"reset", "release"}
    PROVE  BarrierCounts(kind)'
<1>1. Team' = Team /\ UNCHANGED Shared /\ kind # "over"
  BY FrameGraph DEF Moves
<1>2. \A u \in Threads :
         /\ Spinning(u)' <=> Spinning(u)
         /\ pc'[u] \in {"reset", "release"} <=> pc[u] \in {"reset", "release"}
  BY <1>1, FrameThread DEF Moves, Same
<1>3. Team \subseteq Threads
  BY TeamFacts
<1>4. BarrierCounts(kind)
  BY DEF Segment
<1>5. t \in Team
  BY DEF Moves
<1>6. \A r \in Team : ~(\A u \in Team \ {r} : Spinning(u)) \/ r = t
  BY <1>5
<1>7. /\ \A u \in Team : pc[u] \notin {"reset", "release"}
      /\ n_barrier = Cardinality({u \in Team : Spinning(u)})
  BY <1>1, <1>4, <1>6 DEF BarrierCounts
<1>8. {u \in Team : Spinning(u)} = {u \in Team' : Spinning(u)'}
  BY <1>1, <1>2, <1>3
<1> QED BY <1>1, <1>2, <1>3, <1>7, <1>8 DEF BarrierCounts

\* A step that only moves a thread within its segment.
LEMMA SilentStep ==
    ASSUME PoolTypeOK, NEW kind \in SegKinds, NEW e \in Nat, Segment(kind, e),
           NEW t \in Threads, Moves(t, kind, e), UNCHANGED <<done, abort, chunks>>,
           After(t, kind, e)' <=> After(t, kind, e),
           At(t, "chunks")' <=> At(t, "chunks"),
           Prepared(t)' <=> Prepared(t),
           (t = 0 /\ abort # -1 /\ kind # "exit") => pc'[0] # "computed",
           BarrierCounts(kind)'
    PROVE  Segment(kind, e)'
<1>1. (t = 0 /\ abort # -1 /\ kind # "exit") => After(0, kind, e)' /\ pc'[0] # "computed"
  <2>1. kind # "over" /\ StopsAt(kind, e)
    BY DEF Moves, Segment
  <2> QED BY <2>1 DEF StopsAt, SegKinds
<1> QED BY <1>1, SegmentKept, SharesKept, StopKept, ChunksKept DEF Segment
-----------------------------------------------------------------------------
(* Types.                                                                  *)

Rests == {"idle", "kick", "wake", "ret", "join", "freed", "top", "plock", "pwait", "stop?",
          "poll", "pollgraph", "lock", "cwait", "exited"}

\* What a step of a computing thread may change.
ThreadTypes ==
    /\ n_barrier \in 0..PoolSize /\ n_barrier_passed \in Nat /\ current_chunk \in Nat
    /\ abort \in Int /\ ec \in {"SUCCESS", "ABORTED"}
    /\ pc \in [Threads -> Inside \cup Rests]
    /\ node_n \in [Threads -> Nat] /\ n_passed \in [Threads -> Nat] /\ cur \in [Threads -> Nat]
    /\ cont \in [Threads -> {"loop", "chunks", "return"}]

\* The steps of a thread that computes a graph keep the types.
LEMMA TypeInside ==
    ASSUME PoolTypeOK, NEW t \in Threads, Participates(t),
           pc[t] = "add" => n_barrier < PoolSize
    PROVE  PoolTypeOK'
<1>0. /\ ThreadTypes /\ nth \in Nat /\ t \in Nat
      /\ PoolSize \in Nat \ {0}
      /\ \A l \in {"loop", "compute", "chunks", "take", "computed", "barrier", "add", "reset",
                   "release", "spin", "ret", "top"} : l \in Inside \cup Rests
  <2>1. nth \in Nat /\ t \in Nat /\ PoolSize \in Nat \ {0}
    BY TeamFacts DEF Threads
  <2> QED BY <2>1 DEF PoolTypeOK, ThreadTypes, Inside, Rests
<1>a. UNCHANGED <<pool, last_graph>>
  BY DEF Participates, NextNode, ComputeShare, PrepareChunks, ComputeChunk, TakeChunk,
         NoMoreChunks, AfterNode, EnterBarrier, Add, LastThread, Spin, Leave, Waits
<1>b. SUFFICES ThreadTypes'
  BY <1>a DEF PoolTypeOK, ThreadTypes, pool, Rests
<1> USE DEF ThreadTypes, Goto
<1>1. CASE NextNode(t)
  <2>1. cont' \in [Threads -> {"loop", "chunks", "return"}] /\ node_n' \in [Threads -> Nat]
    BY <1>0, <1>1 DEF NextNode
  <2>2. pc' \in [Threads -> Inside \cup Rests]
    BY <1>0, <1>1 DEF NextNode
  <2> QED BY <1>0, <1>1, <2>1, <2>2 DEF NextNode, barrier, chunks
<1>2. CASE ComputeShare(t)
  BY <1>0, <1>2 DEF ComputeShare, barrier, chunks
<1>3. CASE PrepareChunks(t)
  BY <1>0, <1>3 DEF PrepareChunks, FirstFreeChunk, barrier
<1>4. CASE ComputeChunk(t)
  BY <1>0, <1>4 DEF ComputeChunk, FinishProduct, barrier
<1>5. CASE TakeChunk(t)
  BY <1>0, <1>5 DEF TakeChunk, barrier
<1>6. CASE NoMoreChunks(t)
  BY <1>0, <1>6 DEF NoMoreChunks, FinishProduct, barrier
<1>7. CASE AfterNode(t)
  <2>1. /\ abort' \in Int /\ ec' \in {"SUCCESS", "ABORTED"}
        /\ cont' \in [Threads -> {"loop", "chunks", "return"}]
    BY <1>0, <1>7 DEF AfterNode, AbortAfter
  <2>2. node_n' \in [Threads -> Nat] /\ pc' \in [Threads -> Inside \cup Rests]
    BY <1>0, <1>7 DEF AfterNode
  <2> QED BY <1>0, <1>7, <2>1, <2>2 DEF AfterNode, barrier, chunks
<1>8. ASSUME Leave(t), n_barrier' \in 0..PoolSize, n_barrier_passed' \in Nat
      PROVE  ThreadTypes'
  <2>1. CASE cont[t] = "return"
    BY <1>0, <1>8, <2>1 DEF Leave, chunks
  <2>2. CASE cont[t] = "loop"
    BY <1>0, <1>8, <2>2 DEF Leave, chunks
  <2>3. CASE cont[t] = "chunks"
    BY <1>0, <1>8, <2>3 DEF Leave, chunks
  <2> QED BY <1>0, <2>1, <2>2, <2>3
<1>9. CASE EnterBarrier(t)
  <2>1. CASE nth = 1
    BY <1>0, <1>8, <1>9, <2>1 DEF EnterBarrier
  <2>2. CASE nth # 1
    BY <1>0, <1>9, <2>2 DEF EnterBarrier, Waits, chunks
  <2> QED BY <2>1, <2>2
<1>10. CASE Add(t)
  BY <1>0, <1>10 DEF Add, Waits, chunks
<1>11. CASE LastThread(t)
  <2>1. CASE pc[t] = "reset"
    BY <1>0, <1>11, <2>1 DEF LastThread, Waits, chunks
  <2>2. CASE pc[t] # "reset"
    BY <1>0, <1>8, <1>11, <2>2 DEF LastThread
  <2> QED BY <2>1, <2>2
<1>12. CASE Spin(t)
  BY <1>0, <1>8, <1>12 DEF Spin
<1> QED BY <1>1, <1>2, <1>3, <1>4, <1>5, <1>6, <1>7, <1>9, <1>10, <1>11, <1>12 DEF Participates

\* So do the steps of the caller and of the workers between graphs.
LEMMA TypeBetween ==
    ASSUME PoolTypeOK, Resting,
           \/ \E g \in GraphSet : GraphCompute(g)
           \/ PauseOrResume \/ Free \/ CallerStep \/ Freed
           \/ \E t \in Workers : WorkerStep(t) \/ SpuriousWakeup(t)
    PROVE  PoolTypeOK'
<1> USE PoolAssumption DEF PoolTypeOK, Goto
<1>0. /\ 0 \in Threads /\ Workers \subseteq Threads
      /\ \A l \in Inside \cup Rests : Woken(l) \in [Threads -> Inside \cup Rests]
  <2>1. 0 \in Threads /\ Workers \subseteq Threads
    BY DEF Threads, Workers
  <2>2. pc \in [Threads -> Inside \cup Rests] /\ "lock" \in Rests /\ "plock" \in Rests
    BY DEF Rests
  <2> QED BY <2>1, <2>2 DEF Woken
<1>1. CASE \E g \in GraphSet : GraphCompute(g)
  BY <1>0, <1>1 DEF GraphCompute, barrier
<1>2. CASE PauseOrResume
  BY <1>0, <1>2, SMTT(60) DEF PauseOrResume, barrier, chunks, Rests
<1>3. CASE Free
  BY <1>0, <1>3 DEF Free, StopWorkers, barrier, chunks, Rests
<1>4. CASE CallerStep
  <2>1. ASSUME NEW n \in 1..(PoolSize + 1), Kick(n)
        PROVE  PoolTypeOK'
    <3>1. Available(n) \in 0..PoolSize
      BY DEF Available
    <3>2. n_graph.count + 1 \in 0..MaxGraphs
      BY <2>1 DEF Resting, Kick
    <3>3. n_graph' \in [count : 0..MaxGraphs, n : 0..PoolSize]
      BY <2>1, <3>1, <3>2 DEF Kick
    <3> QED BY <1>0, <2>1, <3>3 DEF Kick, barrier, chunks
  <2>2. CASE KickWake
    BY <1>0, <2>2 DEF KickWake, barrier, chunks, Rests, Inside
  <2>3. CASE GraphReturn
    BY <1>0, <2>3 DEF GraphReturn, pool, barrier, chunks
  <2>4. CASE Join
    BY <1>0, <2>4 DEF Join, pool, barrier, chunks
  <2> QED BY <1>4, <2>1, <2>2, <2>3, <2>4 DEF CallerStep
<1>5. CASE Freed
  BY <1>5 DEF Freed, vars
<1>6. ASSUME NEW t \in Workers, WorkerStep(t) \/ SpuriousWakeup(t)
      PROVE  PoolTypeOK'
  <2>1. t \in Threads
    BY <1>0
  <2>2. ASSUME Idles PROVE UNCHANGED <<pool, barrier, chunks, abort, ec, node_n, cont, done>>
    BY <2>2 DEF Idles
  <2>3. Idles /\ pc' \in [Threads -> Inside \cup Rests]
    BY <1>6, <2>1, ZenonT(40) DEF WorkerStep, Top, PauseLock, StopCheck, PollFlags, PollGraph, SeesGraph,
                      LockedCheck, SpuriousWakeup, Inside, Rests
  <2>4. last_graph' \in [Threads -> [count : 0..MaxGraphs, n : 0..PoolSize]]
    BY <1>6, <2>1, ZenonT(40) DEF WorkerStep, Top, PauseLock, StopCheck, PollFlags, PollGraph, SeesGraph,
                      LockedCheck, SpuriousWakeup
  <2> QED BY <2>3, <2>4 DEF Idles, pool, barrier, chunks, Rests
<1> QED BY <1>1, <1>2, <1>3, <1>4, <1>5, <1>6
-----------------------------------------------------------------------------
(* The steps of a thread within a segment.                                 *)

\* A thread changes nothing of the others.
LEMMA MovesAlone ==
    ASSUME PoolTypeOK, NEW t \in Threads, Participates(t)
    PROVE  /\ UNCHANGED <<pool, last_graph>>
           /\ \A u \in Threads \ {t} : Same(u) /\ cur'[u] = cur[u]
<1>1. UNCHANGED <<pool, last_graph>>
  BY DEF Participates, NextNode, ComputeShare, PrepareChunks, ComputeChunk, TakeChunk,
         NoMoreChunks, AfterNode, EnterBarrier, Add, LastThread, Spin, Leave, Waits
<1>2. /\ pc \in [Threads -> Inside \cup Rests] /\ cont \in [Threads -> {"loop", "chunks", "return"}]
      /\ node_n \in [Threads -> Nat] /\ n_passed \in [Threads -> Nat] /\ cur \in [Threads -> Nat]
  BY DEF PoolTypeOK, Rests
<1> SUFFICES ASSUME NEW u \in Threads \ {t}
             PROVE  /\ pc'[u] = pc[u] /\ cont'[u] = cont[u] /\ node_n'[u] = node_n[u]
                    /\ n_passed'[u] = n_passed[u] /\ cur'[u] = cur[u]
  BY <1>1 DEF Same
<1> USE <1>2 DEF Goto
<1>3. CASE NextNode(t)
  BY <1>3 DEF NextNode, barrier, chunks
<1>4. CASE ComputeShare(t)
  BY <1>4 DEF ComputeShare, barrier, chunks
<1>5. CASE PrepareChunks(t)
  BY <1>5 DEF PrepareChunks, barrier
<1>6. CASE ComputeChunk(t) \/ NoMoreChunks(t)
  BY <1>6 DEF ComputeChunk, NoMoreChunks, FinishProduct, barrier
<1>7. CASE TakeChunk(t)
  BY <1>7 DEF TakeChunk, barrier
<1>8. CASE AfterNode(t)
  BY <1>8 DEF AfterNode, barrier, chunks
<1>9. ASSUME Leave(t)
      PROVE  /\ pc'[u] = pc[u] /\ cont'[u] = cont[u] /\ node_n'[u] = node_n[u]
             /\ n_passed'[u] = n_passed[u] /\ cur'[u] = cur[u]
  BY <1>9 DEF Leave, chunks
<1>10. CASE EnterBarrier(t)
  BY <1>9, <1>10 DEF EnterBarrier, Waits, chunks
<1>11. CASE Add(t)
  BY <1>11 DEF Add, Waits, chunks
<1>12. CASE LastThread(t)
  BY <1>9, <1>12 DEF LastThread, Waits, chunks
<1>13. CASE Spin(t)
  BY <1>9, <1>13 DEF Spin
<1> QED BY <1>3, <1>4, <1>5, <1>6, <1>7, <1>8, <1>10, <1>11, <1>12, <1>13 DEF Participates

\* Where a thread is that is about to take a node.
LEMMA AtLoop ==
    ASSUME IInv, NEW kind \in SegKinds, NEW e \in Nat, Segment(kind, e),
           NEW t \in Threads, pc[t] = "loop"
    PROVE  /\ kind # "over" /\ t \in Team /\ Started(t) /\ cgraph \in GraphSet
           /\ \/ kind \in {"node", "exit"} /\ OnlyNops(node_n[t], e) /\ ~After(t, kind, e)
              \/ After(t, kind, e) /\ node_n[t] = NNodes
           /\ NNodes \in Nat \ {0} /\ node_n[t] \in Nat
<1>1. /\ kind # "over" /\ t \in Team /\ Started(t) /\ cgraph \in GraphSet
      /\ Before(t, kind, e) \/ After(t, kind, e)
  BY Participant DEF Inside, Released
<1>2. NNodes \in Nat \ {0} /\ node_n[t] \in Nat
  BY <1>1, GraphFacts DEF IInv, PoolTypeOK
<1>3. CASE Before(t, kind, e)
  <2>1. kind \in {"node", "exit"} /\ OnlyNops(node_n[t], e)
    BY <1>1, <1>3 DEF Before, NotStarted, Out, At, NodeOf, Waiting, Spinning, Released, Inside
  <2>2. ~After(t, kind, e)
    <3>1. CASE kind = "exit"
      BY <3>1 DEF After, HasShare
    <3>2. CASE kind = "node"
      <4>1. node_n[t] <= e /\ e < NNodes
        BY <1>2, <2>1, <3>2 DEF OnlyNops, Segment, StopsAt, NodeSet
      <4> QED BY <1>2, <4>1 DEF After, Waiting, Spinning
    <3> QED BY <2>1, <3>1, <3>2
  <2> QED BY <1>1, <1>2, <2>1, <2>2
<1>4. CASE After(t, kind, e)
  BY <1>1, <1>2, <1>4 DEF After, Waiting, Spinning
<1> QED BY <1>1, <1>3, <1>4

\* The head of the node loop.
LEMMA NextNodeStep ==
    ASSUME IInv, NEW kind \in SegKinds, NEW e \in Nat, Segment(kind, e),
           NEW t \in Threads, NextNode(t)
    PROVE  Segment(kind, e)'
<1>0. /\ PoolTypeOK /\ pc[t] = "loop" /\ UNCHANGED <<done, abort, chunks, last_graph, n_passed>>
      /\ UNCHANGED Shared /\ n_barrier' = n_barrier
  BY DEF IInv, NextNode, pool, barrier, Shared
<1>1. /\ kind # "over" /\ t \in Team /\ Started(t) /\ cgraph \in GraphSet
      /\ \/ kind \in {"node", "exit"} /\ OnlyNops(node_n[t], e) /\ ~After(t, kind, e)
         \/ After(t, kind, e) /\ node_n[t] = NNodes
      /\ NNodes \in Nat \ {0} /\ node_n[t] \in Nat
  BY <1>0, AtLoop
<1>2. /\ \A u \in Threads \ {t} : Same(u)
      /\ Started(t)' /\ NNodes' = NNodes /\ EndOf(e)' = EndOf(e)
      /\ HasShare(kind, e)' <=> HasShare(kind, e)
      /\ \A a : OnlyNops(a, e)' <=> OnlyNops(a, e)
  <2>1. \A u \in Threads \ {t} : Same(u)
    BY <1>0, MovesAlone DEF Participates
  <2> QED BY <1>0, <1>1, <2>1, FrameGraph DEF Started, Shared, HasShare, OnlyNops
<1>3. /\ pc \in [Threads -> Inside \cup Rests] /\ cont \in [Threads -> {"loop", "chunks", "return"}]
      /\ node_n \in [Threads -> Nat]
  BY <1>0 DEF PoolTypeOK, Rests
<1>4. StopsAt(kind, e) /\ (kind # "exit" => e \in NodeSet)
  BY <1>1 DEF Segment, StopsAt, SegKinds
<1>5. abort # -1 => kind = "exit" \/ abort = EndOf(e) + 1
  BY <1>1, <1>4 DEF StopsAt, SegKinds
<1>6. CASE node_n[t] >= NNodes \/ abort = node_n[t]
  <2>1. /\ pc'[t] = "barrier" /\ cont'[t] = "return" /\ node_n'[t] = node_n[t]
    BY <1>0, <1>3, <1>6 DEF NextNode, Goto
  <2>2. Waiting(t)' /\ ~Spinning(t)' /\ ~Released(t)'
    BY <2>1 DEF Waiting, Spinning, Released
  <2>3. CASE After(t, kind, e)
    <3>1. After(t, kind, e)'
      BY <1>0, <1>1, <1>2, <2>1, <2>2, <2>3 DEF After, Waiting, Spinning
    <3> QED BY <2>3, <3>1, <1>0, <1>1, <1>2, <2>1, <2>2, SilentStep, CountKept
            DEF Moves, At, Prepared, Waiting, Spinning, Released
  <2>4. CASE ~After(t, kind, e)
    <3>1. kind = "exit" /\ node_n[t] = e
      <4>1. kind \in {"node", "exit"} /\ node_n[t] <= e
        BY <1>1, <2>4 DEF OnlyNops
      <4>2. CASE kind = "node"
        BY <1>1, <1>4, <1>5, <1>6, <4>1, <4>2 DEF NodeSet, EndOf
      <4> QED BY <1>1, <1>4, <1>6, <4>1, <4>2 DEF StopsAt
    <3>2. Before(t, kind, e)' /\ ~After(t, kind, e)'
      BY <1>2, <2>1, <2>2, <3>1 DEF Before, After, HasShare
    <3> QED BY <2>4, <3>1, <3>2, <1>0, <1>1, <1>2, <2>1, <2>2, SilentStep, CountKept
            DEF Moves, At, Prepared, Waiting, Spinning, Released
  <2> QED BY <2>3, <2>4
<1>7. CASE ~(node_n[t] >= NNodes \/ abort = node_n[t])
  <2>1. kind \in {"node", "exit"} /\ OnlyNops(node_n[t], e) /\ ~After(t, kind, e)
    BY <1>1, <1>7
  <2>2. kind = "exit" => node_n[t] # e
    BY <1>1, <1>4, <1>7 DEF StopsAt
  <2>3. CASE Kind(node_n[t]) = "nop"
    <3>1. pc'[t] = "loop" /\ cont'[t] = cont[t] /\ node_n'[t] = node_n[t] + 1
      BY <1>0, <1>3, <1>7, <2>3 DEF NextNode, Goto
    <3>2. node_n[t] # e
      BY <1>4, <2>1, <2>2, <2>3 DEF NodeSet
    <3>3. OnlyNops(node_n[t] + 1, e)
      BY <1>1, <2>1, <3>2 DEF OnlyNops
    <3>4. At(t, "loop")' /\ NodeOf(t)' = node_n[t] + 1
      BY <3>1 DEF At, NodeOf, Released
    <3>5. Before(t, kind, e)'
      BY <1>2, <2>1, <3>3, <3>4 DEF Before
    <3>6. ~After(t, kind, e)'
      <4>1. kind = "node" => node_n[t] + 1 <= e /\ e < NNodes
        BY <1>1, <1>4, <3>3 DEF OnlyNops, NodeSet
      <4> QED BY <1>1, <1>2, <2>1, <3>1, <4>1 DEF After, Waiting, Spinning, HasShare
    <3> QED BY <2>1, <3>1, <3>5, <3>6, <1>0, <1>1, <1>2, SilentStep, CountKept
            DEF Moves, At, Prepared, Waiting, Spinning, Released
  <2>4. CASE Kind(node_n[t]) # "nop"
    <3>1. pc'[t] = "compute" /\ cont'[t] = cont[t] /\ node_n'[t] = node_n[t]
      BY <1>0, <1>3, <1>7, <2>4 DEF NextNode, Goto
    <3>2. node_n[t] = e /\ kind = "node"
      <4>1. node_n[t] <= e /\ ~(node_n[t] < e)
        BY <1>1, <2>1, <2>4 DEF OnlyNops
      <4> QED BY <1>1, <2>1, <2>2, <4>1
    <3>3. Before(t, kind, e)' /\ ~After(t, kind, e)'
      BY <1>2, <3>1, <3>2 DEF Before, After, Waiting, Spinning
    <3> QED BY <2>1, <3>1, <3>3, <1>0, <1>1, <1>2, SilentStep, CountKept
            DEF Moves, At, Prepared, Waiting, Spinning, Released
  <2> QED BY <2>3, <2>4
<1> QED BY <1>6, <1>7

\* Where a thread is that computes.
LEMMA AtWork ==
    ASSUME IInv, NEW kind \in SegKinds, NEW e \in Nat, Segment(kind, e),
           NEW t \in Threads, pc[t] \in {"compute", "chunks", "take", "computed"}
    PROVE  /\ kind # "over" /\ t \in Team /\ Started(t) /\ cgraph \in GraphSet
           /\ e \in NodeSet /\ EndOf(e) \in Nat /\ EndOf(e) + 1 <= NNodes /\ NNodes \in Nat
           /\ pc[t] = "compute" => kind = "node" /\ node_n[t] = e /\ ~After(t, kind, e)
           /\ pc[t] \in {"chunks", "take"} =>
                 kind = "chunks" /\ Kind(e) = "chunk" /\ node_n[t] = e /\ ~After(t, kind, e)
           /\ pc[t] = "computed" =>
                 kind \in {"node", "chunks"} /\ node_n[t] = EndOf(e) /\ After(t, kind, e)
                 /\ HasShare(kind, e)
           /\ (t = 0 => abort = -1)
<1>1. /\ kind # "over" /\ t \in Team /\ Started(t) /\ cgraph \in GraphSet /\ ~Out(t)
      /\ Before(t, kind, e) \/ After(t, kind, e)
  BY Participant DEF Inside, Released
<1>2. ~NotStarted(t) /\ ~At(t, "loop") /\ ~Waiting(t)
  BY <1>1 DEF NotStarted, At, Waiting, Spinning, Released
<1>3. pc[t] = "compute" => kind = "node" /\ node_n[t] = e /\ ~After(t, kind, e)
  BY <1>1, <1>2 DEF Before, After, At, Released
<1>4. pc[t] \in {"chunks", "take"} => kind = "chunks" /\ node_n[t] = e /\ ~After(t, kind, e)
  BY <1>1, <1>2 DEF Before, After
<1>5. pc[t] = "computed" =>
         kind \in {"node", "chunks"} /\ node_n[t] = EndOf(e) /\ After(t, kind, e)
         /\ HasShare(kind, e)
  BY <1>1, <1>2 DEF Before, After, At, Released, HasShare
<1>6. kind \in {"node", "chunks"}
  BY <1>3, <1>4, <1>5
<1>7. StopsAt(kind, e)
  BY DEF Segment
<1>8. e \in NodeSet /\ (kind = "chunks" => Kind(e) = "chunk")
  BY <1>6, <1>7 DEF StopsAt
<1>9. t = 0 => abort = -1
  BY <1>2, <1>3, <1>4, <1>6, <1>7 DEF StopsAt
<1>10. NNodes \in Nat /\ EndOf(e) \in Nat /\ EndOf(e) + 1 <= NNodes
  BY <1>1, <1>8, GraphFacts DEF IInv, NodeSet, EndOf
<1> QED BY <1>1, <1>3, <1>4, <1>5, <1>8, <1>9, <1>10

\* A thread finishes its share of the node.
LEMMA ShareFinished ==
    ASSUME PoolTypeOK, NEW kind \in SegKinds, NEW e \in Nat, Segment(kind, e),
           NEW t \in Threads, Moves(t, kind, e), e \in NodeSet,
           done' = done \cup {<<e, t>>}, After(t, kind, e)'
    PROVE  SharesDone(kind, e)'
<1>1. Team' = Team /\ NodeSet' = NodeSet /\ UNCHANGED Shared /\ kind # "over" /\ t \in Team
  BY FrameGraph DEF Moves
<1>2. ASSUME NEW u \in Team, u # t
      PROVE  After(u, kind, e)' <=> After(u, kind, e)
  BY <1>1, <1>2, FrameThread, TeamFacts DEF Moves
<1>3. SharesDone(kind, e)
  BY DEF Segment
<1>4. done' \subseteq NodeSet \X Team
  BY <1>1, <1>3 DEF SharesDone
<1>5. ASSUME NEW k \in NodeSet, NEW u \in Team
      PROVE  <<k, u>> \in done' <=> (k < e \/ (k = e /\ After(u, kind, e)'))
  <2>1. <<k, u>> \in done <=> (k < e \/ (k = e /\ After(u, kind, e)))
    BY <1>1, <1>3 DEF SharesDone
  <2>2. <<k, u>> \in done' <=> <<k, u>> \in done \/ (k = e /\ u = t)
    OBVIOUS
  <2>3. CASE u = t
    <3>1. k = e \/ k < e \/ k > e
      BY DEF NodeSet
    <3> QED BY <2>1, <2>2, <2>3
  <2>4. CASE u # t
    BY <1>2, <2>1, <2>2, <2>4
  <2> QED BY <2>3, <2>4
<1> QED BY <1>1, <1>4, <1>5 DEF SharesDone

\* A node whose work is divided by thread.
LEMMA ComputeShareStep ==
    ASSUME IInv, NEW kind \in SegKinds, NEW e \in Nat, Segment(kind, e),
           NEW t \in Threads, ComputeShare(t)
    PROVE  Segment(kind, e)'
<1>0. /\ PoolTypeOK /\ pc[t] = "compute" /\ UNCHANGED <<abort, chunks, last_graph, n_passed>>
      /\ UNCHANGED Shared /\ n_barrier' = n_barrier
  BY DEF IInv, ComputeShare, pool, barrier, Shared
<1>1. /\ kind = "node" /\ node_n[t] = e /\ ~After(t, kind, e) /\ t \in Team /\ Started(t)
      /\ e \in NodeSet /\ Kind(e) # "chunk" /\ (t = 0 => abort = -1)
  BY <1>0, AtWork DEF ComputeShare
<1>2. done' = done \cup {<<e, t>>} /\ pc'[t] = "computed" /\ node_n'[t] = EndOf(e)
  BY <1>0, <1>1 DEF ComputeShare, Goto, PoolTypeOK, EndOf
<1>3. \A u \in Threads \ {t} : Same(u)
  BY <1>0, MovesAlone DEF Participates
<1>4. /\ Kind(e)' = Kind(e) /\ EndOf(e)' = EndOf(e) /\ Started(t)'
      /\ HasShare(kind, e)'
  BY <1>0, <1>1, FrameGraph DEF Started, Shared, HasShare
<1>5. After(t, kind, e)'
  BY <1>2, <1>4 DEF After
<1>6. Moves(t, kind, e)
  BY <1>0, <1>1, <1>3, <1>5 DEF Moves
<1>7. InSegment(kind, e)' /\ StopsAt(kind, e)' /\ SharesDone(kind, e)'
  BY <1>0, <1>1, <1>2, <1>5, <1>6, SegmentKept, StopKept, ShareFinished
<1>8. ChunksShared(kind, e)'
  BY <1>1, <1>4 DEF ChunksShared
<1>9. BarrierCounts(kind)'
  BY <1>0, <1>2, <1>6, CountKept DEF Spinning
<1> QED BY <1>7, <1>8, <1>9 DEF Segment

\* A product before its own barrier: thread 0 resets the chunk counter.
LEMMA PrepareChunksStep ==
    ASSUME IInv, NEW kind \in SegKinds, NEW e \in Nat, Segment(kind, e),
           NEW t \in Threads, PrepareChunks(t)
    PROVE  Segment(kind, e)'
<1>0. /\ PoolTypeOK /\ pc[t] = "compute" /\ UNCHANGED <<abort, done, last_graph, n_passed, node_n>>
      /\ UNCHANGED Shared /\ n_barrier' = n_barrier
  BY DEF IInv, PrepareChunks, pool, barrier, Shared
<1>1. /\ kind = "node" /\ node_n[t] = e /\ ~After(t, kind, e) /\ t \in Team /\ Started(t)
      /\ e \in NodeSet /\ Kind(e) = "chunk" /\ (t = 0 => abort = -1)
  BY <1>0, AtWork DEF PrepareChunks
<1>2. pc'[t] = "barrier" /\ cont'[t] = "chunks" /\ cur'[t] = t
  BY <1>0 DEF PrepareChunks, Goto, PoolTypeOK
<1>3. \A u \in Threads \ {t} : Same(u) /\ cur'[u] = cur[u]
  BY <1>0, MovesAlone DEF Participates
<1>4. /\ Kind(e)' = Kind(e) /\ EndOf(e)' = EndOf(e) /\ Started(t)' /\ Team' = Team /\ nth' = nth
      /\ ~HasShare(kind, e)'
  BY <1>0, <1>1, FrameGraph DEF Started, Shared, HasShare
<1>5. Before(t, kind, e)' /\ ~After(t, kind, e)'
  BY <1>0, <1>1, <1>2, <1>4 DEF Before, After, Waiting
<1>6. Moves(t, kind, e)
  BY <1>0, <1>1, <1>3, <1>5 DEF Moves
<1>7. InSegment(kind, e)' /\ StopsAt(kind, e)' /\ SharesDone(kind, e)'
  BY <1>0, <1>1, <1>2, <1>5, <1>6, SegmentKept, StopKept, SharesKept
<1>8. ChunksShared(kind, e)'
  <2>1. \A u \in Team : u # t => (Waiting(u)' <=> Waiting(u)) /\ cont'[u] = cont[u] /\ cur'[u] = cur[u]
    BY <1>0, <1>3, FrameThread, TeamFacts DEF Same
  <2>2. ChunksShared(kind, e) /\ 0 \in Team
    <3>1. 0 \in Team
      BY <1>0, <1>1, TeamFacts DEF Team
    <3> QED BY <3>1 DEF Segment
  <2>3. /\ t = 0 => current_chunk' = nth /\ chunksDone' = {}
        /\ t # 0 => current_chunk' = current_chunk /\ chunksDone' = chunksDone
    BY DEF PrepareChunks, FirstFreeChunk
  <2> QED BY <1>1, <1>2, <1>4, <2>1, <2>2, <2>3 DEF ChunksShared
<1>9. BarrierCounts(kind)'
  BY <1>0, <1>2, <1>6, CountKept DEF Spinning
<1> QED BY <1>7, <1>8, <1>9 DEF Segment

\* A thread in the middle of a product: it computes a chunk, takes one, or
\* finds that there are no more.
LEMMA ChunkStep ==
    ASSUME IInv, NEW kind \in SegKinds, NEW e \in Nat, Segment(kind, e),
           NEW t \in Threads, ComputeChunk(t) \/ TakeChunk(t) \/ NoMoreChunks(t)
    PROVE  Segment(kind, e)'
<1>0. /\ PoolTypeOK /\ pc[t] \in {"chunks", "take"}
      /\ UNCHANGED <<abort, last_graph, n_passed, node_n, cont>>
      /\ UNCHANGED Shared /\ n_barrier' = n_barrier
  BY DEF IInv, ComputeChunk, TakeChunk, NoMoreChunks, pool, barrier, Shared
<1>1. /\ kind = "chunks" /\ node_n[t] = e /\ ~After(t, kind, e) /\ t \in Team /\ Started(t)
      /\ e \in NodeSet /\ Kind(e) = "chunk" /\ (t = 0 => abort = -1)
  BY <1>0, AtWork
<1>2. \A u \in Threads \ {t} : Same(u) /\ cur'[u] = cur[u]
  BY <1>0, MovesAlone DEF Participates
<1>3. /\ Kind(e)' = Kind(e) /\ EndOf(e)' = e /\ Started(t)' /\ Team' = Team /\ nth' = nth
      /\ HasShare(kind, e)' /\ NChunks' = NChunks
  BY <1>0, <1>1, FrameGraph DEF Started, Shared, HasShare, EndOf
<1>4. /\ pc \in [Threads -> Inside \cup Rests] /\ cur \in [Threads -> Nat]
      /\ current_chunk \in Nat /\ NChunks \in Nat /\ nth \in Nat /\ Team \subseteq Threads
  <2>1. NChunks \in Nat /\ nth \in Nat /\ Team \subseteq Threads
    BY <1>0, TeamFacts
  <2> QED BY <1>0, <2>1 DEF PoolTypeOK, Rests
<1>5. /\ current_chunk >= nth
      /\ \A c \in chunksDone : c \in 0..(NChunks - 1) /\ c < current_chunk
      /\ \A u \in Team : At(u, "chunks") => cur[u] < current_chunk /\ cur[u] \notin chunksDone
      /\ \A u, v \in Team : (u # v /\ At(u, "chunks") /\ At(v, "chunks")) => cur[u] # cur[v]
      /\ \A c \in 0..(NChunks - 1) : c < current_chunk =>
            c \in chunksDone \/ \E u \in Team : At(u, "chunks") /\ cur[u] = c
      /\ \A u \in Team : After(u, kind, e) => current_chunk >= NChunks
  BY <1>1 DEF Segment, ChunksShared
<1>6. \A u \in Team : u # t => /\ At(u, "chunks")' <=> At(u, "chunks")
                               /\ After(u, kind, e)' <=> After(u, kind, e)
                               /\ cur'[u] = cur[u]
  BY <1>0, <1>2, <1>4, FrameThread
<1>7. CASE TakeChunk(t)
  <2>1. /\ pc[t] = "take" /\ pc'[t] = "chunks" /\ cur'[t] = current_chunk
        /\ current_chunk' = current_chunk + 1 /\ UNCHANGED <<done, chunksDone>>
    BY <1>4, <1>7 DEF TakeChunk, Goto
  <2>2. Before(t, kind, e)' /\ ~After(t, kind, e)' /\ At(t, "chunks")' /\ ~At(t, "chunks")
    BY <1>0, <1>1, <1>3, <2>1 DEF Before, After, Waiting, Spinning, At, Released
  <2>3. Moves(t, kind, e)
    BY <1>0, <1>1, <1>2, <2>2 DEF Moves
  <2>4. InSegment(kind, e)' /\ StopsAt(kind, e)' /\ SharesDone(kind, e)'
    BY <1>0, <1>1, <2>1, <2>2, <2>3, SegmentKept, StopKept, SharesKept
  <2>5. \A c \in 0..(NChunks - 1) : c < current_chunk' =>
           c \in chunksDone' \/ \E u \in Team : At(u, "chunks")' /\ cur'[u] = c
    <3> SUFFICES ASSUME NEW c \in 0..(NChunks - 1), c < current_chunk', c \notin chunksDone'
                 PROVE  \E u \in Team : At(u, "chunks")' /\ cur'[u] = c
      OBVIOUS
    <3>1. CASE c = current_chunk
      BY <1>1, <2>1, <2>2, <3>1
    <3>2. CASE c # current_chunk
      <4>1. PICK u \in Team : At(u, "chunks") /\ cur[u] = c
        BY <1>4, <1>5, <2>1, <3>2
      <4> QED BY <1>6, <2>2, <4>1
    <3> QED BY <3>1, <3>2
  <2>6. \A c \in chunksDone' : c \in 0..(NChunks - 1) /\ c < current_chunk'
    BY <1>4, <1>5, <2>1
  <2>7. \A u \in Team : At(u, "chunks")' => cur'[u] < current_chunk' /\ cur'[u] \notin chunksDone'
    <3> SUFFICES ASSUME NEW u \in Team, At(u, "chunks")'
                 PROVE  cur'[u] < current_chunk' /\ cur'[u] \notin chunksDone'
      OBVIOUS
    <3>1. CASE u = t
      BY <1>4, <1>5, <2>1, <3>1
    <3>2. CASE u # t
      <4>1. cur[u] < current_chunk /\ cur[u] \notin chunksDone /\ cur[u] \in Nat
        BY <1>4, <1>5, <1>6, <3>2
      <4> QED BY <1>4, <1>6, <2>1, <3>2, <4>1
    <3> QED BY <3>1, <3>2
  <2>8. \A u, v \in Team : (u # v /\ At(u, "chunks")' /\ At(v, "chunks")') => cur'[u] # cur'[v]
    BY <1>4, <1>5, <1>6, <2>1
  <2>9. ChunksShared(kind, e)'
    <3>1. current_chunk' >= nth
      BY <1>4, <1>5, <2>1
    <3>2. \A u \in Team : After(u, kind, e)' => current_chunk' >= NChunks
      <4>1. \A u \in Team : After(u, kind, e)' => current_chunk >= NChunks
        BY <1>5, <1>6, <2>2
      <4> QED BY <1>4, <2>1, <4>1
    <3> QED BY <1>1, <1>3, <2>5, <2>6, <2>7, <2>8, <3>1, <3>2 DEF ChunksShared
  <2>10. BarrierCounts(kind)'
    BY <1>0, <2>1, <2>3, CountKept DEF Spinning
  <2> QED BY <2>4, <2>9, <2>10 DEF Segment
<1>8. CASE ComputeChunk(t) \/ NoMoreChunks(t)
  <2>1. /\ pc[t] = "chunks" /\ current_chunk' = current_chunk
        /\ \/ chunksDone' = chunksDone \cup {cur[t]} /\ cur[t] < NChunks
           \/ chunksDone' = chunksDone /\ cur[t] >= NChunks
        /\ \/ pc'[t] = "take" /\ done' = done
           \/ /\ pc'[t] = "computed" /\ done' = done \cup {<<e, t>>}
              /\ nth >= NChunks \/ cur[t] >= NChunks
    BY <1>1, <1>4, <1>8 DEF ComputeChunk, NoMoreChunks, FinishProduct, Goto
  <2>2. At(t, "chunks") /\ ~At(t, "chunks")' /\ ~Spinning(t)' /\ ~Spinning(t)
    BY <2>1 DEF At, Released, Spinning
  <2>3. cur[t] \in Nat /\ cur[t] < current_chunk /\ cur[t] \notin chunksDone
    BY <1>1, <1>4, <1>5, <2>2
  <2>4. After(t, kind, e)' <=> pc'[t] = "computed"
    BY <1>0, <1>1, <1>3, <2>1 DEF After, Waiting, Spinning
  <2>5. Before(t, kind, e)' \/ After(t, kind, e)'
    BY <1>0, <1>1, <1>3, <2>1, <2>4 DEF Before
  <2>6. Moves(t, kind, e)
    BY <1>0, <1>1, <1>2, <2>5 DEF Moves
  <2>7. InSegment(kind, e)' /\ StopsAt(kind, e)'
    BY <1>0, <1>1, <2>6, SegmentKept, StopKept
  <2>8. SharesDone(kind, e)'
    <3>1. CASE pc'[t] = "computed"
      BY <1>0, <1>1, <2>1, <2>4, <2>6, <3>1, ShareFinished
    <3>2. CASE pc'[t] = "take"
      BY <1>0, <1>1, <2>1, <2>4, <2>6, <3>2, SharesKept
    <3> QED BY <2>1, <3>1, <3>2
  <2>9. \A c \in 0..(NChunks - 1) : c < current_chunk =>
           c \in chunksDone' \/ \E u \in Team : At(u, "chunks")' /\ cur'[u] = c
    <3> SUFFICES ASSUME NEW c \in 0..(NChunks - 1), c < current_chunk, c \notin chunksDone'
                 PROVE  \E u \in Team : At(u, "chunks")' /\ cur'[u] = c
      OBVIOUS
    <3>1. PICK u \in Team : At(u, "chunks") /\ cur[u] = c
      BY <1>5, <2>1
    <3>2. u # t
      BY <1>4, <2>1, <2>3, <3>1
    <3> QED BY <1>6, <3>1, <3>2
  <2>10. \A c \in chunksDone' : c \in 0..(NChunks - 1) /\ c < current_chunk
    BY <1>4, <1>5, <2>1, <2>3
  <2>11. \A u \in Team : At(u, "chunks")' => cur'[u] < current_chunk /\ cur'[u] \notin chunksDone'
    <3> SUFFICES ASSUME NEW u \in Team, At(u, "chunks")'
                 PROVE  cur'[u] < current_chunk /\ cur'[u] \notin chunksDone'
      OBVIOUS
    <3>1. u # t /\ At(u, "chunks") /\ cur'[u] = cur[u]
      BY <1>6, <2>2
    <3>2. cur[u] # cur[t] /\ cur[u] < current_chunk /\ cur[u] \notin chunksDone
      BY <1>1, <1>5, <2>2, <3>1
    <3> QED BY <2>1, <3>1, <3>2
  <2>12. \A u, v \in Team : (u # v /\ At(u, "chunks")' /\ At(v, "chunks")') => cur'[u] # cur'[v]
    <3>1. \A u \in Team : At(u, "chunks")' => At(u, "chunks") /\ cur'[u] = cur[u]
      BY <1>6, <2>2
    <3> QED BY <1>5, <3>1
  <2>13. \A u \in Team : After(u, kind, e)' => current_chunk >= NChunks
    <3>1. pc'[t] = "computed" => current_chunk >= NChunks
      BY <1>4, <1>5, <2>1, <2>3
    <3> QED BY <1>5, <1>6, <2>4, <3>1
  <2>14. ChunksShared(kind, e)'
    BY <1>1, <1>3, <1>5, <2>1, <2>9, <2>10, <2>11, <2>12, <2>13 DEF ChunksShared
  <2>15. BarrierCounts(kind)'
    BY <1>0, <2>1, <2>2, <2>6, CountKept
  <2> QED BY <2>7, <2>8, <2>14, <2>15 DEF Segment
<1> QED BY <1>7, <1>8

\* After a node: thread 0 may set the abort flag.
LEMMA AfterNodeStep ==
    ASSUME IInv, NEW kind \in SegKinds, NEW e \in Nat, Segment(kind, e),
           NEW t \in Threads, AfterNode(t)
    PROVE  Segment(kind, e)'
<1>0. /\ PoolTypeOK /\ pc[t] = "computed" /\ UNCHANGED <<done, chunks, last_graph, n_passed>>
      /\ UNCHANGED Shared /\ n_barrier' = n_barrier
  BY DEF IInv, AfterNode, pool, barrier, Shared
<1>1. /\ kind \in {"node", "chunks"} /\ node_n[t] = EndOf(e) /\ After(t, kind, e)
      /\ t \in Team /\ Started(t) /\ HasShare(kind, e)
      /\ e \in NodeSet /\ (t = 0 => abort = -1)
      /\ EndOf(e) \in Nat /\ EndOf(e) + 1 <= NNodes /\ NNodes \in Nat
  BY <1>0, AtWork
<1>2. /\ cont'[t] = "loop"
      /\ \/ pc'[t] = "barrier" /\ node_n'[t] = EndOf(e) /\ EndOf(e) + 1 < NNodes
         \/ pc'[t] = "loop" /\ node_n'[t] = NNodes /\ EndOf(e) + 1 = NNodes
      /\ abort' = abort \/ (t = 0 /\ abort' = EndOf(e) + 1)
  <2>1. /\ pc \in [Threads -> Inside \cup Rests] /\ node_n \in [Threads -> Nat]
        /\ cont \in [Threads -> {"loop", "chunks", "return"}]
    BY <1>0 DEF PoolTypeOK, Rests
  <2>2. cont'[t] = "loop" /\ (abort' = abort \/ (t = 0 /\ abort' = EndOf(e) + 1))
    BY <1>1, <2>1 DEF AfterNode, AbortAfter
  <2>3. CASE EndOf(e) + 1 < NNodes
    BY <1>1, <2>1, <2>2, <2>3 DEF AfterNode, Goto
  <2>4. CASE ~(EndOf(e) + 1 < NNodes)
    BY <1>1, <2>1, <2>2, <2>4 DEF AfterNode, Goto
  <2> QED BY <2>3, <2>4
<1>3. \A u \in Threads \ {t} : Same(u)
  BY <1>0, MovesAlone DEF Participates
<1>4. /\ Kind(e)' = Kind(e) /\ EndOf(e)' = EndOf(e) /\ Started(t)' /\ NNodes' = NNodes
      /\ NodeSet' = NodeSet /\ HasShare(kind, e)'
  BY <1>0, <1>1, FrameGraph DEF Started, Shared, HasShare
<1>5. After(t, kind, e)'
  BY <1>1, <1>2, <1>4 DEF After, Waiting
<1>6. Moves(t, kind, e)
  BY <1>0, <1>1, <1>3, <1>5 DEF Moves
<1>7. InSegment(kind, e)' /\ SharesDone(kind, e)'
  BY <1>0, <1>1, <1>5, <1>6, SegmentKept, SharesKept
<1>8. StopsAt(kind, e)'
  <2>1. CASE abort' = abort
    BY <1>0, <1>1, <1>2, <1>5, <1>6, <2>1, StopKept
  <2>2. CASE t = 0 /\ abort' = EndOf(e) + 1
    <3>1. kind = "chunks" => Kind(e) = "chunk"
      BY <1>1 DEF Segment, StopsAt
    <3> QED BY <1>1, <1>2, <1>4, <1>5, <2>2, <3>1 DEF StopsAt
  <2> QED BY <1>2, <2>1, <2>2
<1>9. ChunksShared(kind, e)'
  BY <1>0, <1>1, <1>2, <1>5, <1>6, ChunksKept DEF At, Prepared, Waiting, Spinning, Released
<1>10. BarrierCounts(kind)'
  BY <1>0, <1>2, <1>6, CountKept DEF Spinning
<1> QED BY <1>7, <1>8, <1>9, <1>10 DEF Segment

\* A thread that waits at the barrier, before and after a step.
LEMMA StaysWaiting ==
    ASSUME IInv, NEW kind \in SegKinds, NEW e \in Nat, Segment(kind, e),
           NEW t \in Threads, Waiting(t), Waiting(t)', Participates(t),
           UNCHANGED <<done, abort, chunks, node_n, cont, last_graph>>, UNCHANGED Shared
    PROVE  /\ Moves(t, kind, e)
           /\ BarrierCounts(kind)' => Segment(kind, e)'
<1>0. PoolTypeOK
  BY DEF IInv
<1>1. /\ ~Released(t) /\ ~Released(t)'
      /\ pc[t] \in {"barrier", "add", "reset", "release", "spin"}
      /\ pc'[t] \in {"barrier", "add", "reset", "release", "spin"}
  BY DEF Waiting, Spinning, Released
<1>2. /\ kind # "over" /\ t \in Team /\ Started(t) /\ ~Out(t)
      /\ Before(t, kind, e) \/ After(t, kind, e)
  BY <1>1, Participant DEF Inside
<1>3. /\ Kind(e)' = Kind(e) /\ EndOf(e)' = EndOf(e) /\ Started(t)' /\ NNodes' = NNodes
      /\ HasShare(kind, e)' <=> HasShare(kind, e)
  BY <1>2, FrameGraph DEF Started, Shared, HasShare
<1>4. ~NotStarted(t) /\ ~At(t, "loop") /\ ~At(t, "chunks") /\ ~At(t, "chunks")'
  BY <1>1, <1>2 DEF NotStarted, At
<1>5. After(t, kind, e)' <=> After(t, kind, e)
  BY <1>1, <1>2, <1>3 DEF After
<1>6. Before(t, kind, e)' \/ After(t, kind, e)'
  BY <1>1, <1>2, <1>3, <1>4, <1>5 DEF Before
<1>7. Moves(t, kind, e)
  BY <1>0, <1>2, <1>6, MovesAlone DEF Moves
<1>8. Prepared(t)' <=> Prepared(t)
  BY DEF Prepared
<1> QED BY <1>0, <1>1, <1>4, <1>5, <1>7, <1>8, SilentStep

\* A thread enters the barrier.
LEMMA EnterStep ==
    ASSUME IInv, NEW kind \in SegKinds, NEW e \in Nat, Segment(kind, e),
           NEW t \in Threads, EnterBarrier(t), nth # 1
    PROVE  Segment(kind, e)'
<1>1. /\ UNCHANGED <<done, abort, chunks, node_n, cont, last_graph>> /\ UNCHANGED Shared
      /\ n_barrier' = n_barrier
      /\ pc[t] = "barrier" /\ pc'[t] = "add" /\ PoolTypeOK
  BY DEF EnterBarrier, Waits, Shared, pool, Goto, IInv, PoolTypeOK
<1>2. Waiting(t) /\ Waiting(t)' /\ ~Spinning(t) /\ ~Spinning(t)'
  BY <1>1 DEF Waiting, Spinning
<1> QED BY <1>1, <1>2, StaysWaiting, CountKept DEF Participates

\* The threads of the team that spin.
Spinners == {t \in Team : Spinning(t)}

\* A thread that is about to add itself to the barrier's counter finds there the
\* number of threads that spin; when that is all the others, it is the last.
LEMMA Arrives ==
    ASSUME IInv, NEW kind \in SegKinds, NEW e \in Nat, Segment(kind, e),
           NEW t \in Threads, pc[t] = "add"
    PROVE  /\ kind # "over" /\ t \in Team /\ nth \in 1..PoolSize
           /\ \A u \in Team : pc[u] \notin {"reset", "release"}
           /\ IsFiniteSet(Spinners) /\ n_barrier = Cardinality(Spinners)
           /\ n_barrier < nth
           /\ AllArrived => \A u \in Team \ {t} : Spinning(u)
<1>1. kind # "over" /\ t \in Team /\ nth \in 1..PoolSize /\ ~Spinning(t)
  BY Participant DEF Inside, Released, Spinning
<1>2. \A r \in Team : (\A u \in Team \ {r} : Spinning(u)) => r = t
  BY <1>1
<1>3. /\ \A u \in Team : pc[u] \notin {"reset", "release"}
      /\ n_barrier = Cardinality(Spinners)
  <2>1. BarrierCounts(kind)
    BY DEF Segment
  <2> QED BY <1>1, <1>2, <2>1 DEF BarrierCounts, Spinners
<1>4. IsFiniteSet(Team) /\ Cardinality(Team) = nth
  <2>1. 0 \in Int /\ nth - 1 \in Int
    BY <1>1
  <2>2. IsFiniteSet(0..(nth - 1)) /\ Cardinality(0..(nth - 1)) = nth
    BY <1>1, <2>1, FS_Interval
  <2> QED BY <2>2 DEF Team
<1>5. IsFiniteSet(Team \ {t}) /\ Cardinality(Team \ {t}) = nth - 1
  BY <1>1, <1>4, FS_RemoveElement
<1>6. Spinners \subseteq Team \ {t}
  BY <1>1 DEF Spinners
<1>7. /\ IsFiniteSet(Spinners) /\ Cardinality(Spinners) <= nth - 1
      /\ Cardinality(Spinners) = nth - 1 => Spinners = Team \ {t}
  BY <1>5, <1>6, FS_Subset
<1>8. Cardinality(Spinners) \in Nat
  BY <1>7, FS_CardinalityType
<1>9. AllArrived => \A u \in Team \ {t} : Spinning(u)
  BY <1>3, <1>7 DEF AllArrived, Spinners
<1> QED BY <1>1, <1>3, <1>7, <1>8, <1>9

\* A thread adds itself to the counter of the barrier.
LEMMA AddStep ==
    ASSUME IInv, NEW kind \in SegKinds, NEW e \in Nat, Segment(kind, e),
           NEW t \in Threads, Add(t)
    PROVE  Segment(kind, e)'
<1>1. /\ UNCHANGED <<done, abort, chunks, node_n, cont, last_graph, n_passed>> /\ UNCHANGED Shared
      /\ n_barrier' = n_barrier + 1 /\ PoolTypeOK
      /\ pc[t] = "add" /\ pc'[t] = IF AllArrived THEN "reset" ELSE "spin"
  BY DEF Add, Waits, Shared, pool, Goto, IInv, PoolTypeOK
<1>2. n_passed[t] = n_barrier_passed
  BY <1>1 DEF IInv, PassedRead
<1>3. Waiting(t) /\ Waiting(t)' /\ ~Spinning(t) /\ (~AllArrived => Spinning(t)')
  BY <1>1, <1>2 DEF Waiting, Spinning, Shared
<1>4. Moves(t, kind, e) /\ (BarrierCounts(kind)' => Segment(kind, e)')
  BY <1>1, <1>3, StaysWaiting DEF Participates
<1>5. /\ kind # "over" /\ t \in Team /\ nth \in 1..PoolSize
      /\ \A u \in Team : pc[u] \notin {"reset", "release"}
      /\ IsFiniteSet(Spinners) /\ n_barrier = Cardinality(Spinners)
      /\ n_barrier < nth
      /\ AllArrived => \A u \in Team \ {t} : Spinning(u)
  BY <1>1, Arrives
<1>6. \A u \in Team : u # t => (Spinning(u)' <=> Spinning(u)) /\ pc'[u] = pc[u]
  BY <1>1, <1>4, FrameThread, TeamFacts DEF Moves, Same
<1>7. Team' = Team /\ nth' = nth
  BY <1>1, FrameGraph
<1>8. CASE AllArrived
  <2>1. pc'[t] = "reset" /\ n_barrier' = nth' /\ t \in Team'
    BY <1>1, <1>5, <1>7, <1>8 DEF AllArrived
  <2>2. \A u \in Team' \ {t} : Spinning(u)'
    BY <1>5, <1>6, <1>7, <1>8
  <2> QED BY <1>4, <1>5, <2>1, <2>2 DEF BarrierCounts
<1>9. CASE ~AllArrived
  <2>1. Spinners' = Spinners \cup {t}
    BY <1>3, <1>5, <1>6, <1>7, <1>9 DEF Spinners
  <2>2. t \notin Spinners
    BY <1>3 DEF Spinners
  <2>3. n_barrier' = Cardinality(Spinners')
    BY <1>1, <1>5, <2>1, <2>2, FS_AddElement
  <2>4. \A u \in Team' : pc'[u] \notin {"reset", "release"}
    BY <1>1, <1>5, <1>6, <1>7, <1>9
  <2> QED BY <1>4, <1>5, <2>3, <2>4 DEF BarrierCounts, Spinners
<1> QED BY <1>8, <1>9

\* The thread that resets or opens the barrier is the only one that does not spin.
LEMMA LastAlone ==
    ASSUME IInv, NEW kind \in SegKinds, NEW e \in Nat, Segment(kind, e),
           NEW t \in Threads, pc[t] \in {"reset", "release"}
    PROVE  /\ kind # "over" /\ t \in Team
           /\ \A u \in Team \ {t} : Spinning(u)
           /\ pc[t] = "release" => n_barrier = 0
<1>1. kind # "over" /\ t \in Team /\ ~Spinning(t)
  BY Participant DEF Inside, Released, Spinning
<1>2. \A r \in Team : (\A u \in Team \ {r} : Spinning(u)) => r = t
  BY <1>1
<1>3. BarrierCounts(kind)
  BY DEF Segment
<1> QED BY <1>1, <1>2, <1>3 DEF BarrierCounts

\* The last thread resets the counter.
LEMMA ResetStep ==
    ASSUME IInv, NEW kind \in SegKinds, NEW e \in Nat, Segment(kind, e),
           NEW t \in Threads, LastThread(t), pc[t] = "reset"
    PROVE  Segment(kind, e)'
<1>1. /\ UNCHANGED <<done, abort, chunks, node_n, cont, last_graph, n_passed>> /\ UNCHANGED Shared
      /\ n_barrier' = 0 /\ PoolTypeOK /\ pc'[t] = "release"
  BY DEF LastThread, Waits, Shared, pool, Goto, IInv, PoolTypeOK
<1>2. Waiting(t) /\ Waiting(t)'
  BY <1>1 DEF Waiting
<1>3. Moves(t, kind, e) /\ (BarrierCounts(kind)' => Segment(kind, e)')
  BY <1>1, <1>2, StaysWaiting DEF Participates
<1>4. kind # "over" /\ t \in Team /\ \A u \in Team \ {t} : Spinning(u)
  BY LastAlone
<1>5. \A u \in Team \ {t} : Spinning(u)'
  BY <1>1, <1>3, <1>4, FrameThread, TeamFacts DEF Moves
<1>6. Team' = Team
  BY <1>1, FrameGraph
<1> QED BY <1>1, <1>3, <1>4, <1>5, <1>6 DEF BarrierCounts

\* A released thread notices.
LEMMA SpinStep ==
    ASSUME IInv, NEW kind \in SegKinds, NEW e \in Nat, Segment(kind, e),
           NEW t \in Threads, Spin(t), cont[t] # "return"
    PROVE  Segment(kind, e)'
<1>1. /\ UNCHANGED <<done, abort, chunks, last_graph>> /\ UNCHANGED Shared
      /\ n_barrier' = n_barrier /\ PoolTypeOK
      /\ pc[t] = "spin" /\ Released(t) /\ ~Spinning(t)
  BY DEF Spin, Leave, Released, Spinning, Shared, pool, IInv
<1>2. /\ cont[t] \in {"loop", "chunks"} /\ pc'[t] = cont[t] /\ node_n'[t] = NodeOf(t)
      /\ node_n[t] \in Nat
  <2>1. /\ cont \in [Threads -> {"loop", "chunks", "return"}] /\ node_n \in [Threads -> Nat]
        /\ pc \in [Threads -> Inside \cup Rests]
    BY <1>1 DEF PoolTypeOK, Rests
  <2> QED BY <1>1, <2>1 DEF Spin, Leave, Goto, NodeOf
<1>3. /\ kind # "over" /\ t \in Team /\ Started(t) /\ ~Out(t)
      /\ (Before(t, kind, e) \/ After(t, kind, e)) /\ cgraph \in GraphSet
  BY <1>1, Participant DEF Inside
<1>4. /\ Kind(e)' = Kind(e) /\ EndOf(e)' = EndOf(e) /\ Started(t)' /\ NNodes' = NNodes
      /\ HasShare(kind, e)' <=> HasShare(kind, e)
      /\ \A a : OnlyNops(a, e)' <=> OnlyNops(a, e)
  BY <1>1, <1>3, FrameGraph DEF Started, Shared, HasShare, OnlyNops
<1>5. ~After(t, kind, e) /\ ~NotStarted(t) /\ ~Waiting(t) /\ ~Waiting(t)' /\ ~Spinning(t)'
  BY <1>1, <1>2, <1>3 DEF After, NotStarted, Waiting, Spinning
<1>6. /\ cont[t] = "loop" => kind \in {"node", "exit"} /\ OnlyNops(NodeOf(t), e)
      /\ cont[t] = "chunks" => kind = "chunks" /\ node_n[t] = e
  BY <1>1, <1>2, <1>3, <1>5 DEF Before, At
<1>7. Before(t, kind, e)'
  BY <1>1, <1>2, <1>4, <1>6 DEF Before, At, NodeOf, Released
<1>8. ~After(t, kind, e)'
  <2>1. CASE cont[t] = "loop" /\ kind = "node"
    <3>1. NodeOf(t) \in Nat /\ NodeOf(t) <= e /\ e < NNodes /\ NNodes \in Nat
      <4>1. e \in NodeSet /\ NNodes \in Nat
        BY <1>1, <1>3, <2>1, GraphFacts DEF Segment, StopsAt
      <4> QED BY <1>2, <1>6, <2>1, <4>1 DEF NodeSet, OnlyNops, NodeOf
    <3> QED BY <1>2, <1>4, <1>5, <2>1, <3>1 DEF After
  <2>2. CASE cont[t] = "chunks" \/ kind = "exit"
    BY <1>2, <1>4, <1>5, <2>2, <1>6 DEF After, HasShare
  <2> QED BY <1>2, <1>6, <2>1, <2>2
<1>9. Moves(t, kind, e)
  BY <1>1, <1>3, <1>7, MovesAlone DEF Moves, Participates
<1>10. BarrierCounts(kind)'
  BY <1>1, <1>2, <1>5, <1>9, CountKept
<1>11. (At(t, "chunks")' <=> At(t, "chunks")) /\ (Prepared(t)' <=> Prepared(t))
  BY <1>1, <1>2, <1>5 DEF At, Prepared, Released
<1> QED BY <1>1, <1>2, <1>5, <1>8, <1>9, <1>10, <1>11, SilentStep
-----------------------------------------------------------------------------
(* The barrier opens: the team goes to the next segment.                   *)

\* Where the threads are that wait at a barrier.
LEMMA WaitingWhere ==
    ASSUME IInv, NEW kind \in SegKinds, NEW e \in Nat, Segment(kind, e),
           NEW t \in Threads, Waiting(t)
    PROVE  /\ kind # "over" /\ t \in Team /\ Started(t)
           /\ \/ /\ kind = "node" /\ Kind(e) = "chunk" /\ e \in NodeSet
                 /\ cont[t] = "chunks" /\ node_n[t] = e /\ ~After(t, kind, e)
              \/ /\ HasShare(kind, e) /\ e \in NodeSet /\ EndOf(e) + 1 < NNodes
                 /\ cont[t] = "loop" /\ node_n[t] = EndOf(e) /\ After(t, kind, e)
              \/ /\ HasShare(kind, e) /\ e \in NodeSet /\ EndOf(e) + 1 = NNodes
                 /\ cont[t] = "return" /\ After(t, kind, e)
              \/ /\ kind = "exit" /\ cont[t] = "return"
<1>1. /\ kind # "over" /\ t \in Team /\ Started(t) /\ ~Out(t)
      /\ Before(t, kind, e) \/ After(t, kind, e)
  BY Participant DEF Inside, Waiting, Spinning, Released
<1>2. ~NotStarted(t) /\ ~At(t, "loop") /\ ~At(t, "chunks") /\ pc[t] \notin {"compute", "take", "computed", "loop"}
  BY <1>1 DEF NotStarted, Waiting, Spinning, Released, At
<1>3. kind \in {"node", "chunks"} => e \in NodeSet
  BY DEF Segment, StopsAt
<1>4. CASE Before(t, kind, e)
  <2>1. \/ kind = "node" /\ Kind(e) = "chunk" /\ cont[t] = "chunks" /\ node_n[t] = e
        \/ kind = "exit" /\ cont[t] = "return"
    BY <1>2, <1>4 DEF Before
  <2> QED BY <1>1, <1>3, <2>1 DEF After, HasShare
<1>5. CASE After(t, kind, e)
  <2>1. HasShare(kind, e) /\ kind \in {"node", "chunks"}
    BY <1>5 DEF After, HasShare
  <2> QED BY <1>1, <1>2, <1>3, <1>5, <2>1 DEF After
<1> QED BY <1>1, <1>4, <1>5

\* Thread t passes the barrier, and with it all the others.
Opens(t) ==
    /\ t \in Team /\ Waiting(t) /\ Leave(t)
    /\ n_barrier' = 0
    /\ n_barrier_passed' \in {n_barrier_passed, n_barrier_passed + 1}
    /\ \A u \in Team \ {t} : Spinning(u) /\ n_barrier_passed' = n_barrier_passed + 1

\* A barrier of one thread, and the last thread of a larger one.
LEMMA BarrierOpens ==
    ASSUME IInv, NEW t \in Threads,
           (EnterBarrier(t) /\ nth = 1) \/ (LastThread(t) /\ pc[t] # "reset")
    PROVE  Opens(t)
<1>1. PICK kind \in SegKinds, e \in Nat : Segment(kind, e)
  BY DEF IInv
<1>2. CASE EnterBarrier(t) /\ nth = 1
  <2>1. pc[t] = "barrier" /\ Leave(t) /\ UNCHANGED <<n_barrier, n_barrier_passed>>
    BY <1>2 DEF EnterBarrier
  <2>2. kind # "over" /\ t \in Team
    BY <1>1, <2>1, Participant DEF Inside, Released
  <2>3. Team = {t}
    BY <1>2, <2>2 DEF Team
  <2>4. n_barrier = 0
    <3>1. {u \in Team : Spinning(u)} = {}
      BY <2>1, <2>3 DEF Spinning
    <3>2. BarrierCounts(kind)
      BY <1>1 DEF Segment
    <3> QED BY <2>1, <2>2, <2>3, <3>1, <3>2, FS_EmptySet DEF BarrierCounts
  <2> QED BY <2>1, <2>2, <2>3, <2>4 DEF Opens, Waiting
<1>3. CASE LastThread(t) /\ pc[t] # "reset"
  <2>1. pc[t] = "release" /\ Leave(t) /\ n_barrier' = n_barrier /\ n_barrier_passed' = n_barrier_passed + 1
    BY <1>3 DEF LastThread
  <2>2. t \in Team /\ \A u \in Team \ {t} : Spinning(u)
    BY <1>1, <2>1, LastAlone
  <2>3. n_barrier = 0
    BY <1>1, <2>1, LastAlone
  <2> QED BY <2>1, <2>2, <2>3 DEF Opens, Waiting
<1> QED BY <1>2, <1>3

\* What that makes of the threads.
LEMMA Opened ==
    ASSUME IInv, NEW t \in Threads, Participates(t), Opens(t)
    PROVE  /\ UNCHANGED <<cgraph, n_graph, last_graph, chunks, abort, done, Team>>
           /\ \A u \in Team :
                 /\ Waiting(u) /\ ~Waiting(u)' /\ node_n[u] \in Nat
                 /\ pc'[u] \notin {"computed", "reset", "release"}
                 /\ cont[u] = "loop" =>
                       /\ At(u, "loop")' /\ NodeOf(u)' = node_n[u] + 1
                       /\ pc'[u] = "loop" => node_n'[u] = node_n[u] + 1
                 /\ cont[u] = "chunks" =>
                       At(u, "chunks")' /\ node_n'[u] = node_n[u] /\ pc'[u] # "loop"
                 /\ cont[u] = "return" => Out(u)'
           /\ \A u \in Threads \ Team : Out(u)'
           /\ \A kind \in SegKinds : BarrierCounts(kind)'
           /\ pc'[0] \in Inside \cup {"ret"}
<1>0. /\ PoolTypeOK /\ Team \subseteq Threads /\ 0 \in Team
      /\ pc \in [Threads -> Inside \cup Rests] /\ node_n \in [Threads -> Nat]
      /\ cont \in [Threads -> {"loop", "chunks", "return"}] /\ n_passed \in [Threads -> Nat]
      /\ n_barrier_passed \in Nat
  <2>1. t \in Team /\ PoolTypeOK
    BY DEF Opens, IInv
  <2>2. 0 \in Team /\ Team \subseteq Threads
    BY <2>1, TeamFacts DEF Team
  <2> QED BY <2>1, <2>2 DEF PoolTypeOK, Rests
<1>1. UNCHANGED <<cgraph, n_graph, last_graph, chunks, abort, done, Team>>
  BY DEF Opens, Leave, pool, Team, nth
<1>2. PICK kind \in SegKinds, e \in Nat : Segment(kind, e)
  BY DEF IInv
<1>3. kind # "over"
  BY <1>2, WaitingWhere DEF Opens
<1>4. \A u \in Threads \ {t} : Same(u)
  BY <1>0, MovesAlone
<1>5. \A u \in Team : Waiting(u)
  BY DEF Opens, Waiting
<1>6. ASSUME NEW u \in Team \ {t}
      PROVE  /\ pc'[u] = "spin" /\ Released(u)' /\ ~Spinning(u)'
             /\ cont'[u] = cont[u] /\ node_n'[u] = node_n[u] /\ cont[u] \in {"loop", "chunks", "return"}
  <2>1. Same(u) /\ Spinning(u) /\ n_barrier_passed' = n_barrier_passed + 1 /\ u \in Threads
    BY <1>0, <1>4 DEF Opens
  <2> QED BY <1>0, <2>1 DEF Same, Spinning, Released
<1>7. /\ cont[t] = "loop" => pc'[t] = "loop" /\ node_n'[t] = node_n[t] + 1
      /\ cont[t] = "chunks" => pc'[t] = "chunks" /\ node_n'[t] = node_n[t]
      /\ cont[t] = "return" => pc'[t] \in {"ret", "top"} /\ node_n'[t] = 0 /\ (t = 0 => pc'[t] = "ret")
      /\ cont[t] \in {"loop", "chunks", "return"}
  BY <1>0 DEF Opens, Leave, Goto
<1>8. ~Waiting(t)' /\ ~Spinning(t)' /\ pc'[t] \notin {"spin", "reset", "release", "computed"}
  BY <1>7 DEF Waiting, Spinning
<1>9. \A u \in Team :
         /\ ~Waiting(u)' /\ ~Spinning(u)' /\ node_n[u] \in Nat
         /\ pc'[u] \notin {"computed", "reset", "release"}
         /\ cont[u] = "loop" =>
               /\ At(u, "loop")' /\ NodeOf(u)' = node_n[u] + 1
               /\ pc'[u] = "loop" => node_n'[u] = node_n[u] + 1
         /\ cont[u] = "chunks" => At(u, "chunks")' /\ node_n'[u] = node_n[u] /\ pc'[u] # "loop"
         /\ cont[u] = "return" => Out(u)'
  <2> SUFFICES ASSUME NEW u \in Team
               PROVE  /\ ~Waiting(u)' /\ ~Spinning(u)' /\ node_n[u] \in Nat
                      /\ pc'[u] \notin {"computed", "reset", "release"}
                      /\ cont[u] = "loop" =>
                            /\ At(u, "loop")' /\ NodeOf(u)' = node_n[u] + 1
                            /\ pc'[u] = "loop" => node_n'[u] = node_n[u] + 1
                      /\ cont[u] = "chunks" =>
                            At(u, "chunks")' /\ node_n'[u] = node_n[u] /\ pc'[u] # "loop"
                      /\ cont[u] = "return" => Out(u)'
    OBVIOUS
  <2>1. CASE u = t
    BY <1>0, <1>7, <1>8, <2>1 DEF At, NodeOf, Out, Released, Inside
  <2>2. CASE u # t
    BY <1>0, <1>6, <2>2 DEF At, NodeOf, Out, Waiting
  <2> QED BY <2>1, <2>2
<1>10. ASSUME NEW u \in Threads \ Team
       PROVE  Out(u)'
  <2>1. Out(u) /\ Same(u)
    BY <1>2, <1>3, <1>4 DEF Segment, InSegment, Opens
  <2>2. n_passed[u] <= n_barrier_passed /\ n_passed[u] \in Nat
    BY <1>0 DEF IInv, PassedRead
  <2> QED BY <1>0, <2>1, <2>2 DEF Out, Same, Released, Opens
<1>11. ASSUME NEW k2 \in SegKinds
       PROVE  BarrierCounts(k2)'
  <2>1. {u \in Team' : Spinning(u)'} = {}
    BY <1>1, <1>9
  <2>2. Cardinality({u \in Team' : Spinning(u)'}) = 0
    BY <2>1, FS_EmptySet
  <2>3. n_barrier' = 0
    BY DEF Opens
  <2> QED BY <1>1, <1>9, <2>2, <2>3 DEF BarrierCounts
<1>12. pc'[0] \in Inside \cup {"ret"}
  <2>1. CASE t = 0
    BY <1>7, <2>1 DEF Inside
  <2>2. CASE t # 0
    BY <1>0, <1>6, <2>2 DEF Inside
  <2> QED BY <2>1, <2>2
<1> QED BY <1>1, <1>5, <1>9, <1>10, <1>11, <1>12

\* The barrier in the middle of a product.
LEMMA OpenProduct ==
    ASSUME IInv, NEW t \in Threads, Participates(t), Opens(t),
           NEW e \in Nat, Segment("node", e), Kind(e) = "chunk"
    PROVE  Segment("chunks", e)'
<1>0. /\ UNCHANGED <<cgraph, n_graph, last_graph, chunks, abort, done, Team>>
      /\ \A u \in Team :
            /\ Waiting(u) /\ ~Waiting(u)' /\ pc'[u] # "computed"
            /\ cont[u] = "chunks" =>
                  At(u, "chunks")' /\ node_n'[u] = node_n[u] /\ pc'[u] # "loop"
      /\ \A u \in Threads \ Team : Out(u)'
      /\ BarrierCounts("chunks")'
  BY Opened DEF SegKinds
<1>1. /\ Team \subseteq Threads /\ 0 \in Team /\ nth \in 1..PoolSize /\ cgraph \in GraphSet
      /\ NChunks \in Nat
  <2>1. PoolTypeOK /\ nth >= 1 /\ cgraph \in GraphSet
    BY DEF IInv, Segment, InSegment
  <2> QED BY <2>1, TeamFacts DEF Team
<1>2. ASSUME NEW u \in Team
      PROVE  /\ cont[u] = "chunks" /\ node_n[u] = e /\ ~After(u, "node", e) /\ Started(u)
             /\ e \in NodeSet
  <2>1. ~HasShare("node", e) /\ "node" \in SegKinds /\ u \in Threads /\ Waiting(u)
    BY <1>0, <1>1 DEF HasShare, SegKinds
  <2> QED BY <2>1, WaitingWhere
<1>3. /\ nth' = nth /\ NodeSet' = NodeSet /\ NChunks' = NChunks /\ Kind(e)' = Kind(e)
      /\ Threads' = Threads /\ Team' = Team
  BY <1>0 DEF nth, NodeSet, NNodes, Kind, NChunks, Threads
<1>4. ASSUME NEW u \in Team
      PROVE  /\ Before(u, "chunks", e)' /\ ~After(u, "chunks", e)'
             /\ At(u, "chunks")'
  BY <1>0, <1>2 DEF Before, After, Started
<1>5. InSegment("chunks", e)'
  BY <1>0, <1>1, <1>3, <1>4 DEF InSegment
<1>6. abort = -1
  BY <1>1, <1>2 DEF Segment, StopsAt
<1>7. StopsAt("chunks", e)'
  BY <1>0, <1>1, <1>2, <1>3, <1>6 DEF StopsAt
<1>8. SharesDone("chunks", e)'
  <2>1. SharesDone("node", e)
    BY DEF Segment
  <2> QED BY <1>0, <1>2, <1>3, <1>4, <2>1 DEF SharesDone
<1>9. ChunksShared("chunks", e)'
  <2>1. \A u \in Team : cur[u] = u
    BY <1>0, <1>2 DEF Segment, ChunksShared
  <2>2. current_chunk = nth /\ chunksDone = {}
    BY <1>0, <1>1, <1>2 DEF Segment, ChunksShared
  <2>3. current_chunk' = nth /\ chunksDone' = {} /\ cur' = cur
    BY <1>0, <2>2 DEF chunks
  <2>4. \A u \in Team : u < nth
    BY <1>1 DEF Team
  <2>5. \A c \in 0..(NChunks - 1) : c < nth => c \in Team
    BY <1>1 DEF Team
  <2>6. \A c \in 0..(NChunks - 1) : c < current_chunk' =>
           \E u \in Team : At(u, "chunks")' /\ cur'[u] = c
    BY <1>4, <2>1, <2>3, <2>5
  <2>7. \A u \in Team : cur'[u] = u /\ u < current_chunk'
    BY <2>1, <2>3, <2>4
  <2>8. current_chunk' >= nth
    BY <1>1, <2>3
  <2> QED BY <1>3, <1>4, <2>3, <2>6, <2>7, <2>8 DEF ChunksShared
<1> QED BY <1>0, <1>5, <1>7, <1>8, <1>9 DEF Segment

\* A stop is a node to compute or one to leave at.
LEMMA StopKind ==
    ASSUME PoolTypeOK, cgraph \in GraphSet, NEW m \in Nat, NEW e \in m..NNodes,
           OnlyNops(m, e), e = NNodes \/ abort = e \/ Kind(e) # "nop",
           m = NNodes \/ Kind(m) # "fused"
    PROVE  e = NNodes \/ abort = e \/ e \in NodeSet
<1>1. SUFFICES ASSUME e # NNodes, abort # e
               PROVE  Kind(e) # "fused"
  BY GraphFacts DEF NodeSet
<1>2. CASE e = m
  BY <1>1, <1>2
<1>3. CASE e # m
  <2>1. Kind(e - 1) = "nop" /\ e \in 0..(NNodes - 1)
    BY <1>1, <1>3, GraphFacts DEF OnlyNops
  <2> QED BY <2>1, GraphFacts
<1> QED BY <1>2, <1>3

\* The barrier after a node that is not the last.
LEMMA OpenNext ==
    ASSUME IInv, NEW t \in Threads, Participates(t), Opens(t),
           NEW kind \in SegKinds, NEW e \in Nat, Segment(kind, e),
           HasShare(kind, e), EndOf(e) + 1 < NNodes
    PROVE  \E kind2 \in SegKinds, e2 \in Nat : Segment(kind2, e2)'
<1>0. /\ UNCHANGED <<cgraph, n_graph, last_graph, chunks, abort, done, Team>>
      /\ \A u \in Team :
            /\ Waiting(u) /\ ~Waiting(u)' /\ node_n[u] \in Nat /\ pc'[u] # "computed"
            /\ cont[u] = "loop" =>
                  /\ At(u, "loop")' /\ NodeOf(u)' = node_n[u] + 1
                  /\ pc'[u] = "loop" => node_n'[u] = node_n[u] + 1
      /\ \A u \in Threads \ Team : Out(u)'
      /\ \A k2 \in SegKinds : BarrierCounts(k2)'
  BY Opened
<1>1. /\ Team \subseteq Threads /\ 0 \in Team /\ nth \in 1..PoolSize /\ cgraph \in GraphSet
      /\ PoolTypeOK /\ kind \in {"node", "chunks"} /\ e \in NodeSet
      /\ NNodes \in Nat /\ EndOf(e) \in Nat /\ e <= EndOf(e)
  <2>1. kind \in {"node", "chunks"}
    BY DEF HasShare
  <2>2. PoolTypeOK /\ nth >= 1 /\ cgraph \in GraphSet /\ e \in NodeSet
    BY <2>1 DEF IInv, Segment, InSegment, StopsAt
  <2> QED BY <2>1, <2>2, TeamFacts, GraphFacts DEF Team, EndOf
<1>2. ASSUME NEW u \in Team
      PROVE  cont[u] = "loop" /\ node_n[u] = EndOf(e) /\ After(u, kind, e) /\ Started(u)
  <2>1. u \in Threads /\ Waiting(u)
    BY <1>0, <1>1
  <2> QED BY <1>1, <2>1, WaitingWhere DEF HasShare
<1>3. PICK e2 \in (EndOf(e) + 1)..NNodes :
         /\ OnlyNops(EndOf(e) + 1, e2)
         /\ e2 = NNodes \/ abort = e2 \/ Kind(e2) # "nop"
         /\ abort \notin (EndOf(e) + 1)..(e2 - 1)
  BY <1>1, FirstStop
<1>4. abort = -1 \/ (abort = EndOf(e) + 1 /\ e2 = abort)
  <2>1. abort # -1 => abort = EndOf(e) + 1
    BY <1>1 DEF Segment, StopsAt
  <2> QED BY <1>1, <1>3, <2>1
<1>5. Kind(EndOf(e) + 1) # "fused"
  <2>1. EndOf(e) + 1 \in 0..(NNodes - 1) /\ EndOf(e) \in 0..(NNodes - 1)
    BY <1>1
  <2>2. Kind(EndOf(e)) # "fuse"
    BY <1>1, <2>1, GraphFacts DEF EndOf, NodeSet
  <2> QED BY <1>1, <2>1, <2>2, GraphFacts
<1>6. e2 = NNodes \/ abort = e2 \/ e2 \in NodeSet
  BY <1>1, <1>3, <1>5, StopKind
<1>a. PICK kind2 \in {"node", "exit"} : kind2 = IF e2 = NNodes \/ abort = e2 THEN "exit" ELSE "node"
  OBVIOUS
<1>7. /\ nth' = nth /\ NodeSet' = NodeSet /\ NNodes' = NNodes /\ \A k : Kind(k)' = Kind(k)
      /\ Threads' = Threads /\ Team' = Team
  BY <1>0 DEF nth, NodeSet, NNodes, Kind, Threads
<1>8. e2 \in Nat /\ kind2 \in SegKinds /\ kind2 \in {"node", "exit"}
  BY <1>1, <1>a DEF SegKinds
<1>9. ASSUME NEW u \in Team
      PROVE  Before(u, kind2, e2)' /\ ~After(u, kind2, e2)'
  <2>1. At(u, "loop")' /\ NodeOf(u)' = EndOf(e) + 1 /\ Started(u)'
    BY <1>0, <1>2 DEF Started
  <2>2. OnlyNops(NodeOf(u), e2)'
    BY <1>3, <1>7, <2>1 DEF OnlyNops
  <2>3. pc'[u] = "loop" => node_n'[u] # NNodes'
    BY <1>0, <1>1, <1>2, <1>7
  <2> QED BY <1>0, <1>8, <2>1, <2>2, <2>3 DEF Before, After
<1>10. InSegment(kind2, e2)'
  BY <1>0, <1>1, <1>7, <1>8, <1>9 DEF InSegment
<1>11. StopsAt(kind2, e2)'
  <2>1. kind2 = "exit" => e2 <= NNodes /\ ((abort = -1 /\ e2 = NNodes) \/ abort = e2)
    BY <1>1, <1>4, <1>a
  <2>2. kind2 = "node" => e2 \in NodeSet /\ abort = -1
    BY <1>4, <1>6, <1>a
  <2> QED BY <1>0, <1>7, <1>8, <2>1, <2>2 DEF StopsAt
<1>12. SharesDone(kind2, e2)'
  <2>1. SharesDone(kind, e) /\ kind # "over"
    BY <1>1 DEF Segment
  <2>2. ASSUME NEW k \in NodeSet
        PROVE  k < e2 <=> k <= e
    <3>1. ~(EndOf(e) < k /\ k < e2)
      BY <1>1, <1>3 DEF OnlyNops, NodeSet
    <3>2. ~(e < k /\ k <= EndOf(e))
      BY <1>1, GraphFacts DEF EndOf, NodeSet
    <3>3. k \in Nat
      BY DEF NodeSet
    <3> QED BY <1>1, <1>3, <3>1, <3>2, <3>3
  <2>3. ASSUME NEW k \in NodeSet, NEW u \in Team
        PROVE  <<k, u>> \in done <=> k <= e
    <3>1. k \in Nat
      BY DEF NodeSet
    <3>2. After(u, kind, e)
      BY <1>2
    <3>3. <<k, u>> \in done <=> (k < e \/ (k = e /\ After(u, kind, e)))
      BY <2>1 DEF SharesDone
    <3> QED BY <3>1, <3>2, <3>3
  <2>4. done \subseteq NodeSet \X Team
    BY <2>1 DEF SharesDone
  <2> QED BY <1>0, <1>7, <1>8, <1>9, <2>2, <2>3, <2>4 DEF SharesDone
<1>13. ChunksShared(kind2, e2)'
  <2>1. \A u \in Team' : ~Waiting(u)'
    BY <1>0, <1>7
  <2>2. ~Waiting(0)' /\ kind2 # "chunks"
    BY <1>0, <1>1, <1>8
  <2> QED BY <2>1, <2>2 DEF ChunksShared
<1>14. Segment(kind2, e2)'
  BY <1>0, <1>8, <1>10, <1>11, <1>12, <1>13 DEF Segment
<1> QED BY <1>8, <1>14

\* The last barrier of the graph.
LEMMA OpenLast ==
    ASSUME IInv, NEW t \in Threads, Participates(t), Opens(t),
           NEW kind \in SegKinds, NEW e \in Nat, Segment(kind, e), kind # "over",
           kind = "exit" \/ (HasShare(kind, e) /\ EndOf(e) + 1 = NNodes)
    PROVE  Segment("over", e)'
<1>0. /\ UNCHANGED <<cgraph, n_graph, last_graph, chunks, abort, done, Team>>
      /\ \A u \in Team : Waiting(u) /\ (cont[u] = "return" => Out(u)')
      /\ \A u \in Threads \ Team : Out(u)'
      /\ BarrierCounts("over")'
  BY Opened DEF SegKinds
<1>1. Team \subseteq Threads /\ PoolTypeOK /\ nth \in Nat /\ cgraph \in GraphSet /\ NNodes \in Nat
  <2>1. PoolTypeOK /\ cgraph \in GraphSet
    BY DEF IInv, Segment, InSegment
  <2> QED BY <2>1, TeamFacts, GraphFacts
<1>2. ASSUME NEW u \in Team
      PROVE  cont[u] = "return" /\ Started(u) /\ (kind # "exit" => After(u, kind, e))
  <2>1. u \in Threads /\ Waiting(u)
    BY <1>0, <1>1
  <2> QED BY <1>1, <2>1, WaitingWhere DEF HasShare
<1>3. /\ nth' = nth /\ NodeSet' = NodeSet /\ Threads' = Threads /\ Team' = Team /\ Workers' = Workers
  BY <1>0 DEF nth, NodeSet, NNodes, Kind, Threads, Workers
<1>4. \A u \in Workers : u < nth => u \in Team /\ u > 0
  BY <1>1 DEF Workers, Team
<1>5. InSegment("over", e)'
  BY <1>0, <1>2, <1>3, <1>4 DEF InSegment, Started
<1>6. SharesDone(kind, e) /\ StopsAt(kind, e)
  BY DEF Segment
<1>7. ASSUME NEW k \in NodeSet, NEW u \in Team, abort = -1 \/ k < abort
      PROVE  <<k, u>> \in done
  <2>1. k \in 0..(NNodes - 1)
    BY DEF NodeSet
  <2>2. CASE kind = "exit"
    <3>1. k < e
      BY <1>1, <1>6, <1>7, <2>1, <2>2 DEF StopsAt
    <3> QED BY <1>6, <2>2, <3>1 DEF SharesDone
  <2>3. CASE kind # "exit"
    <3>1. EndOf(e) + 1 = NNodes
      BY <2>3
    <3>2. e \in NodeSet /\ e \in 0..(NNodes - 1)
      BY <1>6, <2>3 DEF StopsAt, SegKinds, NodeSet
    <3>3. k <= e
      BY <1>1, <2>1, <3>1, <3>2, GraphFacts DEF EndOf, NodeSet
    <3> QED BY <1>2, <1>6, <2>1, <2>3, <3>3 DEF SharesDone
  <2> QED BY <2>2, <2>3
<1>8. SharesDone("over", e)'
  BY <1>0, <1>3, <1>6, <1>7 DEF SharesDone
<1>9. StopsAt("over", e)' /\ ChunksShared("over", e)'
  BY DEF StopsAt, ChunksShared
<1> QED BY <1>0, <1>5, <1>8, <1>9 DEF Segment

\* Whichever barrier it is, the team is in a segment again.
LEMMA OpenStep ==
    ASSUME IInv, NEW t \in Threads, Participates(t), Opens(t)
    PROVE  \E kind \in SegKinds, e \in Nat : Segment(kind, e)'
<1>1. PICK kind \in SegKinds, e \in Nat : Segment(kind, e)
  BY DEF IInv
<1>2. /\ kind # "over"
      /\ \/ kind = "node" /\ Kind(e) = "chunk"
         \/ HasShare(kind, e) /\ EndOf(e) + 1 < NNodes
         \/ HasShare(kind, e) /\ EndOf(e) + 1 = NNodes
         \/ kind = "exit"
  BY <1>1, WaitingWhere DEF Opens
<1> QED BY <1>1, <1>2, OpenProduct, OpenNext, OpenLast DEF SegKinds
-----------------------------------------------------------------------------
(* The steps outside of the segments.                                      *)

\* The step makes no difference to the segment as far as thread u is concerned.
Alike(u, kind, e) ==
    /\ last_graph'[u] \in {last_graph[u], n_graph}
    /\ (kind = "over" \/ u \notin Team) => (Out(u) => Out(u)')
    /\ u \in Team => (Before(u, kind, e) => Before(u, kind, e)')
    /\ u \in Team => (After(u, kind, e)' <=> After(u, kind, e))
    /\ u \in Team => (Spinning(u)' <=> Spinning(u)) /\ (At(u, "chunks")' <=> At(u, "chunks"))
                     /\ (Prepared(u)' <=> Prepared(u))
    /\ (pc[u] \in {"computed", "reset", "release"} \/ pc'[u] \in {"computed", "reset", "release"})
          => pc'[u] = pc[u]

\* A step that is the same to every thread keeps the segment.
LEMMA QuietStep ==
    ASSUME IInv, NEW kind \in SegKinds, NEW e \in Nat, Segment(kind, e),
           UNCHANGED Shared, UNCHANGED <<n_barrier, abort, done>>, UNCHANGED chunks,
           \A u \in Threads : Alike(u, kind, e),
           pc[0] \in {"idle", "kick", "join", "freed"} => pc'[0] \in {"idle", "kick", "join", "freed"}
    PROVE  Segment(kind, e)'
<1>0. PoolTypeOK /\ Team \subseteq Threads /\ 0 \in Threads /\ nth \in Nat
  BY TeamFacts DEF IInv
<1>1. /\ nth' = nth /\ Team' = Team /\ NodeSet' = NodeSet /\ NNodes' = NNodes /\ cgraph' = cgraph
      /\ NChunks' = NChunks /\ Kind(e)' = Kind(e) /\ EndOf(e)' = EndOf(e) /\ n_graph' = n_graph
      /\ Threads' = Threads /\ Workers' = Workers
  BY FrameGraph DEF Shared, Threads, Workers
<1>2. kind # "over" => 0 \in Team
  BY <1>0 DEF Segment, InSegment, Team
<1>3. InSegment(kind, e)'
  <2>1. CASE kind = "over"
    <3>1. \A u \in Threads : Out(u)'
      BY <2>1 DEF Segment, InSegment, Alike
    <3>2. ASSUME NEW u \in Workers, u < nth PROVE last_graph'[u] = n_graph
      <4>1. u \in Threads
        BY <1>0, TeamFacts DEF Workers, Threads
      <4>2. last_graph[u] = n_graph
        BY <2>1, <3>2, <4>1 DEF Segment, InSegment
      <4> QED BY <4>1, <4>2 DEF Alike
    <3> QED BY <1>1, <2>1, <3>1, <3>2 DEF InSegment
  <2>2. CASE kind # "over"
    <3>1. /\ nth >= 1 /\ cgraph \in GraphSet
          /\ \A u \in Team : Before(u, kind, e) \/ After(u, kind, e)
          /\ \A u \in Threads \ Team : Out(u)
      BY <2>2 DEF Segment, InSegment
    <3>2. /\ \A u \in Team : Before(u, kind, e)' \/ After(u, kind, e)'
          /\ \A u \in Threads \ Team : Out(u)'
      BY <1>0, <3>1 DEF Alike
    <3> QED BY <1>1, <2>2, <3>1, <3>2 DEF InSegment
  <2> QED BY <2>1, <2>2
<1>4. StopsAt(kind, e)'
  <2>1. StopsAt(kind, e)
    BY DEF Segment
  <2>2. kind # "over" => (After(0, kind, e)' <=> After(0, kind, e)) /\ (pc'[0] = "computed" => pc[0] = "computed")
    BY <1>0, <1>2 DEF Alike
  <2> QED BY <1>1, <2>1, <2>2 DEF StopsAt
<1>5. SharesDone(kind, e)'
  <2>1. SharesDone(kind, e)
    BY DEF Segment
  <2>2. \A u \in Team : After(u, kind, e)' <=> After(u, kind, e)
    BY <1>0 DEF Alike
  <2> QED BY <1>1, <2>1, <2>2 DEF SharesDone
<1>6. BarrierCounts(kind)'
  <2>1. BarrierCounts(kind)
    BY DEF Segment
  <2>2. \A u \in Team :
           /\ Spinning(u)' <=> Spinning(u)
           /\ pc'[u] = "reset" <=> pc[u] = "reset"
           /\ pc'[u] = "release" <=> pc[u] = "release"
    BY <1>0 DEF Alike
  <2>3. {u \in Team' : Spinning(u)'} = {u \in Team : Spinning(u)}
    BY <1>1, <2>2
  <2> QED BY <1>1, <2>1, <2>2, <2>3 DEF BarrierCounts
<1>7. ChunksShared(kind, e)'
  <2>1. ChunksShared(kind, e)
    BY DEF Segment
  <2>2. \A u \in Team :
           /\ After(u, kind, e)' <=> After(u, kind, e)
           /\ At(u, "chunks")' <=> At(u, "chunks")
           /\ Prepared(u)' <=> Prepared(u)
    BY <1>0 DEF Alike
  <2>3. cur' = cur /\ current_chunk' = current_chunk /\ chunksDone' = chunksDone
    BY DEF chunks
  <2>4. CASE kind = "over"
    BY <2>4 DEF ChunksShared
  <2>5. CASE kind # "over"
    BY <1>1, <1>2, <2>1, <2>2, <2>3, <2>5 DEF ChunksShared, Prepared
  <2> QED BY <2>4, <2>5
<1> QED BY <1>3, <1>4, <1>5, <1>6, <1>7 DEF Segment

\* A thread that moves between graphs.
LEMMA RestAlike ==
    ASSUME NEW u \in Threads, NEW kind \in SegKinds, NEW e \in Nat, UNCHANGED Shared,
           \/ Same(u)
           \/ /\ pc[u] \notin Inside \cup {"wake"} /\ pc'[u] \notin Inside \cup {"wake"}
              /\ cont'[u] = cont[u] /\ node_n'[u] = node_n[u] /\ last_graph'[u] = last_graph[u]
    PROVE  Alike(u, kind, e)
<1>1. CASE Same(u)
  BY <1>1, FrameThread DEF Alike, Same, Prepared
<1>2. CASE /\ pc[u] \notin Inside \cup {"wake"} /\ pc'[u] \notin Inside \cup {"wake"}
           /\ cont'[u] = cont[u] /\ node_n'[u] = node_n[u] /\ last_graph'[u] = last_graph[u]
  <2>1. /\ pc[u] \notin {"loop", "compute", "chunks", "take", "computed", "barrier", "add",
                         "reset", "release", "spin", "wake"}
        /\ pc'[u] \notin {"loop", "compute", "chunks", "take", "computed", "barrier", "add",
                          "reset", "release", "spin", "wake"}
    BY <1>2 DEF Inside
  <2>2. /\ ~Spinning(u) /\ ~Spinning(u)' /\ ~Released(u) /\ ~Released(u)'
        /\ ~Waiting(u) /\ ~Waiting(u)' /\ ~At(u, "chunks") /\ ~At(u, "chunks")'
        /\ ~At(u, "loop") /\ ~At(u, "loop")'
    BY <2>1 DEF Spinning, Released, Waiting, At
  <2>3. Out(u)' <=> Out(u)
    BY <1>2, <2>2 DEF Out
  <2>4. ~After(u, kind, e) /\ ~After(u, kind, e)'
    BY <2>1, <2>2 DEF After
  <2>5. NotStarted(u)' <=> NotStarted(u)
    BY <1>2, <2>1, <2>3 DEF NotStarted, Shared
  <2>6. Before(u, kind, e) => NotStarted(u) /\ kind \in {"node", "exit"} /\ OnlyNops(0, e)
    BY <2>1, <2>2 DEF Before
  <2>7. OnlyNops(0, e) => OnlyNops(0, e)'
    BY DEF OnlyNops, Shared, Kind
  <2>8. Before(u, kind, e) => Before(u, kind, e)'
    BY <2>5, <2>6, <2>7 DEF Before
  <2> QED BY <1>2, <2>1, <2>2, <2>3, <2>4, <2>8 DEF Alike, Prepared
<1> QED BY <1>1, <1>2

\* A thread released from the last barrier of some graph notices, however late.
LEMMA ReturnStep ==
    ASSUME IInv, NEW kind \in SegKinds, NEW e \in Nat, Segment(kind, e),
           NEW t \in Threads, Spin(t), cont[t] = "return"
    PROVE  Segment(kind, e)'
<1>1. /\ UNCHANGED <<done, abort, last_graph, n_barrier>> /\ UNCHANGED chunks /\ UNCHANGED Shared
      /\ PoolTypeOK /\ pc[t] = "spin" /\ Released(t) /\ Participates(t)
  BY DEF Spin, Leave, Released, Shared, pool, IInv, Participates
<1>2. /\ pc'[t] \in {"ret", "top"} /\ node_n'[t] = 0
  <2>1. /\ cont \in [Threads -> {"loop", "chunks", "return"}] /\ node_n \in [Threads -> Nat]
        /\ pc \in [Threads -> Inside \cup Rests]
    BY <1>1 DEF PoolTypeOK, Rests
  <2> QED BY <2>1 DEF Spin, Leave, Goto
<1>3. ~Spinning(t) /\ ~Spinning(t)' /\ ~Waiting(t) /\ ~Waiting(t)'
  BY <1>1, <1>2 DEF Spinning, Waiting, Released
<1>4. Out(t) /\ Out(t)' /\ ~At(t, "loop") /\ ~At(t, "chunks") /\ ~At(t, "chunks")'
  BY <1>1, <1>2 DEF Out, At, Released, Inside
<1>5. ~After(t, kind, e) /\ ~After(t, kind, e)'
  BY <1>1, <1>2, <1>3 DEF After
<1>6. Before(t, kind, e) => Before(t, kind, e)'
  <2>1. Before(t, kind, e) => NotStarted(t) /\ kind \in {"node", "exit"} /\ OnlyNops(0, e)
    BY <1>1, <1>3, <1>4 DEF Before
  <2>2. NotStarted(t) => NotStarted(t)'
    BY <1>1, <1>4 DEF NotStarted, Shared
  <2>3. OnlyNops(0, e) => OnlyNops(0, e)'
    BY <1>1 DEF OnlyNops, Shared, Kind
  <2> QED BY <2>1, <2>2, <2>3 DEF Before
<1>7. Alike(t, kind, e)
  BY <1>1, <1>2, <1>3, <1>4, <1>5, <1>6 DEF Alike, Prepared
<1>8. \A u \in Threads \ {t} : Same(u)
  BY <1>1, MovesAlone
<1>9. \A u \in Threads : Alike(u, kind, e)
  BY <1>1, <1>7, <1>8, RestAlike
<1>10. pc[0] \in {"idle", "kick", "join", "freed"} => pc'[0] = pc[0]
  BY <1>1, <1>8, TeamFacts DEF Same
<1> QED BY <1>1, <1>9, <1>10, QuietStep

\* A worker sees the graph.
LEMMA SeesStep ==
    ASSUME IInv, NEW kind \in SegKinds, NEW e \in Nat, Segment(kind, e),
           NEW t \in Workers, pc[t] \in {"pollgraph", "lock"}, n_graph # last_graph[t],
           NEW l \in WorkerRest, SeesGraph(t, l), Idles
    PROVE  Segment(kind, e)'
<1>0. /\ t \in Threads /\ t > 0 /\ t \in Nat /\ PoolTypeOK /\ nth \in Nat
  <2>1. PoolTypeOK
    BY DEF IInv
  <2> QED BY <2>1, TeamFacts DEF Workers, Threads
<1>1. /\ UNCHANGED <<done, abort, n_barrier>> /\ UNCHANGED chunks /\ UNCHANGED Shared
      /\ UNCHANGED <<node_n, cont, n_passed>>
  BY DEF Idles, pool, barrier, Shared
<1>2. /\ last_graph'[t] = n_graph
      /\ pc'[t] = IF t < nth THEN "loop" ELSE l
      /\ \A u \in Threads \ {t} : Same(u)
  BY <1>0, <1>1 DEF SeesGraph, Goto, nth, PoolTypeOK, Same
<1>3. ~Spinning(t) /\ ~Spinning(t)' /\ ~Waiting(t) /\ ~Waiting(t)' /\ ~At(t, "loop") /\ ~At(t, "chunks")
      /\ ~At(t, "chunks")' /\ ~Released(t) /\ ~Released(t)'
  BY <1>2 DEF Spinning, Waiting, At, Released, WorkerRest
<1>4. ~After(t, kind, e)
  BY <1>3 DEF After
<1>5. t \notin Team => (Out(t) => Out(t)')
  <2>1. t \notin Team => pc'[t] = l
    BY <1>0, <1>2 DEF Team
  <2>2. pc'[t] = l => pc'[t] \notin Inside \cup {"wake"}
    BY DEF WorkerRest, Inside
  <2> QED BY <1>1, <1>3, <2>1, <2>2 DEF Out
<1>6. kind = "over" => t \notin Team
  BY <1>0 DEF Segment, InSegment, Team
<1>7. ASSUME t \in Team, Before(t, kind, e)
      PROVE  Before(t, kind, e)' /\ ~After(t, kind, e)'
  <2>1. Out(t) /\ node_n[t] = 0 /\ kind \in {"node", "exit"} /\ OnlyNops(0, e)
    BY <1>0, <1>3, <1>7 DEF Before, NotStarted, Out, Inside
  <2>2. pc'[t] = "loop" /\ node_n'[t] = 0
    BY <1>0, <1>1, <1>2, <1>7, <2>1 DEF Team
  <2>3. At(t, "loop")' /\ NodeOf(t)' = 0 /\ Started(t)'
    BY <1>1, <1>2, <1>3, <2>2 DEF At, NodeOf, Started, Shared
  <2>4. OnlyNops(0, e)'
    BY <1>1, <2>1 DEF OnlyNops, Shared, Kind
  <2>5. NNodes' # 0
    <3>1. cgraph \in GraphSet
      BY <1>6, <1>7 DEF Segment, InSegment
    <3> QED BY <1>0, <1>1, <3>1, GraphFacts, FrameGraph
  <2> QED BY <1>3, <2>1, <2>2, <2>3, <2>4, <2>5 DEF Before, After
<1>8. t \in Team => Before(t, kind, e)
  BY <1>4, <1>6 DEF Segment, InSegment
<1>9. pc'[t] \notin {"computed", "reset", "release"}
  BY <1>2 DEF WorkerRest
<1>10. Alike(t, kind, e)
  BY <1>2, <1>3, <1>4, <1>5, <1>6, <1>7, <1>8, <1>9 DEF Alike, Prepared
<1>11. \A u \in Threads : Alike(u, kind, e)
  BY <1>1, <1>2, <1>10, RestAlike
<1>12. pc'[0] = pc[0]
  BY <1>0, <1>2, TeamFacts DEF Same
<1> QED BY <1>1, <1>11, <1>12, QuietStep

\* The steps of a worker between graphs.
LEMMA WorkerRestStep ==
    ASSUME IInv, NEW kind \in SegKinds, NEW e \in Nat, Segment(kind, e),
           NEW t \in Workers, WorkerStep(t) \/ SpuriousWakeup(t)
    PROVE  /\ Segment(kind, e)'
           /\ pc[t] \in WorkerRest /\ pc'[t] \in WorkerRest \cup {"loop"}
           /\ last_graph'[t] \in {last_graph[t], n_graph}
           /\ \A u \in Threads \ {t} : Same(u)
           /\ Idles
<1>0. /\ t \in Threads /\ t > 0 /\ PoolTypeOK /\ pc \in [Threads -> Inside \cup Rests]
      /\ last_graph \in [Threads -> [count : 0..MaxGraphs, n : 0..PoolSize]]
  <2>1. PoolTypeOK
    BY DEF IInv
  <2> QED BY <2>1 DEF Workers, Threads, PoolTypeOK, Rests
<1>1. \/ /\ pc[t] \in {"pollgraph", "lock"} /\ n_graph # last_graph[t]
         /\ \E l \in WorkerRest : SeesGraph(t, l)
      \/ UNCHANGED last_graph /\ \E l \in WorkerRest : Goto(t, l)
  BY DEF WorkerStep, Top, PauseLock, StopCheck, PollFlags, PollGraph, LockedCheck, SpuriousWakeup,
         WorkerRest
<1>2. Idles /\ pc[t] \in WorkerRest
  BY DEF WorkerStep, Top, PauseLock, StopCheck, PollFlags, PollGraph, LockedCheck, SpuriousWakeup,
         WorkerRest
<1>3. /\ UNCHANGED <<done, abort, n_barrier>> /\ UNCHANGED chunks /\ UNCHANGED Shared
      /\ UNCHANGED <<node_n, cont, n_passed>>
  BY <1>2 DEF Idles, pool, barrier, Shared
<1>4. CASE /\ pc[t] \in {"pollgraph", "lock"} /\ n_graph # last_graph[t]
           /\ \E l \in WorkerRest : SeesGraph(t, l)
  <2>1. PICK l \in WorkerRest : SeesGraph(t, l)
    BY <1>4
  <2>2. Segment(kind, e)'
    BY <1>2, <1>4, <2>1, SeesStep
  <2>3. /\ pc'[t] \in WorkerRest \cup {"loop"} /\ last_graph'[t] = n_graph
        /\ \A u \in Threads \ {t} : Same(u)
    BY <1>0, <1>3, <2>1 DEF SeesGraph, Goto, Same
  <2> QED BY <1>2, <2>2, <2>3
<1>5. CASE UNCHANGED last_graph /\ \E l \in WorkerRest : Goto(t, l)
  <2>1. /\ pc'[t] \in WorkerRest /\ last_graph'[t] = last_graph[t]
        /\ \A u \in Threads \ {t} : Same(u)
    BY <1>0, <1>3, <1>5 DEF Goto, Same
  <2>2. WorkerRest \cap (Inside \cup {"wake"}) = {}
    BY DEF WorkerRest, Inside
  <2>3. \A u \in Threads : Alike(u, kind, e)
    BY <1>2, <1>3, <2>1, <2>2, RestAlike
  <2>4. pc'[0] = pc[0]
    BY <1>0, <2>1, TeamFacts DEF Same
  <2> QED BY <1>2, <1>3, <2>1, <2>3, <2>4, QuietStep
<1> QED BY <1>1, <1>4, <1>5

\* While the caller is in none of its own graphs, there is none.
LEMMA CallerOver ==
    ASSUME IInv, NEW kind \in SegKinds, NEW e \in Nat, Segment(kind, e), pc[0] \in CallerRest
    PROVE  kind = "over" /\ \A t \in Threads : Out(t)
<1>1. SUFFICES ASSUME kind # "over" PROVE FALSE
  BY DEF Segment, InSegment
<1>2. 0 \in Team
  BY <1>1, TeamFacts DEF IInv, Segment, InSegment, Team
<1>3. Before(0, kind, e) \/ After(0, kind, e)
  BY <1>1, <1>2 DEF Segment, InSegment
<1>4. pc[0] \notin {"loop", "compute", "chunks", "take", "computed", "barrier", "add",
                    "reset", "release", "spin", "wake"}
  BY DEF CallerRest
<1> QED BY <1>3, <1>4 DEF Before, After, NotStarted, At, Released, Waiting, Spinning

\* The broadcast moves sleeping threads only.
LEMMA Wakes ==
    ASSUME PoolTypeOK, NEW l, pc' = Woken(l),
           UNCHANGED <<cont, node_n, n_passed, last_graph>>
    PROVE  /\ pc'[0] = l
           /\ \A u \in Workers :
                 \/ Same(u)
                 \/ /\ pc[u] \in WorkerRest /\ pc'[u] \in WorkerRest
                    /\ cont'[u] = cont[u] /\ node_n'[u] = node_n[u] /\ last_graph'[u] = last_graph[u]
                    /\ n_passed'[u] = n_passed[u]
<1>1. 0 \in Threads /\ \A u \in Workers : u \in Threads /\ u # 0
  BY TeamFacts DEF Workers, Threads
<1> QED BY <1>1 DEF Woken, WorkerRest, Same

\* Pause, resume, free and join.
LEMMA CallerQuiet ==
    ASSUME IInv, NEW kind \in SegKinds, NEW e \in Nat, Segment(kind, e),
           PauseOrResume \/ Free \/ Join
    PROVE  Segment(kind, e)'
<1>0. PoolTypeOK /\ 0 \in Threads /\ \A u \in Threads : u = 0 \/ u \in Workers
  <2>1. PoolTypeOK
    BY DEF IInv
  <2> QED BY <2>1, TeamFacts DEF Threads, Workers
<1>1. /\ UNCHANGED <<done, abort, n_barrier>> /\ UNCHANGED chunks /\ UNCHANGED Shared
      /\ UNCHANGED <<node_n, cont, n_passed, last_graph>>
      /\ pc[0] \in {"idle", "join"}
  BY DEF PauseOrResume, Free, Join, pool, barrier, Shared
<1>2. /\ pc'[0] \in {"idle", "join", "freed"}
      /\ \A u \in Workers :
            \/ Same(u)
            \/ /\ pc[u] \in WorkerRest /\ pc'[u] \in WorkerRest
               /\ cont'[u] = cont[u] /\ node_n'[u] = node_n[u] /\ last_graph'[u] = last_graph[u]
  <2>1. CASE PauseOrResume \/ Free
    BY <1>0, <1>1, <2>1, Wakes DEF PauseOrResume, Free
  <2>2. CASE Join
    BY <1>0, <1>1, <2>2 DEF Join, Goto, PoolTypeOK, Same, Workers, Threads
  <2> QED BY <2>1, <2>2
<1>3. WorkerRest \cap (Inside \cup {"wake"}) = {} /\ {"idle", "join", "freed"} \cap (Inside \cup {"wake"}) = {}
  BY DEF WorkerRest, Inside
<1>4. \A u \in Threads : Alike(u, kind, e)
  BY <1>0, <1>1, <1>2, <1>3, RestAlike
<1> QED BY <1>1, <1>2, <1>4, QuietStep

\* The caller joins the team it has dispatched.
LEMMA KickWakeStep ==
    ASSUME IInv, NEW kind \in SegKinds, NEW e \in Nat, Segment(kind, e), KickWake
    PROVE  Segment(kind, e)'
<1>0. PoolTypeOK /\ 0 \in Threads /\ \A u \in Threads : u = 0 \/ u \in Workers
  <2>1. PoolTypeOK
    BY DEF IInv
  <2> QED BY <2>1, TeamFacts DEF Threads, Workers
<1>1. /\ UNCHANGED <<done, abort, n_barrier>> /\ UNCHANGED chunks /\ UNCHANGED Shared
      /\ UNCHANGED <<node_n, cont, n_passed, last_graph>>
      /\ pc[0] = "wake"
  BY DEF KickWake, barrier, Shared
<1>2. /\ pc'[0] = "loop"
      /\ \A u \in Workers :
            \/ Same(u)
            \/ /\ pc[u] \in WorkerRest /\ pc'[u] \in WorkerRest
               /\ cont'[u] = cont[u] /\ node_n'[u] = node_n[u] /\ last_graph'[u] = last_graph[u]
  BY <1>0, <1>1, Wakes DEF KickWake
<1>3. WorkerRest \cap (Inside \cup {"wake"}) = {}
  BY DEF WorkerRest, Inside
<1>4. ~Out(0) /\ kind # "over"
  <2>1. ~Out(0)
    BY <1>1 DEF Out, Released
  <2> QED BY <1>0, <2>1 DEF Segment, InSegment
<1>5. /\ ~Spinning(0) /\ ~Spinning(0)' /\ ~Waiting(0) /\ ~Waiting(0)' /\ ~At(0, "loop")
      /\ ~At(0, "chunks") /\ ~At(0, "chunks")' /\ ~Released(0)'
  BY <1>1, <1>2 DEF Spinning, Waiting, At, Released
<1>6. ~After(0, kind, e)
  BY <1>1, <1>5 DEF After
<1>7. 0 \in Team /\ Before(0, kind, e) /\ NNodes # 0
  <2>1. 0 \in Team /\ cgraph \in GraphSet
    BY <1>0, <1>4, TeamFacts DEF Segment, InSegment, Team
  <2> QED BY <1>0, <1>4, <1>6, <2>1, GraphFacts DEF Segment, InSegment
<1>8. kind \in {"node", "exit"} /\ OnlyNops(0, e) /\ node_n[0] = 0
  BY <1>1, <1>5, <1>7 DEF Before, NotStarted
<1>9. At(0, "loop")' /\ NodeOf(0)' = 0 /\ Started(0)' /\ OnlyNops(0, e)'
  BY <1>1, <1>2, <1>5, <1>8 DEF At, NodeOf, Started, OnlyNops, Shared, Kind
<1>10. Before(0, kind, e)'
  BY <1>8, <1>9 DEF Before
<1>11. ~After(0, kind, e)'
  <2>1. NNodes' # 0 /\ node_n'[0] = 0
    BY <1>1, <1>7, <1>8, FrameGraph
  <2> QED BY <1>2, <1>5, <2>1 DEF After
<1>12. Alike(0, kind, e)
  BY <1>1, <1>2, <1>4, <1>5, <1>6, <1>7, <1>10, <1>11 DEF Alike, Prepared
<1>13. \A u \in Threads : Alike(u, kind, e)
  BY <1>0, <1>1, <1>2, <1>3, <1>12, RestAlike
<1> QED BY <1>1, <1>13, QuietStep

\* The call returns.
LEMMA GraphReturnStep ==
    ASSUME IInv, NEW kind \in SegKinds, NEW e \in Nat, Segment(kind, e), GraphReturn
    PROVE  Segment(kind, e)'
<1>0. PoolTypeOK /\ 0 \in Threads
  BY TeamFacts DEF IInv
<1>1. /\ UNCHANGED <<abort, n_barrier, last_graph, node_n, cont, n_passed>> /\ UNCHANGED Shared
      /\ pc[0] = "ret" /\ pc'[0] = "idle" /\ done' = {}
      /\ \A u \in Threads \ {0} : Same(u)
  BY <1>0 DEF GraphReturn, pool, barrier, Shared, Goto, PoolTypeOK, Same
<1>2. kind = "over" /\ \A u \in Threads : Out(u)
  BY <1>1, CallerOver DEF CallerRest
<1>3. Out(0)'
  BY <1>0, <1>1, <1>2 DEF Out, Inside, Released
<1>4. \A u \in Threads : Out(u)'
  BY <1>1, <1>2, <1>3, FrameThread
<1>5. InSegment(kind, e)'
  <2>1. nth' = nth /\ n_graph' = n_graph
    BY <1>1, FrameGraph DEF Shared
  <2>2. \A u \in Workers : u < nth => last_graph[u] = n_graph
    <3>1. \A u \in Workers : u \in Threads
      BY <1>0, TeamFacts DEF Workers, Threads
    <3> QED BY <1>2, <3>1 DEF Segment, InSegment
  <2> QED BY <1>1, <1>2, <1>4, <2>1, <2>2 DEF InSegment
<1>6. SharesDone(kind, e)' /\ StopsAt(kind, e)' /\ ChunksShared(kind, e)'
  BY <1>1, <1>2 DEF SharesDone, StopsAt, ChunksShared
<1>7. BarrierCounts(kind)'
  BY <1>1, <1>2 DEF Segment, BarrierCounts
<1> QED BY <1>5, <1>6, <1>7 DEF Segment

\* The caller resets the parameters; everybody is out.
LEMMA GraphComputeStep ==
    ASSUME IInv, NEW kind \in SegKinds, NEW e \in Nat, Segment(kind, e),
           NEW g \in GraphSet, GraphCompute(g)
    PROVE  Segment(kind, e)'
<1>0. PoolTypeOK /\ 0 \in Threads
  BY TeamFacts DEF IInv
<1>1. /\ UNCHANGED <<n_barrier, n_barrier_passed, last_graph, node_n, cont, n_passed, n_graph, done>>
      /\ pc[0] = "idle" /\ pc'[0] = "kick"
      /\ \A u \in Threads \ {0} : pc'[u] = pc[u]
  BY <1>0 DEF GraphCompute, barrier, Goto, PoolTypeOK
<1>2. kind = "over" /\ \A u \in Threads : Out(u)
  BY <1>1, CallerOver DEF CallerRest
<1>3. \A u \in Threads : Out(u)'
  BY <1>0, <1>1, <1>2 DEF Out, Inside, Released
<1>4. InSegment(kind, e)'
  <2>1. \A u \in Workers : u < nth => last_graph[u] = n_graph
    <3>1. \A u \in Workers : u \in Threads
      BY <1>0, TeamFacts DEF Workers, Threads
    <3> QED BY <1>2, <3>1 DEF Segment, InSegment
  <2> QED BY <1>1, <1>2, <1>3, <2>1 DEF InSegment, nth
<1>5. done' = {}
  BY <1>1 DEF IInv, Resting
<1>6. SharesDone(kind, e)' /\ StopsAt(kind, e)' /\ ChunksShared(kind, e)'
  BY <1>1, <1>2, <1>5 DEF SharesDone, StopsAt, ChunksShared
<1>7. BarrierCounts(kind)'
  BY <1>1, <1>2 DEF Segment, BarrierCounts
<1> QED BY <1>4, <1>6, <1>7 DEF Segment

\* A thread that has nothing to do with the graph is at no place inside it.
LEMMA OutNowhere ==
    ASSUME NEW t, Out(t)
    PROVE  /\ ~Spinning(t) /\ ~Waiting(t) /\ ~At(t, "loop") /\ ~At(t, "chunks")
           /\ pc[t] \notin Inside \ {"spin"}
           /\ \A kind, e : ~After(t, kind, e)
<1>1. pc[t] \notin {"loop", "compute", "chunks", "take", "computed", "barrier", "add", "reset", "release"}
  BY DEF Out, Inside, Released
<1>2. ~Spinning(t) /\ ~Waiting(t) /\ ~At(t, "loop") /\ ~At(t, "chunks")
  BY <1>1 DEF Out, Inside, Released, Spinning, Waiting, At
<1> QED BY <1>1, <1>2 DEF After, Inside

\* A dispatched graph begins with the segment of its first stop.
LEMMA KickStep ==
    ASSUME IInv, NEW n \in 1..(PoolSize + 1), Kick(n)
    PROVE  \E kind \in SegKinds, e \in Nat : Segment(kind, e)'
<1>0. PoolTypeOK /\ 0 \in Threads /\ \A u \in Threads : u = 0 \/ u \in Workers
  <2>1. PoolTypeOK
    BY DEF IInv
  <2> QED BY <2>1, TeamFacts DEF Threads, Workers
<1>1. /\ UNCHANGED <<n_barrier, n_barrier_passed, last_graph, node_n, cont, n_passed, cgraph, done, abort>>
      /\ pc[0] = "kick" /\ pc'[0] = "wake"
      /\ \A u \in Threads \ {0} : pc'[u] = pc[u]
      /\ n_graph' = [count |-> n_graph.count + 1, n |-> Available(n)]
  BY <1>0 DEF Kick, barrier, Goto, PoolTypeOK
<1>2. cgraph \in GraphSet /\ abort = -1 /\ done = {}
  BY <1>1 DEF IInv, Resting
<1>3. /\ \A u \in Threads : Out(u)
      /\ n_barrier = 0
  <2>1. PICK k \in SegKinds, e \in Nat : Segment(k, e)
    BY DEF IInv
  <2>2. k = "over" /\ \A u \in Threads : Out(u)
    BY <1>1, <2>1, CallerOver DEF CallerRest
  <2> QED BY <2>1, <2>2 DEF Segment, BarrierCounts
<1>4. node_n[0] = 0 /\ NotStarted(0)'
  BY <1>0, <1>1, <1>3 DEF Out, NotStarted, Released
<1>5. ASSUME NEW u \in Workers
      PROVE  Out(u)' /\ NotStarted(u)' /\ ~Spinning(u)' /\ ~Waiting(u)' /\ u \in Threads
             /\ \A k, m : ~After(u, k, m)'
  <2>1. u \in Threads /\ u # 0
    BY <1>0, TeamFacts DEF Workers, Threads
  <2>2. Out(u)'
    BY <1>1, <1>3, <2>1 DEF Out, Released
  <2>3. last_graph'[u] # n_graph'
    <3>1. last_graph[u].count <= n_graph.count /\ last_graph[u].count \in Nat /\ n_graph.count \in Nat
      BY <1>0, <2>1, PoolAssumption DEF IInv, Resting, PoolTypeOK
    <3>2. last_graph'[u].count # n_graph'.count
      BY <1>1, <3>1
    <3> QED BY <3>2
  <2>4. ~Spinning(u)' /\ ~Waiting(u)' /\ \A k, m : ~After(u, k, m)'
    <3>1. /\ ~(pc'[u] \in {"loop", "compute", "chunks", "take", "computed", "barrier", "add", "reset", "release"})
          /\ ~Spinning(u)'
      BY <2>2 DEF Out, Inside, Released, Spinning
    <3>2. ~Waiting(u)'
      BY <3>1 DEF Waiting
    <3> QED BY <3>1, <3>2 DEF After
  <2> QED BY <2>1, <2>2, <2>3, <2>4 DEF NotStarted
<1>6. ~Spinning(0)' /\ ~Waiting(0)' /\ \A k, m : ~After(0, k, m)'
  <2>1. ~Spinning(0)' /\ ~Waiting(0)'
    BY <1>1 DEF Spinning, Waiting
  <2> QED BY <1>1, <2>1 DEF After
<1>7. nth' \in 1..PoolSize /\ 0 \in Team' /\ Team' \subseteq Threads
  <2>1. nth' = Available(n) /\ PoolSize \in Nat \ {0}
    BY <1>0, <1>1, TeamFacts DEF nth
  <2>2. Available(n) \in 1..PoolSize
    BY <2>1 DEF Available
  <2> QED BY <2>1, <2>2 DEF Team, Threads
<1>8. NNodes \in Nat \ {0} /\ Kind(0) # "fused"
  BY <1>0, <1>2, GraphFacts
<1>9. PICK e \in 0..NNodes :
         /\ OnlyNops(0, e)
         /\ e = NNodes \/ abort = e \/ Kind(e) # "nop"
  BY <1>0, <1>2, <1>8, FirstStop
<1>10. e = NNodes \/ e \in NodeSet
  BY <1>0, <1>2, <1>8, <1>9, StopKind
<1>11. PICK kind \in {"node", "exit"} : kind = IF e = NNodes THEN "exit" ELSE "node"
  OBVIOUS
<1>12. /\ NodeSet' = NodeSet /\ NNodes' = NNodes /\ \A k : Kind(k)' = Kind(k)
       /\ Threads' = Threads /\ OnlyNops(0, e)'
  BY <1>1, <1>9 DEF NodeSet, NNodes, Kind, Threads, OnlyNops
<1>13. \A u \in Team' : Before(u, kind, e)' /\ ~After(u, kind, e)' /\ ~Waiting(u)' /\ ~Spinning(u)'
  <2>1. \A u \in Team' : NotStarted(u)'
    BY <1>0, <1>4, <1>5, <1>7
  <2> QED BY <1>0, <1>5, <1>6, <1>7, <1>11, <1>12, <2>1 DEF Before
<1>14. InSegment(kind, e)'
  <2>1. \A u \in Threads \ Team' : Out(u)'
    BY <1>0, <1>5, <1>7
  <2> QED BY <1>1, <1>2, <1>7, <1>11, <1>12, <1>13, <2>1 DEF InSegment
<1>15. StopsAt(kind, e)'
  <2>1. kind = "node" => e \in NodeSet
    BY <1>10, <1>11
  <2>2. kind = "exit" => e = NNodes /\ e <= NNodes
    BY <1>8, <1>9, <1>11
  <2> QED BY <1>1, <1>2, <1>11, <1>12, <2>1, <2>2 DEF StopsAt
<1>16. SharesDone(kind, e)'
  <2>1. \A k \in NodeSet : ~(k < e)
    BY <1>8, <1>9 DEF OnlyNops, NodeSet
  <2> QED BY <1>1, <1>2, <1>11, <1>12, <1>13, <2>1 DEF SharesDone
<1>17. BarrierCounts(kind)'
  <2>1. {u \in Team' : Spinning(u)'} = {}
    BY <1>13
  <2>2. Cardinality({u \in Team' : Spinning(u)'}) = 0
    BY <2>1, FS_EmptySet
  <2>3. \A u \in Team' : pc'[u] \notin {"reset", "release"}
    BY <1>13 DEF Waiting
  <2> QED BY <1>1, <1>3, <1>11, <2>2, <2>3 DEF BarrierCounts
<1>18. ChunksShared(kind, e)'
  BY <1>7, <1>11, <1>13 DEF ChunksShared
<1>19. Segment(kind, e)' /\ kind \in SegKinds /\ e \in Nat
  BY <1>8, <1>11, <1>14, <1>15, <1>16, <1>17, <1>18 DEF Segment, SegKinds
<1> QED BY <1>19
-----------------------------------------------------------------------------
(* The other parts of the invariant.                                       *)

\* No thread is ahead of the generation of the barrier.
LEMMA PassedReadStep ==
    ASSUME IInv, NEW t \in Threads, Participates(t)
    PROVE  PassedRead'
<1>0. /\ PoolTypeOK /\ PassedRead /\ n_barrier_passed \in Nat /\ n_passed \in [Threads -> Nat]
      /\ pc \in [Threads -> Inside \cup Rests] /\ cont \in [Threads -> {"loop", "chunks", "return"}]
      /\ Threads' = Threads
  BY DEF IInv, PoolTypeOK, Rests, Threads
<1>1. \A u \in Threads \ {t} : Same(u)
  BY <1>0, MovesAlone
<1>2. ASSUME Leave(t)
      PROVE  n_passed'[t] = 0 /\ pc'[t] \notin {"add", "reset", "release"}
  BY <1>0, <1>2 DEF Leave, Goto
<1>3. CASE LastThread(t) /\ pc[t] # "reset"
  <2>1. pc[t] = "release" /\ n_barrier_passed' = n_barrier_passed + 1 /\ Leave(t)
    BY <1>3 DEF LastThread
  <2>2. PICK kind \in SegKinds, e \in Nat : Segment(kind, e)
    BY DEF IInv
  <2>3. kind # "over" /\ t \in Team /\ \A u \in Team \ {t} : Spinning(u)
    BY <2>1, <2>2, LastAlone
  <2>4. ASSUME NEW u \in Threads \ {t} PROVE pc[u] \notin {"add", "reset", "release"}
    <3>1. CASE u \in Team
      BY <2>3, <3>1 DEF Spinning
    <3>2. CASE u \notin Team
      <4>1. Out(u)
        BY <2>2, <2>3, <3>2 DEF Segment, InSegment
      <4> QED BY <4>1, OutNowhere DEF Inside
    <3> QED BY <3>1, <3>2
  <2> QED BY <1>0, <1>1, <1>2, <2>1, <2>4 DEF PassedRead, Same
<1>4. CASE EnterBarrier(t) /\ nth # 1
  <2>1. n_passed'[t] = n_barrier_passed /\ n_barrier_passed' = n_barrier_passed
    BY <1>0, <1>4 DEF EnterBarrier
  <2> QED BY <1>0, <1>1, <2>1 DEF PassedRead, Same
<1>5. CASE (EnterBarrier(t) /\ nth = 1) \/ Spin(t)
  <2>1. Leave(t) /\ n_barrier_passed' = n_barrier_passed
    BY <1>5 DEF EnterBarrier, Spin
  <2> QED BY <1>0, <1>1, <1>2, <2>1 DEF PassedRead, Same
<1>6. CASE Add(t) \/ (LastThread(t) /\ pc[t] = "reset")
  <2>1. /\ n_passed' = n_passed /\ n_barrier_passed' = n_barrier_passed
        /\ pc[t] \in {"add", "reset"}
    BY <1>6 DEF Add, LastThread
  <2> QED BY <1>0, <1>1, <2>1 DEF PassedRead, Same
<1>7. CASE \/ NextNode(t) \/ ComputeShare(t) \/ PrepareChunks(t) \/ ComputeChunk(t) \/ TakeChunk(t)
           \/ NoMoreChunks(t) \/ AfterNode(t)
  <2>1. n_passed' = n_passed /\ n_barrier_passed' = n_barrier_passed
    BY <1>7 DEF NextNode, ComputeShare, PrepareChunks, ComputeChunk, TakeChunk, NoMoreChunks,
                AfterNode, barrier
  <2>2. pc'[t] \notin {"add", "reset", "release"}
    BY <1>0, <1>7 DEF NextNode, ComputeShare, PrepareChunks, ComputeChunk, TakeChunk, NoMoreChunks,
                FinishProduct, AfterNode, Goto
  <2> QED BY <1>0, <1>1, <2>1, <2>2 DEF PassedRead, Same
<1> QED BY <1>3, <1>4, <1>5, <1>6, <1>7 DEF Participates

\* A thread that changes the shares or the chunks is in the middle of a graph.
LEMMA RestingStep ==
    ASSUME IInv, NEW t \in Threads, Participates(t)
    PROVE  Resting'
<1>0. /\ PoolTypeOK /\ Resting /\ 0 \in Threads /\ \A u \in Workers : u \in Threads /\ u # 0
      /\ pc \in [Threads -> Inside \cup Rests] /\ cont \in [Threads -> {"loop", "chunks", "return"}]
  <2>1. PoolTypeOK /\ Resting
    BY DEF IInv
  <2> QED BY <2>1, TeamFacts, SMTT(30) DEF PoolTypeOK, Rests, Workers, Threads
<1>1. UNCHANGED <<pool, last_graph>> /\ \A u \in Threads \ {t} : Same(u)
  BY <1>0, MovesAlone
<1>2. pc[t] \in Inside
  BY DEF Participates, NextNode, ComputeShare, PrepareChunks, ComputeChunk, TakeChunk, NoMoreChunks,
         AfterNode, EnterBarrier, Add, LastThread, Spin, Inside
<1>3. pc'[t] \in Inside \/ pc'[t] = (IF t = 0 THEN "ret" ELSE "top")
  <2>1. ASSUME Leave(t)
        PROVE  pc'[t] \in Inside \/ pc'[t] = (IF t = 0 THEN "ret" ELSE "top")
    BY <1>0, <2>1 DEF Leave, Goto, Inside
  <2>2. CASE EnterBarrier(t) \/ LastThread(t) \/ Spin(t) \/ Add(t)
    BY <1>0, <2>1, <2>2 DEF EnterBarrier, LastThread, Spin, Add, Goto, Inside
  <2>3. CASE \/ NextNode(t) \/ ComputeShare(t) \/ PrepareChunks(t) \/ ComputeChunk(t) \/ TakeChunk(t)
             \/ NoMoreChunks(t) \/ AfterNode(t)
    BY <1>0, <1>2, <2>3 DEF NextNode, ComputeShare, PrepareChunks, ComputeChunk, TakeChunk,
                NoMoreChunks, FinishProduct, AfterNode, Goto, Inside
  <2> QED BY <2>2, <2>3 DEF Participates
<1>4. ASSUME pc[0] \in {"idle", "kick", "join", "freed"}
      PROVE  UNCHANGED <<abort, done>> /\ t # 0
  <2>1. t # 0
    BY <1>2, <1>4 DEF Inside
  <2>2. PICK kind \in SegKinds, e \in Nat : Segment(kind, e)
    BY DEF IInv
  <2>3. Out(t)
    BY <1>4, <2>2, CallerOver DEF CallerRest
  <2>4. pc[t] = "spin"
    BY <1>2, <2>3, OutNowhere
  <2>5. Spin(t)
    BY <2>4 DEF Participates, NextNode, ComputeShare, PrepareChunks, ComputeChunk, TakeChunk,
                NoMoreChunks, AfterNode, EnterBarrier, Add, LastThread
  <2> QED BY <2>1, <2>5 DEF Spin, Leave
<1>5. cgraph' = cgraph /\ n_graph' = n_graph /\ last_graph' = last_graph /\ nth' = nth
  BY <1>1 DEF pool, nth
<1>6. t = 0 => pc'[0] \notin {"idle", "kick", "join", "freed"}
  BY <1>3 DEF Inside
<1>7. t # 0 => pc'[0] = pc[0]
  BY <1>0, <1>1 DEF Same
<1>8. /\ pc'[0] \in Inside \cup {"wake"} \cup CallerRest
      /\ \A u \in Workers : pc'[u] \in Inside \cup WorkerRest
  <2>1. ASSUME NEW u \in Workers PROVE pc'[u] \in Inside \cup WorkerRest
    <3>1. CASE u = t
      BY <1>0, <1>3, <3>1 DEF WorkerRest
    <3>2. CASE u # t
      BY <1>0, <1>1, <3>2 DEF Same, Resting
    <3> QED BY <3>1, <3>2
  <2>2. pc'[0] \in Inside \cup {"wake"} \cup CallerRest
    BY <1>0, <1>3, <1>7 DEF Resting, CallerRest
  <2> QED BY <2>1, <2>2
<1>9. pc'[0] \in Inside \cup {"wake", "ret"} => nth' >= 1 /\ cgraph' \in GraphSet
  BY <1>0, <1>2, <1>5, <1>7 DEF Resting
<1> QED BY <1>0, <1>4, <1>5, <1>6, <1>7, <1>8, <1>9 DEF Resting

\* The last thread that finishes its share of a product leaves no chunk behind.
LEMMA LastProductStep ==
    ASSUME IInv, NEW t \in Threads, Participates(t)
    PROVE  LastProductDone'
<1>0. PoolTypeOK /\ LastProductDone
  BY DEF IInv
<1>1. UNCHANGED <<pool, last_graph>> /\ \A u \in Threads \ {t} : Same(u)
  BY <1>0, MovesAlone
<1>2. /\ nth' = nth /\ Team' = Team /\ NNodes' = NNodes /\ NChunks' = NChunks
      /\ \A k : Kind(k)' = Kind(k)
  BY <1>1 DEF pool, nth, Team, NNodes, NChunks, Kind
<1>3. ASSUME UNCHANGED <<done, chunksDone>>
      PROVE  LastProductDone'
  BY <1>0, <1>2, <1>3 DEF LastProductDone
<1>4. CASE \/ NextNode(t) \/ TakeChunk(t) \/ AfterNode(t) \/ EnterBarrier(t) \/ Add(t)
           \/ LastThread(t) \/ Spin(t)
  BY <1>3, <1>4 DEF NextNode, TakeChunk, AfterNode, EnterBarrier, Add, LastThread, Spin, Leave,
                    Waits, chunks
<1>5. CASE \/ ComputeShare(t) \/ PrepareChunks(t) \/ ComputeChunk(t) \/ NoMoreChunks(t)
  <2>1. PICK kind \in SegKinds, e \in Nat : Segment(kind, e)
    BY DEF IInv
  <2>2. pc[t] \in {"compute", "chunks"}
    BY <1>5 DEF ComputeShare, PrepareChunks, ComputeChunk, NoMoreChunks
  <2>3. /\ kind \in {"node", "chunks"} /\ t \in Team /\ e \in NodeSet /\ ~After(t, kind, e)
        /\ pc[t] = "chunks" => kind = "chunks" /\ Kind(e) = "chunk"
        /\ node_n[t] = e /\ NNodes \in Nat /\ Team \subseteq Threads
    BY <1>0, <2>1, <2>2, AtWork, TeamFacts
  <2>4. e \in 0..(NNodes - 1)
    BY <2>3 DEF NodeSet
  <2>5. SharesDone(kind, e)
    BY <2>1 DEF Segment
  <2>6. \A k \in NodeSet : <<k, t>> \in done => k < e
    BY <2>3, <2>5 DEF SharesDone
  <2>7. done' \subseteq done \cup {<<e, t>>}
    BY <1>5, <2>3 DEF ComputeShare, PrepareChunks, ComputeChunk, NoMoreChunks, FinishProduct
  <2> SUFFICES ASSUME NEW k \in 0..(NNodes - 1), Kind(k) = "chunk",
                      \A u \in Team : <<k, u>> \in done',
                      \A j \in (k + 1)..(NNodes - 1) : Kind(j) # "chunk"
               PROVE  chunksDone' = 0..(NChunks - 1)
    BY <1>2 DEF LastProductDone
  <2>8. k \in NodeSet /\ (k < e \/ k = e)
    <3>1. k \in NodeSet
      BY DEF NodeSet
    <3> QED BY <2>3, <2>6, <2>7, <3>1
  <2>9. CASE k < e
    <3>1. e \in (k + 1)..(NNodes - 1) /\ Kind(e) # "chunk"
      BY <2>3, <2>4, <2>9
    <3>2. ComputeShare(t)
      BY <1>5, <2>3, <3>1 DEF PrepareChunks, ComputeChunk, NoMoreChunks
    <3>3. chunksDone' = chunksDone
      BY <3>2 DEF ComputeShare, chunks
    <3>4. \A u \in Team : <<k, u>> \in done
      BY <2>4, <2>7, <2>9
    <3>5. nth >= 1
      BY <1>0, <2>3, TeamFacts DEF Team
    <3> QED BY <1>0, <3>3, <3>4, <3>5 DEF LastProductDone
  <2>10. CASE k = e
    <3>1. <<e, t>> \notin done
      BY <2>3, <2>6, <2>4
    <3>2. <<e, t>> \in done' /\ Kind(e) = "chunk"
      BY <2>3, <2>10
    <3>3. ComputeChunk(t) \/ NoMoreChunks(t)
      BY <1>5, <2>3, <3>1, <3>2 DEF ComputeShare, PrepareChunks
    <3>4. kind = "chunks"
      BY <2>3, <3>3 DEF ComputeChunk, NoMoreChunks
    <3>5. Segment(kind, e)'
      BY <2>1, <3>3, ChunkStep
    <3>6. \A u \in Team : After(u, kind, e)'
      <4>1. NodeSet' = NodeSet
        BY <1>2 DEF NodeSet
      <4>2. \A k2 \in NodeSet, u \in Team :
               <<k2, u>> \in done' <=> (k2 < e \/ (k2 = e /\ After(u, kind, e)'))
        BY <1>2, <3>4, <3>5, <4>1 DEF Segment, SharesDone
      <4>3. ~(e < e)
        BY <2>4
      <4> QED BY <2>3, <2>10, <4>2, <4>3
    <3>7. \A u \in Team : ~At(u, "chunks")'
      <4>1. \A u \in Team : After(u, kind, e)' => pc'[u] \notin {"chunks"} /\ ~Released(u)'
        BY DEF After, Waiting, Spinning, Released
      <4> QED BY <3>6, <4>1 DEF At
    <3>8. ChunksShared(kind, e)'
      BY <3>5 DEF Segment
    <3>9. /\ \A c \in chunksDone' : c \in 0..(NChunks - 1)
          /\ \A c \in 0..(NChunks - 1) : c < current_chunk' => c \in chunksDone'
          /\ current_chunk' >= NChunks
      BY <1>2, <2>3, <3>4, <3>6, <3>7, <3>8 DEF ChunksShared
    <3>10. NChunks \in Nat /\ current_chunk' \in Nat
      <4>1. pc[t] # "add"
        BY <2>2
      <4>2. PoolTypeOK'
        BY <1>0, <4>1, TypeInside
      <4> QED BY <1>0, <4>2, TeamFacts DEF PoolTypeOK
    <3>11. \A c \in 0..(NChunks - 1) : c < current_chunk'
      BY <3>9, <3>10
    <3> QED BY <3>9, <3>11
  <2> QED BY <2>8, <2>9, <2>10
<1> QED BY <1>4, <1>5 DEF Participates

\* What the other steps keep.
LEMMA RestOfInvariant ==
    ASSUME IInv,
           \/ \E g \in GraphSet : GraphCompute(g)
           \/ PauseOrResume \/ Free \/ CallerStep \/ Freed
           \/ \E t \in Workers : WorkerStep(t) \/ SpuriousWakeup(t)
    PROVE  Resting' /\ PassedRead' /\ LastProductDone'
<1>0. /\ PoolTypeOK /\ Resting /\ PassedRead /\ LastProductDone
      /\ 0 \in Threads /\ \A u \in Workers : u \in Threads /\ u # 0
      /\ \A u \in Threads : u = 0 \/ u \in Workers
      /\ pc \in [Threads -> Inside \cup Rests]
      /\ last_graph \in [Threads -> [count : 0..MaxGraphs, n : 0..PoolSize]]
      /\ n_graph \in [count : 0..MaxGraphs, n : 0..PoolSize]
      /\ MaxGraphs \in Nat
  <2>1. PoolTypeOK /\ Resting /\ PassedRead /\ LastProductDone
    BY DEF IInv
  <2>2. /\ 0 \in Threads /\ \A u \in Workers : u \in Threads /\ u # 0
        /\ \A u \in Threads : u = 0 \/ u \in Workers
    BY <2>1, TeamFacts DEF Workers, Threads
  <2>3. MaxGraphs \in Nat
    BY PoolAssumption
  <2> QED BY <2>1, <2>2, <2>3 DEF PoolTypeOK, Rests
<1>b. ASSUME nth' \in Nat, done' = {}
      PROVE  LastProductDone'
  <2>1. Team' = 0..(nth' - 1)
    BY DEF Team
  <2>2. nth' >= 1 => 0 \in Team'
    BY <1>b, <2>1 DEF nth
  <2> QED BY <1>b, <2>2 DEF LastProductDone
<1>c. nth \in Nat
  BY <1>0, TeamFacts
<1>a. CASE Freed
  BY <1>0, <1>a DEF Freed, vars, Resting, PassedRead, LastProductDone, nth, NNodes, Kind, NChunks, Team
<1>1. ASSUME NEW g \in GraphSet, GraphCompute(g)
      PROVE  Resting' /\ PassedRead' /\ LastProductDone'
  <2>1. /\ pc[0] = "idle" /\ pc'[0] = "kick" /\ \A u \in Workers : pc'[u] = pc[u]
        /\ cgraph' = g /\ abort' = -1 /\ n_graph.count < MaxGraphs
        /\ UNCHANGED <<n_graph, done, last_graph, n_passed, n_barrier_passed>>
    BY <1>0, <1>1 DEF GraphCompute, Goto, barrier
  <2>2. done' = {}
    BY <1>0, <2>1 DEF Resting
  <2>3. LastProductDone'
    BY <1>b, <1>c, <2>1, <2>2 DEF nth
  <2>4. Resting'
    BY <1>0, <2>1, <2>2 DEF Resting, CallerRest, Inside
  <2>5. PassedRead'
    BY <1>0, <2>1 DEF PassedRead
  <2> QED BY <2>3, <2>4, <2>5
<1>2. ASSUME NEW n \in 1..(PoolSize + 1), Kick(n)
      PROVE  Resting' /\ PassedRead' /\ LastProductDone'
  <2>1. /\ pc[0] = "kick" /\ pc'[0] = "wake" /\ \A u \in Workers : pc'[u] = pc[u]
        /\ n_graph' = [count |-> n_graph.count + 1, n |-> Available(n)]
        /\ UNCHANGED <<done, last_graph, n_passed, n_barrier_passed, cgraph>>
    BY <1>0, <1>2 DEF Kick, Goto, barrier
  <2>2. done' = {}
    BY <1>0, <2>1 DEF Resting
  <2>4. nth' >= 1 /\ nth' \in Nat
    <3>1. PoolSize \in Nat \ {0}
      BY PoolAssumption
    <3> QED BY <2>1, <3>1 DEF nth, Available
  <2>3. LastProductDone'
    BY <1>b, <2>2, <2>4
  <2>5. \A u \in Workers : last_graph'[u].count <= n_graph'.count
    <3>1. \A u \in Workers : last_graph[u].count <= n_graph.count /\ last_graph[u].count \in Nat
      BY <1>0 DEF Resting
    <3> QED BY <1>0, <2>1, <3>1
  <2>6. Resting'
    BY <1>0, <2>1, <2>4, <2>5 DEF Resting
  <2>7. PassedRead'
    BY <1>0, <2>1 DEF PassedRead
  <2> QED BY <2>3, <2>6, <2>7
<1>3. CASE PauseOrResume \/ Free \/ KickWake
  <2>1. /\ UNCHANGED <<cgraph, n_graph, done, chunksDone, abort, n_passed, n_barrier_passed, last_graph>>
        /\ UNCHANGED <<cont, node_n>>
    BY <1>3 DEF PauseOrResume, Free, KickWake, barrier, chunks
  <2>2. /\ (pc[0] = "idle" /\ pc'[0] \in {"idle", "join"}) \/ (pc[0] = "wake" /\ pc'[0] = "loop")
        /\ \A u \in Workers : pc'[u] = pc[u] \/ (pc[u] \in WorkerRest /\ pc'[u] \in WorkerRest)
    <3>1. \E l \in {"idle", "join", "loop"} :
             /\ pc' = Woken(l)
             /\ pc[0] = IF l = "loop" THEN "wake" ELSE "idle"
      BY <1>3 DEF PauseOrResume, Free, KickWake
    <3>2. PICK l \in {"idle", "join", "loop"} :
             /\ pc' = Woken(l)
             /\ pc[0] = IF l = "loop" THEN "wake" ELSE "idle"
      BY <3>1
    <3> QED BY <1>0, <2>1, <3>2, Wakes DEF Same
  <2>3. LastProductDone'
    BY <1>0, <2>1 DEF LastProductDone, nth, NNodes, Kind, NChunks, Team
  <2>4. Resting'
    BY <1>0, <2>1, <2>2 DEF Resting, CallerRest, Inside, nth
  <2>5. PassedRead'
    BY <1>0, <2>1, <2>2 DEF PassedRead, WorkerRest
  <2> QED BY <2>3, <2>4, <2>5
<1>4. CASE GraphReturn \/ Join
  <2>1. /\ UNCHANGED <<cgraph, n_graph, chunksDone, abort, n_passed, n_barrier_passed, last_graph>>
        /\ pc[0] \in {"ret", "join"} /\ pc'[0] \in {"idle", "freed"}
        /\ \A u \in Workers : pc'[u] = pc[u]
        /\ done' \in {done, {}} /\ (pc[0] = "ret" => done' = {})
    BY <1>0, <1>4 DEF GraphReturn, Join, pool, barrier, chunks, Goto
  <2>2. done' = {}
    BY <1>0, <2>1 DEF Resting
  <2>3. LastProductDone'
    BY <1>b, <1>c, <2>1, <2>2 DEF nth
  <2>4. Resting'
    BY <1>0, <2>1, <2>2 DEF Resting, CallerRest, Inside
  <2>5. PassedRead'
    BY <1>0, <2>1 DEF PassedRead
  <2> QED BY <2>3, <2>4, <2>5
<1>5. ASSUME NEW t \in Workers, WorkerStep(t) \/ SpuriousWakeup(t)
      PROVE  Resting' /\ PassedRead' /\ LastProductDone'
  <2>1. PICK kind \in SegKinds, e \in Nat : Segment(kind, e)
    BY DEF IInv
  <2>2. /\ pc[t] \in WorkerRest /\ pc'[t] \in WorkerRest \cup {"loop"}
        /\ last_graph'[t] \in {last_graph[t], n_graph}
        /\ \A u \in Threads \ {t} : Same(u)
        /\ Idles
    BY <1>5, <2>1, WorkerRestStep
  <2>3. UNCHANGED <<cgraph, n_graph, done, chunksDone, abort, n_passed, n_barrier_passed>>
    BY <2>2 DEF Idles, pool, barrier, chunks
  <2>4. LastProductDone'
    BY <1>0, <2>3 DEF LastProductDone, nth, NNodes, Kind, NChunks, Team
  <2>5. pc'[0] = pc[0] /\ pc'[t] \in Inside \cup WorkerRest
    BY <1>0, <2>2 DEF Same, Inside
  <2>6. \A u \in Workers : last_graph'[u].count <= n_graph.count
    BY <1>0, <2>2 DEF Resting, Same
  <2>7. Resting'
    BY <1>0, <2>2, <2>3, <2>5, <2>6 DEF Resting, Same, nth
  <2>8. PassedRead'
    BY <1>0, <2>2, <2>3 DEF PassedRead, Same, WorkerRest
  <2> QED BY <2>4, <2>7, <2>8
<1> QED BY <1>1, <1>2, <1>3, <1>4, <1>5, <1>a DEF CallerStep
-----------------------------------------------------------------------------
(* The invariant and what follows from it.                                 *)

\* A new pool satisfies the invariant.
LEMMA InitIInv == Init => IInv
<1> SUFFICES ASSUME Init PROVE IInv
  OBVIOUS
<1>1. /\ PoolSize \in Nat \ {0} /\ BaseChunks \in Nat \ {0} /\ ChunkFactor \in Nat \ {0}
      /\ MaxGraphs \in Nat /\ MaxPauses \in Nat
  BY PoolAssumption
<1>2. 0 \in Threads /\ \A u \in Workers : u \in Threads /\ u # 0
  BY <1>1 DEF Threads, Workers
<1>3. pc[0] = "idle" /\ \A u \in Workers : pc[u] = "top"
  BY <1>2 DEF Init
<1>4. PoolTypeOK
  <2>1. n_graph \in [count : 0..MaxGraphs, n : 0..PoolSize]
    BY <1>1 DEF Init
  <2>2. last_graph \in [Threads -> [count : 0..MaxGraphs, n : 0..PoolSize]]
    BY <2>1 DEF Init
  <2>3. pc \in [Threads -> Inside \cup Rests]
    BY DEF Init, Rests
  <2>4. /\ n_barrier \in 0..PoolSize /\ n_barrier_passed \in Nat /\ current_chunk \in Nat
        /\ abort \in Int /\ pauses \in 0..MaxPauses
    BY <1>1 DEF Init
  <2>5. /\ node_n \in [Threads -> Nat] /\ n_passed \in [Threads -> Nat] /\ cur \in [Threads -> Nat]
        /\ cont \in [Threads -> {"loop", "chunks", "return"}]
    BY DEF Init
  <2> QED BY <2>1, <2>2, <2>3, <2>4, <2>5 DEF Init, PoolTypeOK, Rests
<1>5. NNodes = 0 /\ nth = 0 /\ Team = {} /\ NodeSet = {}
  BY DEF Init, NNodes, nth, Team, NodeSet
<1>6. Resting
  <2>1. \A u \in Workers : last_graph[u].count <= n_graph.count
    BY <1>2 DEF Init
  <2> QED BY <1>2, <1>3, <2>1 DEF Init, Resting, CallerRest, WorkerRest, Inside
<1>7. PassedRead
  BY <1>2 DEF Init, PassedRead
<1>8. LastProductDone
  BY <1>5 DEF LastProductDone
<1>9. Segment("over", 0)
  <2>1. InSegment("over", 0)
    BY <1>2, <1>5 DEF Init, InSegment, Out, Inside
  <2>2. SharesDone("over", 0) /\ BarrierCounts("over")
    BY <1>3 DEF Init, SharesDone, BarrierCounts
  <2>3. StopsAt("over", 0) /\ ChunksShared("over", 0)
    BY DEF StopsAt, ChunksShared
  <2> QED BY <2>1, <2>2, <2>3 DEF Segment
<1> QED BY <1>4, <1>6, <1>7, <1>8, <1>9 DEF IInv, SegKinds

\* A step of a thread in a graph leads to a segment again.
LEMMA ParticipantStep ==
    ASSUME IInv, NEW t \in Threads, Participates(t)
    PROVE  IInv'
<1>1. PICK kind \in SegKinds, e \in Nat : Segment(kind, e)
  BY DEF IInv
<1>2. \E k2 \in SegKinds, e2 \in Nat : Segment(k2, e2)'
  <2>1. CASE (EnterBarrier(t) /\ nth = 1) \/ (LastThread(t) /\ pc[t] # "reset")
    BY <2>1, BarrierOpens, OpenStep
  <2>2. CASE ~((EnterBarrier(t) /\ nth = 1) \/ (LastThread(t) /\ pc[t] # "reset"))
    <3>1. Segment(kind, e)'
      BY <1>1, <2>2, NextNodeStep, ComputeShareStep, PrepareChunksStep, ChunkStep, AfterNodeStep,
         EnterStep, AddStep, ResetStep, SpinStep, ReturnStep DEF Participates
    <3> QED BY <3>1
  <2> QED BY <2>1, <2>2
<1>3. PoolTypeOK'
  <2>1. pc[t] = "add" => n_barrier < PoolSize
    <3>1. pc[t] = "add" => n_barrier < nth /\ nth \in 1..PoolSize
      BY <1>1, Arrives
    <3> QED BY <3>1, PoolAssumption DEF IInv, PoolTypeOK
  <2> QED BY <2>1, TypeInside DEF IInv
<1> QED BY <1>2, <1>3, PassedReadStep, RestingStep, LastProductStep DEF IInv

\* The invariant is inductive.
LEMMA IInvStep == IInv /\ [Next]_vars => IInv'
<1> SUFFICES ASSUME IInv, [Next]_vars PROVE IInv'
  OBVIOUS
<1>1. PICK kind \in SegKinds, e \in Nat : Segment(kind, e)
  BY DEF IInv
<1>2. CASE UNCHANGED vars
  <2>1. \A u \in Threads : Same(u)
    BY <1>2 DEF vars, Same
  <2>2. UNCHANGED Shared /\ UNCHANGED chunks /\ UNCHANGED <<n_barrier, abort, done>> /\ pc' = pc
    BY <1>2 DEF vars, Shared, chunks
  <2>3. \A u \in Threads : Alike(u, kind, e)
    BY <2>1, <2>2, RestAlike
  <2>4. Segment(kind, e)'
    BY <1>1, <2>2, <2>3, QuietStep
  <2>5. PoolTypeOK' /\ Resting' /\ PassedRead' /\ LastProductDone'
    BY <1>2, ZenonT(40) DEF vars, IInv, PoolTypeOK, Resting, PassedRead, LastProductDone, nth, NNodes, Kind,
                NChunks, Team
  <2> QED BY <2>4, <2>5 DEF IInv
<1>3. CASE \E t \in Threads : Participates(t)
  BY <1>3, ParticipantStep
<1>4. CASE \/ \E g \in GraphSet : GraphCompute(g)
           \/ PauseOrResume \/ Free \/ CallerStep \/ (Freed /\ ~UNCHANGED vars)
           \/ \E t \in Workers : WorkerStep(t) \/ SpuriousWakeup(t)
  <2>1. PoolTypeOK' /\ Resting' /\ PassedRead' /\ LastProductDone'
    BY <1>4, TypeBetween, RestOfInvariant DEF IInv
  <2>2. \E k2 \in SegKinds, e2 \in Nat : Segment(k2, e2)'
    <3>1. CASE \E n \in 1..(PoolSize + 1) : Kick(n)
      BY <3>1, KickStep
    <3>2. CASE ~\E n \in 1..(PoolSize + 1) : Kick(n)
      <4>1. ~(Freed /\ ~UNCHANGED vars)
        BY DEF Freed
      <4>2. Segment(kind, e)'
        BY <1>1, <1>4, <3>2, <4>1, GraphComputeStep, CallerQuiet, KickWakeStep, GraphReturnStep,
           WorkerRestStep DEF CallerStep
      <4> QED BY <4>2
    <3> QED BY <3>1, <3>2
  <2> QED BY <2>1, <2>2 DEF IInv
<1> QED BY <1>2, <1>3, <1>4 DEF Next

\* At every moment all threads of the team are in the same segment between two
\* barriers of ggml_graph_compute_thread, and the shares and chunks that are
\* done are those that segment says.
THEOREM SegmentInvariant == Spec => []IInv
<1> QED BY InitIInv, IInvStep, PTL DEF Spec

\* The type invariant of the pool: in particular the counter of the barrier never
\* exceeds the number of threads (ggml_barrier).
THEOREM PoolTypeCorrect == Spec => []PoolTypeOK
<1>1. IInv => PoolTypeOK
  BY DEF IInv
<1> QED BY <1>1, SegmentInvariant, PTL

\* While ggml_graph_compute resets the graph, the abort flag and the chunk counter
\* without the mutex, no worker uses them.
THEOREM ParametersArePrivate == Spec => []ParametersPrivate
<1>1. IInv => ParametersPrivate
  <2> SUFFICES ASSUME IInv, pc[0] \in {"idle", "kick"}, NEW t \in Workers
               PROVE  ~UsesPool(t)
    BY DEF ParametersPrivate
  <2>1. PICK kind \in SegKinds, e \in Nat : Segment(kind, e)
    BY DEF IInv
  <2>2. Out(t)
    <3>1. t \in Threads
      BY PoolAssumption DEF Workers, Threads
    <3> QED BY <2>1, <3>1, CallerOver DEF CallerRest
  <2> QED BY <2>2 DEF Out, UsesPool, Released
<1> QED BY <1>1, SegmentInvariant, PTL

\* The chunks of a matrix product are computed once each, and all of them.
THEOREM ChunksComputedOnce == Spec => []ChunksOnce
<1>1. IInv => ChunksOnce
  <2> SUFFICES ASSUME IInv PROVE ChunksOnce
    OBVIOUS
  <2>0. PoolTypeOK /\ nth \in Nat /\ NChunks \in Nat /\ cur \in [Threads -> Nat]
    <3>1. PoolTypeOK
      BY DEF IInv
    <3> QED BY <3>1, TeamFacts, SMTT(30) DEF PoolTypeOK
  <2>1. PICK kind \in SegKinds, e \in Nat : Segment(kind, e)
    BY DEF IInv
  <2>2. ASSUME NEW t \in Threads, pc[t] = "chunks"
        PROVE  kind = "chunks" /\ t \in Team /\ At(t, "chunks") /\ cur[t] \notin chunksDone
    <3>1. kind = "chunks" /\ t \in Team
      BY <2>1, <2>2, AtWork
    <3>2. At(t, "chunks")
      BY <2>2 DEF At
    <3> QED BY <2>1, <3>1, <3>2 DEF Segment, ChunksShared
  <2>3. \A t, u \in Threads : (t # u /\ pc[t] = "chunks" /\ pc[u] = "chunks") => cur[t] # cur[u]
    BY <2>1, <2>2 DEF Segment, ChunksShared
  <2>4. pc[0] = "ret" => nth >= 1
    BY DEF IInv, Resting
  <2>5. \A k \in 0..(NNodes - 1) :
           (/\ pc[0] = "ret" /\ Kind(k) = "chunk" /\ \A t \in 0..(nth - 1) : <<k, t>> \in done
            /\ \A j \in (k + 1)..(NNodes - 1) : Kind(j) # "chunk")
           => chunksDone = 0..(NChunks - 1)
    BY <2>4 DEF IInv, LastProductDone, Team
  <2> QED BY <2>2, <2>3, <2>5 DEF ChunksOnce
<1> QED BY <1>1, SegmentInvariant, PTL
-----------------------------------------------------------------------------
(* The pool implements GraphExec.                                          *)

\* In the middle of a graph the caller is running it.
LEMMA InGraph ==
    ASSUME IInv, NEW kind \in SegKinds, NEW e \in Nat, Segment(kind, e), kind # "over"
    PROVE  Running
<1>1. pc[0] \notin CallerRest
  BY CallerOver
<1> QED BY <1>1 DEF IInv, Resting, Running

\* A step of a thread of the team does not end the graph for the caller.
LEMMA StaysRunning ==
    ASSUME IInv, NEW t \in Threads, Participates(t)
    PROVE  Running' <=> Running
<1>1. PoolTypeOK /\ IInv' /\ 0 \in Threads
  BY ParticipantStep, TeamFacts DEF IInv
<1>2. CASE t # 0
  <2>1. pc'[0] = pc[0]
    BY <1>1, <1>2, MovesAlone DEF Same
  <2> QED BY <2>1 DEF Running
<1>3. CASE t = 0
  <2>1. pc[0] \in Inside
    BY <1>3 DEF Participates, NextNode, ComputeShare, PrepareChunks, ComputeChunk, TakeChunk,
           NoMoreChunks, AfterNode, EnterBarrier, Add, LastThread, Spin, Inside
  <2>2. pc'[0] \in Inside \cup {"ret"}
    <3>1. /\ pc \in [Threads -> Inside \cup Rests]
          /\ cont \in [Threads -> {"loop", "chunks", "return"}]
      BY <1>1 DEF PoolTypeOK, Rests
    <3>2. ASSUME Leave(t)
          PROVE  pc'[0] \in Inside \cup {"ret"}
      BY <1>1, <1>3, <3>1, <3>2 DEF Leave, Goto, Inside
    <3>3. CASE EnterBarrier(t) \/ LastThread(t) \/ Spin(t) \/ Add(t)
      BY <1>1, <1>3, <3>1, <3>2, <3>3 DEF EnterBarrier, LastThread, Spin, Add, Goto, Inside
    <3>4. CASE \/ NextNode(t) \/ ComputeShare(t) \/ PrepareChunks(t) \/ ComputeChunk(t)
               \/ TakeChunk(t) \/ NoMoreChunks(t) \/ AfterNode(t)
      BY <1>1, <1>3, <2>1, <3>1, <3>4 DEF NextNode, ComputeShare, PrepareChunks, ComputeChunk,
         TakeChunk, NoMoreChunks, FinishProduct, AfterNode, Goto, Inside
    <3> QED BY <3>3, <3>4 DEF Participates
  <2> QED BY <2>1, <2>2 DEF Running
<1> QED BY <1>2, <1>3

\* The nodes of the abstract graph.
LEMMA ExecNodes ==
    ASSUME IInv, Running
    PROVE  /\ Exec!Nodes(cgraph) = NodeSet
           /\ Exec!Computed = {k \in NodeSet : abort = -1 \/ k < abort}
           /\ \A k : Exec!Complete(k) <=> \A t \in Team : <<k, t>> \in done
<1>1. Exec!Nodes(cgraph) = NodeSet
  BY DEF Exec!Nodes, Exec!Kind, NodeSet, NNodes, Kind
<1>2. Exec!Computed = {k \in NodeSet : abort = -1 \/ k < abort}
  BY <1>1 DEF Exec!Computed
<1>3. ASSUME NEW k
      PROVE  Exec!Complete(k) <=> \A t \in Team : <<k, t>> \in done
  BY DEF Exec!Complete, Team, nth
<1> QED BY <1>1, <1>2, <1>3

\* A finished share is a step of the abstract graph.
LEMMA SharesAre ==
    ASSUME IInv, NEW kind \in SegKinds, NEW e \in Nat, Segment(kind, e),
           NEW t \in Threads, Participates(t), pc[t] \in {"compute", "chunks"},
           done' = done \cup {<<e, t>>}, abort' = abort
    PROVE  Exec!Next
<1>1. /\ kind # "over" /\ t \in Team /\ e \in NodeSet /\ ~After(t, kind, e) /\ EndOf(e) \in Nat
      /\ kind \in {"node", "chunks"} /\ PoolTypeOK
  BY AtWork DEF IInv
<1>2. Running /\ Running'
  BY <1>1, InGraph, StaysRunning
<1>3. cgraph' = cgraph /\ n_graph' = n_graph
  BY <1>1, MovesAlone DEF pool
<1>4. SharesDone(kind, e) /\ StopsAt(kind, e)
  BY DEF Segment
<1>5. abort = -1 \/ e < abort
  BY <1>1, <1>4 DEF StopsAt, EndOf
<1>6. e \in Exec!Computed /\ e \in Exec!Nodes(cgraph)
  BY <1>1, <1>2, <1>5, ExecNodes
<1>7. <<e, t>> \notin done
  <2>1. <<e, t>> \in done <=> (e < e \/ (e = e /\ After(t, kind, e)))
    BY <1>1, <1>4 DEF SharesDone
  <2>2. ~(e < e)
    OBVIOUS
  <2> QED BY <1>1, <2>1, <2>2
<1>8. \A j \in Exec!Nodes(cgraph) : j < e => Exec!Complete(j)
  BY <1>1, <1>2, <1>4, ExecNodes DEF SharesDone
<1>9. t < n_graph.n /\ t \in Exec!Threads
  <2>1. nth \in Nat
    BY <1>1, TeamFacts
  <2> QED BY <1>1, <2>1 DEF Team, nth, Threads, Exec!Threads
<1>10. Exec!Share(e, t)
  BY <1>2, <1>3, <1>6, <1>7, <1>8, <1>9 DEF Exec!Share
<1> QED BY <1>2, <1>6, <1>9, <1>10 DEF Exec!Next

\* The abort flag is set between the nodes.
LEMMA AbortIs ==
    ASSUME IInv, AfterNode(0), abort' # abort
    PROVE  Exec!Next
<1>0. PoolTypeOK /\ 0 \in Threads
  BY TeamFacts DEF IInv
<1>1. PICK kind \in SegKinds, e \in Nat : Segment(kind, e)
  BY DEF IInv
<1>2. pc[0] = "computed" /\ abort' = node_n[0] + 1 /\ done' = done /\ UNCHANGED <<cgraph, n_graph>>
  BY DEF AfterNode, AbortAfter, pool
<1>3. /\ kind \in {"node", "chunks"} /\ 0 \in Team /\ e \in NodeSet /\ node_n[0] = EndOf(e)
      /\ After(0, kind, e) /\ EndOf(e) \in Nat /\ EndOf(e) + 1 <= NNodes /\ abort = -1
      /\ NNodes \in Nat /\ e <= EndOf(e)
  BY <1>0, <1>1, <1>2, AtWork DEF EndOf
<1>4. Running /\ Running'
  BY <1>0, <1>1, <1>3, InGraph, StaysRunning DEF Participates
<1>5. SharesDone(kind, e)
  BY <1>1 DEF Segment
<1>6. <<e, 0>> \in done
  BY <1>3, <1>5 DEF SharesDone
<1>7. \A d \in done : d[1] <= e
  <2> SUFFICES ASSUME NEW d \in done PROVE d[1] <= e
    OBVIOUS
  <2>1. PICK k \in NodeSet, u \in Team : d = <<k, u>>
    BY <1>5 DEF SharesDone
  <2>2. k < e \/ k = e
    BY <1>3, <1>5, <2>1 DEF SharesDone
  <2> QED BY <2>1, <2>2 DEF NodeSet
<1>8. e \in Exec!Nodes(cgraph)
  BY <1>3, <1>4, ExecNodes
<1>9. EndOf(e) + 1 \in 1..Len(cgraph) /\ e < EndOf(e) + 1
  BY <1>3 DEF NNodes
<1>10. Exec!Abort(EndOf(e) + 1)
  BY <1>2, <1>3, <1>4, <1>6, <1>7, <1>8, <1>9 DEF Exec!Abort
<1> QED BY <1>4, <1>9, <1>10 DEF Exec!Next

\* Every step of the pool is a step of GraphExec or none.
LEMMA RefineStep ==
    ASSUME IInv, [Next]_vars
    PROVE  [Exec!Next]_(Exec!vars)
<1>0. PoolTypeOK /\ 0 \in Threads /\ \A u \in Workers : u \in Threads /\ u # 0
  <2>1. PoolTypeOK
    BY DEF IInv
  <2> QED BY <2>1, TeamFacts DEF Workers, Threads
<1>a. PICK kind \in SegKinds, e \in Nat : Segment(kind, e)
  BY DEF IInv
<1>1. ASSUME Running' <=> Running, UNCHANGED <<cgraph, n_graph, done, abort>>
      PROVE  UNCHANGED Exec!vars
  BY <1>1 DEF Exec!vars
<1>2. CASE UNCHANGED vars
  BY <1>1, <1>2 DEF vars, Running
<1>3. ASSUME NEW g \in GraphSet, GraphCompute(g)
      PROVE  UNCHANGED Exec!vars
  <2>1. pc[0] = "idle" /\ pc'[0] = "kick" /\ done' = done
    BY <1>0, <1>3 DEF GraphCompute, Goto, PoolTypeOK
  <2>2. ~Running /\ ~Running'
    BY <2>1 DEF Running, Inside
  <2> QED BY <2>1, <2>2 DEF Exec!vars
<1>4. CASE PauseOrResume \/ Free \/ KickWake \/ Join
  <2>1. UNCHANGED <<cgraph, n_graph, done, abort, cont, node_n, n_passed, last_graph>>
    BY <1>4 DEF PauseOrResume, Free, KickWake, Join, pool, barrier
  <2>2. \/ pc[0] = "wake" /\ pc'[0] = "loop"
        \/ pc[0] \in {"idle", "join"} /\ pc'[0] \in {"idle", "join", "freed"}
    <3>1. CASE Join
      BY <1>0, <3>1 DEF Join, Goto, PoolTypeOK
    <3>2. CASE PauseOrResume \/ Free \/ KickWake
      BY <1>0, <2>1, <3>2, Wakes DEF PauseOrResume, Free, KickWake
    <3> QED BY <1>4, <3>1, <3>2
  <2>3. Running' <=> Running
    BY <2>2 DEF Running, Inside
  <2> QED BY <1>1, <2>1, <2>3
<1>5. ASSUME NEW n \in 1..(PoolSize + 1), Kick(n)
      PROVE  Exec!Next
  <2>1. /\ pc[0] = "kick" /\ pc'[0] = "wake" /\ n_graph'.n = Available(n)
        /\ UNCHANGED <<cgraph, done, abort>>
    BY <1>0, <1>5 DEF Kick, Goto, PoolTypeOK
  <2>2. cgraph \in GraphSet \ {<<>>} /\ abort = -1 /\ done = {}
    BY <2>1, PoolAssumption DEF IInv, Resting
  <2>3. Available(n) \in 1..PoolSize
    BY PoolAssumption DEF Available
  <2>4. ~Running /\ Running'
    BY <2>1 DEF Running, Inside
  <2> QED BY <2>1, <2>2, <2>3, <2>4 DEF Exec!Next, Exec!Start
<1>6. CASE GraphReturn
  <2>1. /\ pc[0] = "ret" /\ pc'[0] = "idle" /\ done' = {}
        /\ UNCHANGED <<cgraph, n_graph, abort>>
    BY <1>0, <1>6 DEF GraphReturn, Goto, PoolTypeOK, pool
  <2>2. Running /\ ~Running'
    BY <2>1 DEF Running, Inside
  <2>3. cgraph # <<>>
    BY <2>1, PoolAssumption DEF IInv, Resting
  <2>4. kind = "over" /\ SharesDone(kind, e)
    BY <1>a, <2>1, CallerOver DEF CallerRest, Segment
  <2>5. \A k \in Exec!Computed : Exec!Complete(k)
    BY <2>1, <2>2, <2>4, ExecNodes DEF SharesDone
  <2>6. Exec!End
    BY <2>1, <2>2, <2>3, <2>5 DEF Exec!End
  <2> QED BY <2>6 DEF Exec!Next
<1>7. ASSUME NEW t \in Workers, WorkerStep(t) \/ SpuriousWakeup(t)
      PROVE  UNCHANGED Exec!vars
  <2>1. Idles /\ pc'[0] = pc[0]
    BY <1>0, <1>7, <1>a, WorkerRestStep DEF Same
  <2> QED BY <1>1, <2>1 DEF Idles, pool, Running
<1>8. ASSUME NEW t \in Threads, Participates(t)
      PROVE  Exec!Next \/ UNCHANGED Exec!vars
  <2>1. Running' <=> Running
    BY <1>8, StaysRunning
  <2>2. UNCHANGED <<cgraph, n_graph>>
    BY <1>0, <1>8, MovesAlone DEF pool
  <2>3. CASE \/ NextNode(t) \/ PrepareChunks(t) \/ TakeChunk(t) \/ EnterBarrier(t) \/ Add(t)
             \/ LastThread(t) \/ Spin(t)
    <3>1. UNCHANGED <<done, abort>>
      BY <2>3 DEF NextNode, PrepareChunks, TakeChunk, EnterBarrier, Add, LastThread, Spin, Leave,
                  Waits
    <3> QED BY <1>1, <2>1, <2>2, <3>1
  <2>4. CASE ComputeShare(t) \/ ComputeChunk(t) \/ NoMoreChunks(t)
    <3>1. pc[t] \in {"compute", "chunks"} /\ abort' = abort
      BY <2>4 DEF ComputeShare, ComputeChunk, NoMoreChunks
    <3>2. node_n[t] = e
      BY <1>a, <3>1, AtWork
    <3>3. done' = done \/ done' = done \cup {<<e, t>>}
      BY <2>4, <3>2 DEF ComputeShare, ComputeChunk, NoMoreChunks, FinishProduct
    <3> QED BY <1>1, <1>8, <1>a, <2>1, <2>2, <3>1, <3>3, SharesAre
  <2>5. CASE AfterNode(t)
    <3>1. done' = done /\ (abort' = abort \/ t = 0)
      BY <2>5 DEF AfterNode
    <3> QED BY <1>1, <2>1, <2>2, <2>5, <3>1, AbortIs
  <2> QED BY <1>8, <2>3, <2>4, <2>5 DEF Participates
<1>9. CASE Freed
  BY <1>2, <1>9 DEF Freed
<1> QED BY <1>2, <1>3, <1>4, <1>5, <1>6, <1>7, <1>8, <1>9 DEF Next, CallerStep

\* The pool computes every graph in lock step, as GraphExec says: no share of a
\* node before the whole of the earlier ones, an abort that all threads obey at
\* the same node, and a return only when everything is complete.
THEOREM ComputesInLockStep == Spec => InLockStep
<1>1. Init => Exec!Init
  BY DEF Init, Exec!Init, Running, Inside, Threads
<1>2. IInv /\ [Next]_vars => [Exec!Next]_(Exec!vars)
  BY RefineStep
<1> QED BY <1>1, <1>2, SegmentInvariant, PTL DEF Spec, InLockStep, Exec!Spec
=============================================================================
