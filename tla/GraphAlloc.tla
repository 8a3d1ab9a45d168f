----------------------------- MODULE GraphAlloc -----------------------------
(***************************************************************************)
(* ggml_gallocr with one buffer: planning the addresses of the tensors of  *)
(* a graph so that memory is shared between tensors that are not needed at *)
(* the same time, and using the plan again for a graph of the same shape.  *)
(*                                                                         *)
(* A tensor is [kind, srcs, view_src, size, output].  Leafs come first: a  *)
(* "leaf" is filled by the host before the graph runs, an "ext" has memory *)
(* of its own.  Nodes: "inplace" operations may write over a source of the *)
(* same layout (here: size), "plain" ones may not, a "view" has the memory *)
(* of view_src, which is not a view, however many views lie between.       *)
(***************************************************************************)
EXTENDS TensorAlloc, FiniteSets

CONSTANTS
    MaxSrc,       \* GGML_MAX_SRC, 10
    GraphSet,     \* the graphs a program may begin with: sequences of tensors, leafs first
    Variants(_),  \* the graphs that may follow a graph
    CanFail,      \* the backend may run out of memory
    MaxGraphs     \* bound on the graphs allocated

VARIABLES
    g,            \* the graph
    planned,      \* the graph the plan was made for
    phase,        \* "idle", "plan", "release", "ready"
    i,            \* the tensor to plan next
    src,          \* the source of that node the loops over its parents are at
    chunks,       \* the dynamic allocator
    addr,         \* planned address of each tensor
    allocated,    \* hash_node: the tensor owns memory
    n_children, n_views,
    buffer,       \* size of each chunk of the buffer, <<>> if there is none
    attempt,      \* 2 when the scheduler reserves again after a failure
    graphs        \* graphs allocated so far

plan == <<planned, i, src, chunks, addr, allocated, n_children, n_views>>
vars == <<g, phase, plan, buffer, attempt, graphs>>

Tensors(x)  == 1..Len(x)
IsView(x, t) == x[t].kind = "view"
IsNode(x, t) == x[t].kind \in {"inplace", "plain", "view"}
NeedsMemory(tensor) == tensor.kind \in {"leaf", "inplace", "plain"}
NoAddr     == [chunk |-> 0, offset |-> 0]

\* The tensor that has the memory.
Root(x, t) == IF IsView(x, t) THEN x[t].view_src ELSE t

Tensor == [kind : {"leaf", "ext", "inplace", "plain", "view"}, srcs : Seq(Nat), view_src : Nat,
           size : Nat \ {0}, output : BOOLEAN]

\* A graph as ggml_build_forward makes it: leafs before nodes, sources before the node
\* that reads them, every leaf a source.  Even without reuse it fits the last chunk.
IsGraph(x) ==
    /\ x \in Seq(Tensor)
    /\ \A t \in Tensors(x) :
        /\ Len(x[t].srcs) <= MaxSrc
        /\ \A j \in 1..Len(x[t].srcs) : x[t].srcs[j] \in 1..(t - 1)
        /\ IsView(x, t) => x[t].view_src \in 1..(t - 1) /\ ~IsView(x, x[t].view_src)
        /\ IF IsNode(x, t) THEN \A u \in t..Len(x) : IsNode(x, u)
           ELSE x[t].srcs = <<>>
        /\ x[t].kind = "leaf" => \E u \in Tensors(x) : \E j \in 1..Len(x[u].srcs) : x[u].srcs[j] = t
        /\ Len(x) * x[t].size <= HugeSize

ASSUME GraphAssumption ==
    /\ MaxSrc \in Nat /\ MaxGraphs \in Nat /\ CanFail \in BOOLEAN
    /\ \A x \in GraphSet : IsGraph(x) /\ \A y \in Variants(x) : IsGraph(y)
-----------------------------------------------------------------------------
(* Planning.                                                               *)

\* Mutant: a parent that is read again may be overwritten.
MUT_AnyChild(t, p) ==
    allocated[p] /\ ~g[p].output /\ g[p].size = g[t].size /\ n_views[p] = 0

\* A parent whose memory node t may take over.  (The code's branch for parents
\* that are views is never reached: a view does not own memory.)
Reusable(t, p) ==
    /\ allocated[p]
    /\ ~g[p].output
    /\ g[p].size = g[t].size
    /\ n_children[p] = 1 /\ n_views[p] = 0

ReusableSrcs(t) ==
    IF g[t].kind = "inplace" THEN {j \in 1..Len(g[t].srcs) : Reusable(t, g[t].srcs[j])} ELSE {}

\* ggml_gallocr_allocate_node: nothing to do, the memory of the first reusable parent,
\* or new memory.
AllocateNode(t) ==
    \/ /\ ~NeedsMemory(g[t]) \/ allocated[t]
       /\ UNCHANGED <<chunks, addr, allocated>>
    \/ /\ NeedsMemory(g[t]) /\ ~allocated[t] /\ ReusableSrcs(t) # {}
       /\ LET p == g[t].srcs[CHOOSE j \in ReusableSrcs(t) : \A o \in ReusableSrcs(t) : j <= o]
          IN /\ addr' = [addr EXCEPT ![t] = addr[p]]
             /\ allocated' = [allocated EXCEPT ![t] = TRUE, ![p] = FALSE]
       /\ UNCHANGED chunks
    \/ /\ NeedsMemory(g[t]) /\ ~allocated[t] /\ ReusableSrcs(t) = {}
       /\ LET new == Alloc(chunks, g[t].size)
          IN chunks' = new.chunks /\ addr' = [addr EXCEPT ![t] = new.addr]
       /\ allocated' = [allocated EXCEPT ![t] = TRUE]

\* Mutant: an output is freed like any other tensor.
MUT_FreesOutputs(t) ==
    /\ chunks' = FreeBytes(chunks, addr[t], g[t].size)
    /\ allocated' = [allocated EXCEPT ![t] = FALSE]

\* ggml_gallocr_free_node: graph outputs are never freed.
FreeNode(t) ==
    IF g[t].output THEN UNCHANGED <<chunks, allocated>>
    ELSE /\ chunks' = FreeBytes(chunks, addr[t], g[t].size)
         /\ allocated' = [allocated EXCEPT ![t] = FALSE]

\* A parent of the node that was planned loses a child.  With its last one it loses its
\* memory, or as a view lets go of the tensor it is a view of.
Release(p) ==
    /\ n_children' = [n_children EXCEPT ![p] = @ - 1]
    /\ LET unread == n_children'[p] = 0 /\ n_views[p] = 0
           r      == Root(g, p)
           free   == unread /\ n_children'[r] = 0 /\ n_views'[r] = 0 /\ allocated[r]
       IN /\ n_views' = IF unread /\ IsView(g, p) THEN [n_views EXCEPT ![r] = @ - 1] ELSE n_views
          /\ IF free THEN FreeNode(r) ELSE UNCHANGED <<chunks, allocated>>

Uses(x, t) ==
    {e \in Tensors(x) \X (1..MaxSrc) : e[2] <= Len(x[e[1]].srcs) /\ x[e[1]].srcs[e[2]] = t}
Views(x, t)  == {u \in Tensors(x) : IsView(x, u) /\ x[u].view_src = t}
-----------------------------------------------------------------------------
(* ggml_backend_sched_alloc_splits, for one backend and one buffer.         *)

Init ==
    /\ g \in GraphSet /\ planned = <<>> /\ phase = "idle" /\ i = 1 /\ src = 1 /\ graphs = 0
    /\ chunks = <<>> /\ addr = <<>> /\ allocated = <<>> /\ n_children = <<>> /\ n_views = <<>>
    /\ buffer = <<>> /\ attempt = 0

\* Tensor u fits the memory that was planned for tensor t.
Fits(t, u) ==
    NeedsMemory(u) => NeedsMemory(t) /\ u.size <= t.size

\* The source of a node fits what was planned for the source in its place.
SourceFits(t, x, j) ==
    LET now == x[x[t].srcs[j]]
    IN IF j <= Len(planned[t].srcs) THEN Fits(planned[planned[t].srcs[j]], now)
       ELSE ~NeedsMemory(now)

Leafs(x) == {t \in Tensors(x) : ~IsNode(x, t)}

\* ~ggml_gallocr_needs_realloc: as many nodes and leafs, and every node and every
\* source of a node fits.  Nothing else of the graphs is compared.
PlanFits(x) ==
    /\ Len(planned) = Len(x)
    /\ Cardinality(Leafs(planned)) = Cardinality(Leafs(x))
    /\ \A t \in Tensors(x) \ Leafs(x) :
        Fits(planned[t], x[t]) /\ \A j \in 1..Len(x[t].srcs) : SourceFits(t, x, j)

\* The allocators are reset, the children and views counted.
StartPlan(x) ==
    /\ planned' = x /\ phase' = "plan" /\ i' = 1 /\ src' = 1
    /\ chunks' = <<>>
    /\ addr' = [t \in Tensors(x) |-> NoAddr]
    /\ allocated' = [t \in Tensors(x) |-> FALSE]
    /\ n_children' = [t \in Tensors(x) |-> Cardinality(Uses(x, t))]
    /\ n_views' = [t \in Tensors(x) |-> Cardinality(Views(x, t))]

\* ggml_gallocr_alloc_graph keeps the plan or makes a new one.
AllocGraph(x) ==
    /\ phase \in {"idle", "ready"} /\ graphs < MaxGraphs
    /\ graphs' = graphs + 1
    /\ g' = x
    /\ attempt' = 1
    /\ \/ ~PlanFits(x) /\ StartPlan(x)
       \/ PlanFits(x) /\ phase' = "ready" /\ UNCHANGED plan
    /\ UNCHANGED buffer

Planning == phase = "plan" /\ i <= Len(g)

\* The leafs are placed first.
PlaceLeaf ==
    /\ Planning /\ ~IsNode(g, i)
    /\ AllocateNode(i)
    /\ i' = i + 1
    /\ UNCHANGED <<g, phase, planned, src, n_children, n_views, buffer, attempt, graphs>>

\* For each node its parents are placed, if they are not yet, ...
PlaceParent ==
    /\ Planning /\ IsNode(g, i) /\ src <= Len(g[i].srcs)
    /\ AllocateNode(g[i].srcs[src])
    /\ src' = src + 1
    /\ UNCHANGED <<g, phase, planned, i, n_children, n_views, buffer, attempt, graphs>>

\* ... then the node, ...
PlaceNode ==
    /\ Planning /\ IsNode(g, i) /\ src > Len(g[i].srcs)
    /\ AllocateNode(i)
    /\ phase' = "release" /\ src' = 1
    /\ UNCHANGED <<g, planned, i, n_children, n_views, buffer, attempt, graphs>>

\* ... then the parents are released.
ReleaseParent ==
    /\ phase = "release" /\ src <= Len(g[i].srcs)
    /\ Release(g[i].srcs[src])
    /\ src' = src + 1
    /\ UNCHANGED <<g, phase, planned, i, addr, buffer, attempt, graphs>>

NextNode ==
    /\ phase = "release" /\ src > Len(g[i].srcs)
    /\ phase' = "plan" /\ i' = i + 1 /\ src' = 1
    /\ UNCHANGED <<g, planned, chunks, addr, allocated, n_children, n_views, buffer, attempt, graphs>>

\* Mutant: only the sum of the chunks is compared.
MUT_InTotal ==
    LET total(s) == FoldLeft(LAMBDA n, c : n + c, 0, s)
    IN total([c \in 1..Len(chunks) |-> chunks[c].max_size]) <= total(buffer)

\* The buffer of the last plan has room for this one, chunk by chunk.
BufferSuffices ==
    \A c \in 1..Len(chunks) : c <= Len(buffer) /\ chunks[c].max_size <= buffer[c]

\* The end of ggml_gallocr_reserve_n: the buffer is kept, or freed and allocated
\* anew, chunk by chunk.
Reserve ==
    /\ phase = "plan" /\ i > Len(g)
    /\ phase' = "ready"
    /\ buffer' = IF BufferSuffices THEN buffer
                 ELSE [c \in 1..Len(chunks) |-> chunks[c].max_size]
    /\ UNCHANGED <<g, plan, graphs, attempt>>

\* A chunk cannot be allocated.  The scheduler plans again and, whether that
\* succeeds or not, calls ggml_gallocr_alloc_graph again, which finds a plan
\* that fits.
ReserveFails ==
    /\ phase = "plan" /\ i > Len(g) /\ ~BufferSuffices /\ CanFail
    /\ buffer' = <<>>
    /\ \/ attempt = 1 /\ attempt' = 2 /\ StartPlan(g)
       \/ attempt = 2 /\ phase' = "ready" /\ UNCHANGED <<attempt, plan>>
    /\ UNCHANGED <<g, graphs>>

\* No further graph is allocated.
Rest == phase = "ready" /\ UNCHANGED vars

Next ==
    \/ graphs = 0 /\ AllocGraph(g)
    \/ graphs > 0 /\ \E x \in Variants(g) : AllocGraph(x)
    \/ PlaceLeaf \/ PlaceParent \/ PlaceNode \/ ReleaseParent \/ NextNode
    \/ Reserve \/ ReserveFails \/ Rest

Spec == Init /\ [][Next]_vars
-----------------------------------------------------------------------------
(* Properties.                                                             *)

Overlap(a1, s1, a2, s2) ==
    /\ a1.chunk = a2.chunk
    /\ a1.offset < a2.offset + s2 /\ a2.offset < a1.offset + s1

\* Tensors t and u share memory.
Share(t, u) == Overlap(addr[t], g[t].size, addr[u], g[u].size)

HasMemory(t) == NeedsMemory(g[t])

\* Tensor w is written after tensor r and before node k runs.  The host fills
\* the leafs in any order.
WrittenBetween(w, r, k) ==
    HasMemory(w) /\ w # r /\ IF IsNode(g, w) THEN r < w /\ w < k ELSE ~IsNode(g, r)

\* When a planned graph runs in order, every node finds in its sources what
\* their own node, or the host, wrote there: nothing that runs in between, and
\* nothing the node writes itself, shares memory with a source, unless the node
\* works in place on exactly that source.  This also holds when the plan is
\* used again for a graph of the same nodes with other sizes.
SourcesIntact ==
    phase = "ready" =>
        \A k \in {t \in Tensors(g) : IsNode(g, t)} : \A j \in 1..Len(g[k].srcs) :
            LET s == g[k].srcs[j]
                r == Root(g, s)
            IN HasMemory(r) =>
                /\ \A w \in Tensors(g) : WrittenBetween(w, r, k) => ~Share(w, r)
                /\ (HasMemory(k) /\ Share(k, r)) =>
                      g[k].kind = "inplace" /\ s = r /\ addr[k] = addr[r] /\ g[k].size = g[r].size

Outputs == {t \in Tensors(g) : g[t].output /\ HasMemory(Root(g, t))}

\* No node that runs later shares memory with output o.
Stays(o) ==
    \A w \in Tensors(g) : (w > o /\ HasMemory(w) /\ IsNode(g, w)) => ~Share(w, Root(g, o))

\* ggml_gallocr_free_node looks at the flag of the tensor that has the memory only.  An
\* output that is a view of another tensor loses its memory with the last reader.
LosesMemory(o) == IsView(g, o) /\ ~g[Root(g, o)].output /\ Uses(g, o) # {}

\* What an output holds is still there when the graph is done: an output with memory
\* of its own, a view of one, or a view that no node reads, is never overwritten,
\* whatever is released around it.
OutputsKept == phase = "ready" => \A o \in Outputs : LosesMemory(o) \/ Stays(o)

\* What ggml-alloc.h says, "output tensors are never freed and never overwritten",
\* does not hold of an output view that a node reads.
EveryOutputStays == phase = "ready" => \A o \in Outputs : Stays(o)

\* Every tensor of an allocated graph lies inside the buffer, also when the
\* buffer of an earlier plan was kept.
PlanInBuffer ==
    (phase = "ready" /\ buffer # <<>>) =>
        \A t \in Tensors(g) : HasMemory(t) =>
            /\ addr[t].chunk <= Len(buffer)
            /\ addr[t].offset + g[t].size <= buffer[addr[t].chunk]

\* A graph whose allocation was reported as successful has a buffer
\* (ggml-alloc.h: reserve "returns false if the buffer allocation failed").
ReadyHasBuffer == (phase = "ready" /\ \E t \in Tensors(g) : HasMemory(t)) => buffer # <<>>

Owned(c) == {t \in DOMAIN allocated : allocated[t] /\ addr[t].chunk = c}

\* The books balance: in every chunk the free blocks are sorted, none is empty
\* and none touches the next; no owned tensor shares memory with a free block or
\* another owned one; and every address below the last free block is in one.
FreeListExact ==
    \A c \in 1..Len(chunks) :
        LET free == chunks[c].free
            area == UNION {addr[t].offset..(addr[t].offset + planned[t].size - 1) : t \in Owned(c)}
            open == UNION {free[b].offset..(LastOf(free[b]) - 1) : b \in 1..Len(free)}
        IN /\ Len(chunks) <= MaxChunks
           /\ \A b \in 1..Len(free) : free[b].size > 0
           /\ \A b \in 1..(Len(free) - 1) : LastOf(free[b]) < free[b + 1].offset
           /\ \A t, u \in Owned(c) : t # u =>
                 ~Overlap(addr[t], planned[t].size, addr[u], planned[u].size)
           /\ area \cap open = {}
           /\ area \cup open = 0..(IF free = <<>> THEN chunks[c].max_size - 1
                                   ELSE IF LastOf(Last(free)) > chunks[c].max_size
                                   THEN LastOf(Last(free)) - 1 ELSE chunks[c].max_size - 1)
-----------------------------------------------------------------------------
(* The hypotheses of the theorems.                                         *)

\* The graphs have the same nodes, and tensors of the same size stay so.
SameShape(x, y) ==
    /\ Len(y) = Len(x)
    /\ \A t \in Tensors(x) :
          y[t].kind = x[t].kind /\ y[t].srcs = x[t].srcs /\ y[t].view_src = x[t].view_src /\ y[t].output = x[t].output
    /\ \A t, u \in Tensors(x) : x[t].size = x[u].size => y[t].size = y[u].size

\* All holds the graphs a program may ever allocate.
GraphsIn(All) == GraphSet \subseteq All /\ \A x \in All : IsGraph(x) /\ Variants(x) \subseteq All

\* The hypotheses of the theorems: programs allocate graphs, and of one shape.
OnlyGraphs == \E All : GraphsIn(All)
ShapesKept == \E All : GraphsIn(All) /\ \A x \in All : \A y \in Variants(x) : SameShape(x, y)
=============================================================================
