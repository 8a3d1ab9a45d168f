------------------------------ MODULE GraphExec ------------------------------
(***************************************************************************)
(* What a thread pool promises to the graphs it computes.  A graph is a    *)
(* sequence of nodes; n threads take part, each with a share of every      *)
(* node.  A node may read every earlier one, so no share of a node is      *)
(* finished before all the shares of the earlier nodes are; the            *)
(* computation ends when every node is complete, or every node before the  *)
(* one at which it was aborted.                                            *)
(***************************************************************************)
EXTENDS Integers, Sequences

CONSTANTS
    GraphSet,   \* the graphs: sequences of node kinds
    PoolSize    \* threads of the pool, the caller's included

VARIABLES
    graph,      \* the graph being computed, <<>> when there is none
    n,          \* number of threads that take part
    done,       \* the shares finished: pairs of node and thread
    cut         \* nodes from this one on are not computed (-1: not aborted)

vars == <<graph, n, done, cut>>

Threads == 0..(PoolSize - 1)

\* Nodes are numbered from 0 as in the code.  Nops have no shares; a node that
\* is fused into the one before it is computed with it.
Kind(g, k)  == g[k + 1]
Nodes(g)    == {k \in 0..(Len(g) - 1) : Kind(g, k) \notin {"nop", "fused"}}

\* The nodes that are computed unless the abort comes first.
Computed == {k \in Nodes(graph) : cut = -1 \/ k < cut}

Complete(k) == \A t \in 0..(n - 1) : <<k, t>> \in done

Init == graph = <<>> /\ n = 0 /\ done = {} /\ cut = -1

Start ==
    /\ graph = <<>>
    /\ graph' \in GraphSet \ {<<>>}
    /\ n' \in 1..PoolSize
    /\ done' = {} /\ cut' = -1

Share(k, t) ==
    /\ k \in Computed /\ t < n /\ <<k, t>> \notin done
    /\ \A j \in Nodes(graph) : j < k => Complete(j)
    /\ done' = done \cup {<<k, t>>}
    /\ UNCHANGED <<graph, n, cut>>

\* Thread 0 aborts after its share of a node; nothing behind it was begun.
Abort(c) ==
    /\ cut = -1
    /\ \E k \in Nodes(graph) :
          /\ k < c /\ <<k, 0>> \in done
          /\ \A d \in done : d[1] <= k
    /\ cut' = c
    /\ UNCHANGED <<graph, n, done>>

End ==
    /\ graph # <<>>
    /\ \A k \in Computed : Complete(k)
    /\ graph' = <<>> /\ n' = 0 /\ done' = {} /\ cut' = -1

Next ==
    \/ Start \/ End
    \/ \E t \in Threads, k \in Nodes(graph) : Share(k, t)
    \/ \E c \in 1..Len(graph) : Abort(c)

Spec == Init /\ [][Next]_vars
=============================================================================
