---------------------------- MODULE MCGraphAlloc ----------------------------
(* A small instance of GraphAlloc for TLC.  Tensor 1 is a leaf, tensor 2 has *)
(* memory of its own; nodes have one or two sources and take one or two      *)
(* units.  In the graphs of three nodes the last is an output, and so may    *)
(* others be, views among them; those of four nodes do not use tensor 2 and  *)
(* have one output.                                                          *)
EXTENDS GraphAlloc

Leaf == [kind |-> "leaf", srcs |-> <<>>, view_src |-> 0, size |-> 1, output |-> FALSE]
Ext  == [kind |-> "ext", srcs |-> <<>>, view_src |-> 0, size |-> 1, output |-> FALSE]

\* The sources of tensor k; of a pair the younger comes first, tensor 2 last.
Sources(k, ext) ==
    LET inner == (1..(k - 1)) \ {2}
    IN {<<a>> : a \in inner}
       \cup {<<a, b>> \in inner \X (1..(k - 1)) : IF b = 2 THEN ext ELSE b < a}

Node(kind, srcs, size, output) == [kind |-> kind, srcs |-> srcs, view_src |-> 0, size |-> size, output |-> output]

\* The nodes that may follow the tensors of x.
Plain(x, ext, sizes, out) == {Node("plain", s, z, out) : s \in Sources(Len(x) + 1, ext), z \in sizes}
InPlace(x, ext, out)      == {Node("inplace", s, x[s[1]].size, out) : s \in Sources(Len(x) + 1, ext)}
View(x, out)              == {[Node("view", <<a>>, x[a].size, out) EXCEPT !.view_src = Root(x, a)] : a \in (1..Len(x)) \ {2}}

NodesAt(x)   == Plain(x, FALSE, {1, 2}, FALSE) \cup InPlace(x, FALSE, FALSE) \cup View(x, FALSE)
LastAt(x)    == Plain(x, FALSE, {1}, TRUE) \cup InPlace(x, FALSE, TRUE)
LargeAt(x)   == Plain(x, FALSE, {2}, TRUE)
MixedAt(x)   == Plain(x, TRUE, {1, 2}, FALSE) \cup Plain(x, TRUE, {1}, TRUE)
                \cup InPlace(x, TRUE, FALSE) \cup View(x, FALSE) \cup View(x, TRUE)

Extend(gs, At(_)) == UNION {{Append(x, n) : n \in At(x)} : x \in gs}

Start       == {<<Leaf, Ext>>}
SmallGraphs == Extend(Extend(Extend(Start, MixedAt), MixedAt), LastAt)
FourNodes   == Extend(Extend(Extend(Extend(Start, NodesAt), NodesAt), NodesAt), LargeAt)
Graphs      == SmallGraphs \cup FourNodes

Resize(x, f(_)) == [t \in 1..Len(x) |-> [x[t] EXCEPT !.size = f(@)]]

\* A graph of three nodes is followed by one with smaller tensors, or with the
\* sizes exchanged.
Resized(x) ==
    IF Len(x) > 5 THEN {}
    ELSE {Resize(x, LAMBDA n : 1), Resize(x, LAMBDA n : 3 - n)}

\* The graphs of these programs keep their shape, as the theorems suppose.
Allocatable == Graphs \cup UNION {Resized(x) : x \in Graphs}

ASSUME ResizedKeepsShape ==
    \A x \in Allocatable : \A y \in Resized(x) : y \in Allocatable /\ SameShape(x, y)

\* Another graph of as many nodes.
Others(x) == SmallGraphs
=============================================================================
