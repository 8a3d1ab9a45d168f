-------------------------- MODULE GraphAllocProofs --------------------------
(***************************************************************************)
(* Planned tensors keep their memory as long as somebody needs it, for     *)
(* every graph, any sizes and any number of chunks.                        *)
(*                                                                         *)
(* The allocator is described by the addresses it leaves free (Open): an   *)
(* allocation takes the front of a free block, a release returns a region, *)
(* and so the books of a chunk stay balanced (Balanced): every address up  *)
(* to some end is free or has one owner.  Room for the next tensor is in   *)
(* the last chunk, however the others are cut up (LastChunk).              *)
(*                                                                         *)
(* The plan (PlanInv): the counters of a tensor are the uses and the views *)
(* that are left of it (CountsRight), hence a tensor that is still needed  *)
(* owns its memory (OwnersRight); hence a node is never placed over one    *)
(* that is needed after it, and over its own source only in place          *)
(* (PlacedWell).  PlacedWell remains when the memory is owned no longer;   *)
(* it is what holds when the graph runs.  A plan that is kept for another  *)
(* graph of the same shape has room for each of its tensors (FitsInv).     *)
(***************************************************************************)
EXTENDS GraphAlloc, FiniteSetTheorems, SequenceTheorems, WellFoundedInduction, TLAPS

(***************************************************************************)
(* The allocator: blocks, chunks, and the tensors O that own memory.       *)
(***************************************************************************)

Block == [offset : Nat, size : Nat \ {0}]
Chunk == [free : Seq(Block), max_size : Nat]
Place == [chunk : Nat, offset : Nat]

\* The free blocks of a chunk are sorted, and none touches the next.
Sorted(free) ==
    /\ free \in Seq(Block)
    /\ \A k, l \in 1..Len(free) : k < l => LastOf(free[k]) < free[l].offset

InBlock(b, a) == b.offset <= a /\ a < LastOf(b)
Open(free, a) == \E k \in 1..Len(free) : InBlock(free[k], a)

\* Address a of chunk c is among the n at place p.
In(p, n, c, a) == p.chunk = c /\ p.offset <= a /\ a < p.offset + n

Holds(x, ad, t, c, a) == In(ad[t], x[t].size, c, a)

Used(ch, x, ad, O, c, a) == Open(ch[c].free, a) \/ \E t \in O : Holds(x, ad, t, c, a)

\* Every address of a chunk up to some end is free or belongs to one tensor.
Balanced(ch, x, ad, O) ==
    /\ ch \in Seq(Chunk) /\ \A c \in 1..Len(ch) : Sorted(ch[c].free)
    /\ \A t \in O : /\ ad[t] \in Place /\ x[t].size \in Nat \ {0} /\ ad[t].chunk \in 1..Len(ch)
                    /\ ad[t].offset + x[t].size <= ch[ad[t].chunk].max_size
    /\ \A c \in 1..Len(ch), a \in Nat, t \in O :
          Holds(x, ad, t, c, a) => ~Open(ch[c].free, a) /\ \A u \in O : Holds(x, ad, u, c, a) => u = t
    /\ \A c \in 1..Len(ch), a, b \in Nat :
          a < b /\ Used(ch, x, ad, O, c, b) => Used(ch, x, ad, O, c, a)
    /\ \A c \in 1..Len(ch) : ch[c].max_size > 0 => Used(ch, x, ad, O, c, ch[c].max_size - 1)

\* The last chunk that may be made has room for every tensor after the first n.
LastChunk(ch, x, n) ==
    /\ Len(ch) <= MaxChunks
    /\ Len(ch) = MaxChunks =>
          \A s, a \in Nat :
             ((\A t \in Tensors(x) : x[t].size <= s) /\ n * s <= a /\ a < HugeSize) => Open(ch[MaxChunks].free, a)

\* The first n addresses of a free block, those at place p, are taken.
Taken(ch, new, p, n) ==
    /\ new \in Seq(Chunk) /\ Len(new) = Len(ch) /\ \A c \in 1..Len(ch) : Sorted(new[c].free)
    /\ p \in Place /\ p.chunk \in 1..Len(ch)
    /\ p.offset + n <= new[p.chunk].max_size
    /\ \A c \in 1..Len(ch) :
          /\ new[c].max_size >= ch[c].max_size
          /\ new[c].max_size = ch[c].max_size \/ (c = p.chunk /\ new[c].max_size = p.offset + n)
    /\ \A c \in 1..Len(ch), a \in Nat :
          /\ In(p, n, c, a) => Open(ch[c].free, a)
          /\ Open(new[c].free, a) <=> Open(ch[c].free, a) /\ ~In(p, n, c, a)
    /\ \A a \in Nat : a + 1 = p.offset => ~Open(ch[p.chunk].free, a)

\* The n addresses at place p are returned.
Freed(ch, new, p, n) ==
    /\ new \in Seq(Chunk) /\ Len(new) = Len(ch) /\ \A c \in 1..Len(ch) : Sorted(new[c].free)
    /\ \A c \in 1..Len(ch) : new[c].max_size = ch[c].max_size
    /\ \A c \in 1..Len(ch), a \in Nat : Open(new[c].free, a) <=> Open(ch[c].free, a) \/ In(p, n, c, a)

\* A chunk is added, the last one with room for everything.
Grown(ch, new) ==
    /\ new \in Seq(Chunk) /\ Len(new) = Len(ch) + 1 /\ \A c \in 1..Len(ch) : new[c] = ch[c]
    /\ Sorted(new[Len(new)].free) /\ new[Len(new)].max_size = 0
    /\ \E room \in Nat :
          /\ \A a \in Nat : Open(new[Len(new)].free, a) <=> a < room
          /\ Len(new) = MaxChunks => room = HugeSize
\* No chunk goes away or becomes smaller.
Grows(ch, new) ==
    Len(ch) <= Len(new) /\ \A c \in 1..Len(ch) : new[c].max_size >= ch[c].max_size
\* Tensor t, the n-th, has been given memory of its own.
Allocated(ch, new, x, ad, O, t, n) ==
    Balanced(new, x, ad, O \cup {t}) /\ LastChunk(new, x, n) /\ ad[t] \in Place /\ Grows(ch, new)
-----------------------------------------------------------------------------
(* The inductive invariant.                                                *)

PlanTypeOK ==
    /\ IsGraph(planned)
    /\ phase \in {"idle", "plan", "release", "ready"}
    /\ i \in 1..(Len(planned) + 1) /\ src \in Nat \ {0}
    /\ phase \in {"idle", "ready"} => i = Len(planned) + 1
    /\ phase = "release" => i <= Len(planned) /\ IsNode(planned, i)
    /\ phase \in {"plan", "release"} => g = planned
    /\ addr \in [Tensors(planned) -> Place]
    /\ allocated \in [Tensors(planned) -> BOOLEAN]
    /\ n_children \in [Tensors(planned) -> Nat] /\ n_views \in [Tensors(planned) -> Nat]
    /\ buffer \in Seq(Nat)

\* The tensors up to this one have been placed.
Turn == IF phase = "release" THEN i ELSE i - 1

\* The uses of a tensor that have not been counted off.
Left(p) ==
    {e \in Uses(planned, p) : e[1] > i \/ (e[1] = i /\ (phase # "release" \/ e[2] >= src))}

\* The views of a tensor that have not let go of it.
Held(r) == {v \in Views(planned, r) : Uses(planned, v) = {} \/ Left(v) # {}}

CountsRight ==
    \A p \in Tensors(planned) :
        n_children[p] = Cardinality(Left(p)) /\ n_views[p] = Cardinality(Held(p))

\* Node u reads the memory of tensor r.
Reads(u, r) == \E j \in 1..Len(planned[u].srcs) : Root(planned, planned[u].srcs[j]) = r

\* Tensor r is never released: it is an output, or a view that nobody reads holds it.
Kept(r) == planned[r].output \/ \E v \in Views(planned, r) : Uses(planned, v) = {}

\* The contents of r are needed after node n has run.
Needed(r, n) ==
    Kept(r) \/ \E u \in Tensors(planned) : u > n /\ Reads(u, r)

Owners == {t \in Tensors(planned) : allocated[t]}
Placed == {t \in 1..Turn : NeedsMemory(planned[t])}

OwnersRight ==
    /\ Owners \subseteq Placed
    /\ \A r \in Placed : Needed(r, Turn) => allocated[r]

Clash(t, u) == Overlap(addr[t], planned[t].size, addr[u], planned[u].size)

\* Tensor k does not write over its source j, unless in place.
KeepsSource(k, j) ==
    LET s == planned[k].srcs[j]
        r == Root(planned, s)
    IN (NeedsMemory(planned[r]) /\ Clash(k, r)) =>
          planned[k].kind = "inplace" /\ s = r /\ addr[k] = addr[r] /\ planned[k].size = planned[r].size

PlacedWell ==
    /\ \A t \in Placed : addr[t].chunk \in 1..Len(chunks)
                         /\ addr[t].offset + planned[t].size <= chunks[addr[t].chunk].max_size
    /\ \A r, w \in Placed : (IsNode(planned, w) /\ r < w /\ Needed(r, w)) => ~Clash(r, w)
    /\ \A r, w \in Placed : (~IsNode(planned, w) /\ ~IsNode(planned, r) /\ r # w) => ~Clash(r, w)
    /\ \A k \in Placed : \A j \in 1..Len(planned[k].srcs) : KeepsSource(k, j)

PlanInv ==
    /\ PlanTypeOK /\ CountsRight /\ OwnersRight /\ PlacedWell
    /\ Balanced(chunks, planned, addr, Owners)
    /\ LastChunk(chunks, planned, Turn)

\* Graph y has a place for each of its tensors in a plan for x.
FitsPlanOf(x, y) ==
    SameShape(x, y) /\ \A t \in Tensors(y) : NeedsMemory(y[t]) => y[t].size <= x[t].size

\* The graph fits the plan, and the plan the buffer.
FitsInv ==
    /\ (phase = "ready" /\ buffer # <<>>) => BufferSuffices
    /\ phase = "idle" => planned = <<>> /\ chunks = <<>>
    /\ phase # "idle" => FitsPlanOf(planned, g)
-----------------------------------------------------------------------------
(* Sequences.                                                              *)

\* What RemoveAt does, place by place.
LEMMA RemoveAtFacts ==
    ASSUME NEW S, NEW s \in Seq(S), NEW k \in 1..Len(s)
    PROVE  /\ RemoveAt(s, k) \in Seq(S) /\ Len(RemoveAt(s, k)) = Len(s) - 1
           /\ \A j \in 1..(Len(s) - 1) : RemoveAt(s, k)[j] = IF j < k THEN s[j] ELSE s[j + 1]
  <1> DEFINE a == SubSeq(s, 1, k - 1)
             b == SubSeq(s, k + 1, Len(s))
  <1>1. Len(s) \in Nat /\ k \in Nat /\ 1 <= k /\ k <= Len(s)
    OBVIOUS
  <1>2. a \in Seq(S) /\ Len(a) = k - 1 /\ \A j \in 1..(k - 1) : a[j] = s[j]
    BY <1>1
  <1>3. b \in Seq(S) /\ Len(b) = Len(s) - k /\ \A j \in 1..(Len(s) - k) : b[j] = s[j + k]
    BY <1>1
  <1>4. RemoveAt(s, k) = a \o b
    BY DEF RemoveAt
  <1> HIDE DEF a, b
  <1>5. Len(a \o b) = Len(s) - 1 /\ a \o b \in Seq(S)
    <2>1. a \o b \in Seq(S) /\ Len(a \o b) = Len(a) + Len(b)
      BY <1>2, <1>3, ConcatProperties
    <2> QED
      BY <1>1, <1>2, <1>3, <2>1
  <1>6. ASSUME NEW j \in 1..(Len(s) - 1)
        PROVE  (a \o b)[j] = IF j < k THEN s[j] ELSE s[j + 1]
    <2>1. CASE j < k
      BY <1>1, <1>2, <1>3, <2>1
    <2>2. CASE ~(j < k)
      <3>1. (a \o b)[j] = b[j - (k - 1)]
        BY <1>1, <1>2, <1>3, <2>2
      <3>2. j - (k - 1) \in 1..(Len(s) - k) /\ j - (k - 1) + k = j + 1
        BY <1>1, <2>2
      <3>3. b[j - (k - 1)] = s[j + 1]
        BY <1>3, <3>2
      <3> QED
        BY <2>2, <3>1, <3>3
    <2> QED
      BY <2>1, <2>2
  <1> QED
    BY <1>4, <1>5, <1>6

\* What InsertAt does, place by place.
LEMMA InsertAtFacts ==
    ASSUME NEW S, NEW s \in Seq(S), NEW k \in 1..Len(s), NEW e \in S
    PROVE  /\ InsertAt(s, k, e) \in Seq(S) /\ Len(InsertAt(s, k, e)) = Len(s) + 1
           /\ \A j \in 1..(Len(s) + 1) :
                 InsertAt(s, k, e)[j] = IF j < k THEN s[j] ELSE IF j = k THEN e ELSE s[j - 1]
  <1> DEFINE a == SubSeq(s, 1, k - 1)
             b == SubSeq(s, k, Len(s))
  <1>1. Len(s) \in Nat /\ k \in Nat /\ 1 <= k /\ k <= Len(s)
    OBVIOUS
  <1>2. a \in Seq(S) /\ Len(a) = k - 1 /\ \A j \in 1..(k - 1) : a[j] = s[j]
    BY <1>1
  <1>3. b \in Seq(S) /\ Len(b) = Len(s) - k + 1 /\ \A j \in 1..(Len(s) - k + 1) : b[j] = s[j + k - 1]
    BY <1>1
  <1>4. InsertAt(s, k, e) = a \o <<e>> \o b
    BY DEF InsertAt
  <1> HIDE DEF a, b
  <1> DEFINE m == a \o <<e>>
  <1>5. m \in Seq(S) /\ Len(m) = k /\ m[k] = e /\ \A j \in 1..(k - 1) : m[j] = s[j]
    <2>1. <<e>> \in Seq(S) /\ Len(<<e>>) = 1 /\ <<e>>[1] = e
      OBVIOUS
    <2>2. /\ m \in Seq(S) /\ Len(m) = Len(a) + 1
          /\ \A j \in 1..(Len(a) + 1) : m[j] = IF j <= Len(a) THEN a[j] ELSE <<e>>[j - Len(a)]
      BY <1>2, <2>1, ConcatProperties
    <2>3. m[k] = <<e>>[k - (k - 1)]
      BY <1>1, <1>2, <2>2
    <2>4. ASSUME NEW j \in 1..(k - 1) PROVE m[j] = s[j]
      BY <1>1, <1>2, <2>2
    <2>5. k - (k - 1) = 1 /\ (k - 1) + 1 = k
      BY <1>1
    <2> QED
      BY <1>2, <2>1, <2>2, <2>3, <2>4, <2>5
  <1> HIDE DEF m
  <1>6. Len(m \o b) = Len(s) + 1 /\ m \o b \in Seq(S)
    <2>1. m \o b \in Seq(S) /\ Len(m \o b) = Len(m) + Len(b)
      BY <1>3, <1>5, ConcatProperties
    <2> QED
      BY <1>1, <1>3, <1>5, <2>1
  <1>7. ASSUME NEW j \in 1..(Len(s) + 1)
        PROVE  (m \o b)[j] = IF j < k THEN s[j] ELSE IF j = k THEN e ELSE s[j - 1]
    <2>1. (m \o b)[j] = IF j <= k THEN m[j] ELSE b[j - k]
      <3>1. \A l \in 1..(Len(m) + Len(b)) : (m \o b)[l] = IF l <= Len(m) THEN m[l] ELSE b[l - Len(m)]
        BY <1>3, <1>5, ConcatProperties, Zenon
      <3>2. Len(m) + Len(b) = Len(s) + 1
        BY <1>1, <1>3, <1>5
      <3> QED
        BY <1>5, <3>1, <3>2, Zenon
    <2>2. CASE j < k
      <3>1. j \in 1..(k - 1) /\ j <= k
        BY <1>1, <2>2
      <3> QED
        BY <1>5, <2>1, <2>2, <3>1, Zenon
    <2>3. CASE j = k
      BY <1>1, <1>5, <2>1, <2>3
    <2>4. CASE j > k
      <3>1. j - k \in 1..(Len(s) - k + 1) /\ j - k + k - 1 = j - 1 /\ ~(j <= k) /\ ~(j < k) /\ j # k
        BY <1>1, <2>4
      <3>2. b[j - k] = s[j - 1]
        BY <1>3, <3>1
      <3> QED
        BY <2>1, <3>1, <3>2, Zenon
    <2>5. j \in Nat /\ (j < k \/ j = k \/ j > k)
      BY <1>1
    <2> QED
      BY <2>2, <2>3, <2>4, <2>5
  <1>8. InsertAt(s, k, e) = m \o b
    BY <1>4 DEF m
  <1> QED
    BY <1>6, <1>7, <1>8
-----------------------------------------------------------------------------
(* Free lists.                                                             *)

LEMMA BlockFacts ==
    ASSUME NEW free \in Seq(Block), NEW k \in 1..Len(free)
    PROVE  /\ free[k] \in Block /\ free[k].offset \in Nat /\ free[k].size \in Nat /\ free[k].size > 0
           /\ LastOf(free[k]) \in Nat /\ free[k].offset < LastOf(free[k])
           /\ LastOf(free[k]) = free[k].offset + free[k].size
  <1>1. free[k] \in Block
    OBVIOUS
  <1>2. free[k].offset \in Nat /\ free[k].size \in Nat /\ free[k].size > 0
    BY <1>1 DEF Block
  <1> QED
    BY <1>1, <1>2 DEF LastOf

LEMMA SomeBlock ==
    ASSUME NEW o \in Nat, NEW n \in Nat, n > 0
    PROVE  \E b \in Block : b = [offset |-> o, size |-> n] /\ b.offset = o /\ b.size = n /\ LastOf(b) = o + n
  <1>1. PICK b : b = [offset |-> o, size |-> n]
    OBVIOUS
  <1>2. b.offset = o /\ b.size = n /\ b \in Block
    BY <1>1 DEF Block
  <1> QED
    BY <1>1, <1>2 DEF LastOf

\* An address is in one free block at most.
LEMMA OneBlock ==
    ASSUME NEW free, Sorted(free), NEW k \in 1..Len(free), NEW l \in 1..Len(free), NEW a \in Nat,
           InBlock(free[k], a), InBlock(free[l], a)
    PROVE  k = l
  <1>1. free \in Seq(Block) /\ Len(free) \in Nat
    BY DEF Sorted
  <1>2. ASSUME NEW p \in 1..Len(free), NEW q \in 1..Len(free), p < q,
               InBlock(free[p], a), InBlock(free[q], a)
        PROVE  FALSE
    <2>1. LastOf(free[p]) < free[q].offset
      BY <1>2 DEF Sorted
    <2>2. a < LastOf(free[p]) /\ free[q].offset <= a
      BY <1>2 DEF InBlock
    <2>3. LastOf(free[p]) \in Nat /\ free[q].offset \in Nat
      BY <1>1, BlockFacts
    <2> QED
      BY <2>1, <2>2, <2>3
  <1>3. ~(k < l) /\ ~(l < k)
    BY <1>2
  <1> QED
    BY <1>1, <1>3

\* A block is removed.
LEMMA RemoveBlock ==
    ASSUME NEW free, Sorted(free), NEW k \in 1..Len(free)
    PROVE  /\ Sorted(RemoveAt(free, k))
           /\ \A a \in Nat : Open(RemoveAt(free, k), a) <=> \E l \in 1..Len(free) : l # k /\ InBlock(free[l], a)
  <1>1. free \in Seq(Block) /\ Len(free) \in Nat /\ k \in Nat /\ 1 <= k /\ k <= Len(free)
    BY DEF Sorted
  <1>2. PICK u : u = RemoveAt(free, k)
    OBVIOUS
  <1>3. /\ u \in Seq(Block) /\ Len(u) = Len(free) - 1
        /\ \A j \in 1..(Len(free) - 1) : u[j] = IF j < k THEN free[j] ELSE free[j + 1]
    BY <1>1, <1>2, RemoveAtFacts, Zenon
  <1>4. ASSUME NEW j \in 1..Len(u)
        PROVE  \E l \in 1..Len(free) : u[j] = free[l] /\ l # k /\ l = IF j < k THEN j ELSE j + 1
    <2>1. CASE j < k
      BY <1>1, <1>3, <2>1
    <2>2. CASE ~(j < k)
      BY <1>1, <1>3, <2>2
    <2> QED
      BY <2>1, <2>2
  <1>5. ASSUME NEW l \in 1..Len(free), l # k
        PROVE  \E j \in 1..Len(u) : u[j] = free[l]
    <2>1. CASE l < k
      BY <1>1, <1>3, <2>1
    <2>2. CASE l > k
      <3>1. l - 1 \in 1..Len(u) /\ ~(l - 1 < k) /\ l - 1 + 1 = l
        BY <1>1, <1>3, <2>2
      <3> QED
        BY <1>3, <3>1
    <2> QED
      BY <1>1, <1>5, <2>1, <2>2
  <1>6. ASSUME NEW p \in 1..Len(u), NEW q \in 1..Len(u), p < q
        PROVE  LastOf(u[p]) < u[q].offset
    <2>1. PICK pp \in 1..Len(free) : u[p] = free[pp] /\ pp = IF p < k THEN p ELSE p + 1
      BY <1>4
    <2>2. PICK qq \in 1..Len(free) : u[q] = free[qq] /\ qq = IF q < k THEN q ELSE q + 1
      BY <1>4
    <2>3. pp < qq
      BY <1>1, <1>3, <1>6, <2>1, <2>2
    <2> QED
      BY <2>1, <2>2, <2>3 DEF Sorted
  <1>7. Sorted(u)
    BY <1>3, <1>6 DEF Sorted
  <1>8. ASSUME NEW a \in Nat
        PROVE  Open(u, a) <=> \E l \in 1..Len(free) : l # k /\ InBlock(free[l], a)
    <2>1. ASSUME NEW j \in 1..Len(u), InBlock(u[j], a)
          PROVE  \E l \in 1..Len(free) : l # k /\ InBlock(free[l], a)
      BY <1>4, <2>1
    <2>2. ASSUME NEW l \in 1..Len(free), l # k, InBlock(free[l], a)
          PROVE  \E j \in 1..Len(u) : InBlock(u[j], a)
      BY <1>5, <2>2
    <2> QED
      BY <2>1, <2>2 DEF Open
  <1> QED
    BY <1>2, <1>7, <1>8, Zenon

\* A block is replaced by another one between its neighbours.
LEMMA ReplaceBlock ==
    ASSUME NEW free, Sorted(free), NEW k \in 1..Len(free), NEW b \in Block,
           \A l \in 1..Len(free) : l < k => LastOf(free[l]) < b.offset,
           \A l \in 1..Len(free) : k < l => LastOf(b) < free[l].offset
    PROVE  /\ Sorted([free EXCEPT ![k] = b])
           /\ \A a \in Nat : Open([free EXCEPT ![k] = b], a) <=>
                 InBlock(b, a) \/ \E l \in 1..Len(free) : l # k /\ InBlock(free[l], a)
  <1>1. free \in Seq(Block) /\ Len(free) \in Nat /\ k \in Nat
    BY DEF Sorted
  <1>2. PICK u : u = [free EXCEPT ![k] = b]
    OBVIOUS
  <1>3. /\ u \in Seq(Block) /\ Len(u) = Len(free)
        /\ \A j \in 1..Len(free) : u[j] = IF j = k THEN b ELSE free[j]
    BY <1>1, <1>2, ExceptSeq
  <1>4. ASSUME NEW p \in 1..Len(u), NEW q \in 1..Len(u), p < q
        PROVE  LastOf(u[p]) < u[q].offset
    <2>1. p \in 1..Len(free) /\ q \in 1..Len(free)
      BY <1>3
    <2>2. CASE p = k
      <3>1. u[p] = b /\ u[q] = free[q]
        BY <1>1, <1>3, <1>4, <2>1, <2>2
      <3> QED
        BY <1>4, <2>1, <2>2, <3>1
    <2>3. CASE q = k
      <3>1. u[q] = b /\ u[p] = free[p]
        BY <1>1, <1>3, <1>4, <2>1, <2>3
      <3> QED
        BY <1>4, <2>1, <2>3, <3>1
    <2>4. CASE p # k /\ q # k
      <3>1. u[q] = free[q] /\ u[p] = free[p]
        BY <1>3, <2>1, <2>4
      <3> QED
        BY <1>4, <2>1, <3>1 DEF Sorted
    <2> QED
      BY <2>2, <2>3, <2>4
  <1>5. Sorted(u)
    BY <1>3, <1>4 DEF Sorted
  <1>6. ASSUME NEW a \in Nat
        PROVE  Open(u, a) <=> InBlock(b, a) \/ \E l \in 1..Len(free) : l # k /\ InBlock(free[l], a)
    <2>1. ASSUME NEW j \in 1..Len(u), InBlock(u[j], a)
          PROVE  InBlock(b, a) \/ \E l \in 1..Len(free) : l # k /\ InBlock(free[l], a)
      BY <1>3, <2>1
    <2>2. ASSUME InBlock(b, a) PROVE \E j \in 1..Len(u) : InBlock(u[j], a)
      BY <1>3, <2>2
    <2>3. ASSUME NEW l \in 1..Len(free), l # k, InBlock(free[l], a)
          PROVE  \E j \in 1..Len(u) : InBlock(u[j], a)
      BY <1>3, <2>3
    <2> QED
      BY <2>1, <2>2, <2>3 DEF Open
  <1> QED
    BY <1>2, <1>5, <1>6, Zenon

\* The front of a block is taken: these addresses are no longer free, the others as before.
LEMMA ShrinkFacts ==
    ASSUME NEW free, Sorted(free), NEW k \in 1..Len(free), NEW n \in Nat \ {0}, n <= free[k].size
    PROVE  /\ Sorted(Shrink(free, k, n))
           /\ \A a \in Nat : Open(Shrink(free, k, n), a) <=>
                 Open(free, a) /\ ~(free[k].offset <= a /\ a < free[k].offset + n)
  <1>1. free \in Seq(Block) /\ Len(free) \in Nat
    BY DEF Sorted
  <1>2. PICK o \in Nat, z \in Nat \ {0} :
             /\ o = free[k].offset /\ z = free[k].size /\ LastOf(free[k]) = o + z /\ n <= z
    BY <1>1, BlockFacts
  <1>3. ASSUME NEW a \in Nat
        PROVE  /\ InBlock(free[k], a) <=> o <= a /\ a < o + z
               /\ (\E l \in 1..Len(free) : l # k /\ InBlock(free[l], a)) <=> Open(free, a) /\ ~InBlock(free[k], a)
    <2>1. InBlock(free[k], a) <=> o <= a /\ a < o + z
      BY <1>2 DEF InBlock
    <2>2. ASSUME NEW l \in 1..Len(free), l # k, InBlock(free[l], a), InBlock(free[k], a) PROVE FALSE
      BY <2>2, OneBlock
    <2> QED
      BY <2>1, <2>2 DEF Open
  <1>4. CASE free[k].size = n
    <2>1. Shrink(free, k, n) = RemoveAt(free, k)
      BY <1>4 DEF Shrink
    <2>2. \A a \in Nat : InBlock(free[k], a) <=> free[k].offset <= a /\ a < free[k].offset + n
      BY <1>2, <1>3, <1>4
    <2>3. /\ Sorted(RemoveAt(free, k))
          /\ \A a \in Nat : Open(RemoveAt(free, k), a) <=> \E l \in 1..Len(free) : l # k /\ InBlock(free[l], a)
      BY RemoveBlock
    <2> QED
      BY <1>3, <2>1, <2>2, <2>3, Zenon
  <1>5. CASE free[k].size # n
    <2>1. PICK p \in Nat, q \in Nat \ {0} : p = o + n /\ q = z - n /\ p + q = o + z
      <3>1. o + n \in Nat /\ z - n \in Nat \ {0} /\ (o + n) + (z - n) = o + z
        BY <1>2, <1>5
      <3> QED
        BY <3>1, Zenon
    <2>2. PICK b \in Block : b = [offset |-> p, size |-> q] /\ b.offset = o + n /\ LastOf(b) = o + z
      <3>1. PICK b : b = [offset |-> p, size |-> q]
        OBVIOUS
      <3>2. b.offset = p /\ b.size = q /\ b \in Block
        BY <3>1 DEF Block
      <3> QED
        BY <2>1, <3>1, <3>2 DEF LastOf
    <2>3. Shrink(free, k, n) = [free EXCEPT ![k] = b]
      <3>1. Shrink(free, k, n)
              = [free EXCEPT ![k] = [offset |-> free[k].offset + n, size |-> free[k].size - n]]
        BY <1>5 DEF Shrink
      <3>2. [offset |-> free[k].offset + n, size |-> free[k].size - n] = b
        BY <1>2, <2>1, <2>2
      <3> QED
        BY <3>1, <3>2, Zenon
    <2>4. ASSUME NEW l \in 1..Len(free)
          PROVE  /\ l < k => LastOf(free[l]) < b.offset
                 /\ k < l => LastOf(b) < free[l].offset
      <3>1. l < k => LastOf(free[l]) < o
        BY <1>2 DEF Sorted
      <3>2. k < l => o + z < free[l].offset
        BY <1>2 DEF Sorted
      <3>3. LastOf(free[l]) \in Nat
        BY <1>1, BlockFacts
      <3> QED
        BY <2>2, <3>1, <3>2, <3>3
    <2>5. ASSUME NEW a \in Nat PROVE InBlock(b, a) <=> o + n <= a /\ a < o + z
      BY <2>2 DEF InBlock
    <2>6. ASSUME NEW a \in Nat
          PROVE  InBlock(b, a) \/ (Open(free, a) /\ ~InBlock(free[k], a))
                    <=> Open(free, a) /\ ~(o <= a /\ a < o + n)
      <3>1. InBlock(free[k], a) => Open(free, a)
        BY DEF Open
      <3> QED
        BY <1>2, <1>3, <2>5, <3>1
    <2>7. /\ Sorted([free EXCEPT ![k] = b])
          /\ \A a \in Nat : Open([free EXCEPT ![k] = b], a) <=>
                InBlock(b, a) \/ \E l \in 1..Len(free) : l # k /\ InBlock(free[l], a)
      BY <2>4, ReplaceBlock
    <2>8. ASSUME NEW a \in Nat
          PROVE  Open([free EXCEPT ![k] = b], a) <=>
                    Open(free, a) /\ ~(free[k].offset <= a /\ a < free[k].offset + n)
      BY <1>2, <1>3, <2>6, <2>7, Zenon
    <2> QED
      BY <2>3, <2>7, <2>8, Zenon
  <1> QED
    BY <1>4, <1>5

\* The address before a block is not free.
LEMMA BeforeBlock ==
    ASSUME NEW free, Sorted(free), NEW k \in 1..Len(free), NEW a \in Nat, a + 1 = free[k].offset
    PROVE  ~Open(free, a)
  <1>1. free \in Seq(Block) /\ Len(free) \in Nat /\ free[k].offset \in Nat /\ LastOf(free[k]) \in Nat
        /\ free[k].offset < LastOf(free[k])
    BY BlockFacts DEF Sorted
  <1>2. ASSUME NEW l \in 1..Len(free), InBlock(free[l], a) PROVE FALSE
    <2>1. free[l].offset \in Nat /\ LastOf(free[l]) \in Nat /\ free[l].offset <= a /\ a < LastOf(free[l])
      BY <1>1, <1>2, BlockFacts DEF InBlock
    <2>2. l < k => LastOf(free[l]) < free[k].offset
      BY DEF Sorted
    <2>3. k < l => LastOf(free[k]) < free[l].offset
      BY DEF Sorted
    <2>4. ~(l < k) /\ ~(k < l) /\ l # k
      BY <1>1, <2>1, <2>2, <2>3
    <2> QED
      BY <1>1, <2>4
  <1> QED
    BY <1>2 DEF Open

\* A set of naturals that is not empty has a least element.
LEMMA LeastNat ==
    ASSUME NEW S \in SUBSET Nat, S # {}
    PROVE  \E m \in S : \A k \in S : m <= k
  <1>1. IsWellFoundedOn(OpToRel(<, Nat), Nat)
    BY NatLessThanWellFounded
  <1>2. PICK m \in S : \A k \in S : ~(<<k, m>> \in OpToRel(<, Nat))
    BY <1>1, WFMin
  <1>3. \A k \in S : ~(k < m)
    BY <1>2 DEF OpToRel
  <1> QED
    BY <1>3

\* A bounded one has a greatest.
LEMMA GreatestNat ==
    ASSUME NEW S \in SUBSET Nat, S # {}, NEW b \in Nat, \A s \in S : s <= b
    PROVE  \E m \in S : \A k \in S : k <= m
  <1> DEFINE T == {b - s : s \in S}
  <1>1. T \in SUBSET Nat /\ T # {}
    <2>1. \A s \in S : b - s \in Nat
      OBVIOUS
    <2> QED
      BY <2>1, Zenon
  <1>2. PICK t \in T : \A u \in T : t <= u
    BY <1>1, LeastNat
  <1>3. PICK m \in S : t = b - m
    BY <1>2
  <1>4. \A k \in S : b - m <= b - k
    BY <1>2, <1>3
  <1> QED
    BY <1>4

\* A new block is inserted between the blocks before and after it.
LEMMA InsertFacts ==
    ASSUME NEW free, Sorted(free), NEW b \in Block,
           \A k \in 1..Len(free) : LastOf(free[k]) < b.offset \/ LastOf(b) < free[k].offset
    PROVE  /\ Sorted(InsertBlock(free, b))
           /\ \A a \in Nat : Open(InsertBlock(free, b), a) <=> Open(free, a) \/ InBlock(b, a)
  <1>1. free \in Seq(Block) /\ Len(free) \in Nat
    BY DEF Sorted
  <1>2. b.offset \in Nat /\ LastOf(b) \in Nat /\ b.offset < LastOf(b)
    BY DEF Block, LastOf
  <1>3. ASSUME NEW k \in 1..Len(free)
        PROVE  IF free[k].offset >= b.offset THEN LastOf(b) < free[k].offset ELSE LastOf(free[k]) < b.offset
    <2>1. free[k].offset \in Nat /\ LastOf(free[k]) \in Nat /\ free[k].offset < LastOf(free[k])
      BY <1>1, BlockFacts
    <2>2. LastOf(free[k]) < b.offset \/ LastOf(b) < free[k].offset
      OBVIOUS
    <2> QED
      BY <1>2, <2>1, <2>2
  <1> DEFINE after == {k \in 1..Len(free) : free[k].offset >= b.offset}
  <1>4. CASE after = {}
    <2>1. PICK u : u = InsertBlock(free, b) /\ u = Append(free, b)
      BY <1>4 DEF InsertBlock
    <2>2. u \in Seq(Block) /\ Len(u) = Len(free) + 1 /\ u[Len(free) + 1] = b
          /\ \A j \in 1..Len(free) : u[j] = free[j]
      BY <1>1, <2>1
    <2>3. ASSUME NEW p \in 1..Len(u), NEW q \in 1..Len(u), p < q
          PROVE  LastOf(u[p]) < u[q].offset
      <3>1. p \in 1..Len(free) /\ u[p] = free[p] /\ (q = Len(free) + 1 \/ q \in 1..Len(free))
        BY <1>1, <2>2, <2>3
      <3>2. CASE q = Len(free) + 1
        <4>1. ~(free[p].offset >= b.offset)
          BY <1>4, <3>1
        <4> QED
          BY <1>3, <2>2, <3>1, <3>2, <4>1
      <3>3. CASE q \in 1..Len(free)
        <4>1. u[q] = free[q]
          BY <2>2, <3>3
        <4> QED
          BY <2>3, <3>1, <3>3, <4>1 DEF Sorted
      <3> QED
        BY <3>1, <3>2, <3>3
    <2>4. ASSUME NEW a \in Nat
          PROVE  Open(u, a) <=> Open(free, a) \/ InBlock(b, a)
      <3>1. ASSUME NEW j \in 1..Len(u), InBlock(u[j], a)
            PROVE  Open(free, a) \/ InBlock(b, a)
        <4>1. j = Len(free) + 1 \/ j \in 1..Len(free)
          BY <1>1, <2>2
        <4> QED
          BY <2>2, <3>1, <4>1 DEF Open
      <3>2. ASSUME NEW j \in 1..Len(free), InBlock(free[j], a)
            PROVE  \E l \in 1..Len(u) : InBlock(u[l], a)
        <4>1. j \in 1..Len(u) /\ u[j] = free[j]
          BY <1>1, <2>2
        <4> QED
          BY <3>2, <4>1
      <3>3. ASSUME InBlock(b, a)
            PROVE  \E l \in 1..Len(u) : InBlock(u[l], a)
        <4>1. Len(free) + 1 \in 1..Len(u)
          BY <1>1, <2>2
        <4> QED
          BY <2>2, <3>3, <4>1
      <3> QED
        BY <3>1, <3>2, <3>3 DEF Open
    <2> QED
      BY <2>1, <2>2, <2>3, <2>4 DEF Sorted
  <1>5. CASE after # {}
    <2>1. PICK m : /\ m \in after /\ \A o \in after : m <= o
                   /\ InsertBlock(free, b) = InsertAt(free, m, b)
      <3>1. after \in SUBSET Nat
        BY <1>1
      <3>2. \E k \in after : \A o \in after : k <= o
        BY <3>1, <1>5, LeastNat
      <3>3. PICK m : m = CHOOSE k \in after : \A o \in after : k <= o
        OBVIOUS
      <3>4. m \in after /\ \A o \in after : m <= o
        BY <3>2, <3>3
      <3>5. InsertBlock(free, b) = InsertAt(free, m, b)
        BY <1>5, <3>3 DEF InsertBlock
      <3> HIDE DEF after
      <3> QED
        BY <3>4, <3>5, Zenon
    <2>2. m \in 1..Len(free) /\ m \in Nat
      BY <1>1, <2>1
    <2>3. PICK u : u = InsertBlock(free, b) /\ u = InsertAt(free, m, b)
      BY <2>1
    <2>4. /\ u \in Seq(Block) /\ Len(u) = Len(free) + 1
          /\ \A j \in 1..(Len(free) + 1) :
                u[j] = IF j < m THEN free[j] ELSE IF j = m THEN b ELSE free[j - 1]
      <3>1. m \in 1..Len(free) /\ free \in Seq(Block)
        BY <1>1, <2>2
      <3>2. /\ InsertAt(free, m, b) \in Seq(Block) /\ Len(InsertAt(free, m, b)) = Len(free) + 1
            /\ \A j \in 1..(Len(free) + 1) :
                  InsertAt(free, m, b)[j] = IF j < m THEN free[j] ELSE IF j = m THEN b ELSE free[j - 1]
        BY <3>1, InsertAtFacts
      <3> QED
        BY <2>3, <3>2, Zenon
    <2>5. ASSUME NEW k \in 1..Len(free)
          PROVE  IF k < m THEN LastOf(free[k]) < b.offset ELSE LastOf(b) < free[k].offset
      <3>1. CASE k < m
        <4>1. ~(free[k].offset >= b.offset)
          BY <2>1, <2>2, <3>1
        <4> QED
          BY <1>3, <3>1, <4>1
      <3>2. CASE k = m
        <4>1. free[m].offset >= b.offset
          BY <2>1
        <4> QED
          BY <1>3, <2>2, <3>2, <4>1
      <3>3. CASE m < k
        <4>1. free[m].offset >= b.offset /\ LastOf(free[m]) < free[k].offset
          BY <2>1, <2>2, <3>3 DEF Sorted
        <4>2. free[m].offset \in Nat /\ LastOf(free[m]) \in Nat /\ free[m].offset < LastOf(free[m])
              /\ free[k].offset \in Nat
          BY <1>1, <2>2, BlockFacts
        <4>3. free[k].offset >= b.offset
          BY <1>2, <4>1, <4>2
        <4> QED
          BY <1>3, <2>2, <3>3, <4>3
      <3> QED
        BY <2>2, <3>1, <3>2, <3>3
    <2>6. ASSUME NEW p \in 1..Len(u), NEW q \in 1..Len(u), p < q
          PROVE  LastOf(u[p]) < u[q].offset
      <3>1. CASE q < m
        <4>1. p \in 1..Len(free) /\ q \in 1..Len(free) /\ p < m
          BY <1>1, <2>2, <2>4, <2>6, <3>1
        <4>2. u[p] = free[p] /\ u[q] = free[q]
          BY <2>4, <3>1, <4>1
        <4> QED
          BY <2>6, <4>1, <4>2 DEF Sorted
      <3>2. CASE q = m
        <4>1. p \in 1..Len(free) /\ p < m /\ ~(q < m)
          BY <1>1, <2>2, <2>4, <2>6, <3>2
        <4>2. u[p] = free[p] /\ u[q] = b
          BY <2>4, <3>2, <4>1
        <4> QED
          BY <2>5, <4>1, <4>2
      <3>3. CASE q > m
        <4>1. q - 1 \in 1..Len(free) /\ ~(q < m) /\ q # m /\ ~(q - 1 < m)
          BY <1>1, <2>2, <2>4, <2>6, <3>3
        <4>2. u[q] = free[q - 1]
          BY <2>4, <4>1
        <4>3. CASE p < m
          <5>1. p \in 1..Len(free) /\ p < q - 1
            BY <1>1, <2>2, <2>4, <2>6, <3>3, <4>3
          <5>2. u[p] = free[p]
            BY <2>4, <4>3
          <5> QED
            BY <4>1, <4>2, <5>1, <5>2 DEF Sorted
        <4>4. CASE p = m
          <5>1. u[p] = b
            BY <1>1, <2>2, <2>4, <4>4
          <5>2. LastOf(b) < free[q - 1].offset
            BY <2>5, <4>1
          <5> QED
            BY <4>2, <5>1, <5>2
        <4>5. CASE p > m
          <5>1. p - 1 \in 1..Len(free) /\ ~(p < m) /\ p # m /\ p - 1 < q - 1
            BY <1>1, <2>2, <2>4, <2>6, <4>5
          <5>2. u[p] = free[p - 1]
            BY <2>4, <5>1
          <5> QED
            BY <4>1, <4>2, <5>1, <5>2 DEF Sorted
        <4> QED
          BY <2>2, <4>3, <4>4, <4>5
      <3> QED
        BY <2>2, <3>1, <3>2, <3>3
    <2>7. ASSUME NEW a \in Nat
          PROVE  Open(u, a) <=> Open(free, a) \/ InBlock(b, a)
      <3>1. ASSUME NEW j \in 1..Len(u), InBlock(u[j], a)
            PROVE  Open(free, a) \/ InBlock(b, a)
        <4>1. CASE j < m
          <5>1. j \in 1..Len(free) /\ u[j] = free[j]
            BY <1>1, <2>2, <2>4, <4>1
          <5> QED
            BY <3>1, <5>1 DEF Open
        <4>2. CASE j = m
          BY <1>1, <2>2, <2>4, <3>1, <4>2
        <4>3. CASE j > m
          <5>1. j - 1 \in 1..Len(free) /\ ~(j < m) /\ j # m
            BY <1>1, <2>2, <2>4, <4>3
          <5>2. u[j] = free[j - 1]
            BY <2>4, <5>1
          <5> QED
            BY <3>1, <5>1, <5>2 DEF Open
        <4> QED
          BY <2>2, <4>1, <4>2, <4>3
      <3>2. ASSUME NEW j \in 1..Len(free), InBlock(free[j], a)
            PROVE  \E l \in 1..Len(u) : InBlock(u[l], a)
        <4>1. CASE j < m
          <5>1. j \in 1..Len(u) /\ u[j] = free[j]
            BY <1>1, <2>2, <2>4, <4>1
          <5> QED
            BY <3>2, <5>1
        <4>2. CASE ~(j < m)
          <5>1. j + 1 \in 1..Len(u) /\ ~(j + 1 < m) /\ j + 1 # m /\ j + 1 - 1 = j
            BY <1>1, <2>2, <2>4, <4>2
          <5>2. u[j + 1] = free[j]
            BY <2>4, <5>1
          <5> QED
            BY <3>2, <5>1, <5>2
        <4> QED
          BY <4>1, <4>2
      <3>3. ASSUME InBlock(b, a)
            PROVE  \E l \in 1..Len(u) : InBlock(u[l], a)
        <4>1. m \in 1..Len(u) /\ u[m] = b
          BY <1>1, <2>2, <2>4
        <4> QED
          BY <3>3, <4>1
      <3> QED
        BY <3>1, <3>2, <3>3 DEF Open
    <2> QED
      BY <2>3, <2>4, <2>6, <2>7 DEF Sorted
  <1> QED
    BY <1>4, <1>5

\* Memory is returned: its addresses become free.
LEMMA FreeBlocksFacts ==
    ASSUME NEW free, Sorted(free), NEW o \in Nat, NEW z \in Nat \ {0},
           \A a \in Nat : (o <= a /\ a < o + z) => ~Open(free, a)
    PROVE  /\ Sorted(FreeBlocks(free, o, z))
           /\ \A a \in Nat : Open(FreeBlocks(free, o, z), a) <=> Open(free, a) \/ (o <= a /\ a < o + z)
  <1>0. z \in Nat /\ z > 0
    OBVIOUS
  <1>1. free \in Seq(Block) /\ Len(free) \in Nat
    BY DEF Sorted
  <1>2. ASSUME NEW k \in 1..Len(free)
        PROVE  /\ free[k].offset \in Nat /\ LastOf(free[k]) \in Nat /\ free[k].offset < LastOf(free[k])
               /\ LastOf(free[k]) <= o \/ o + z <= free[k].offset
    <2>1. PICK p \in Nat, q \in Nat : p = free[k].offset /\ q = LastOf(free[k]) /\ p < q
      BY <1>1, BlockFacts
    <2>2. ASSUME NEW a \in Nat, o <= a, a < o + z, p <= a, a < q PROVE FALSE
      <3>1. InBlock(free[k], a)
        BY <2>1, <2>2 DEF InBlock
      <3>2. Open(free, a)
        BY <3>1 DEF Open
      <3> QED
        BY <2>2, <3>2
    <2>3. ~(o <= p /\ p < o + z)
      BY <2>1, <2>2
    <2>4. ~(p <= o /\ o < q)
      BY <2>1, <2>2
    <2>5. q <= o \/ o + z <= p
      BY <2>1, <2>3, <2>4
    <2> QED
      BY <2>1, <2>5
  <1> DEFINE touches(k) == LastOf(free[k]) = o \/ o + z = free[k].offset
             near       == {k \in 1..Len(free) : touches(k)}
             returned(a) == o <= a /\ a < o + z
  <1>3. CASE near = {}
    <2>1. PICK b \in Block : b = [offset |-> o, size |-> z] /\ b.offset = o /\ LastOf(b) = o + z
      BY <1>0, SomeBlock
    <2>2. FreeBlocks(free, o, z) = InsertBlock(free, b)
      BY <1>3, <2>1 DEF FreeBlocks
    <2>3. ASSUME NEW k \in 1..Len(free)
          PROVE  LastOf(free[k]) < b.offset \/ LastOf(b) < free[k].offset
      <3>1. LastOf(free[k]) # o /\ o + z # free[k].offset
        BY <1>3
      <3>2. LastOf(free[k]) <= o \/ o + z <= free[k].offset
        BY <1>2, Zenon
      <3>3. LastOf(free[k]) \in Nat /\ free[k].offset \in Nat
        BY <1>2, Zenon
      <3>4. LastOf(free[k]) < o \/ o + z < free[k].offset
        BY <3>1, <3>2, <3>3
      <3> QED
        BY <2>1, <3>4
    <2>4. \A a \in Nat : InBlock(b, a) <=> returned(a)
      BY <2>1 DEF InBlock
    <2> QED
      BY <2>2, <2>3, <2>4, InsertFacts
  <1>4. CASE near # {}
    <2>1. PICK m : /\ m \in 1..Len(free) /\ touches(m) /\ \A k \in 1..Len(free) : touches(k) => m <= k
                   /\ FreeBlocks(free, o, z)
                        = IF LastOf(free[m]) = o
                          THEN MergeNext([free EXCEPT ![m] = [offset |-> free[m].offset,
                                                              size |-> free[m].size + z]], m)
                          ELSE [free EXCEPT ![m] = [offset |-> o, size |-> free[m].size + z]]
      <3>1. near \in SUBSET Nat
        BY <1>1
      <3>2. \E k \in near : \A l \in near : k <= l
        BY <3>1, <1>4, LeastNat
      <3>3. PICK m : m = CHOOSE k \in near : \A l \in near : k <= l
        OBVIOUS
      <3>4. m \in near /\ \A l \in near : m <= l
        BY <3>2, <3>3
      <3>5. FreeBlocks(free, o, z)
                        = IF LastOf(free[m]) = o
                          THEN MergeNext([free EXCEPT ![m] = [offset |-> free[m].offset,
                                                              size |-> free[m].size + z]], m)
                          ELSE [free EXCEPT ![m] = [offset |-> o, size |-> free[m].size + z]]
        BY <1>4, <3>3 DEF FreeBlocks
      <3>6. m \in 1..Len(free) /\ touches(m) /\ \A k \in 1..Len(free) : touches(k) => m <= k
        BY <3>4
      <3> HIDE DEF near, touches
      <3> QED
        BY <3>5, <3>6, Zenon
    <2>2. PICK p \in Nat, s \in Nat, q \in Nat :
              /\ p = free[m].offset /\ s = free[m].size /\ q = LastOf(free[m])
              /\ q = p + s /\ s > 0 /\ m \in Nat /\ m >= 1 /\ m <= Len(free)
      BY <1>1, <2>1, BlockFacts
    <2>3. ASSUME NEW a \in Nat
          PROVE  /\ InBlock(free[m], a) <=> p <= a /\ a < q
                 /\ Open(free, a) <=> InBlock(free[m], a) \/ \E l \in 1..Len(free) : l # m /\ InBlock(free[l], a)
      <3>1. InBlock(free[m], a) <=> p <= a /\ a < q
        BY <2>2 DEF InBlock
      <3> QED
        BY <2>1, <3>1 DEF Open
    <2>4. ASSUME NEW l \in 1..Len(free)
          PROVE  /\ l < m => LastOf(free[l]) < p /\ LastOf(free[l]) # o
                 /\ m < l => q < free[l].offset
      <3>1. l < m => LastOf(free[l]) < p /\ ~touches(l)
        BY <1>1, <2>1, <2>2 DEF Sorted
      <3>2. m < l => q < free[l].offset
        BY <2>1, <2>2 DEF Sorted
      <3> QED
        BY <3>1, <3>2
    <2>5. CASE q # o
      <3>1. o + z = p
        BY <2>1, <2>2, <2>5
      <3>2. PICK b \in Block : b = [offset |-> o, size |-> s + z] /\ b.offset = o /\ LastOf(b) = q
        <4>1. q = p + s /\ s > 0
          BY <2>2, Zenon
        <4>2. PICK n \in Nat : n = s + z /\ n > 0 /\ o + n = q
          BY <1>0, <3>1, <4>1
        <4>3. PICK b \in Block : b = [offset |-> o, size |-> n] /\ b.offset = o /\ LastOf(b) = o + n
          BY <4>2, SomeBlock, ZenonT(40)
        <4> QED
          BY <4>2, <4>3
      <3>3. FreeBlocks(free, o, z) = [free EXCEPT ![m] = b]
        BY <2>1, <2>2, <2>5, <3>2
      <3>4. ASSUME NEW l \in 1..Len(free)
            PROVE  /\ l < m => LastOf(free[l]) < b.offset
                   /\ m < l => LastOf(b) < free[l].offset
        <4>1. ASSUME l < m PROVE LastOf(free[l]) < o
          <5>1. LastOf(free[l]) < p /\ LastOf(free[l]) # o
            BY <2>4, <4>1
          <5>2. LastOf(free[l]) <= o \/ o + z <= free[l].offset
            BY <1>2
          <5>3. LastOf(free[l]) \in Nat /\ free[l].offset \in Nat /\ free[l].offset < LastOf(free[l])
            BY <1>2
          <5> QED
            BY <3>1, <5>1, <5>2, <5>3
        <4> QED
          BY <2>4, <3>2, <4>1
      <3>5. ASSUME NEW a \in Nat PROVE InBlock(b, a) <=> InBlock(free[m], a) \/ returned(a)
        <4>1. InBlock(b, a) <=> o <= a /\ a < q
          BY <3>2 DEF InBlock
        <4> QED
          BY <2>2, <2>3, <3>1, <4>1
      <3>6. /\ Sorted([free EXCEPT ![m] = b])
            /\ \A a \in Nat : Open([free EXCEPT ![m] = b], a) <=>
                  InBlock(b, a) \/ \E l \in 1..Len(free) : l # m /\ InBlock(free[l], a)
        BY <2>1, <3>4, ReplaceBlock
      <3>7. ASSUME NEW a \in Nat
            PROVE  Open([free EXCEPT ![m] = b], a) <=> Open(free, a) \/ returned(a)
        BY <2>3, <3>5, <3>6, Zenon
      <3> QED
        BY <3>3, <3>6, <3>7, Zenon
    <2>6. CASE q = o
      <3>1. PICK b \in Block : b = [offset |-> p, size |-> s + z] /\ b.offset = p /\ b.size = s + z /\ LastOf(b) = o + z
        <4>1. q = p + s /\ s > 0
          BY <2>2, Zenon
        <4>2. PICK n \in Nat : n = s + z /\ n > 0 /\ p + n = o + z
          BY <1>0, <2>6, <4>1
        <4>3. PICK b \in Block : b = [offset |-> p, size |-> n] /\ b.offset = p /\ b.size = n /\ LastOf(b) = p + n
          BY <4>2, SomeBlock
        <4> QED
          BY <4>2, <4>3
      <3>2. PICK grown : /\ grown = [free EXCEPT ![m] = b] /\ FreeBlocks(free, o, z) = MergeNext(grown, m)
                         /\ grown \in Seq(Block) /\ Len(grown) = Len(free)
                         /\ \A j \in 1..Len(free) : grown[j] = IF j = m THEN b ELSE free[j]
        <4>1. FreeBlocks(free, o, z) = MergeNext([free EXCEPT ![m] = b], m)
          BY <2>1, <2>2, <2>6, <3>1
        <4>2. /\ [free EXCEPT ![m] = b] \in Seq(Block) /\ Len([free EXCEPT ![m] = b]) = Len(free)
              /\ \A j \in 1..Len(free) : [free EXCEPT ![m] = b][j] = IF j = m THEN b ELSE free[j]
          BY <1>1, <2>1, ExceptSeq
        <4> QED
          BY <4>1, <4>2, Zenon
      <3>3. ASSUME NEW l \in 1..Len(free)
            PROVE  /\ l < m => LastOf(free[l]) < p
                   /\ m < l => o + z <= free[l].offset
        <4>1. ASSUME m < l PROVE o + z <= free[l].offset
          <5>1. o < free[l].offset
            BY <2>4, <2>6, <4>1
          <5>2. LastOf(free[l]) <= o \/ o + z <= free[l].offset
            BY <1>2
          <5>3. LastOf(free[l]) \in Nat /\ free[l].offset \in Nat /\ free[l].offset < LastOf(free[l])
            BY <1>2
          <5> QED
            BY <5>1, <5>2, <5>3
        <4> QED
          BY <2>4, <4>1
      <3>4. CASE ~(m < Len(free) /\ o + z = free[m + 1].offset)
        <4>1. FreeBlocks(free, o, z) = [free EXCEPT ![m] = b]
          <5>1. grown[m] = b
            BY <2>1, <3>2
          <5>2. m < Len(free) => grown[m + 1] = free[m + 1]
            BY <2>2, <3>2
          <5>3. ~(m < Len(grown) /\ LastOf(grown[m]) = grown[m + 1].offset)
            BY <3>1, <3>2, <3>4, <5>1, <5>2
          <5> QED
            BY <3>2, <5>3 DEF MergeNext
        <4>2. ASSUME NEW l \in 1..Len(free)
              PROVE  /\ l < m => LastOf(free[l]) < b.offset
                     /\ m < l => LastOf(b) < free[l].offset
          <5>1. ASSUME m < l PROVE o + z < free[l].offset
            <6>1. m + 1 \in 1..Len(free) /\ m < m + 1 /\ m < Len(free)
              BY <1>1, <2>2, <5>1
            <6>2. o + z <= free[m + 1].offset /\ o + z # free[m + 1].offset
              BY <3>3, <3>4, <6>1
            <6>3. CASE l = m + 1
              <7>1. free[m + 1].offset \in Nat
                BY <1>2, <6>1
              <7> QED
                BY <6>2, <6>3, <7>1
            <6>4. CASE m + 1 < l
              <7>1. LastOf(free[m + 1]) < free[l].offset
                BY <6>1, <6>4 DEF Sorted
              <7>2. free[m + 1].offset \in Nat /\ LastOf(free[m + 1]) \in Nat /\ free[l].offset \in Nat
                    /\ free[m + 1].offset < LastOf(free[m + 1])
                BY <1>2, <6>1
              <7> QED
                BY <6>2, <7>1, <7>2
            <6> QED
              BY <2>2, <5>1, <6>3, <6>4
          <5> QED
            BY <3>1, <3>3, <5>1
        <4>3. ASSUME NEW a \in Nat PROVE InBlock(b, a) <=> InBlock(free[m], a) \/ returned(a)
          <5>1. InBlock(b, a) <=> p <= a /\ a < o + z
            BY <3>1 DEF InBlock
          <5> QED
            BY <2>2, <2>3, <2>6, <5>1
        <4>4. /\ Sorted([free EXCEPT ![m] = b])
              /\ \A a \in Nat : Open([free EXCEPT ![m] = b], a) <=>
                    InBlock(b, a) \/ \E l \in 1..Len(free) : l # m /\ InBlock(free[l], a)
          BY <2>1, <4>2, ReplaceBlock
        <4>5. ASSUME NEW a \in Nat
              PROVE  Open([free EXCEPT ![m] = b], a) <=> Open(free, a) \/ returned(a)
          BY <2>3, <4>3, <4>4, Zenon
        <4> QED
          BY <4>1, <4>4, <4>5, Zenon
      <3>5. CASE m < Len(free) /\ o + z = free[m + 1].offset
        <4>1. m + 1 \in 1..Len(free) /\ m \in 1..(Len(free) - 1) /\ m < m + 1
          BY <1>1, <2>2, <3>5
        <4>2. PICK v \in Nat, w \in Nat : v = free[m + 1].size /\ w = LastOf(free[m + 1]) /\ w = o + z + v
          BY <1>1, <3>5, <4>1, BlockFacts
        <4>3. PICK d \in Block : d = [offset |-> p, size |-> b.size + v] /\ d.offset = p /\ LastOf(d) = w
          <5>1. q = p + s /\ s > 0 /\ b.size = s + z /\ w = o + z + v
            BY <2>2, <3>1, <4>2, Zenon
          <5>2. PICK n \in Nat : n = (s + z) + v /\ n > 0 /\ p + n = w
            <6>1. PICK n \in Nat : n = (s + z) + v
              BY <1>0
            <6>2. o = p + s /\ w = o + z + v
              BY <2>6, <5>1
            <6>3. n > 0 /\ p + n = w
              BY <1>0, <6>1, <6>2
            <6> QED
              BY <6>1, <6>3
          <5>3. PICK d \in Block : d = [offset |-> p, size |-> n] /\ d.offset = p /\ LastOf(d) = p + n
            BY <5>2, SomeBlock, ZenonT(40)
          <5> QED
            BY <5>1, <5>2, <5>3
        <4>4. PICK rest : /\ rest = RemoveAt(free, m + 1) /\ Sorted(rest) /\ Len(rest) = Len(free) - 1
                          /\ rest \in Seq(Block)
                          /\ \A j \in 1..(Len(free) - 1) : rest[j] = IF j < m + 1 THEN free[j] ELSE free[j + 1]
                          /\ \A a \in Nat : Open(rest, a) <=>
                                \E l \in 1..Len(free) : l # m + 1 /\ InBlock(free[l], a)
          <5>1. /\ RemoveAt(free, m + 1) \in Seq(Block) /\ Len(RemoveAt(free, m + 1)) = Len(free) - 1
                /\ \A j \in 1..(Len(free) - 1) :
                      RemoveAt(free, m + 1)[j] = IF j < m + 1 THEN free[j] ELSE free[j + 1]
            BY <1>1, <4>1, RemoveAtFacts
          <5>2. /\ Sorted(RemoveAt(free, m + 1))
                /\ \A a \in Nat : Open(RemoveAt(free, m + 1), a) <=>
                      \E l \in 1..Len(free) : l # m + 1 /\ InBlock(free[l], a)
            BY <4>1, RemoveBlock
          <5> QED
            BY <5>1, <5>2, Zenon
        <4>5. FreeBlocks(free, o, z) = [rest EXCEPT ![m] = d]
          <5>1. grown[m] = b /\ grown[m + 1] = free[m + 1]
            BY <2>1, <2>2, <3>2, <4>1
          <5>2. m < Len(grown) /\ LastOf(grown[m]) = grown[m + 1].offset
            BY <3>1, <3>2, <3>5, <5>1
          <5>3. MergeNext(grown, m) = [RemoveAt(grown, m + 1) EXCEPT ![m] = d]
            <6>1. MergeNext(grown, m)
                    = [RemoveAt(grown, m + 1) EXCEPT ![m] =
                         [offset |-> grown[m].offset, size |-> grown[m].size + grown[m + 1].size]]
              BY <5>2 DEF MergeNext
            <6>2. [offset |-> grown[m].offset, size |-> grown[m].size + grown[m + 1].size] = d
              BY <3>1, <4>2, <4>3, <5>1
            <6> QED
              BY <6>1, <6>2, Zenon
          <5>4. PICK u : /\ u = RemoveAt(grown, m + 1) /\ u \in Seq(Block) /\ Len(u) = Len(free) - 1
                         /\ \A j \in 1..(Len(free) - 1) : u[j] = IF j < m + 1 THEN grown[j] ELSE grown[j + 1]
            <6>1. m + 1 \in 1..Len(grown) /\ grown \in Seq(Block)
              BY <3>2, <4>1
            <6>2. /\ RemoveAt(grown, m + 1) \in Seq(Block) /\ Len(RemoveAt(grown, m + 1)) = Len(grown) - 1
                  /\ \A j \in 1..(Len(grown) - 1) :
                        RemoveAt(grown, m + 1)[j] = IF j < m + 1 THEN grown[j] ELSE grown[j + 1]
              BY <6>1, RemoveAtFacts
            <6> QED
              BY <3>2, <6>2
          <5>5. ASSUME NEW j \in 1..(Len(free) - 1), j # m PROVE u[j] = rest[j]
            <6>1. CASE j < m + 1
              <7>1. j \in 1..Len(free)
                BY <1>1
              <7> QED
                BY <3>2, <4>4, <5>4, <5>5, <6>1, <7>1
            <6>2. CASE ~(j < m + 1)
              <7>1. j + 1 \in 1..Len(free) /\ j + 1 # m
                BY <1>1, <2>2, <6>2
              <7> QED
                BY <3>2, <4>4, <5>4, <6>2, <7>1
            <6> QED
              BY <6>1, <6>2
          <5>6. [u EXCEPT ![m] = d] = [rest EXCEPT ![m] = d]
            <6>1. /\ [u EXCEPT ![m] = d] \in Seq(Block) /\ Len([u EXCEPT ![m] = d]) = Len(u)
                  /\ \A j \in 1..Len(u) : [u EXCEPT ![m] = d][j] = IF j = m THEN d ELSE u[j]
              BY <4>1, <5>4, ExceptSeq
            <6>2. /\ [rest EXCEPT ![m] = d] \in Seq(Block) /\ Len([rest EXCEPT ![m] = d]) = Len(rest)
                  /\ \A j \in 1..Len(rest) : [rest EXCEPT ![m] = d][j] = IF j = m THEN d ELSE rest[j]
              BY <4>1, <4>4, ExceptSeq
            <6>3. \A j \in 1..Len(u) : [u EXCEPT ![m] = d][j] = [rest EXCEPT ![m] = d][j]
              BY <4>4, <5>4, <5>5, <6>1, <6>2
            <6>4. Len([u EXCEPT ![m] = d]) = Len([rest EXCEPT ![m] = d])
              BY <4>4, <5>4, <6>1, <6>2
            <6> QED
              BY <6>1, <6>2, <6>3, <6>4, SeqEqual
          <5> QED
            BY <3>2, <5>3, <5>4, <5>6
        <4>6. m \in 1..Len(rest) /\ rest[m] = free[m]
          BY <2>2, <4>1, <4>4
        <4>7. ASSUME NEW l \in 1..Len(rest)
              PROVE  /\ l < m => LastOf(rest[l]) < d.offset
                     /\ m < l => LastOf(d) < rest[l].offset
          <5>1. ASSUME l < m PROVE LastOf(rest[l]) < p
            <6>1. l \in 1..Len(free) /\ l \in 1..(Len(free) - 1) /\ l < m + 1
              BY <1>1, <2>2, <4>4, <5>1
            <6>2. rest[l] = free[l]
              BY <4>4, <6>1
            <6> QED
              BY <3>3, <5>1, <6>1, <6>2
          <5>2. ASSUME m < l PROVE w < rest[l].offset
            <6>1. l + 1 \in 1..Len(free) /\ rest[l] = free[l + 1] /\ m + 1 < l + 1
              BY <1>1, <2>2, <4>4, <5>2
            <6> QED
              BY <4>1, <4>2, <6>1 DEF Sorted
          <5> QED
            BY <4>3, <5>1, <5>2
        <4>8. /\ Sorted([rest EXCEPT ![m] = d])
              /\ \A a \in Nat : Open([rest EXCEPT ![m] = d], a) <=>
                    InBlock(d, a) \/ \E l \in 1..Len(rest) : l # m /\ InBlock(rest[l], a)
          BY <4>4, <4>6, <4>7, ReplaceBlock
        <4>9. ASSUME NEW a \in Nat
              PROVE  InBlock(d, a) <=> InBlock(free[m], a) \/ returned(a) \/ InBlock(free[m + 1], a)
          <5>1. InBlock(d, a) <=> p <= a /\ a < w
            BY <4>3 DEF InBlock
          <5>2. InBlock(free[m + 1], a) <=> o + z <= a /\ a < w
            BY <3>5, <4>2 DEF InBlock
          <5>3. InBlock(free[m], a) <=> p <= a /\ a < o
            BY <2>3, <2>6
          <5>4. p <= o /\ o < o + z /\ o + z <= w
            BY <2>2, <2>6, <4>2, SMTT(30)
          <5> QED
            BY <4>2, <5>1, <5>2, <5>3, <5>4
        <4>10. ASSUME NEW a \in Nat
               PROVE  Open([rest EXCEPT ![m] = d], a) <=> Open(free, a) \/ returned(a)
          <5>1. ASSUME NEW l \in 1..Len(rest), l # m, InBlock(rest[l], a)
                PROVE  Open(free, a)
            <6>1. Open(rest, a)
              BY <5>1 DEF Open
            <6> QED
              BY <4>4, <6>1 DEF Open
          <5>2. ASSUME NEW l \in 1..Len(free), InBlock(free[l], a), l # m, l # m + 1
                PROVE  \E k \in 1..Len(rest) : k # m /\ InBlock(rest[k], a)
            <6>1. Open(rest, a)
              BY <4>4, <5>2
            <6>2. PICK k \in 1..Len(rest) : InBlock(rest[k], a)
              BY <6>1 DEF Open
            <6>3. ~InBlock(free[m], a)
              BY <2>1, <5>2, OneBlock
            <6>4. k # m
              BY <4>6, <6>2, <6>3
            <6> QED
              BY <6>2, <6>4
          <5>3. ASSUME Open(free, a)
                PROVE  InBlock(d, a) \/ \E k \in 1..Len(rest) : k # m /\ InBlock(rest[k], a)
            <6>1. PICK l \in 1..Len(free) : InBlock(free[l], a)
              BY <5>3 DEF Open
            <6>2. CASE l = m \/ l = m + 1
              BY <4>9, <6>1, <6>2
            <6>3. CASE l # m /\ l # m + 1
              BY <5>2, <6>1, <6>3
            <6> QED
              BY <6>2, <6>3
          <5>4. InBlock(free[m], a) \/ InBlock(free[m + 1], a) => Open(free, a)
            BY <2>1, <4>1 DEF Open
          <5> QED
            BY <4>8, <4>9, <5>1, <5>3, <5>4, Zenon
        <4> QED
          BY <4>5, <4>8, <4>10, Zenon
      <3> QED
        BY <3>4, <3>5
    <2> QED
      BY <2>5, <2>6
  <1> QED
    BY <1>3, <1>4
-----------------------------------------------------------------------------
(* The books stay balanced.                                                *)

LEMMA TakenBalanced ==
    ASSUME NEW ch, NEW x, NEW ad, NEW O, Balanced(ch, x, ad, O),
           NEW t, t \notin O, NEW ad2, \A u \in O : ad2[u] = ad[u],
           NEW new, x[t].size \in Nat \ {0}, Taken(ch, new, ad2[t], x[t].size)
    PROVE  Balanced(new, x, ad2, O \cup {t})
  <1>1. ch \in Seq(Chunk) /\ Len(ch) \in Nat /\ new \in Seq(Chunk) /\ Len(new) = Len(ch)
        /\ \A c \in 1..Len(new) : Sorted(new[c].free)
    BY DEF Balanced, Taken
  <1>2. PICK o \in Nat, z \in Nat : o = ad2[t].offset /\ z = x[t].size /\ z > 0
    BY DEF Taken, Place
  <1>3. ASSUME NEW c \in 1..Len(ch), NEW a \in Nat
        PROVE  /\ Holds(x, ad2, t, c, a) => Open(ch[c].free, a)
               /\ Open(new[c].free, a) <=> Open(ch[c].free, a) /\ ~Holds(x, ad2, t, c, a)
               /\ \A u \in O : Holds(x, ad2, u, c, a) <=> Holds(x, ad, u, c, a)
               /\ \A u \in O : Holds(x, ad, u, c, a) => ~Open(ch[c].free, a)
               /\ \A u, v \in O : (Holds(x, ad, u, c, a) /\ Holds(x, ad, v, c, a)) => v = u
    <2>1. /\ Holds(x, ad2, t, c, a) => Open(ch[c].free, a)
          /\ Open(new[c].free, a) <=> Open(ch[c].free, a) /\ ~Holds(x, ad2, t, c, a)
      BY DEF Taken, Holds
    <2>2. \A u \in O : Holds(x, ad2, u, c, a) <=> Holds(x, ad, u, c, a)
      BY DEF Holds
    <2>3. \A u \in O : Holds(x, ad, u, c, a) =>
              ~Open(ch[c].free, a) /\ \A v \in O : Holds(x, ad, v, c, a) => v = u
      BY DEF Balanced
    <2> QED
      BY <2>1, <2>2, <2>3, Zenon
  <1>4. ASSUME NEW u \in O \cup {t}
        PROVE  /\ ad2[u] \in Place /\ x[u].size \in Nat \ {0} /\ ad2[u].chunk \in 1..Len(new)
               /\ ad2[u].offset + x[u].size <= new[ad2[u].chunk].max_size
    <2>1. CASE u = t
      BY <1>1, <2>1 DEF Taken
    <2>2. CASE u # t
      <3>1. /\ ad2[u] = ad[u] /\ ad[u] \in Place /\ x[u].size \in Nat \ {0} /\ ad[u].chunk \in 1..Len(ch)
            /\ ad[u].offset + x[u].size <= ch[ad[u].chunk].max_size
        BY <2>2 DEF Balanced
      <3>2. PICK p \in Nat, q \in Nat, r \in Nat :
                /\ p = ad[u].offset + x[u].size /\ q = ch[ad[u].chunk].max_size
                /\ r = new[ad[u].chunk].max_size /\ r >= q
        <4>1. ch[ad[u].chunk] \in Chunk /\ new[ad[u].chunk] \in Chunk
          BY <1>1, <3>1
        <4>2. new[ad[u].chunk].max_size >= ch[ad[u].chunk].max_size
          BY <3>1 DEF Taken
        <4>3. PICK e \in Nat, n \in Nat : e = ad[u].offset /\ n = x[u].size
          BY <3>1 DEF Place
        <4>4. PICK q \in Nat, r \in Nat :
                  q = ch[ad[u].chunk].max_size /\ r = new[ad[u].chunk].max_size /\ r >= q
          BY <4>1, <4>2 DEF Chunk
        <4>5. e + n \in Nat
          OBVIOUS
        <4> QED
          BY <4>3, <4>4, <4>5, Zenon
      <3>3. p <= r
        BY <3>1, <3>2
      <3> QED
        BY <1>1, <3>1, <3>2, <3>3
    <2> QED
      BY <2>1, <2>2
  <1>5. ASSUME NEW c \in 1..Len(new), NEW a \in Nat, NEW v \in O \cup {t}, Holds(x, ad2, v, c, a)
        PROVE  ~Open(new[c].free, a) /\ \A u \in O \cup {t} : Holds(x, ad2, u, c, a) => u = v
    <2>1. c \in 1..Len(ch)
      BY <1>1
    <2>2. CASE v = t
      <3>1. Open(ch[c].free, a) /\ ~Open(new[c].free, a)
        BY <1>3, <1>5, <2>1, <2>2, Zenon
      <3>2. \A u \in O : ~Holds(x, ad2, u, c, a)
        BY <1>3, <2>1, <3>1, Zenon
      <3> QED
        BY <2>2, <3>1, <3>2, Zenon
    <2>3. CASE v \in O
      <3>1. Holds(x, ad, v, c, a)
        BY <1>3, <1>5, <2>1, <2>3, Zenon
      <3>2. ~Open(ch[c].free, a)
        BY <1>3, <2>1, <2>3, <3>1, Zenon
      <3>3. ~Holds(x, ad2, t, c, a) /\ ~Open(new[c].free, a)
        BY <1>3, <2>1, <3>2, Zenon
      <3>4. \A u \in O : Holds(x, ad2, u, c, a) => u = v
        BY <1>3, <2>1, <2>3, <3>1, Zenon
      <3> QED
        BY <3>3, <3>4, Zenon
    <2> QED
      BY <2>2, <2>3
  <1>6. ASSUME NEW c \in 1..Len(new), NEW a \in Nat
        PROVE  Used(new, x, ad2, O \cup {t}, c, a) <=> Used(ch, x, ad, O, c, a)
    <2>1. c \in 1..Len(ch)
      BY <1>1
    <2> QED
      BY <1>3, <2>1, Zenon DEF Used
  <1>7. ASSUME NEW c \in 1..Len(new), NEW a \in Nat, NEW b \in Nat,
               a < b, Used(new, x, ad2, O \cup {t}, c, b)
        PROVE  Used(new, x, ad2, O \cup {t}, c, a)
    <2>1. Used(ch, x, ad, O, c, b)
      BY <1>6, <1>7
    <2>2. Used(ch, x, ad, O, c, a)
      BY <1>1, <1>7, <2>1 DEF Balanced
    <2> QED
      BY <1>6, <2>2
  <1>8. ASSUME NEW c \in 1..Len(new), new[c].max_size > 0
        PROVE  Used(new, x, ad2, O \cup {t}, c, new[c].max_size - 1)
    <2>0. c \in 1..Len(ch) /\ new[c] \in Chunk
      BY <1>1
    <2>1. c \in 1..Len(ch) /\ new[c].max_size \in Nat
      BY <2>0 DEF Chunk
    <2>2. new[c].max_size - 1 \in Nat
      BY <1>8, <2>1
    <2>3. CASE new[c].max_size = ch[c].max_size
      <3>1. Used(ch, x, ad, O, c, new[c].max_size - 1)
        BY <1>8, <2>1, <2>3 DEF Balanced
      <3> QED
        BY <1>6, <2>2, <3>1
    <2>4. CASE c = ad2[t].chunk /\ new[c].max_size = ad2[t].offset + x[t].size
      <3>1. new[c].max_size = o + z
        BY <1>2, <2>4
      <3>2. o <= new[c].max_size - 1 /\ new[c].max_size - 1 < o + z
        BY <1>2, <3>1
      <3>3. Holds(x, ad2, t, c, new[c].max_size - 1)
        BY <1>2, <2>4, <3>2, Zenon DEF Holds, In
      <3> QED
        BY <3>3, Zenon DEF Used
    <2> QED
      BY <2>1, <2>3, <2>4 DEF Taken
  <1> QED
    BY <1>1, <1>4, <1>5, <1>7, <1>8, Zenon DEF Balanced

\* Tensor t takes over the memory of p.
LEMMA TakeOverBalanced ==
    ASSUME NEW ch, NEW x, NEW ad, NEW O, Balanced(ch, x, ad, O),
           NEW p \in O, NEW t, t \notin O, NEW ad2, \A u \in O : ad2[u] = ad[u],
           ad2[t] = ad[p], x[t].size = x[p].size
    PROVE  Balanced(ch, x, ad2, (O \ {p}) \cup {t})
  <1> DEFINE O2 == (O \ {p}) \cup {t}
  <1>1. ASSUME NEW c, NEW a
        PROVE  /\ \A u \in O : Holds(x, ad2, u, c, a) <=> Holds(x, ad, u, c, a)
               /\ Holds(x, ad2, t, c, a) <=> Holds(x, ad, p, c, a)
    BY Zenon DEF Holds
  <1>2. ASSUME NEW c \in 1..Len(ch), NEW a \in Nat
        PROVE  /\ \A u \in O : Holds(x, ad, u, c, a) => ~Open(ch[c].free, a)
               /\ \A u, v \in O : (Holds(x, ad, u, c, a) /\ Holds(x, ad, v, c, a)) => v = u
    BY Zenon DEF Balanced
  <1>3. ASSUME NEW u \in O2
        PROVE  /\ ad2[u] \in Place /\ x[u].size \in Nat \ {0} /\ ad2[u].chunk \in 1..Len(ch)
               /\ ad2[u].offset + x[u].size <= ch[ad2[u].chunk].max_size
    <2>1. CASE u = t
      BY <2>1 DEF Balanced
    <2>2. CASE u \in O
      BY <2>2 DEF Balanced
    <2> QED
      BY <2>1, <2>2
  <1>4. ASSUME NEW c \in 1..Len(ch), NEW a \in Nat, NEW v \in O2, Holds(x, ad2, v, c, a)
        PROVE  ~Open(ch[c].free, a) /\ \A u \in O2 : Holds(x, ad2, u, c, a) => u = v
    <2>1. CASE v = t
      <3>1. Holds(x, ad, p, c, a)
        BY <1>1, <1>4, <2>1
      <3>2. ASSUME NEW u \in O \ {p} PROVE ~Holds(x, ad2, u, c, a)
        BY <1>1, <1>2, <3>1, <3>2
      <3> QED
        BY <1>2, <2>1, <3>1, <3>2
    <2>2. CASE v \in O \ {p}
      <3>1. Holds(x, ad, v, c, a) /\ ~Holds(x, ad, p, c, a)
        BY <1>1, <1>2, <1>4, <2>2
      <3>2. ASSUME NEW u \in O \ {p}, Holds(x, ad2, u, c, a) PROVE u = v
        BY <1>1, <1>2, <2>2, <3>1, <3>2
      <3> QED
        BY <1>1, <1>2, <2>2, <3>1, <3>2
    <2> QED
      BY <2>1, <2>2
  <1>5. ASSUME NEW c, NEW a
        PROVE  Used(ch, x, ad2, O2, c, a) <=> Used(ch, x, ad, O, c, a)
    BY <1>1, Zenon DEF Used
  <1> HIDE DEF O2
  <1>6. Balanced(ch, x, ad2, O2)
    BY <1>3, <1>4, <1>5, Zenon DEF Balanced
  <1> QED
    BY <1>6 DEF O2

LEMMA FreedBalanced ==
    ASSUME NEW ch, NEW x, NEW ad, NEW O, Balanced(ch, x, ad, O),
           NEW p \in O, NEW new, Freed(ch, new, ad[p], x[p].size)
    PROVE  Balanced(new, x, ad, O \ {p})
  <1>1. ch \in Seq(Chunk) /\ new \in Seq(Chunk) /\ Len(new) = Len(ch)
        /\ \A c \in 1..Len(new) : Sorted(new[c].free) /\ new[c].max_size = ch[c].max_size
    BY DEF Balanced, Freed
  <1>2. ASSUME NEW c \in 1..Len(ch), NEW a \in Nat
        PROVE  /\ Open(new[c].free, a) <=> Open(ch[c].free, a) \/ Holds(x, ad, p, c, a)
               /\ \A u \in O : Holds(x, ad, u, c, a) => ~Open(ch[c].free, a)
               /\ \A u, v \in O : (Holds(x, ad, u, c, a) /\ Holds(x, ad, v, c, a)) => v = u
    <2>1. Open(new[c].free, a) <=> Open(ch[c].free, a) \/ Holds(x, ad, p, c, a)
      BY Zenon DEF Freed, Holds
    <2>2. \A u \in O : Holds(x, ad, u, c, a) =>
              ~Open(ch[c].free, a) /\ \A v \in O : Holds(x, ad, v, c, a) => v = u
      BY DEF Balanced
    <2> QED
      BY <2>1, <2>2, Zenon
  <1>3. ASSUME NEW c \in 1..Len(ch), NEW a \in Nat
        PROVE  Used(new, x, ad, O \ {p}, c, a) <=> Used(ch, x, ad, O, c, a)
    BY <1>2, Zenon DEF Used
  <1>4. ASSUME NEW u \in O \ {p}
        PROVE  /\ ad[u] \in Place /\ x[u].size \in Nat \ {0} /\ ad[u].chunk \in 1..Len(new)
               /\ ad[u].offset + x[u].size <= new[ad[u].chunk].max_size
    BY <1>1 DEF Balanced
  <1>5. ASSUME NEW c \in 1..Len(ch), NEW a \in Nat, NEW v \in O \ {p}, Holds(x, ad, v, c, a)
        PROVE  ~Open(new[c].free, a) /\ \A u \in O \ {p} : Holds(x, ad, u, c, a) => u = v
    BY <1>2, <1>5, Zenon
  <1>6. ASSUME NEW c \in 1..Len(ch), NEW a \in Nat, NEW b \in Nat, a < b, Used(new, x, ad, O \ {p}, c, b)
        PROVE  Used(new, x, ad, O \ {p}, c, a)
    <2>1. Used(ch, x, ad, O, c, b)
      BY <1>3, <1>6
    <2>2. Used(ch, x, ad, O, c, a)
      BY <1>6, <2>1 DEF Balanced
    <2> QED
      BY <1>3, <2>2
  <1>7. ASSUME NEW c \in 1..Len(ch), new[c].max_size > 0
        PROVE  Used(new, x, ad, O \ {p}, c, new[c].max_size - 1)
    <2>0. new[c].max_size = ch[c].max_size /\ new[c] \in Chunk
      BY <1>1
    <2>1. new[c].max_size = ch[c].max_size /\ new[c].max_size - 1 \in Nat
      <3>1. new[c].max_size \in Nat /\ new[c].max_size > 0
        BY <1>7, <2>0 DEF Chunk
      <3> QED
        BY <2>0, <3>1
    <2>2. Used(ch, x, ad, O, c, new[c].max_size - 1)
      BY <1>7, <2>1 DEF Balanced
    <2> QED
      BY <1>3, <2>1, <2>2
  <1> QED
    BY <1>1, <1>4, <1>5, <1>6, <1>7, Zenon DEF Balanced

LEMMA GrownBalanced ==
    ASSUME NEW ch, NEW x, NEW ad, NEW O, Balanced(ch, x, ad, O), NEW new, Grown(ch, new)
    PROVE  Balanced(new, x, ad, O)
  <1>1. ch \in Seq(Chunk) /\ new \in Seq(Chunk) /\ Len(ch) \in Nat /\ Len(new) = Len(ch) + 1
        /\ \A c \in 1..Len(ch) : new[c] = ch[c] /\ c \in 1..Len(new) /\ c # Len(new)
    BY DEF Balanced, Grown
  <1>2. \A c \in 1..Len(new) : c = Len(new) \/ c \in 1..Len(ch)
    BY <1>1
  <1>3. \A c \in 1..Len(new) : Sorted(new[c].free)
    BY <1>1, <1>2, Zenon DEF Grown, Balanced
  <1>4. ASSUME NEW u \in O
        PROVE  /\ ad[u] \in Place /\ x[u].size \in Nat \ {0} /\ ad[u].chunk \in 1..Len(ch) /\ ad[u].chunk \in 1..Len(new)
               /\ ad[u].offset + x[u].size <= new[ad[u].chunk].max_size
    BY <1>1 DEF Balanced
  <1>5. ASSUME NEW a, NEW u \in O
        PROVE  ~Holds(x, ad, u, Len(new), a)
    BY <1>1, <1>4 DEF Holds, In
  <1>6. ASSUME NEW c \in 1..Len(new), NEW a \in Nat, NEW v \in O, Holds(x, ad, v, c, a)
        PROVE  ~Open(new[c].free, a) /\ \A u \in O : Holds(x, ad, u, c, a) => u = v
    <2>1. c \in 1..Len(ch) /\ new[c] = ch[c]
      BY <1>1, <1>2, <1>5, <1>6
    <2> QED
      BY <1>6, <2>1, Zenon DEF Balanced
  <1>7. ASSUME NEW c \in 1..Len(new), NEW a \in Nat, NEW b \in Nat, a < b, Used(new, x, ad, O, c, b)
        PROVE  Used(new, x, ad, O, c, a)
    <2>1. CASE c = Len(new)
      <3>1. PICK room \in Nat : \A e \in Nat : Open(new[Len(new)].free, e) <=> e < room
        BY Zenon DEF Grown
      <3>2. b < room
        BY <1>5, <1>7, <2>1, <3>1, Zenon DEF Used
      <3>3. a < room
        BY <1>7, <3>2
      <3> QED
        BY <2>1, <3>1, <3>3, Zenon DEF Used
    <2>2. CASE c \in 1..Len(ch)
      <3>1. \A e : Used(new, x, ad, O, c, e) <=> Used(ch, x, ad, O, c, e)
        BY <1>1, <2>2, Zenon DEF Used
      <3> QED
        BY <1>7, <2>2, <3>1, Zenon DEF Balanced
    <2> QED
      BY <1>2, <2>1, <2>2
  <1>8. ASSUME NEW c \in 1..Len(new), new[c].max_size > 0
        PROVE  Used(new, x, ad, O, c, new[c].max_size - 1)
    <2>1. c \in 1..Len(ch) /\ new[c] = ch[c]
      BY <1>1, <1>2, <1>8 DEF Grown
    <2>2. Used(ch, x, ad, O, c, new[c].max_size - 1)
      BY <1>8, <2>1, Zenon DEF Balanced
    <2> QED
      BY <2>1, <2>2, Zenon DEF Used
  <1> QED
    BY <1>1, <1>3, <1>4, <1>6, <1>7, <1>8, Zenon DEF Balanced
-----------------------------------------------------------------------------
(* The allocator takes and returns memory as the books say.                *)

LEMMA TakeFromFacts ==
    ASSUME NEW ch \in Seq(Chunk), \A c \in 1..Len(ch) : Sorted(ch[c].free),
           NEW c \in 1..Len(ch), NEW k \in 1..Len(ch[c].free), NEW n \in Nat \ {0}, n <= ch[c].free[k].size
    PROVE  LET t == TakeFrom(ch, c, k, n)
           IN Taken(ch, t.chunks, t.addr, n) /\ t.addr.chunk = c /\ t.addr.offset = ch[c].free[k].offset
  <1>0. n \in Nat /\ n > 0 /\ Len(ch) \in Nat
    OBVIOUS
  <1>1. PICK free : free = ch[c].free /\ Sorted(free) /\ k \in 1..Len(free) /\ n <= free[k].size
    OBVIOUS
  <1>2. PICK m \in Nat : m = ch[c].max_size
    <2>1. ch[c] \in Chunk
      OBVIOUS
    <2> QED
      BY <2>1 DEF Chunk
  <1>3. PICK at \in Nat : at = free[k].offset
    BY <1>1, BlockFacts DEF Sorted
  <1>4. /\ Sorted(Shrink(free, k, n))
        /\ \A a \in Nat : Open(Shrink(free, k, n), a) <=> Open(free, a) /\ ~(at <= a /\ a < at + n)
    BY <1>0, <1>1, <1>3, ShrinkFacts
  <1>5. PICK top \in Nat : top = IF m < at + n THEN at + n ELSE m
    BY <1>0
  <1>6. top >= m /\ at + n <= top /\ (top = m \/ top = at + n)
    BY <1>0, <1>5
  <1>7. PICK d \in Chunk : d = [free |-> Shrink(free, k, n), max_size |-> top]
                           /\ d.free = Shrink(free, k, n) /\ d.max_size = top
    <2>1. PICK f : f = Shrink(free, k, n) /\ f \in Seq(Block)
      BY <1>4 DEF Sorted
    <2>2. [free |-> f, max_size |-> top] \in Chunk
      BY <2>1 DEF Chunk
    <2> QED
      BY <2>1, <2>2
  <1> DEFINE new == [ch EXCEPT ![c] = d]
  <1>8. c \in 1..Len(ch) /\ d \in Chunk
    OBVIOUS
  <1>9. new \in Seq(Chunk) /\ Len(new) = Len(ch) /\ \A e \in 1..Len(ch) : new[e] = IF e = c THEN d ELSE ch[e]
    BY ExceptSeq
  <1>10. PICK p \in Place : p = [chunk |-> c, offset |-> at] /\ p.chunk = c /\ p.offset = at
    <2>1. c \in Nat
      BY <1>0
    <2>2. [chunk |-> c, offset |-> at] \in Place
      BY <2>1 DEF Place
    <2> QED
      BY <2>2
  <1>11. TakeFrom(ch, c, k, n) = [addr |-> p, chunks |-> new]
    <2>1. [ch EXCEPT ![c] = [free |-> Shrink(@.free, k, n),
                             max_size |-> IF @.max_size < at + n THEN at + n ELSE @.max_size]] = new
      BY <1>1, <1>2, <1>5, <1>7
    <2> QED
      BY <1>1, <1>3, <1>10, <2>1, Zenon DEF TakeFrom
  <1> HIDE DEF new
  <1>12. \A e \in 1..Len(ch) : Sorted(new[e].free)
    BY <1>4, <1>7, <1>9
  <1>13. ASSUME NEW e \in 1..Len(ch)
         PROVE  /\ new[e].max_size >= ch[e].max_size
                /\ new[e].max_size = ch[e].max_size \/ (e = c /\ new[e].max_size = at + n)
    <2>1. CASE e = c
      BY <1>2, <1>6, <1>7, <1>9, <2>1
    <2>2. CASE e # c
      <3>1. ch[e] \in Chunk /\ new[e] = ch[e]
        BY <1>9, <2>2
      <3> QED
        BY <3>1 DEF Chunk
    <2> QED
      BY <2>1, <2>2
  <1>14. ASSUME NEW e \in 1..Len(ch), NEW a \in Nat
         PROVE  /\ In(p, n, e, a) => Open(ch[e].free, a)
                /\ Open(new[e].free, a) <=> Open(ch[e].free, a) /\ ~In(p, n, e, a)
    <2>1. In(p, n, e, a) <=> e = c /\ at <= a /\ a < at + n
      BY <1>10, Zenon DEF In
    <2>2. CASE e # c
      <3>1. new[e] = ch[e]
        BY <1>9, <2>2
      <3> QED
        BY <2>1, <2>2, <3>1, Zenon
    <2>3. CASE e = c
      <3>1. new[e].free = Shrink(free, k, n) /\ ch[e].free = free
        BY <1>1, <1>7, <1>9, <2>3
      <3>2. ASSUME at <= a, a < at + n PROVE Open(free, a)
        <4>1. LastOf(free[k]) = free[k].offset + free[k].size /\ free[k].size \in Nat
          BY <1>1, BlockFacts DEF Sorted
        <4>2. InBlock(free[k], a)
          BY <1>0, <1>1, <1>3, <3>2, <4>1 DEF InBlock
        <4> QED
          BY <1>1, <4>2 DEF Open
      <3> QED
        BY <1>4, <2>1, <2>3, <3>1, <3>2, Zenon
    <2> QED
      BY <2>2, <2>3
  <1>15. ASSUME NEW a \in Nat, a + 1 = at PROVE ~Open(free, a)
    BY <1>1, <1>3, <1>15, BeforeBlock
  <1>16. Taken(ch, new, p, n)
    <2>1. p.offset + n <= new[p.chunk].max_size /\ p.chunk \in 1..Len(ch)
      BY <1>6, <1>7, <1>9, <1>10
    <2> QED
      BY <1>1, <1>9, <1>10, <1>12, <1>13, <1>14, <1>15, <2>1, Zenon DEF Taken
  <1> QED
    BY <1>1, <1>3, <1>10, <1>11, <1>16

LEMMA FreeBytesFacts ==
    ASSUME NEW ch \in Seq(Chunk), \A c \in 1..Len(ch) : Sorted(ch[c].free),
           NEW p \in Place, p.chunk \in 1..Len(ch), NEW n \in Nat \ {0},
           \A a \in Nat : In(p, n, p.chunk, a) => ~Open(ch[p.chunk].free, a)
    PROVE  Freed(ch, FreeBytes(ch, p, n), p, n)
  <1>0. n \in Nat /\ n > 0 /\ Len(ch) \in Nat
    OBVIOUS
  <1>1. PICK c \in 1..Len(ch), o \in Nat : c = p.chunk /\ o = p.offset
    BY DEF Place
  <1>2. PICK free : free = ch[c].free /\ Sorted(free)
    OBVIOUS
  <1>3. PICK m \in Nat : m = ch[c].max_size
    <2>1. ch[c] \in Chunk
      OBVIOUS
    <2> QED
      BY <2>1 DEF Chunk
  <1>4. \A e, a : In(p, n, e, a) <=> e = c /\ o <= a /\ a < o + n
    BY <1>1, Zenon DEF In
  <1>5. /\ Sorted(FreeBlocks(free, o, n))
        /\ \A a \in Nat : Open(FreeBlocks(free, o, n), a) <=> Open(free, a) \/ (o <= a /\ a < o + n)
    <2>1. \A a \in Nat : (o <= a /\ a < o + n) => ~Open(free, a)
      BY <1>1, <1>2, <1>4, Zenon
    <2> QED
      BY <1>0, <1>2, <2>1, FreeBlocksFacts
  <1>6. PICK d \in Chunk : d = [free |-> FreeBlocks(free, o, n), max_size |-> m]
                           /\ d.free = FreeBlocks(free, o, n) /\ d.max_size = m
    <2>1. PICK f : f = FreeBlocks(free, o, n) /\ f \in Seq(Block)
      BY <1>5 DEF Sorted
    <2>2. [free |-> f, max_size |-> m] \in Chunk
      BY <2>1 DEF Chunk
    <2> QED
      BY <2>1, <2>2
  <1> DEFINE new == [ch EXCEPT ![c] = d]
  <1>7. new \in Seq(Chunk) /\ Len(new) = Len(ch) /\ \A e \in 1..Len(ch) : new[e] = IF e = c THEN d ELSE ch[e]
    BY ExceptSeq
  <1>8. FreeBytes(ch, p, n) = new
    BY <1>1, <1>2, <1>3, <1>6 DEF FreeBytes
  <1> HIDE DEF new
  <1>9. \A e \in 1..Len(ch) : Sorted(new[e].free) /\ new[e].max_size = ch[e].max_size
    BY <1>3, <1>5, <1>6, <1>7
  <1>10. ASSUME NEW e \in 1..Len(ch), NEW a \in Nat
         PROVE  Open(new[e].free, a) <=> Open(ch[e].free, a) \/ In(p, n, e, a)
    <2>1. CASE e # c
      <3>1. new[e] = ch[e]
        BY <1>7, <2>1
      <3> QED
        BY <1>4, <2>1, <3>1, Zenon
    <2>2. CASE e = c
      <3>1. new[e].free = FreeBlocks(free, o, n) /\ ch[e].free = free
        BY <1>2, <1>6, <1>7, <2>2
      <3> QED
        BY <1>4, <1>5, <2>2, <3>1, Zenon
    <2> QED
      BY <2>1, <2>2
  <1>11. Freed(ch, new, p, n)
    BY <1>7, <1>9, <1>10, Zenon DEF Freed
  <1> QED
    BY <1>8, <1>11

LEMMA NewChunkFacts ==
    ASSUME NEW ch \in Seq(Chunk), Len(ch) < MaxChunks, NEW n \in Nat \ {0}, n <= HugeSize
    PROVE  /\ Grown(ch, NewChunk(ch, n)) /\ Len(NewChunk(ch, n)[Len(ch) + 1].free) = 1
           /\ n <= NewChunk(ch, n)[Len(ch) + 1].free[1].size
  <1>0. n \in Nat /\ n > 0 /\ Len(ch) \in Nat
    OBVIOUS
  <1>1. PICK room \in Nat : room = IF Len(ch) = MaxChunks - 1 THEN HugeSize
                                   ELSE IF n > MaxChunkSize THEN n ELSE MaxChunkSize
    BY TallocAssumption
  <1>2. n <= room /\ (Len(ch) + 1 = MaxChunks => room = HugeSize)
    BY <1>0, <1>1, TallocAssumption
  <1>3. PICK b \in Block : b = [offset |-> 0, size |-> room] /\ b.offset = 0 /\ b.size = room /\ LastOf(b) = 0 + room
    <2>1. room > 0
      BY <1>0, <1>2
    <2> QED
      BY <2>1, SomeBlock
  <1>4. PICK free : free = <<b>> /\ free \in Seq(Block) /\ Len(free) = 1 /\ free[1] = b
    <2>1. <<b>> \in Seq(Block) /\ Len(<<b>>) = 1 /\ <<b>>[1] = b
      OBVIOUS
    <2> QED
      BY <2>1, Zenon
  <1>5. PICK d \in Chunk : d = [free |-> free, max_size |-> 0] /\ d.free = free /\ d.max_size = 0
    <2>1. [free |-> free, max_size |-> 0] \in Chunk
      BY <1>4 DEF Chunk
    <2> QED
      BY <2>1
  <1>6. PICK new \in Seq(Chunk) : /\ new = Append(ch, d) /\ Len(new) = Len(ch) + 1
                                  /\ new[Len(ch) + 1] = d /\ \A c \in 1..Len(ch) : new[c] = ch[c]
    <2>1. /\ Append(ch, d) \in Seq(Chunk) /\ Len(Append(ch, d)) = Len(ch) + 1
          /\ Append(ch, d)[Len(ch) + 1] = d /\ \A c \in 1..Len(ch) : Append(ch, d)[c] = ch[c]
      OBVIOUS
    <2> QED
      BY <2>1
  <1>7. NewChunk(ch, n) = new
    BY <1>1, <1>3, <1>4, <1>5, <1>6, Zenon DEF NewChunk
  <1>8. Sorted(free)
    <2>1. ~(\E k, l \in 1..Len(free) : k < l)
      BY <1>4
    <2> QED
      BY <1>4, <2>1, Zenon DEF Sorted
  <1>9. ASSUME NEW a \in Nat PROVE Open(free, a) <=> a < room
    <2>1. Open(free, a) <=> InBlock(b, a)
      BY <1>4 DEF Open
    <2>2. InBlock(b, a) <=> a < room
      BY <1>3 DEF InBlock
    <2> QED
      BY <2>1, <2>2
  <1>10. Grown(ch, new)
    BY <1>2, <1>5, <1>6, <1>8, <1>9, Zenon DEF Grown
  <1>11. Len(new[Len(ch) + 1].free) = 1 /\ new[Len(ch) + 1].free[1].size = room
    BY <1>3, <1>4, <1>5, <1>6
  <1> QED
    BY <1>2, <1>7, <1>10, <1>11

LEMMA InnerBlocksFacts ==
    ASSUME NEW ch, NEW n, NEW b
    PROVE  b \in InnerBlocks(ch, n) <=>
              \E c \in 1..Len(ch) : \E k \in 1..(Len(ch[c].free) - 1) : b = <<c, k>> /\ ch[c].free[k].size >= n
  BY DEF InnerBlocks

\* There is a best block between tensors if there is any.
LEMMA BestInnerFacts ==
    ASSUME NEW ch \in Seq(Chunk), NEW n \in Nat \ {0}, InnerBlocks(ch, n) # {}
    PROVE  BestInner(ch, InnerBlocks(ch, n)) \in InnerBlocks(ch, n)
  <1> DEFINE fits == InnerBlocks(ch, n)
             size(b) == ch[b[1]].free[b[2]].size
             C == {c \in 1..Len(ch) : \E k \in Nat : <<c, k>> \in fits}
  <1>0. Len(ch) \in Nat
    OBVIOUS
  <1>1. ASSUME NEW b \in fits
        PROVE  /\ b = <<b[1], b[2]>> /\ b[1] \in 1..Len(ch) /\ b[2] \in Nat
               /\ b[2] <= Len(ch[b[1]].free) /\ size(b) \in Nat
    <2>1. PICK c \in 1..Len(ch) : \E k \in 1..(Len(ch[c].free) - 1) : b = <<c, k>> /\ ch[c].free[k].size >= n
      BY InnerBlocksFacts, Zenon
    <2>0. PICK k \in 1..(Len(ch[c].free) - 1) : b = <<c, k>> /\ ch[c].free[k].size >= n
      BY <2>1
    <2>2. ch[c] \in Chunk
      OBVIOUS
    <2>3. PICK free \in Seq(Block) : free = ch[c].free /\ Len(free) \in Nat
      BY <2>2 DEF Chunk
    <2>4. k \in 1..(Len(free) - 1) /\ k \in 1..Len(free) /\ k \in Nat /\ k <= Len(free)
      BY <2>3
    <2>5. free[k].size \in Nat
      BY <2>3, <2>4, BlockFacts
    <2>6. b[1] = c /\ b[2] = k
      BY <2>0
    <2> QED
      BY <2>0, <2>1, <2>3, <2>4, <2>5, <2>6
  <1> HIDE DEF fits
  <1>2. PICK c \in C : \A e \in C : e <= c
    <2>1. C \in SUBSET Nat /\ \A e \in C : e <= Len(ch)
      BY <1>0
    <2>2. C # {}
      <3>1. PICK b \in fits : TRUE
        BY DEF fits
      <3>2. <<b[1], b[2]>> \in fits /\ b[1] \in 1..Len(ch) /\ b[2] \in Nat
        BY <1>1, <3>1
      <3> QED
        BY <3>2, Zenon
    <2> HIDE DEF C
    <2> QED
      BY <1>0, <2>1, <2>2, GreatestNat
  <1> DEFINE Z == {z \in Nat : \E k \in Nat : <<c, k>> \in fits /\ size(<<c, k>>) = z}
  <1>3. PICK z \in Z : \A e \in Z : z <= e
    <2>1. Z \in SUBSET Nat
      OBVIOUS
    <2>2. Z # {}
      <3>1. PICK k \in Nat : <<c, k>> \in fits
        BY <1>2
      <3>2. size(<<c, k>>) \in Nat
        BY <1>1, <3>1
      <3> QED
        BY <3>1, <3>2, Zenon
    <2> HIDE DEF Z
    <2> QED
      BY <2>1, <2>2, LeastNat
  <1> DEFINE K == {k \in Nat : <<c, k>> \in fits /\ size(<<c, k>>) = z}
  <1>4. PICK k \in K : \A e \in K : e <= k
    <2>1. c \in 1..Len(ch)
      BY <1>2
    <2>2. PICK m \in Nat : m = Len(ch[c].free)
      <3>1. ch[c] \in Chunk
        BY <2>1
      <3>2. ch[c].free \in Seq(Block)
        BY <3>1 DEF Chunk
      <3> QED
        BY <3>2
    <2>3. \A e \in K : e <= m
      <3> SUFFICES ASSUME NEW e \in K PROVE e <= m
        OBVIOUS
      <3>1. <<c, e>> \in fits /\ <<c, e>>[1] = c /\ <<c, e>>[2] = e
        OBVIOUS
      <3> QED
        BY <1>1, <2>2, <3>1
    <2>4. K \in SUBSET Nat /\ K # {}
      BY <1>3, Zenon
    <2> HIDE DEF K
    <2> QED
      BY <2>2, <2>3, <2>4, GreatestNat
  <1>5. <<c, k>> \in fits /\ size(<<c, k>>) = z
    BY <1>4
  <1>6. PICK b \in fits : b = <<c, k>> /\ b[1] = c /\ b[2] = k /\ size(b) = z
    BY <1>5
  <1>7. ASSUME NEW o \in fits
        PROVE  o[1] < b[1] \/ (o[1] = b[1] /\ (size(o) > size(b) \/ (size(o) = size(b) /\ o[2] <= b[2])))
    <2>1. o[1] \in C
      BY <1>1, ZenonT(40)
    <2>2. o[1] <= c /\ o[1] \in Nat /\ c \in Nat
      <3>1. o[1] <= c
        BY <1>2, <2>1, Zenon
      <3>2. o[1] \in 1..Len(ch) /\ c \in 1..Len(ch)
        BY <1>1, <1>2
      <3> QED
        BY <1>0, <3>1, <3>2
    <2>3. CASE o[1] = c
      <3>1. o = <<c, o[2]>> /\ o[2] \in Nat /\ size(o) \in Nat
        BY <1>1, <2>3
      <3>2. size(o) \in Z
        BY <3>1, Zenon
      <3>3. size(o) >= z /\ z \in Nat
        BY <1>3, <3>1, <3>2
      <3>4. ASSUME size(o) = z PROVE o[2] <= k
        <4>1. o[2] \in K
          BY <3>1, <3>4, Zenon
        <4> QED
          BY <1>4, <4>1
      <3>5. size(o) > z \/ size(o) = z
        BY <3>1, <3>3
      <3> QED
        BY <1>6, <2>3, <3>4, <3>5, Zenon
    <2> QED
      BY <1>6, <2>2, <2>3
  <1> DEFINE best(d) == \A o \in fits :
                            \/ o[1] < d[1]
                            \/ /\ o[1] = d[1]
                               /\ LET bs == ch[d[1]].free[d[2]].size
                                      os == ch[o[1]].free[o[2]].size
                                  IN os > bs \/ (os = bs /\ o[2] <= d[2])
  <1>8. best(b)
    BY <1>7, Zenon
  <1>9. PICK m : m = CHOOSE d \in fits : best(d)
    OBVIOUS
  <1>10. m \in fits
    BY <1>8, <1>9, Zenon
  <1>11. BestInner(ch, fits) = m
    BY <1>9, Zenon DEF BestInner
  <1> QED
    BY <1>10, <1>11 DEF fits

\* There is a best last block if there is any.
LEMMA BestTailFacts ==
    ASSUME NEW ch \in Seq(Chunk), NEW n \in Nat \ {0}, TailChunks(ch, n) # {}
    PROVE  BestTail(ch, n, TailChunks(ch, n)) \in TailChunks(ch, n)
  <1> DEFINE tails == TailChunks(ch, n)
             r(c) == Reuse(ch[c], n)
  <1>0. Len(ch) \in Nat /\ n \in Nat
    OBVIOUS
  <1>1. ASSUME NEW c \in tails PROVE c \in Nat /\ r(c) \in Int
    <2>1. c \in 1..Len(ch) /\ ch[c].free # <<>>
      BY DEF TailChunks
    <2>2. ch[c] \in Chunk
      BY <2>1
    <2>3. PICK free \in Seq(Block) : free = ch[c].free /\ free # <<>>
      BY <2>1, <2>2 DEF Chunk
    <2>4. Len(free) \in 1..Len(free)
      BY <2>3
    <2>5. Last(free).offset \in Nat
      BY <2>4, BlockFacts DEF Last
    <2>6. ch[c].max_size \in Nat
      BY <2>2 DEF Chunk
    <2> QED
      BY <1>0, <2>1, <2>3, <2>5, <2>6 DEF Reuse
  <1> HIDE DEF tails
  <1> DEFINE best(c) == \A o \in tails \ {c} :
                            LET rc == Reuse(ch[c], n)
                                ro == Reuse(ch[o], n)
                            IN IF rc >= 0 THEN ro < 0 \/ rc < ro \/ (rc = ro /\ c < o)
                               ELSE ro < rc \/ (ro = rc /\ c < o)
  <1>2. ASSUME NEW up \in tails, r(up) >= 0
        PROVE  \E c \in tails : best(c)
    <2> DEFINE R == {v \in Nat : \E c \in tails : r(c) = v}
    <2>1. PICK v \in R : \A e \in R : v <= e
      <3>1. r(up) \in R
        BY <1>1, <1>2
      <3> HIDE DEF R
      <3>2. R \in SUBSET Nat
        BY DEF R
      <3> QED
        BY <3>1, <3>2, LeastNat
    <2> DEFINE S == {c \in tails : r(c) = v}
    <2>2. PICK c \in S : \A e \in S : c <= e
      <3>1. S \in SUBSET Nat /\ S # {}
        BY <1>1, <2>1
      <3> HIDE DEF S
      <3> QED
        BY <3>1, LeastNat
    <2>3. c \in tails /\ r(c) = v /\ v \in Nat /\ c \in Nat
      BY <1>1, <2>1, <2>2
    <2>4. ASSUME NEW o \in tails \ {c} PROVE r(o) < 0 \/ r(c) < r(o) \/ (r(c) = r(o) /\ c < o)
      <3>1. o \in Nat /\ r(o) \in Int
        BY <1>1
      <3>2. r(o) >= 0 => v <= r(o)
        BY <2>1, <3>1
      <3>3. r(o) = v => c <= o
        BY <2>2
      <3> HIDE DEF r
      <3> QED
        BY <2>3, <3>1, <3>2, <3>3
    <2>5. r(c) >= 0
      BY <2>3
    <2>6. best(c)
      BY <2>4, <2>5, Zenon
    <2> QED
      BY <2>3, <2>6, Zenon
  <1>3. ASSUME \A c \in tails : ~(r(c) >= 0)
        PROVE  \E c \in tails : best(c)
    <2> DEFINE R == {v \in Nat : \E c \in tails : r(c) = -v}
    <2>1. PICK v \in R : \A e \in R : v <= e
      <3>1. PICK t \in tails : TRUE
        BY DEF tails
      <3>2. PICK u \in Int : u = r(t) /\ ~(u >= 0)
        BY <1>1, <1>3, <3>1
      <3>3. -u \in Nat /\ r(t) = -(-u)
        BY <3>2
      <3>4. -u \in R
        BY <3>1, <3>3, Zenon
      <3> HIDE DEF R
      <3>5. R \in SUBSET Nat
        BY DEF R
      <3> QED
        BY <3>4, <3>5, LeastNat
    <2> DEFINE S == {c \in tails : r(c) = -v}
    <2>2. PICK c \in S : \A e \in S : c <= e
      <3>1. S \in SUBSET Nat /\ S # {}
        BY <1>1, <2>1
      <3> HIDE DEF S
      <3> QED
        BY <3>1, LeastNat
    <2>3. c \in tails /\ r(c) = -v /\ v \in Nat /\ c \in Nat
      BY <1>1, <2>1, <2>2
    <2>4. ASSUME NEW o \in tails \ {c} PROVE r(o) < r(c) \/ (r(o) = r(c) /\ c < o)
      <3>1. PICK u \in Int : u = r(o) /\ ~(u >= 0)
        BY <1>1, <1>3
      <3>2. o \in Nat /\ -u \in Nat /\ r(o) = -(-u)
        BY <1>1, <3>1
      <3>3. -u \in R
        BY <3>2, Zenon
      <3>4. v <= -u
        BY <2>1, <3>3
      <3>5. u = -v => c <= o
        BY <2>2, <3>1
      <3> HIDE DEF r, R, S
      <3>6. u < -v \/ u = -v
        BY <2>3, <3>1, <3>4
      <3>7. c # o
        OBVIOUS
      <3>8. u = -v => c < o
        BY <2>3, <3>2, <3>5, <3>7
      <3> QED
        BY <2>3, <3>1, <3>6, <3>8
    <2>5. ~(r(c) >= 0)
      BY <1>3, <2>3
    <2>6. best(c)
      BY <2>4, <2>5, Zenon
    <2> QED
      BY <2>3, <2>6, Zenon
  <1>4. PICK m : m = CHOOSE c \in tails : best(c)
    OBVIOUS
  <1>5. m \in tails
    BY <1>2, <1>3, <1>4, Zenon
  <1>6. BestTail(ch, n, tails) = m
    BY <1>4, Zenon DEF BestTail
  <1> QED
    BY <1>5, <1>6 DEF tails

\* An allocation takes the front of a free block, of a new chunk if no other will do.
LEMMA AllocFacts ==
    ASSUME NEW ch \in Seq(Chunk), \A c \in 1..Len(ch) : Sorted(ch[c].free),
           NEW n \in Nat \ {0}, n <= HugeSize, Len(ch) <= MaxChunks,
           Len(ch) = MaxChunks =>
              \E c \in 1..Len(ch) : \E k \in 1..Len(ch[c].free) : n <= ch[c].free[k].size
    PROVE  \E base : /\ base = ch \/ (Len(ch) < MaxChunks /\ Grown(ch, base))
                     /\ Taken(base, Alloc(ch, n).chunks, Alloc(ch, n).addr, n)
  <1>0. Len(ch) \in Nat /\ n \in Nat /\ n > 0 /\ MaxChunks \in Nat
    BY TallocAssumption
  <1>1. ASSUME NEW c \in 1..Len(ch)
        PROVE  ch[c].free \in Seq(Block) /\ Len(ch[c].free) \in Nat
               /\ \A k \in 1..Len(ch[c].free) : ch[c].free[k].size \in Nat
    <2>1. PICK free \in Seq(Block) : free = ch[c].free
      BY DEF Sorted
    <2>2. \A k \in 1..Len(free) : free[k].size \in Nat
      BY <2>1, BlockFacts
    <2> QED
      BY <2>1, <2>2
  <1> DEFINE inner == InnerBlocks(ch, n)
             tails == TailChunks(ch, n)
  <1>2. CASE inner # {}
    <2>1. PICK b : b = BestInner(ch, inner) /\ b \in inner
      BY <1>2, BestInnerFacts
    <2>2. PICK c \in 1..Len(ch) : \E k \in 1..(Len(ch[c].free) - 1) : b = <<c, k>> /\ ch[c].free[k].size >= n
      BY <2>1, InnerBlocksFacts
    <2>3. PICK k \in 1..(Len(ch[c].free) - 1) : b = <<c, k>> /\ ch[c].free[k].size >= n
      BY <2>2
    <2>4. k \in 1..Len(ch[c].free)
      BY <1>1
    <2>5. n <= ch[c].free[k].size
      <3>1. ch[c].free[k].size \in Nat /\ ch[c].free[k].size >= n
        BY <1>1, <2>3, <2>4, Zenon
      <3> QED
        BY <1>0, <3>1
    <2>6. b[1] = c /\ b[2] = k
      BY <2>3
    <2>7. Taken(ch, TakeFrom(ch, c, k, n).chunks, TakeFrom(ch, c, k, n).addr, n)
      BY <2>4, <2>5, TakeFromFacts
    <2>8. Alloc(ch, n) = TakeFrom(ch, c, k, n)
      BY <1>2, <2>1, <2>6, Zenon DEF Alloc
    <2> QED
      BY <2>7, <2>8, Zenon
  <1>3. CASE inner = {} /\ tails # {}
    <2>1. PICK c : c = BestTail(ch, n, tails) /\ c \in tails
      BY <1>3, BestTailFacts
    <2>2. c \in 1..Len(ch) /\ ch[c].free # <<>> /\ Last(ch[c].free).size >= n
      BY <2>1 DEF TailChunks
    <2>3. PICK k : k = Len(ch[c].free)
      OBVIOUS
    <2>4. k \in 1..Len(ch[c].free)
      BY <1>1, <2>2, <2>3
    <2>5. n <= ch[c].free[k].size
      BY <1>0, <1>1, <2>2, <2>3, <2>4 DEF Last
    <2>6. Taken(ch, TakeFrom(ch, c, k, n).chunks, TakeFrom(ch, c, k, n).addr, n)
      BY <2>2, <2>4, <2>5, TakeFromFacts
    <2>7. Alloc(ch, n) = TakeFrom(ch, c, k, n)
      BY <1>3, <2>1, <2>3, Zenon DEF Alloc
    <2> QED
      BY <2>6, <2>7, Zenon
  <1>4. CASE inner = {} /\ tails = {}
    <2>1. ASSUME NEW c \in 1..Len(ch), NEW k \in 1..Len(ch[c].free), n <= ch[c].free[k].size
          PROVE  FALSE
      <3>1. ch[c].free[k].size >= n
        BY <1>0, <1>1, <2>1
      <3>2. CASE k = Len(ch[c].free)
        <4>1. ch[c].free # <<>> /\ Last(ch[c].free).size >= n
          BY <1>1, <3>1, <3>2 DEF Last
        <4> QED
          BY <1>4, <4>1 DEF TailChunks
      <3>3. CASE k # Len(ch[c].free)
        <4>1. k \in 1..(Len(ch[c].free) - 1)
          BY <1>1, <3>3
        <4>2. <<c, k>> \in inner
          BY <3>1, <4>1, InnerBlocksFacts, Zenon
        <4> QED
          BY <1>4, <4>2
      <3> QED
        BY <3>2, <3>3
    <2>2. Len(ch) < MaxChunks
      <3>1. Len(ch) # MaxChunks
        BY <2>1, Zenon
      <3> QED
        BY <1>0, <3>1
    <2>3. PICK new : new = NewChunk(ch, n)
      OBVIOUS
    <2>4. Grown(ch, new) /\ Len(new[Len(ch) + 1].free) = 1 /\ n <= new[Len(ch) + 1].free[1].size
      BY <2>2, <2>3, NewChunkFacts
    <2>5. new \in Seq(Chunk) /\ Len(new) = Len(ch) + 1 /\ Len(ch) + 1 \in 1..Len(new)
          /\ 1 \in 1..Len(new[Len(ch) + 1].free)
      BY <1>0, <2>4 DEF Grown
    <2>6. \A c \in 1..Len(new) : Sorted(new[c].free)
      <3>1. \A c \in 1..Len(new) : c = Len(new) \/ c \in 1..Len(ch)
        BY <1>0, <2>5
      <3> QED
        BY <2>4, <3>1, Zenon DEF Grown
    <2>7. LET t == TakeFrom(new, Len(ch) + 1, 1, n)
          IN Taken(new, t.chunks, t.addr, n)
      BY <2>4, <2>5, <2>6, TakeFromFacts
    <2>8. Alloc(ch, n) = TakeFrom(new, Len(ch) + 1, 1, n)
      BY <1>4, <2>3, Zenon DEF Alloc
    <2> QED
      BY <2>2, <2>4, <2>7, <2>8, Zenon
  <1> QED
    BY <1>2, <1>3, <1>4, Zenon
-----------------------------------------------------------------------------
(* The last chunk is never too small.                                      *)

LEMMA Multiples ==
    ASSUME NEW m \in Nat, NEW n \in Nat, NEW s \in Nat, m <= n
    PROVE  m * s <= n * s /\ m * s \in Nat /\ n * s \in Nat /\ (n + 1) * s = n * s + s
  OBVIOUS

\* What a graph is made of.
LEMMA TensorFacts ==
    ASSUME NEW x, IsGraph(x), NEW t \in Tensors(x)
    PROVE  /\ Len(x) \in Nat /\ t \in Nat /\ t >= 1 /\ t <= Len(x)
           /\ x[t] \in Tensor /\ x[t].size \in Nat /\ x[t].size > 0 /\ x[t].size \in Nat \ {0}
           /\ Len(x) * x[t].size <= HugeSize /\ x[t].size <= HugeSize
           /\ x[t].kind \in {"leaf", "ext", "inplace", "plain", "view"}
           /\ Len(x[t].srcs) \in Nat /\ Len(x[t].srcs) <= MaxSrc /\ x[t].output \in BOOLEAN
           /\ \A j \in 1..Len(x[t].srcs) :
                 x[t].srcs[j] \in Tensors(x) /\ x[t].srcs[j] \in Nat /\ x[t].srcs[j] < t
           /\ IsView(x, t) => x[t].view_src \in Tensors(x) /\ x[t].view_src \in Nat /\ x[t].view_src < t
                              /\ ~IsView(x, x[t].view_src)
           /\ ~IsNode(x, t) => x[t].srcs = <<>>
           /\ IsNode(x, t) => \A u \in t..Len(x) : IsNode(x, u)
  <1>1. x \in Seq(Tensor) /\ Len(x) \in Nat /\ t \in Nat /\ t >= 1 /\ t <= Len(x)
    BY DEF IsGraph, Tensors
  <1>2. x[t] \in Tensor
    BY <1>1 DEF Tensors
  <1>3. /\ x[t].size \in Nat /\ x[t].size > 0 /\ x[t].size \in Nat \ {0}
        /\ x[t].kind \in {"leaf", "ext", "inplace", "plain", "view"}
        /\ x[t].srcs \in Seq(Nat) /\ x[t].output \in BOOLEAN
    BY <1>2 DEF Tensor
  <1>4. /\ Len(x[t].srcs) <= MaxSrc
        /\ \A j \in 1..Len(x[t].srcs) : x[t].srcs[j] \in 1..(t - 1)
        /\ IsView(x, t) => x[t].view_src \in 1..(t - 1) /\ ~IsView(x, x[t].view_src)
        /\ IF IsNode(x, t) THEN \A u \in t..Len(x) : IsNode(x, u) ELSE x[t].srcs = <<>>
        /\ Len(x) * x[t].size <= HugeSize
    BY Zenon DEF IsGraph
  <1>5. \A u \in 1..(t - 1) : u \in Tensors(x) /\ u \in Nat /\ u < t
    BY <1>1 DEF Tensors
  <1>6. x[t].size <= HugeSize
    <2>1. PICK l \in Nat, s \in Nat : l = Len(x) /\ s = x[t].size /\ 1 <= l /\ l * s <= HugeSize
      BY <1>1, <1>3, <1>4
    <2>2. 1 * s <= l * s /\ l * s \in Nat
      BY <2>1, Multiples
    <2> QED
      BY <2>1, <2>2, TallocAssumption
  <1>7. Len(x[t].srcs) \in Nat
    BY <1>3
  <1> QED
    BY <1>1, <1>2, <1>3, <1>4, <1>5, <1>6, <1>7, Zenon

LEMMA LastTaken ==
    ASSUME NEW ch, NEW x, NEW n \in Nat, LastChunk(ch, x, n), NEW t \in Tensors(x), IsGraph(x),
           NEW new, NEW p, Taken(ch, new, p, x[t].size)
    PROVE  LastChunk(new, x, n + 1)
  <1>1. MaxChunks \in Nat /\ MaxChunks >= 1 /\ HugeSize \in Nat /\ Len(new) = Len(ch)
    BY TallocAssumption DEF Taken
  <1>2. PICK z \in Nat : z = x[t].size /\ z > 0
    BY TensorFacts
  <1>3. PICK o \in Nat : o = p.offset
    BY DEF Taken, Place
  <1>4. ASSUME Len(new) = MaxChunks, NEW s \in Nat, NEW a \in Nat,
               \A u \in Tensors(x) : x[u].size <= s, (n + 1) * s <= a, a < HugeSize
        PROVE  Open(new[MaxChunks].free, a)
    <2>0. MaxChunks \in 1..Len(ch)
      BY <1>1, <1>4
    <2>1. z <= s
      BY <1>2, <1>4
    <2>2. PICK m \in Nat : m = n * s /\ m + s <= a
      BY <1>4, Multiples
    <2>3. \A b \in Nat : (m <= b /\ b < HugeSize) => Open(ch[MaxChunks].free, b)
      BY <1>1, <1>4, <2>2, Zenon DEF LastChunk
    <2>4. m <= a
      BY <2>2
    <2>5. Open(ch[MaxChunks].free, a)
      BY <1>4, <2>3, <2>4
    <2>6. ASSUME In(p, z, MaxChunks, a) PROVE FALSE
      <3>1. p.chunk = MaxChunks /\ o <= a /\ a < o + z
        BY <1>3, <2>6, Zenon DEF In
      <3>2. o > m /\ o - 1 \in Nat /\ m <= o - 1 /\ o - 1 < HugeSize
        BY <1>1, <1>4, <2>1, <2>2, <3>1
      <3>3. Open(ch[MaxChunks].free, o - 1) /\ o - 1 + 1 = o
        BY <2>3, <3>2
      <3> QED
        BY <1>3, <3>1, <3>2, <3>3, Zenon DEF Taken
    <2> QED
      BY <1>2, <2>0, <2>5, <2>6, Zenon DEF Taken
  <1>5. Len(new) <= MaxChunks
    BY <1>1 DEF LastChunk
  <1> QED
    BY <1>4, <1>5, Zenon DEF LastChunk

LEMMA LastNext ==
    ASSUME NEW ch, NEW x, NEW n \in Nat, LastChunk(ch, x, n)
    PROVE  LastChunk(ch, x, n + 1)
  <1>1. ASSUME Len(ch) = MaxChunks, NEW s \in Nat, NEW a \in Nat,
               \A u \in Tensors(x) : x[u].size <= s, (n + 1) * s <= a, a < HugeSize
        PROVE  Open(ch[MaxChunks].free, a)
    <2>1. n * s <= a
      <3>1. n * s \in Nat /\ (n + 1) * s = n * s + s
        BY Multiples
      <3> QED
        BY <1>1, <3>1
    <2> QED
      BY <1>1, <2>1, Zenon DEF LastChunk
  <1> QED
    BY <1>1, Zenon DEF LastChunk

LEMMA LastFreed ==
    ASSUME NEW ch, NEW x, NEW n, LastChunk(ch, x, n), NEW new, NEW p, NEW z, Freed(ch, new, p, z)
    PROVE  LastChunk(new, x, n)
  <1>1. MaxChunks \in Nat /\ MaxChunks >= 1 /\ Len(new) = Len(ch)
    BY TallocAssumption DEF Freed
  <1>2. Len(new) = MaxChunks => MaxChunks \in 1..Len(ch)
    BY <1>1
  <1> QED
    BY <1>1, <1>2, Zenon DEF LastChunk, Freed

LEMMA LastGrown ==
    ASSUME NEW ch \in Seq(Chunk), Len(ch) < MaxChunks, NEW x, NEW n, NEW new, Grown(ch, new)
    PROVE  LastChunk(new, x, n)
  <1>1. MaxChunks \in Nat /\ Len(ch) \in Nat /\ Len(new) = Len(ch) + 1
    BY TallocAssumption DEF Grown
  <1>2. Len(new) <= MaxChunks
    BY <1>1
  <1> QED
    BY <1>2, Zenon DEF LastChunk, Grown

\* As long as a tensor is to come, the last chunk has a block for it.
LEMMA LastFits ==
    ASSUME NEW ch, NEW x, NEW n \in Nat, LastChunk(ch, x, n), IsGraph(x), n + 1 <= Len(x),
           Len(ch) = MaxChunks, Sorted(ch[MaxChunks].free), NEW t \in Tensors(x)
    PROVE  \E k \in 1..Len(ch[MaxChunks].free) : x[t].size <= ch[MaxChunks].free[k].size
  <1>0. MaxChunks \in Nat /\ MaxChunks >= 1 /\ HugeSize \in Nat
    BY TallocAssumption
  <1>1. PICK s \in Nat : s > 0 /\ (\A u \in Tensors(x) : x[u].size <= s) /\ Len(x) * s <= HugeSize
    <2> DEFINE S == {z \in Nat : \E u \in Tensors(x) : x[u].size = z}
    <2>1. S \in SUBSET Nat /\ S # {} /\ \A z \in S : z <= HugeSize
      <3>1. \A u \in Tensors(x) : x[u].size \in Nat /\ x[u].size <= HugeSize
        BY TensorFacts
      <3>2. x[t].size \in S
        BY <3>1, Zenon
      <3> QED
        BY <3>1, <3>2, Zenon
    <2>2. PICK s \in S : \A z \in S : z <= s
      <3> HIDE DEF S
      <3> QED
        BY <1>0, <2>1, GreatestNat
    <2>3. PICK u \in Tensors(x) : x[u].size = s
      BY <2>2
    <2>4. \A v \in Tensors(x) : x[v].size \in S
      BY TensorFacts
    <2>5. s \in Nat /\ s > 0 /\ Len(x) * s <= HugeSize
      BY <2>3, TensorFacts
    <2> QED
      BY <2>2, <2>4, <2>5, Zenon
  <1>2. PICK m \in Nat : m = n * s /\ m + s <= HugeSize
    <2>1. n + 1 \in Nat /\ Len(x) \in Nat
      BY DEF IsGraph
    <2>2. (n + 1) * s <= Len(x) * s /\ Len(x) * s \in Nat
      BY <2>1, Multiples
    <2>3. n * s \in Nat /\ (n + 1) * s = n * s + s
      BY Multiples
    <2> QED
      BY <1>0, <1>1, <2>2, <2>3
  <1>3. PICK free : free = ch[MaxChunks].free /\ Sorted(free) /\ free \in Seq(Block) /\ Len(free) \in Nat
    BY DEF Sorted
  <1>4. \A a \in Nat : (m <= a /\ a < m + s) => Open(free, a)
    <2>1. \A a \in Nat : (m <= a /\ a < HugeSize) => Open(free, a)
      BY <1>1, <1>2, <1>3, Zenon DEF LastChunk
    <2>2. \A a \in Nat : a < m + s => a < HugeSize
      BY <1>0, <1>2
    <2> QED
      BY <2>1, <2>2
  <1>5. PICK k \in 1..Len(free) : InBlock(free[k], m)
    <2>1. Open(free, m)
      BY <1>1, <1>4
    <2> QED
      BY <2>1 DEF Open
  <1>6. PICK o \in Nat, e \in Nat, z \in Nat :
            o = free[k].offset /\ e = LastOf(free[k]) /\ z = free[k].size /\ e = o + z
    <2>1. /\ free[k].offset \in Nat /\ LastOf(free[k]) \in Nat /\ free[k].size \in Nat
          /\ LastOf(free[k]) = free[k].offset + free[k].size
      BY <1>3, BlockFacts, Zenon
    <2> QED
      BY <2>1
  <1>7. o <= m /\ m < e
    BY <1>5, <1>6 DEF InBlock
  <1>8. e >= m + s
    <2>1. SUFFICES ASSUME e < m + s PROVE FALSE
      BY <1>1, <1>6
    <2>2. Open(free, e)
      BY <1>4, <1>7, <2>1
    <2>3. PICK l \in 1..Len(free) : InBlock(free[l], e)
      BY <2>2 DEF Open
    <2>4. PICK oo \in Nat, ee \in Nat : oo = free[l].offset /\ ee = LastOf(free[l]) /\ oo <= e /\ e < ee
      BY <1>3, <2>3, BlockFacts DEF InBlock
    <2>5. ~(k < l)
      <3>1. k < l => e < oo
        BY <1>3, <1>6, <2>4 DEF Sorted
      <3> QED
        BY <2>4, <3>1
    <2>6. ~(l < k)
      <3>1. l < k => ee < o
        BY <1>3, <1>6, <2>4 DEF Sorted
      <3> QED
        BY <1>7, <2>4, <3>1
    <2>7. k # l
      <3>1. k = l => ee = e
        BY <1>6, <2>4, Zenon
      <3> QED
        BY <2>4, <3>1
    <2> QED
      BY <1>3, <2>5, <2>6, <2>7
  <1>9. z >= s
    BY <1>6, <1>7, <1>8
  <1>10. x[t].size <= z
    BY <1>1, <1>9, TensorFacts
  <1> QED
    BY <1>3, <1>6, <1>10
-----------------------------------------------------------------------------
(* Children and views are counted right.                                   *)

LEMMA UsesFacts ==
    ASSUME NEW x, IsGraph(x), NEW t
    PROVE  /\ IsFiniteSet(Uses(x, t)) /\ IsFiniteSet(Views(x, t))
           /\ \A u \in Tensors(x) : \A j \in 1..Len(x[u].srcs) : x[u].srcs[j] = t => <<u, j>> \in Uses(x, t)
           /\ \A e \in Uses(x, t) : /\ e = <<e[1], e[2]>> /\ e[1] \in Tensors(x)
                                    /\ e[2] \in 1..Len(x[e[1]].srcs) /\ x[e[1]].srcs[e[2]] = t
  <1>1. IsFiniteSet(Tensors(x)) /\ IsFiniteSet(1..MaxSrc)
    <2>1. Len(x) \in Int /\ MaxSrc \in Int /\ 1 \in Int
      BY GraphAssumption DEF IsGraph
    <2> QED
      BY <2>1, FS_Interval DEF Tensors
  <1>2. IsFiniteSet(Tensors(x) \X (1..MaxSrc))
    BY <1>1, FS_Product
  <1>3. Uses(x, t) \in SUBSET (Tensors(x) \X (1..MaxSrc)) /\ Views(x, t) \in SUBSET Tensors(x)
    BY DEF Uses, Views
  <1>4. IsFiniteSet(Uses(x, t)) /\ IsFiniteSet(Views(x, t))
    BY <1>1, <1>2, <1>3, FS_Subset
  <1>5. ASSUME NEW u \in Tensors(x), NEW j \in 1..Len(x[u].srcs), x[u].srcs[j] = t
        PROVE  <<u, j>> \in Uses(x, t)
    <2>1. Len(x[u].srcs) \in Nat /\ Len(x[u].srcs) <= MaxSrc
      BY TensorFacts
    <2>2. j \in 1..MaxSrc /\ j <= Len(x[u].srcs)
      BY <2>1, GraphAssumption
    <2> QED
      BY <1>5, <2>2 DEF Uses
  <1>6. ASSUME NEW e \in Uses(x, t)
        PROVE  /\ e = <<e[1], e[2]>> /\ e[1] \in Tensors(x)
               /\ e[2] \in 1..Len(x[e[1]].srcs) /\ x[e[1]].srcs[e[2]] = t
    <2>1. /\ e = <<e[1], e[2]>> /\ e[1] \in Tensors(x) /\ e[2] \in 1..MaxSrc
          /\ e[2] <= Len(x[e[1]].srcs) /\ x[e[1]].srcs[e[2]] = t
      BY DEF Uses
    <2>2. Len(x[e[1]].srcs) \in Nat
      BY <2>1, TensorFacts
    <2>3. e[2] \in 1..Len(x[e[1]].srcs)
      BY <2>1, <2>2, GraphAssumption
    <2> QED
      BY <2>1, <2>3
  <1> QED
    BY <1>4, <1>5, <1>6

LEMMA LeftFacts ==
    ASSUME PlanTypeOK, NEW p
    PROVE  /\ IsFiniteSet(Left(p)) /\ IsFiniteSet(Held(p))
           /\ \A u \in Tensors(planned) : \A j \in 1..Len(planned[u].srcs) :
                 (planned[u].srcs[j] = p /\ (u > i \/ (u = i /\ (phase # "release" \/ j >= src))))
                    => <<u, j>> \in Left(p)
           /\ \A e \in Left(p) : /\ e = <<e[1], e[2]>> /\ e[1] \in Tensors(planned)
                                 /\ e[2] \in 1..Len(planned[e[1]].srcs) /\ planned[e[1]].srcs[e[2]] = p
                                 /\ e[1] > i \/ (e[1] = i /\ (phase # "release" \/ e[2] >= src))
           /\ \A v \in Tensors(planned) : (IsView(planned, v) /\ planned[v].view_src = p /\ Left(v) # {}) => v \in Held(p)
  <1>1. IsGraph(planned)
    BY DEF PlanTypeOK
  <1>2. Left(p) \in SUBSET Uses(planned, p) /\ Held(p) \in SUBSET Views(planned, p)
    BY DEF Left, Held
  <1>3. IsFiniteSet(Left(p)) /\ IsFiniteSet(Held(p))
    BY <1>1, <1>2, UsesFacts, FS_Subset
  <1>4. ASSUME NEW u \in Tensors(planned), NEW j \in 1..Len(planned[u].srcs), planned[u].srcs[j] = p,
               u > i \/ (u = i /\ (phase # "release" \/ j >= src))
        PROVE  <<u, j>> \in Left(p)
    <2>1. <<u, j>> \in Uses(planned, p) /\ <<u, j>>[1] = u /\ <<u, j>>[2] = j
      BY <1>1, <1>4, UsesFacts
    <2> QED
      BY <1>4, <2>1 DEF Left
  <1>5. ASSUME NEW e \in Left(p)
        PROVE  /\ e = <<e[1], e[2]>> /\ e[1] \in Tensors(planned)
               /\ e[2] \in 1..Len(planned[e[1]].srcs) /\ planned[e[1]].srcs[e[2]] = p
               /\ e[1] > i \/ (e[1] = i /\ (phase # "release" \/ e[2] >= src))
    <2>1. e \in Uses(planned, p) /\ (e[1] > i \/ (e[1] = i /\ (phase # "release" \/ e[2] >= src)))
      BY DEF Left
    <2>2. /\ e = <<e[1], e[2]>> /\ e[1] \in Tensors(planned)
          /\ e[2] \in 1..Len(planned[e[1]].srcs) /\ planned[e[1]].srcs[e[2]] = p
      BY <1>1, <2>1, UsesFacts
    <2> QED
      BY <2>1, <2>2
  <1>6. \A v \in Tensors(planned) : (IsView(planned, v) /\ planned[v].view_src = p /\ Left(v) # {}) => v \in Held(p)
    BY Zenon DEF Held, Views
  <1> QED
    BY <1>3, <1>4, <1>5, <1>6

\* Memory that is taken over is not needed any more.
LEMMA ReuseFacts ==
    ASSUME PlanInv, phase = "plan", i \in Tensors(planned), NEW j \in 1..Len(planned[i].srcs),
           Reusable(i, planned[i].srcs[j])
    PROVE  LET p == planned[i].srcs[j]
           IN /\ ~Needed(p, i)
              /\ \A k \in 1..Len(planned[i].srcs) :
                    Root(planned, planned[i].srcs[k]) = p => planned[i].srcs[k] = p
  <1> DEFINE p == planned[i].srcs[j]
  <1>1. PlanTypeOK /\ IsGraph(planned) /\ g = planned /\ i \in Nat
    <2>1. PlanTypeOK
      BY DEF PlanInv
    <2> QED
      BY <2>1 DEF PlanTypeOK, Tensors
  <1>2. p \in Tensors(planned) /\ ~planned[p].output /\ n_children[p] = 1 /\ n_views[p] = 0
    <2>1. p \in Tensors(planned)
      BY <1>1, TensorFacts
    <2> QED
      BY <1>1, <2>1 DEF Reusable
  <1> HIDE DEF p
  <1>3. Cardinality(Left(p)) = 1 /\ Cardinality(Held(p)) = 0 /\ IsFiniteSet(Left(p)) /\ IsFiniteSet(Held(p))
    BY <1>1, <1>2, LeftFacts DEF PlanInv, CountsRight
  <1>4. Held(p) = {}
    BY <1>3, FS_EmptySet
  <1>5. Left(p) = {<<i, j>>}
    <2>1. PICK e : Left(p) = {e}
      BY <1>3, FS_Singleton
    <2>2. <<i, j>> \in Left(p)
      BY <1>1, LeftFacts DEF p
    <2> QED
      BY <2>1, <2>2
  <1>6. ASSUME NEW u \in Tensors(planned), NEW k \in 1..Len(planned[u].srcs), u > i \/ u = i,
               Root(planned, planned[u].srcs[k]) = p
        PROVE  u = i /\ planned[u].srcs[k] = p
    <2>1. PICK s : s = planned[u].srcs[k] /\ s \in Tensors(planned)
      BY <1>1, TensorFacts
    <2>2. <<u, k>> \in Left(s)
      BY <1>1, <1>6, <2>1, LeftFacts
    <2>3. CASE IsView(planned, s)
      <3>1. planned[s].view_src = p
        BY <1>6, <2>1, <2>3 DEF Root
      <3>2. s \in Held(p)
        BY <1>1, <2>1, <2>2, <2>3, <3>1, LeftFacts
      <3> QED
        BY <1>4, <3>2
    <2>4. CASE ~IsView(planned, s)
      <3>1. s = p
        BY <1>6, <2>1, <2>4 DEF Root
      <3>2. <<u, k>> = <<i, j>>
        BY <1>5, <2>2, <3>1
      <3> QED
        BY <2>1, <3>1, <3>2
    <2> QED
      BY <2>3, <2>4
  <1>7. ~Needed(p, i)
    <2>1. ASSUME NEW u \in Tensors(planned), u > i, Reads(u, p) PROVE FALSE
      <3>1. PICK k \in 1..Len(planned[u].srcs) : Root(planned, planned[u].srcs[k]) = p
        BY <2>1 DEF Reads
      <3>2. u = i
        BY <1>6, <2>1, <3>1
      <3>3. u \in Nat
        BY <1>1, TensorFacts
      <3> QED
        BY <1>1, <2>1, <3>2, <3>3
    <2>2. ~Kept(p)
      BY <1>2, <1>4 DEF Kept, Held
    <2> QED
      BY <2>1, <2>2 DEF Needed
  <1>8. \A k \in 1..Len(planned[i].srcs) :
            Root(planned, planned[i].srcs[k]) = p => planned[i].srcs[k] = p
    BY <1>6
  <1> QED
    BY <1>7, <1>8 DEF p
-----------------------------------------------------------------------------
(* Planning keeps the invariant.                                           *)

LEMMA OwnersApart ==
    ASSUME NEW ch, NEW x, NEW ad, NEW O, Balanced(ch, x, ad, O), NEW t \in O, NEW u \in O, t # u
    PROVE  ~Overlap(ad[t], x[t].size, ad[u], x[u].size)
  <1>1. SUFFICES ASSUME Overlap(ad[t], x[t].size, ad[u], x[u].size) PROVE FALSE
    OBVIOUS
  <1>2. /\ ad[t] \in Place /\ x[t].size \in Nat \ {0} /\ ad[t].chunk \in 1..Len(ch)
        /\ ad[u] \in Place /\ x[u].size \in Nat \ {0}
    BY Zenon DEF Balanced
  <1>3. PICK a \in Nat, m \in Nat : a = ad[t].offset /\ m = x[t].size /\ m > 0
    BY <1>2 DEF Place
  <1>4. PICK b \in Nat, n \in Nat : b = ad[u].offset /\ n = x[u].size /\ n > 0
    BY <1>2 DEF Place
  <1>5. ad[t].chunk = ad[u].chunk /\ a < b + n /\ b < a + m
    BY <1>1, <1>3, <1>4, Zenon DEF Overlap
  <1>6. PICK e \in Nat : a <= e /\ b <= e /\ e < a + m /\ e < b + n
    <2>1. CASE a <= b
      BY <1>3, <1>4, <1>5, <2>1
    <2>2. CASE ~(a <= b)
      BY <1>3, <1>4, <1>5, <2>2
    <2> QED
      BY <2>1, <2>2
  <1>7. Holds(x, ad, t, ad[t].chunk, e) /\ Holds(x, ad, u, ad[t].chunk, e)
    BY <1>3, <1>4, <1>5, <1>6, Zenon DEF Holds, In
  <1> QED
    BY <1>2, <1>6, <1>7, Zenon DEF Balanced

\* Before tensor i is placed.
LEMMA BeforePlacing ==
    ASSUME PlanInv, Planning
    PROVE  /\ g = planned /\ IsGraph(planned) /\ i \in Tensors(planned) /\ i \in Nat
           /\ Turn = i - 1 /\ i - 1 \in Nat /\ i \notin Owners /\ i \notin Placed
           /\ \A t \in Placed : t \in Tensors(planned) /\ t \in Nat /\ t < i /\ NeedsMemory(planned[t])
           /\ \A t \in Tensors(planned) : (t < i /\ NeedsMemory(planned[t])) => t \in Placed
           /\ \A r \in Placed : Needed(r, i) => allocated[r]
           /\ \A r \in Placed : Reads(i, r) => allocated[r]
  <1>1. PlanTypeOK /\ phase = "plan" /\ i <= Len(g)
    BY DEF PlanInv, Planning
  <1>2. g = planned /\ IsGraph(planned) /\ i \in 1..(Len(planned) + 1)
    BY <1>1 DEF PlanTypeOK
  <1>3. Len(planned) \in Nat
    BY <1>2 DEF IsGraph
  <1>4. i \in Tensors(planned) /\ i \in Nat /\ Turn = i - 1 /\ i - 1 \in Nat
    BY <1>1, <1>2, <1>3 DEF Tensors, Turn
  <1>5. \A t \in Placed : t \in Tensors(planned) /\ t \in Nat /\ t < i /\ NeedsMemory(planned[t])
    BY <1>3, <1>4 DEF Placed, Tensors
  <1>6. \A t \in Tensors(planned) : (t < i /\ NeedsMemory(planned[t])) => t \in Placed
    BY <1>3, <1>4 DEF Placed, Tensors
  <1>7. i \notin Placed /\ i \notin Owners
    BY <1>4, <1>5 DEF PlanInv, OwnersRight
  <1>8. \A r \in Placed : Needed(r, i - 1) => allocated[r]
    BY <1>4 DEF PlanInv, OwnersRight
  <1>9. ASSUME NEW r, Needed(r, i) PROVE Needed(r, i - 1)
    <2>1. ASSUME NEW u \in Tensors(planned), u > i PROVE u > i - 1
      BY <1>3, <1>4, <2>1 DEF Tensors
    <2> QED
      BY <1>9, <2>1, Zenon DEF Needed
  <1>10. ASSUME NEW r, Reads(i, r) PROVE Needed(r, i - 1)
    <2>1. i > i - 1
      BY <1>4
    <2> QED
      BY <1>4, <1>10, <2>1, Zenon DEF Needed
  <1> QED
    BY <1>2, <1>4, <1>5, <1>6, <1>7, <1>8, <1>9, <1>10

LEMMA PlacedSafely ==
    ASSUME PlanInv, Planning, planned' = planned, Turn' = i, NeedsMemory(planned[i]),
           \A t \in Tensors(planned) : t # i => addr'[t] = addr[t],
           allocated' \in [Tensors(planned) -> BOOLEAN],
           allocated'[i], \A t \in Tensors(planned) : (t # i /\ allocated'[t]) => allocated[t],
           \A r \in Placed : Needed(r, i) => allocated'[r],
           Balanced(chunks', planned, addr', Owners'),
           Grows(chunks, chunks'),
           \A j \in 1..Len(planned[i].srcs) :
              LET s == planned[i].srcs[j]
                  r == Root(planned, s)
              IN (NeedsMemory(planned[r]) /\ Overlap(addr'[i], planned[i].size, addr'[r], planned[r].size)) =>
                    planned[i].kind = "inplace" /\ s = r /\ addr'[i] = addr'[r] /\ planned[i].size = planned[r].size
    PROVE  OwnersRight' /\ PlacedWell'
  <1>1. /\ g = planned /\ IsGraph(planned) /\ i \in Tensors(planned) /\ i \in Nat
        /\ i \notin Owners /\ i \notin Placed
        /\ \A t \in Placed : t \in Tensors(planned) /\ t \in Nat /\ t < i /\ NeedsMemory(planned[t])
        /\ \A t \in Tensors(planned) : (t < i /\ NeedsMemory(planned[t])) => t \in Placed
    BY BeforePlacing
  <1>2. Placed' = Placed \cup {i}
    <2>1. Placed' = {t \in 1..i : NeedsMemory(planned[t])}
      BY DEF Placed
    <2>2. Placed = {t \in 1..(i - 1) : NeedsMemory(planned[t])}
      BY BeforePlacing DEF Placed
    <2>3. 1..i = (1..(i - 1)) \cup {i}
      BY <1>1, TensorFacts
    <2> QED
      BY <2>1, <2>2, <2>3
  <1>3. Owners' = {t \in Tensors(planned) : allocated'[t]}
    BY DEF Owners
  <1>4. \A r, n : Needed(r, n)' <=> Needed(r, n)
    BY DEF Needed, Kept, Reads
  <1>5. OwnersRight'
    <2>1. ASSUME NEW t \in Owners' PROVE t \in Placed'
      <3>1. t \in Tensors(planned) /\ allocated'[t]
        BY <1>3
      <3>2. CASE t = i
        BY <1>2, <3>2
      <3>3. CASE t # i
        <4>1. t \in Owners
          BY <3>1, <3>3 DEF Owners
        <4> QED
          BY <1>2, <4>1 DEF PlanInv, OwnersRight
      <3> QED
        BY <3>2, <3>3
    <2>2. ASSUME NEW r \in Placed', Needed(r, i) PROVE allocated'[r]
      BY <1>2, <2>2
    <2> QED
      BY <1>4, <2>1, <2>2 DEF OwnersRight
  <1>6. \A t \in Placed : t \in Tensors(planned) /\ t # i /\ addr'[t] = addr[t]
    BY <1>1
  <1>7. ASSUME NEW t \in Placed'
        PROVE  addr'[t].chunk \in 1..Len(chunks') /\ addr'[t].offset + planned[t].size <= chunks'[addr'[t].chunk].max_size
    <2>1. CASE t = i
      <3>1. i \in Owners'
        BY <1>1, <1>3
      <3> QED
        BY <2>1, <3>1, Zenon DEF Balanced
    <2>2. CASE t \in Placed
      <3>1. /\ addr'[t] = addr[t] /\ addr[t].chunk \in 1..Len(chunks)
            /\ addr[t].offset + planned[t].size <= chunks[addr[t].chunk].max_size
        BY <1>6, <2>2, Zenon DEF PlanInv, PlacedWell
      <3>2. PICK c : c = addr[t].chunk /\ c \in 1..Len(chunks)
        BY <3>1
      <3>3. chunks \in Seq(Chunk) /\ chunks' \in Seq(Chunk)
        BY Zenon DEF PlanInv, Balanced
      <3>4. c \in 1..Len(chunks')
        BY <3>2, <3>3 DEF Grows
      <3>5. chunks[c] \in Chunk /\ chunks'[c] \in Chunk
        BY <3>2, <3>3, <3>4
      <3>6. PICK m \in Nat, n \in Nat : m = chunks[c].max_size /\ n = chunks'[c].max_size /\ n >= m
        BY <3>2, <3>5 DEF Chunk, Grows
      <3>7. PICK e \in Nat : e = addr[t].offset + planned[t].size
        <4>1. addr[t] \in Place
          BY <1>6, <2>2 DEF PlanInv, PlanTypeOK
        <4>2. addr[t].offset \in Nat
          BY <4>1 DEF Place
        <4>3. planned[t].size \in Nat
          BY <1>1, <1>6, <2>2, TensorFacts
        <4> QED
          BY <4>2, <4>3
      <3>8. e <= m
        BY <3>1, <3>2, <3>6, <3>7, Zenon
      <3>9. e <= n
        BY <3>6, <3>8
      <3> QED
        BY <3>1, <3>2, <3>4, <3>6, <3>7, <3>9, Zenon
    <2> QED
      BY <1>2, <2>1, <2>2
  <1>8. ASSUME NEW r \in Placed, NEW w \in Placed PROVE Clash(r, w)' <=> Clash(r, w)
    BY <1>6 DEF Clash
  <1>9. ASSUME NEW r \in Placed, Needed(r, i), NEW w, w = i
        PROVE  ~Clash(r, w)' /\ ~Clash(w, r)'
    <2>1. r \in Owners' /\ w \in Owners' /\ r # w
      BY <1>1, <1>3, <1>9
    <2>2. ~Overlap(addr'[r], planned[r].size, addr'[w], planned[w].size)
      BY <2>1, OwnersApart
    <2>3. ~Overlap(addr'[w], planned[w].size, addr'[r], planned[r].size)
      BY <2>1, OwnersApart
    <2> QED
      BY <2>2, <2>3, Zenon DEF Clash
  <1>10. ASSUME NEW r \in Placed', NEW w \in Placed', IsNode(planned, w), r < w, Needed(r, w)
         PROVE  ~Clash(r, w)'
    <2>1. CASE w = i
      <3>1. r \in Placed /\ Needed(r, i)
        BY <1>1, <1>2, <1>10, <2>1
      <3> QED
        BY <1>9, <2>1, <3>1, Zenon
    <2>2. CASE w \in Placed
      <3>1. w < i /\ w \in Nat /\ r \in Placed
        <4>1. r # i
          BY <1>1, <1>10, <2>2
        <4> QED
          BY <1>1, <1>2, <2>2, <4>1
      <3>2. ~Clash(r, w)
        BY <1>10, <2>2, <3>1, Zenon DEF PlanInv, PlacedWell
      <3> QED
        BY <1>8, <2>2, <3>1, <3>2
    <2> QED
      BY <1>2, <2>1, <2>2
  <1>11. ASSUME ~IsNode(planned, i), NEW r \in Placed, ~IsNode(planned, r) PROVE Needed(r, i)
    <2>1. r \in Tensors(planned) /\ NeedsMemory(planned[r])
      BY <1>1
    <2>2. planned[r].kind = "leaf"
      BY <1>11, <2>1 DEF NeedsMemory, IsNode
    <2>3. PICK u \in Tensors(planned) : \E j \in 1..Len(planned[u].srcs) : planned[u].srcs[j] = r
      BY <1>1, <2>1, <2>2, Zenon DEF IsGraph
    <2>4. PICK j \in 1..Len(planned[u].srcs) : planned[u].srcs[j] = r
      BY <2>3
    <2>5. IsNode(planned, u)
      <3>1. SUFFICES ASSUME planned[u].srcs = <<>> PROVE FALSE
        BY <1>1, TensorFacts
      <3>2. 1..Len(planned[u].srcs) = {}
        BY <3>1
      <3> QED
        BY <2>4, <3>2
    <2>6. u > i
      <3>1. SUFFICES ASSUME ~(u > i) PROVE FALSE
        OBVIOUS
      <3>2. i \in u..Len(planned)
        BY <1>1, <3>1, TensorFacts
      <3> QED
        BY <1>1, <1>11, <2>5, <3>2, TensorFacts
    <2>7. Reads(u, r)
      <3>1. Root(planned, r) = r
        BY <2>2 DEF Root, IsView
      <3> QED
        BY <2>4, <3>1, Zenon DEF Reads
    <2> QED
      BY <2>6, <2>7, Zenon DEF Needed
  <1>12. ASSUME NEW r \in Placed', NEW w \in Placed', ~IsNode(planned, w), ~IsNode(planned, r), r # w
         PROVE  ~Clash(r, w)'
    <2>1. CASE r = i
      <3>1. w \in Placed
        BY <1>2, <1>12, <2>1
      <3>2. Needed(w, i)
        BY <1>11, <1>12, <2>1, <3>1
      <3> QED
        BY <1>9, <2>1, <3>1, <3>2, Zenon
    <2>2. CASE w = i
      <3>1. r \in Placed
        BY <1>2, <1>12, <2>2
      <3>2. Needed(r, i)
        BY <1>11, <1>12, <2>2, <3>1
      <3> QED
        BY <1>9, <2>2, <3>1, <3>2, Zenon
    <2>3. CASE r # i /\ w # i
      <3>1. r \in Placed /\ w \in Placed
        BY <1>2, <2>3
      <3>2. ~Clash(r, w)
        BY <1>12, <3>1, Zenon DEF PlanInv, PlacedWell
      <3> QED
        BY <1>8, <3>1, <3>2
    <2> QED
      BY <2>1, <2>2, <2>3
  <1>13. ASSUME NEW k \in Placed', NEW j \in 1..Len(planned[k].srcs)
         PROVE  KeepsSource(k, j)'
    <2>1. CASE k = i
      BY <2>1, Zenon DEF Clash, KeepsSource
    <2>2. CASE k \in Placed
      <3>1. PICK s : s = planned[k].srcs[j]
        OBVIOUS
      <3>2. PICK r : r = Root(planned, s)
        OBVIOUS
      <3>3. s \in Tensors(planned) /\ s \in Nat /\ s < k /\ k \in Nat /\ k < i
        BY <1>1, <2>2, <3>1, TensorFacts
      <3>4. r \in Tensors(planned) /\ r \in Nat /\ r < i
        <4>1. CASE IsView(planned, s)
          <5>1. r = planned[s].view_src
            BY <3>2, <4>1 DEF Root
          <5>2. r \in Tensors(planned) /\ r \in Nat /\ r < s
            BY <1>1, <3>3, <4>1, <5>1, TensorFacts
          <5> QED
            BY <1>1, <3>3, <5>2
        <4>2. CASE ~IsView(planned, s)
          <5>1. r = s
            BY <3>2, <4>2 DEF Root
          <5> QED
            BY <1>1, <3>3, <5>1
        <4> QED
          BY <4>1, <4>2
      <3>5. ASSUME NeedsMemory(planned[r]), Clash(k, r)'
            PROVE  planned[k].kind = "inplace" /\ s = r /\ addr'[k] = addr'[r] /\ planned[k].size = planned[r].size
        <4>1. r \in Placed
          BY <1>1, <3>4, <3>5
        <4>2. Clash(k, r)
          BY <1>8, <2>2, <3>5, <4>1
        <4>3. planned[k].kind = "inplace" /\ s = r /\ addr[k] = addr[r] /\ planned[k].size = planned[r].size
          BY <2>2, <3>1, <3>2, <3>5, <4>2, Zenon DEF PlanInv, PlacedWell, KeepsSource
        <4> QED
          BY <1>6, <2>2, <4>1, <4>3
      <3> QED
        BY <3>1, <3>2, <3>5, Zenon DEF KeepsSource
    <2> QED
      BY <1>2, <2>1, <2>2
  <1>14. PlacedWell'
    <2>1. \A t \in Placed' : /\ addr'[t].chunk \in 1..Len(chunks')
                             /\ addr'[t].offset + planned'[t].size <= chunks'[addr'[t].chunk].max_size
      BY <1>7
    <2>2. \A r, w \in Placed' : (IsNode(planned', w) /\ r < w /\ Needed(r, w)') => ~Clash(r, w)'
      BY <1>4, <1>10
    <2>3. \A r, w \in Placed' : (~IsNode(planned', w) /\ ~IsNode(planned', r) /\ r # w) => ~Clash(r, w)'
      BY <1>12
    <2>4. \A k \in Placed' : \A j \in 1..Len(planned'[k].srcs) : KeepsSource(k, j)'
      BY <1>13
    <2> QED
      BY <2>1, <2>2, <2>3, <2>4, Zenon DEF PlacedWell
  <1> QED
    BY <1>5, <1>14

\* A new place for tensor i.
LEMMA AllocBalanced ==
    ASSUME NEW ch, NEW x, NEW ad, NEW O, Balanced(ch, x, ad, O), IsGraph(x),
           NEW n \in Nat, LastChunk(ch, x, n), NEW m, m = n + 1, m <= Len(x), NEW t \in Tensors(x), t \notin O,
           NEW ad2, ad2[t] = Alloc(ch, x[t].size).addr, \A u \in O : ad2[u] = ad[u],
           NEW new, new = Alloc(ch, x[t].size).chunks
    PROVE  Allocated(ch, new, x, ad2, O, t, m)
  <1>1. ch \in Seq(Chunk) /\ Len(ch) \in Nat /\ \A c \in 1..Len(ch) : Sorted(ch[c].free)
    BY DEF Balanced
  <1>2. MaxChunks \in Nat /\ MaxChunks >= 1 /\ Len(ch) <= MaxChunks
    BY TallocAssumption DEF LastChunk
  <1>3. PICK z \in Nat \ {0} : z = x[t].size /\ z <= HugeSize
    BY TensorFacts
  <1>4. Len(ch) = MaxChunks => \E c \in 1..Len(ch) : \E k \in 1..Len(ch[c].free) : z <= ch[c].free[k].size
    <2>1. SUFFICES ASSUME Len(ch) = MaxChunks
                   PROVE  \E c \in 1..Len(ch) : \E k \in 1..Len(ch[c].free) : z <= ch[c].free[k].size
      OBVIOUS
    <2>2. MaxChunks \in 1..Len(ch) /\ Sorted(ch[MaxChunks].free)
      BY <1>1, <1>2, <2>1
    <2>3. \E k \in 1..Len(ch[MaxChunks].free) : x[t].size <= ch[MaxChunks].free[k].size
      BY <2>1, <2>2, LastFits
    <2> QED
      BY <1>3, <2>2, <2>3, Zenon
  <1>5. PICK p : new = Alloc(ch, z).chunks /\ p = Alloc(ch, z).addr
    BY <1>3
  <1>6. PICK base : (base = ch \/ (Len(ch) < MaxChunks /\ Grown(ch, base))) /\ Taken(base, new, p, z)
    <2>1. \E base : /\ base = ch \/ (Len(ch) < MaxChunks /\ Grown(ch, base))
                    /\ Taken(base, Alloc(ch, z).chunks, Alloc(ch, z).addr, z)
      BY <1>1, <1>2, <1>3, <1>4, AllocFacts
    <2> QED
      BY <1>5, <2>1, Zenon
  <1>7. /\ Balanced(base, x, ad, O) /\ LastChunk(base, x, n)
        /\ Len(ch) <= Len(base) /\ \A c \in 1..Len(ch) : c \in 1..Len(base) /\ base[c] = ch[c]
    <2>1. CASE base = ch
      BY <1>1, <2>1
    <2>2. CASE Len(ch) < MaxChunks /\ Grown(ch, base)
      <3>1. Balanced(base, x, ad, O)
        BY <2>2, GrownBalanced
      <3>2. LastChunk(base, x, n)
        BY <1>1, <2>2, LastGrown
      <3>3. Len(base) = Len(ch) + 1 /\ \A c \in 1..Len(ch) : base[c] = ch[c]
        BY <2>2 DEF Grown
      <3> QED
        BY <1>1, <3>1, <3>2, <3>3
    <2> QED
      BY <1>6, <2>1, <2>2
  <1>8. ad2[t] = p /\ Taken(base, new, ad2[t], x[t].size)
    BY <1>3, <1>5, <1>6
  <1>9. Balanced(new, x, ad2, O \cup {t})
    BY <1>3, <1>7, <1>8, TakenBalanced
  <1>10. LastChunk(new, x, m)
    BY <1>7, <1>8, LastTaken
  <1>11. Grows(ch, new)
    <2>1. Len(new) = Len(base) /\ \A c \in 1..Len(base) : new[c].max_size >= base[c].max_size
      BY <1>6 DEF Taken
    <2> QED
      BY <1>7, <2>1 DEF Grows
  <1>12. ad2[t] \in Place
    BY <1>8 DEF Taken
  <1> QED
    BY <1>9, <1>10, <1>11, <1>12, Zenon DEF Allocated

LEMMA AllocateInv ==
    ASSUME PlanInv, Planning, AllocateNode(i), planned' = planned, Turn' = i
    PROVE  /\ addr' \in [Tensors(planned) -> Place] /\ allocated' \in [Tensors(planned) -> BOOLEAN]
           /\ OwnersRight' /\ PlacedWell'
           /\ Balanced(chunks', planned, addr', Owners') /\ LastChunk(chunks', planned, i)
  <1>1. /\ g = planned /\ IsGraph(planned) /\ i \in Tensors(planned) /\ i \in Nat
        /\ Turn = i - 1 /\ i - 1 \in Nat /\ i - 1 + 1 = i /\ i \notin Owners /\ i \notin Placed
        /\ \A t \in Placed : t \in Tensors(planned) /\ t \in Nat /\ t < i /\ NeedsMemory(planned[t])
        /\ \A t \in Tensors(planned) : (t < i /\ NeedsMemory(planned[t])) => t \in Placed
        /\ \A r \in Placed : Needed(r, i) => allocated[r]
        /\ \A r \in Placed : Reads(i, r) => allocated[r]
    BY BeforePlacing
  <1>2. /\ addr \in [Tensors(planned) -> Place] /\ allocated \in [Tensors(planned) -> BOOLEAN]
        /\ Balanced(chunks, planned, addr, Owners) /\ LastChunk(chunks, planned, i - 1)
    BY <1>1 DEF PlanInv, PlanTypeOK
  <1>3. ~allocated[i]
    BY <1>1 DEF Owners
  <1>4. Owners = {t \in Tensors(planned) : allocated[t]} /\ Owners' = {t \in Tensors(planned) : allocated'[t]}
    BY DEF Owners
  <1>5. ASSUME NEW j \in 1..Len(planned[i].srcs), NEW r, r = Root(planned, planned[i].srcs[j]), NeedsMemory(planned[r])
        PROVE  r \in Tensors(planned) /\ r # i /\ r \in Owners
    <2>1. PICK s : s = planned[i].srcs[j] /\ s \in Tensors(planned) /\ s \in Nat /\ s < i
      BY <1>1, TensorFacts
    <2>2. r \in Tensors(planned) /\ r \in Nat /\ r < i
      <3>1. CASE IsView(planned, s)
        <4>1. r = planned[s].view_src
          BY <1>5, <2>1, <3>1 DEF Root
        <4>2. r \in Tensors(planned) /\ r \in Nat /\ r < s
          BY <1>1, <2>1, <3>1, <4>1, TensorFacts
        <4> QED
          BY <1>1, <2>1, <4>2
      <3>2. CASE ~IsView(planned, s)
        <4>1. r = s
          BY <1>5, <2>1, <3>2 DEF Root
        <4> QED
          BY <2>1, <4>1
      <3> QED
        BY <3>1, <3>2
    <2>3. r \in Placed /\ Reads(i, r)
      BY <1>1, <1>5, <2>2 DEF Reads
    <2> QED
      BY <1>1, <1>4, <2>2, <2>3
  <1>6. CASE ~NeedsMemory(g[i]) \/ allocated[i]
    <2>1. ~NeedsMemory(planned[i])
      BY <1>1, <1>3, <1>6
    <2>2. UNCHANGED <<chunks, addr, allocated>>
      BY <1>1, <2>1 DEF AllocateNode
    <2>3. Placed' = Placed
      <3>1. Placed' = {t \in 1..i : NeedsMemory(planned[t])}
        BY DEF Placed
      <3>2. Placed = {t \in 1..(i - 1) : NeedsMemory(planned[t])}
        BY <1>1 DEF Placed
      <3>3. 1..i = (1..(i - 1)) \cup {i}
        BY <1>1, TensorFacts
      <3> QED
        BY <2>1, <3>1, <3>2, <3>3
    <2>4. \A r, n : Needed(r, n)' <=> Needed(r, n)
      BY DEF Needed, Kept, Reads
    <2>5. Owners' = Owners
      BY <1>4, <2>2
    <2>6. OwnersRight'
      BY <1>1, <2>2, <2>3, <2>4, <2>5 DEF OwnersRight, PlanInv
    <2>7. PlacedWell'
      <3>1. \A r, w : Clash(r, w)' <=> Clash(r, w)
        BY <2>2 DEF Clash
      <3>2. \A k, j : KeepsSource(k, j)' <=> KeepsSource(k, j)
        BY <2>2, <3>1 DEF KeepsSource
      <3> QED
        BY <2>2, <2>3, <2>4, <3>1, <3>2 DEF PlacedWell, PlanInv
    <2>8. LastChunk(chunks, planned, i)
      BY <1>1, <1>2, LastNext
    <2> QED
      BY <1>2, <2>2, <2>5, <2>6, <2>7, <2>8
  <1>7. CASE NeedsMemory(g[i]) /\ ~allocated[i] /\ ReusableSrcs(i) # {}
    <2>1. PICK j : j = CHOOSE k \in ReusableSrcs(i) : \A o \in ReusableSrcs(i) : k <= o
      OBVIOUS
    <2>2. j \in ReusableSrcs(i)
      <3>1. Len(planned[i].srcs) \in Nat
        BY <1>1, TensorFacts
      <3>2. ReusableSrcs(i) \in SUBSET Nat
        BY <1>1, <3>1 DEF ReusableSrcs
      <3>3. \E k \in ReusableSrcs(i) : \A o \in ReusableSrcs(i) : k <= o
        BY <1>7, <3>2, LeastNat
      <3> QED
        BY <2>1, <3>3, Zenon
    <2>3. PICK p : p = planned[i].srcs[j]
      OBVIOUS
    <2>4. planned[i].kind = "inplace" /\ j \in 1..Len(planned[i].srcs) /\ Reusable(i, p)
      BY <1>1, <2>2, <2>3 DEF ReusableSrcs
    <2>5. p \in Tensors(planned) /\ p # i /\ p \in Owners /\ planned[p].size = planned[i].size
      <3>1. p \in Tensors(planned) /\ p \in Nat /\ p < i
        BY <1>1, <2>3, <2>4, TensorFacts
      <3> QED
        BY <1>1, <1>4, <2>4, <3>1 DEF Reusable
    <2>6. /\ addr' = [addr EXCEPT ![i] = addr[p]]
          /\ allocated' = [allocated EXCEPT ![i] = TRUE, ![p] = FALSE]
          /\ chunks' = chunks
      BY <1>1, <1>7, <2>1, <2>3, Zenon DEF AllocateNode
    <2>7. /\ addr' \in [Tensors(planned) -> Place] /\ allocated' \in [Tensors(planned) -> BOOLEAN]
          /\ addr'[i] = addr[p] /\ allocated'[i] /\ ~allocated'[p]
          /\ \A t \in Tensors(planned) : t # i => addr'[t] = addr[t]
          /\ \A t \in Tensors(planned) : (t # i /\ t # p) => allocated'[t] = allocated[t]
      BY <1>1, <1>2, <2>5, <2>6
    <2>8. Owners' = (Owners \ {p}) \cup {i}
      BY <1>1, <1>4, <2>7
    <2>9. Balanced(chunks', planned, addr', Owners')
      <3>1. \A u \in Owners : addr'[u] = addr[u]
        BY <1>1, <1>4, <2>7
      <3>2. Balanced(chunks, planned, addr', (Owners \ {p}) \cup {i})
        BY <1>1, <1>2, <2>5, <2>7, <3>1, TakeOverBalanced
      <3> QED
        BY <2>6, <2>8, <3>2
    <2>10. LastChunk(chunks', planned, i)
      <3>1. LastChunk(chunks, planned, i)
        BY <1>1, <1>2, LastNext
      <3> QED
        BY <2>6, <3>1
    <2>11. phase = "plan" /\ ~Needed(p, i)
           /\ \A k \in 1..Len(planned[i].srcs) :
                 Root(planned, planned[i].srcs[k]) = p => planned[i].srcs[k] = p
      <3>1. phase = "plan"
        BY DEF Planning
      <3> QED
        BY <1>1, <2>3, <2>4, <3>1, ReuseFacts
    <2>12. \A r \in Placed : Needed(r, i) => allocated'[r]
      BY <1>1, <2>7, <2>11
    <2>13. ASSUME NEW k \in 1..Len(planned[i].srcs), NEW s, NEW r, s = planned[i].srcs[k], r = Root(planned, s),
                  NeedsMemory(planned[r]), Overlap(addr'[i], planned[i].size, addr'[r], planned[r].size)
           PROVE  planned[i].kind = "inplace" /\ s = r /\ addr'[i] = addr'[r] /\ planned[i].size = planned[r].size
      <3>1. r \in Tensors(planned) /\ r # i /\ r \in Owners /\ addr'[r] = addr[r]
        BY <1>5, <2>7, <2>13
      <3>2. r = p
        <4>1. Overlap(addr[p], planned[p].size, addr[r], planned[r].size)
          BY <2>5, <2>7, <2>13, <3>1
        <4> QED
          BY <1>2, <2>5, <3>1, <4>1, OwnersApart
      <3> QED
        BY <2>4, <2>5, <2>7, <2>11, <2>13, <3>1, <3>2
    <2>14. \A t \in Tensors(planned) : (t # i /\ allocated'[t]) => allocated[t]
      BY <2>7
    <2>15. Grows(chunks, chunks')
      <3>1. chunks \in Seq(Chunk)
        BY <1>2 DEF Balanced
      <3>2. ASSUME NEW c \in 1..Len(chunks) PROVE chunks[c].max_size \in Nat
        <4>1. chunks[c] \in Chunk
          BY <3>1
        <4> QED
          BY <4>1 DEF Chunk
      <3> QED
        BY <2>6, <3>1, <3>2 DEF Grows
    <2>16. NeedsMemory(planned[i])
      BY <1>1, <1>7
    <2>17. OwnersRight' /\ PlacedWell'
      BY <2>7, <2>9, <2>12, <2>13, <2>14, <2>15, <2>16, PlacedSafely
    <2> QED
      BY <2>7, <2>9, <2>10, <2>17
  <1>8. CASE NeedsMemory(g[i]) /\ ~allocated[i] /\ ReusableSrcs(i) = {}
    <2>1. PICK new, p : new = Alloc(chunks, planned[i].size).chunks /\ p = Alloc(chunks, planned[i].size).addr
      OBVIOUS
    <2>2. /\ chunks' = new /\ addr' = [addr EXCEPT ![i] = p]
          /\ allocated' = [allocated EXCEPT ![i] = TRUE]
      BY <1>1, <1>8, <2>1, Zenon DEF AllocateNode
    <2>3. /\ allocated' \in [Tensors(planned) -> BOOLEAN] /\ addr'[i] = p /\ allocated'[i]
          /\ \A t \in Tensors(planned) : t # i => addr'[t] = addr[t] /\ allocated'[t] = allocated[t]
      BY <1>1, <1>2, <2>2
    <2>4. Owners' = Owners \cup {i}
      BY <1>1, <1>4, <2>3
    <2>5. /\ Balanced(new, planned, addr', Owners \cup {i}) /\ LastChunk(new, planned, i)
          /\ addr'[i] \in Place /\ Grows(chunks, new)
      <3>1. i <= Len(planned) /\ i = i - 1 + 1
        BY <1>1, TensorFacts
      <3>2. \A u \in Owners : addr'[u] = addr[u]
        BY <1>1, <1>4, <2>3
      <3>3. addr'[i] = Alloc(chunks, planned[i].size).addr
        BY <2>1, <2>3
      <3> QED
        <4>1. PICK n \in Nat : n = i - 1 /\ i = n + 1
          BY <1>1
        <4>2. IsGraph(planned) /\ i \in Tensors(planned) /\ i \notin Owners
              /\ Balanced(chunks, planned, addr, Owners) /\ LastChunk(chunks, planned, n)
          BY <1>1, <1>2, <4>1
        <4>3. new = Alloc(chunks, planned[i].size).chunks
          BY <2>1
        <4>4. Allocated(chunks, new, planned, addr', Owners, i, i)
          BY <3>1, <3>2, <3>3, <4>1, <4>2, <4>3, AllocBalanced
        <4> QED
          BY <4>4, Zenon DEF Allocated
    <2>6. addr' \in [Tensors(planned) -> Place]
      BY <1>1, <1>2, <2>2, <2>3, <2>5
    <2>7. Balanced(chunks', planned, addr', Owners') /\ LastChunk(chunks', planned, i)
      BY <1>1, <2>2, <2>4, <2>5
    <2>8. \A r \in Placed : Needed(r, i) => allocated'[r]
      BY <1>1, <2>3
    <2>9. ASSUME NEW k \in 1..Len(planned[i].srcs), NEW r, r = Root(planned, planned[i].srcs[k]),
                 NeedsMemory(planned[r])
          PROVE  ~Overlap(addr'[i], planned[i].size, addr'[r], planned[r].size)
      <3>1. r # i /\ r \in Owners' /\ i \in Owners'
        BY <1>5, <2>4, <2>9
      <3> QED
        BY <2>7, <3>1, OwnersApart
    <2>10. NeedsMemory(planned[i])
      BY <1>1, <1>8
    <2>11. OwnersRight' /\ PlacedWell'
      BY <2>2, <2>3, <2>5, <2>7, <2>8, <2>9, <2>10, PlacedSafely
    <2> QED
      BY <2>3, <2>6, <2>7, <2>11
  <1> QED
    BY <1>6, <1>7, <1>8

LEMMA CountsKept ==
    ASSUME PlanInv, UNCHANGED <<planned, n_children, n_views>>, \A p : Left(p)' = Left(p)
    PROVE  CountsRight'
  <1>1. \A p : Held(p)' = Held(p)
    BY DEF Held
  <1> QED
    BY <1>1 DEF PlanInv, CountsRight

LEMMA NothingMoves ==
    ASSUME PlanInv, UNCHANGED <<planned, chunks, addr, allocated, n_children, n_views>>, Turn' = Turn,
           \A p : Left(p)' = Left(p)
    PROVE  /\ CountsRight' /\ OwnersRight' /\ PlacedWell'
           /\ Balanced(chunks, planned, addr, Owners)' /\ LastChunk(chunks, planned, Turn)'
  <1>1. CountsRight'
    BY CountsKept
  <1>2. Placed' = Placed /\ Owners' = Owners
    BY DEF Placed, Owners
  <1>3. \A r, n : Needed(r, n)' <=> Needed(r, n)
    BY DEF Needed, Kept, Reads
  <1>4. OwnersRight'
    BY <1>2, <1>3 DEF PlanInv, OwnersRight
  <1>5. \A r, w : Clash(r, w)' <=> Clash(r, w)
    BY DEF Clash
  <1>6. \A k, j : KeepsSource(k, j)' <=> KeepsSource(k, j)
    BY <1>5 DEF KeepsSource
  <1>7. PlacedWell'
    BY <1>2, <1>3, <1>5, <1>6 DEF PlanInv, PlacedWell
  <1>8. Balanced(chunks', planned', addr', Owners') /\ LastChunk(chunks', planned', Turn')
    BY <1>2 DEF PlanInv
  <1> QED
    BY <1>1, <1>4, <1>7, <1>8

LEMMA PlaceLeafInv ==
    ASSUME PlanInv, PlaceLeaf
    PROVE  PlanInv'
  <1>1. /\ Planning /\ ~IsNode(g, i) /\ AllocateNode(i) /\ i' = i + 1
        /\ UNCHANGED <<g, phase, planned, src, n_children, n_views, buffer>>
    BY DEF PlaceLeaf
  <1>2. PlanTypeOK /\ phase = "plan"
    BY <1>1 DEF PlanInv, Planning
  <1>3. g = planned /\ IsGraph(planned) /\ i \in Tensors(planned) /\ i \in Nat
    BY <1>1, BeforePlacing
  <1>4. Turn' = i
    BY <1>1, <1>2, <1>3 DEF Turn
  <1>5. /\ addr' \in [Tensors(planned) -> Place] /\ allocated' \in [Tensors(planned) -> BOOLEAN]
        /\ OwnersRight' /\ PlacedWell'
        /\ Balanced(chunks', planned, addr', Owners') /\ LastChunk(chunks', planned, i)
    BY <1>1, <1>4, AllocateInv
  <1>6. ASSUME NEW p PROVE Left(p)' = Left(p)
    <2>1. ASSUME NEW e \in Uses(planned, p)
          PROVE  e[1] > i \/ (e[1] = i /\ (phase # "release" \/ e[2] >= src))
                    <=> e[1] > i + 1 \/ (e[1] = i + 1 /\ (phase # "release" \/ e[2] >= src))
      <3>1. e[1] \in Tensors(planned) /\ e[1] \in Nat /\ e[2] \in 1..Len(planned[e[1]].srcs)
        BY <1>3, UsesFacts, TensorFacts
      <3>2. e[1] # i
        <4>1. SUFFICES ASSUME e[1] = i PROVE FALSE
          OBVIOUS
        <4>2. planned[e[1]].srcs = <<>>
          BY <1>1, <1>3, <4>1, TensorFacts
        <4>3. 1..Len(planned[e[1]].srcs) = {}
          BY <4>2
        <4> QED
          BY <3>1, <4>3
      <3> QED
        BY <1>2, <1>3, <3>1, <3>2
    <2> QED
      BY <1>1, <2>1 DEF Left
  <1>7. CountsRight'
    BY <1>1, <1>6, CountsKept
  <1>8. PlanTypeOK'
    <2>1. i + 1 \in 1..(Len(planned) + 1)
      BY <1>3, TensorFacts
    <2> QED
      BY <1>1, <1>2, <1>3, <1>5, <2>1 DEF PlanTypeOK, Tensors
  <1> QED
    BY <1>1, <1>4, <1>5, <1>7, <1>8 DEF PlanInv

LEMMA PlaceNodeInv ==
    ASSUME PlanInv, PlaceNode
    PROVE  PlanInv'
  <1>1. /\ Planning /\ IsNode(g, i) /\ AllocateNode(i) /\ phase' = "release" /\ src' = 1
        /\ UNCHANGED <<g, planned, i, n_children, n_views, buffer>>
    BY DEF PlaceNode
  <1>2. PlanTypeOK /\ phase = "plan"
    BY <1>1 DEF PlanInv, Planning
  <1>3. g = planned /\ IsGraph(planned) /\ i \in Tensors(planned) /\ i \in Nat
    BY <1>1, BeforePlacing
  <1>4. Turn' = i
    BY <1>1 DEF Turn
  <1>5. /\ addr' \in [Tensors(planned) -> Place] /\ allocated' \in [Tensors(planned) -> BOOLEAN]
        /\ OwnersRight' /\ PlacedWell'
        /\ Balanced(chunks', planned, addr', Owners') /\ LastChunk(chunks', planned, i)
    BY <1>1, <1>4, AllocateInv
  <1>6. ASSUME NEW p PROVE Left(p)' = Left(p)
    <2>1. ASSUME NEW e \in Uses(planned, p) PROVE e[2] >= 1
      <3>1. e[1] \in Tensors(planned) /\ e[2] \in 1..Len(planned[e[1]].srcs)
        BY <1>3, UsesFacts
      <3>2. Len(planned[e[1]].srcs) \in Nat
        BY <1>3, <3>1, TensorFacts
      <3> QED
        BY <3>1, <3>2
    <2> QED
      BY <1>1, <1>2, <2>1 DEF Left
  <1>7. CountsRight'
    BY <1>1, <1>6, CountsKept
  <1>8. PlanTypeOK'
    BY <1>1, <1>2, <1>3, <1>5, TensorFacts DEF PlanTypeOK
  <1> QED
    BY <1>1, <1>4, <1>5, <1>7, <1>8 DEF PlanInv

\* The parents have been placed already, or need no memory.
LEMMA PlaceParentInv ==
    ASSUME PlanInv, PlaceParent
    PROVE  PlanInv' /\ UNCHANGED <<chunks, addr, allocated>>
  <1>1. /\ Planning /\ IsNode(g, i) /\ src <= Len(g[i].srcs) /\ AllocateNode(g[i].srcs[src]) /\ src' = src + 1
        /\ UNCHANGED <<g, phase, planned, i, n_children, n_views, buffer>>
    BY DEF PlaceParent
  <1>2. PlanTypeOK /\ phase = "plan"
    BY <1>1 DEF PlanInv, Planning
  <1>3. /\ g = planned /\ IsGraph(planned) /\ i \in Tensors(planned)
        /\ \A t \in Tensors(planned) : (t < i /\ NeedsMemory(planned[t])) => t \in Placed
        /\ \A r \in Placed : Reads(i, r) => allocated[r]
    BY <1>1, BeforePlacing
  <1>4. src \in 1..Len(planned[i].srcs)
    BY <1>1, <1>2, <1>3, TensorFacts DEF PlanTypeOK
  <1>5. PICK p : p = planned[i].srcs[src] /\ p \in Tensors(planned) /\ p < i
    BY <1>3, <1>4, TensorFacts
  <1>6. ~NeedsMemory(g[p]) \/ allocated[p]
    <2>1. SUFFICES ASSUME NeedsMemory(planned[p]) PROVE allocated[p]
      BY <1>3
    <2>2. p \in Placed
      BY <1>3, <1>5, <2>1
    <2>3. Root(planned, p) = p
      BY <2>1 DEF Root, IsView, NeedsMemory
    <2>4. Reads(i, p)
      BY <1>4, <1>5, <2>3, Zenon DEF Reads
    <2> QED
      BY <1>3, <2>2, <2>4
  <1>7. UNCHANGED <<chunks, addr, allocated>>
    BY <1>1, <1>3, <1>5, <1>6 DEF AllocateNode
  <1>8. Turn' = Turn /\ \A q : Left(q)' = Left(q)
    BY <1>1, <1>2 DEF Turn, Left
  <1>9. /\ CountsRight' /\ OwnersRight' /\ PlacedWell'
        /\ Balanced(chunks, planned, addr, Owners)' /\ LastChunk(chunks, planned, Turn)'
    BY <1>1, <1>7, <1>8, NothingMoves
  <1>10. PlanTypeOK'
    BY <1>1, <1>2, <1>4, <1>7 DEF PlanTypeOK
  <1> QED
    BY <1>7, <1>9, <1>10 DEF PlanInv

LEMMA NextNodeInv ==
    ASSUME PlanInv, NextNode
    PROVE  PlanInv'
  <1>1. /\ phase = "release" /\ src > Len(g[i].srcs) /\ phase' = "plan" /\ i' = i + 1 /\ src' = 1
        /\ UNCHANGED <<g, planned, chunks, addr, allocated, n_children, n_views, buffer>>
    BY DEF NextNode
  <1>2. PlanTypeOK /\ g = planned /\ IsGraph(planned) /\ i \in 1..(Len(planned) + 1) /\ i <= Len(planned)
        /\ src \in Nat
    BY <1>1 DEF PlanInv, PlanTypeOK
  <1>3. i \in Tensors(planned) /\ i \in Nat /\ Len(planned[i].srcs) \in Nat
    <2>1. Len(planned) \in Nat
      BY <1>2 DEF IsGraph
    <2>2. i \in Tensors(planned) /\ i \in Nat
      BY <1>2, <2>1 DEF Tensors
    <2> QED
      BY <1>2, <2>2, TensorFacts
  <1>4. Turn' = Turn
    BY <1>1, <1>3 DEF Turn
  <1>5. ASSUME NEW p PROVE Left(p)' = Left(p)
    <2>1. ASSUME NEW e \in Uses(planned, p)
          PROVE  e[1] > i \/ (e[1] = i /\ e[2] >= src) <=> e[1] > i + 1 \/ e[1] = i + 1
      <3>1. /\ e[1] \in Tensors(planned) /\ e[1] \in Nat /\ e[2] \in 1..Len(planned[e[1]].srcs)
            /\ Len(planned[e[1]].srcs) \in Nat
        BY <1>2, UsesFacts, TensorFacts
      <3>2. e[1] = i => ~(e[2] >= src)
        BY <1>1, <1>2, <1>3, <3>1
      <3> QED
        BY <1>3, <3>1, <3>2
    <2>2. "release" # "plan"
      OBVIOUS
    <2> QED
      BY <1>1, <2>1, <2>2 DEF Left
  <1>6. /\ CountsRight' /\ OwnersRight' /\ PlacedWell'
        /\ Balanced(chunks, planned, addr, Owners)' /\ LastChunk(chunks, planned, Turn)'
    BY <1>1, <1>4, <1>5, NothingMoves
  <1>7. PlanTypeOK'
    <2>1. i + 1 \in 1..(Len(planned) + 1)
      BY <1>2, <1>3, TensorFacts
    <2> QED
      BY <1>1, <1>2, <2>1 DEF PlanTypeOK
  <1> QED
    BY <1>6, <1>7 DEF PlanInv

\* What is freed after node i is not needed any more.
LEMMA ReleaseCounts ==
    ASSUME PlanInv, ReleaseParent
    PROVE  /\ CountsRight'
           /\ n_children' \in [Tensors(planned) -> Nat] /\ n_views' \in [Tensors(planned) -> Nat]
           /\ \A r \in Tensors(planned) :
                 (n_children'[r] = 0 /\ n_views'[r] = 0 /\ ~planned[r].output) => ~Needed(r, i)
  <1>1. /\ phase = "release" /\ src <= Len(g[i].srcs) /\ Release(g[i].srcs[src]) /\ src' = src + 1
        /\ UNCHANGED <<g, phase, planned, i, addr, buffer>>
    BY DEF ReleaseParent
  <1>2. PlanTypeOK /\ g = planned /\ IsGraph(planned) /\ i \in Tensors(planned) /\ i \in Nat /\ src \in Nat \ {0}
    <2>1. PlanTypeOK /\ g = planned /\ IsGraph(planned) /\ i \in 1..(Len(planned) + 1) /\ i <= Len(planned)
          /\ src \in Nat \ {0}
      BY <1>1 DEF PlanInv, PlanTypeOK
    <2>2. Len(planned) \in Nat
      BY <2>1 DEF IsGraph
    <2> QED
      BY <2>1, <2>2 DEF Tensors
  <1>3. src \in 1..Len(planned[i].srcs) /\ Len(planned[i].srcs) \in Nat
    BY <1>1, <1>2, TensorFacts
  <1>4. PICK p : p = planned[i].srcs[src] /\ p \in Tensors(planned)
    BY <1>2, <1>3, TensorFacts
  <1>5. /\ n_children \in [Tensors(planned) -> Nat] /\ n_views \in [Tensors(planned) -> Nat]
        /\ \A q \in Tensors(planned) : n_children[q] = Cardinality(Left(q)) /\ n_views[q] = Cardinality(Held(q))
    BY <1>2 DEF PlanInv, CountsRight, PlanTypeOK
  <1>6. <<i, src>> \in Left(p)
    <2>1. src >= src
      BY <1>2
    <2> QED
      BY <1>2, <1>3, <1>4, <2>1, LeftFacts
  <1>7. ASSUME NEW q PROVE Left(q)' = IF q = p THEN Left(q) \ {<<i, src>>} ELSE Left(q)
    <2>1. ASSUME NEW e \in Uses(planned, q)
          PROVE  (e[1] > i \/ (e[1] = i /\ e[2] >= src + 1))
                    <=> (e[1] > i \/ (e[1] = i /\ e[2] >= src)) /\ ~(q = p /\ e = <<i, src>>)
      <3>1. /\ e = <<e[1], e[2]>> /\ e[1] \in Tensors(planned) /\ e[1] \in Nat /\ e[2] \in 1..Len(planned[e[1]].srcs)
            /\ Len(planned[e[1]].srcs) \in Nat /\ planned[e[1]].srcs[e[2]] = q
        BY <1>2, UsesFacts, TensorFacts
      <3>2. e[1] = i /\ e[2] = src => q = p
        BY <1>4, <3>1
      <3>3. e = <<i, src>> <=> e[1] = i /\ e[2] = src
        BY <3>1
      <3>4. e[2] \in Nat /\ (e[2] >= src <=> e[2] >= src + 1 \/ e[2] = src) /\ ~(src >= src + 1)
        BY <1>2, <3>1
      <3>5. ~(i > i)
        BY <1>2
      <3> QED
        BY <3>2, <3>3, <3>4, <3>5
    <2> QED
      BY <1>1, <2>1 DEF Left
  <1>8. IsFiniteSet(Left(p)) /\ \A r : IsFiniteSet(Held(r)) /\ Held(r) \in SUBSET Views(planned, r)
    BY <1>2, LeftFacts DEF Held
  <1>9. /\ Cardinality(Left(p)') = Cardinality(Left(p)) - 1 /\ Cardinality(Left(p)') \in Nat
        /\ Cardinality(Left(p)') = 0 <=> Left(p)' = {}
    <2>1. Left(p)' = Left(p) \ {<<i, src>>}
      BY <1>7
    <2>2. IsFiniteSet(Left(p)')
      BY <1>8, <2>1, FS_RemoveElement
    <2>3. Cardinality(Left(p) \ {<<i, src>>}) = Cardinality(Left(p)) - 1
      BY <1>6, <1>8, FS_RemoveElement
    <2> QED
      BY <2>1, <2>2, <2>3, FS_EmptySet, FS_CardinalityType
  <1>10. /\ n_children' = [n_children EXCEPT ![p] = @ - 1]
         /\ n_views' = IF n_children'[p] = 0 /\ n_views[p] = 0 /\ IsView(planned, p)
                       THEN [n_views EXCEPT ![Root(planned, p)] = @ - 1] ELSE n_views
    BY <1>1, <1>2, <1>4 DEF Release
  <1>11. \A q \in Tensors(planned) : n_children'[q] = Cardinality(Left(q)')
    BY <1>4, <1>5, <1>7, <1>9, <1>10
  <1>12. n_children' \in [Tensors(planned) -> Nat]
    BY <1>4, <1>5, <1>9, <1>10
  <1>13. n_children'[p] = 0 <=> Left(p)' = {}
    BY <1>4, <1>9, <1>11
  <1>14. IsView(planned, p) => Held(p) = {} /\ n_views[p] = 0
    <2>1. SUFFICES ASSUME IsView(planned, p) PROVE Held(p) = {} /\ n_views[p] = 0
      OBVIOUS
    <2>2. Views(planned, p) = {}
      BY <1>2, <2>1, TensorFacts, ZenonT(40) DEF Views
    <2>3. Held(p) = {}
      BY <1>8, <2>2
    <2> QED
      BY <1>4, <1>5, <2>3, FS_EmptySet
  <1>15. ASSUME NEW r
         PROVE  Held(r)' = IF IsView(planned, p) /\ Left(p)' = {} THEN Held(r) \ {p} ELSE Held(r)
    <2>1. Held(r)' = {v \in Views(planned, r) : Uses(planned, v) = {} \/ Left(v)' # {}}
      BY <1>1 DEF Held
    <2>2. Uses(planned, p) # {} /\ Left(p) # {}
      <3>1. Left(p) \in SUBSET Uses(planned, p)
        BY DEF Left
      <3> QED
        BY <1>6, <3>1
    <2>3. \A v : v # p => Left(v)' = Left(v)
      BY <1>7
    <2>4. \A v \in Views(planned, r) : v = p => IsView(planned, p)
      BY DEF Views
    <2> QED
      BY <2>1, <2>2, <2>3, <2>4 DEF Held
  <1>16. ASSUME NEW r \in Tensors(planned)
         PROVE  n_views'[r] = Cardinality(Held(r)') /\ n_views'[r] \in Nat /\ IsFiniteSet(Held(r)')
    <2>1. CASE IsView(planned, p) /\ Left(p)' = {}
      <3>1. n_views' = [n_views EXCEPT ![planned[p].view_src] = @ - 1]
        BY <1>10, <1>13, <1>14, <2>1 DEF Root
      <3>2. Held(r)' = Held(r) \ {p}
        BY <1>15, <2>1
      <3>3. IsFiniteSet(Held(r)') /\ Cardinality(Held(r)') = (IF p \in Held(r) THEN Cardinality(Held(r)) - 1 ELSE Cardinality(Held(r)))
        BY <1>8, <3>2, FS_RemoveElement
      <3>4. p \in Held(r) <=> planned[p].view_src = r
        <4>1. p \in Held(r) => planned[p].view_src = r
          BY <1>8 DEF Views
        <4>2. Left(p) # {}
          BY <1>6
        <4> QED
          BY <1>2, <1>4, <2>1, <4>1, <4>2, LeftFacts
      <3>5. n_views'[r] = Cardinality(Held(r)')
        BY <1>5, <3>1, <3>3, <3>4
      <3> QED
        BY <3>3, <3>5, FS_CardinalityType
    <2>2. CASE ~(IsView(planned, p) /\ Left(p)' = {})
      <3>1. n_views' = n_views
        BY <1>10, <1>13, <2>2
      <3>2. Held(r)' = Held(r)
        BY <1>15, <2>2
      <3> QED
        BY <1>5, <1>8, <3>1, <3>2
    <2> QED
      BY <2>1, <2>2
  <1>17. n_views' \in [Tensors(planned) -> Nat]
    <2>1. DOMAIN n_views' = Tensors(planned) /\ n_views' = [t \in DOMAIN n_views' |-> n_views'[t]]
      BY <1>5, <1>10
    <2> QED
      BY <1>16, <2>1
  <1>18. CountsRight'
    BY <1>1, <1>11, <1>16 DEF CountsRight
  <1>19. ASSUME NEW r \in Tensors(planned), n_children'[r] = 0, n_views'[r] = 0, ~planned[r].output, Needed(r, i)
         PROVE  FALSE
    <2>1. Left(r)' = {} /\ Held(r)' = {}
      <3>1. Cardinality(Left(r)') = 0 /\ Cardinality(Held(r)') = 0 /\ IsFiniteSet(Held(r)')
        BY <1>11, <1>16, <1>19
      <3>2. IsFiniteSet(Left(r)')
        <4>1. IsFiniteSet(Left(r))
          BY <1>2, LeftFacts
        <4>2. IsFiniteSet(Left(r) \ {<<i, src>>})
          BY <4>1, FS_RemoveElement
        <4> QED
          BY <1>7, <4>1, <4>2
      <3> QED
        BY <3>1, <3>2, FS_EmptySet
    <2>2. ~Kept(r)
      BY <1>1, <1>19, <2>1 DEF Kept, Held
    <2>3. PICK u \in Tensors(planned) : u > i /\ Reads(u, r)
      BY <1>19, <2>2 DEF Needed
    <2>4. PICK k \in 1..Len(planned[u].srcs) : Root(planned, planned[u].srcs[k]) = r
      BY <2>3 DEF Reads
    <2>5. PICK s : s = planned[u].srcs[k] /\ s \in Tensors(planned)
      BY <1>2, TensorFacts
    <2>6. <<u, k>> \in Left(s)'
      <3>1. <<u, k>> \in Left(s)
        BY <1>2, <2>3, <2>5, LeftFacts
      <3>2. u # i
        BY <1>2, <2>3
      <3> QED
        BY <1>7, <3>1, <3>2
    <2>7. CASE IsView(planned, s)
      <3>1. s \in Views(planned, r)
        BY <2>4, <2>5, <2>7 DEF Root, Views
      <3>2. s \in Held(r)'
        BY <1>1, <2>6, <3>1 DEF Held
      <3> QED
        BY <2>1, <3>2
    <2>8. CASE ~IsView(planned, s)
      <3>1. s = r
        BY <2>4, <2>5, <2>8 DEF Root
      <3> QED
        BY <2>1, <2>6, <3>1
    <2> QED
      BY <2>7, <2>8
  <1> QED
    BY <1>12, <1>17, <1>18, <1>19

LEMMA ReleaseParentInv ==
    ASSUME PlanInv, ReleaseParent
    PROVE  PlanInv' /\ Len(chunks') = Len(chunks)
  <1>1. /\ phase = "release" /\ src <= Len(g[i].srcs) /\ Release(g[i].srcs[src]) /\ src' = src + 1
        /\ UNCHANGED <<g, phase, planned, i, addr, buffer>>
    BY DEF ReleaseParent
  <1>2. PlanTypeOK /\ g = planned /\ IsGraph(planned) /\ src \in Nat \ {0}
    BY <1>1 DEF PlanInv, PlanTypeOK
  <1>3. /\ CountsRight'
        /\ n_children' \in [Tensors(planned) -> Nat] /\ n_views' \in [Tensors(planned) -> Nat]
        /\ \A r \in Tensors(planned) :
              (n_children'[r] = 0 /\ n_views'[r] = 0 /\ ~planned[r].output) => ~Needed(r, i)
    BY ReleaseCounts
  <1>4. allocated \in [Tensors(planned) -> BOOLEAN] /\ Balanced(chunks, planned, addr, Owners)
        /\ LastChunk(chunks, planned, Turn) /\ Turn = i /\ Turn' = i
    BY <1>1, <1>2 DEF PlanInv, PlanTypeOK, Turn
  <1>5. Owners = {t \in Tensors(planned) : allocated[t]} /\ Owners' = {t \in Tensors(planned) : allocated'[t]}
    BY <1>1 DEF Owners
  <1>6. Placed' = Placed
    BY <1>1, <1>4 DEF Placed
  <1>7. \A r, n : Needed(r, n)' <=> Needed(r, n)
    BY <1>1 DEF Needed, Kept, Reads
  <1>8. \A r, w : Clash(r, w)' <=> Clash(r, w)
    BY <1>1 DEF Clash
  <1>9. \A k, j : KeepsSource(k, j)' <=> KeepsSource(k, j)
    BY <1>1, <1>8 DEF KeepsSource
  <1>10. PICK p : p = planned[i].srcs[src]
    OBVIOUS
  <1>11. PICK r : r = Root(planned, p)
    OBVIOUS
  <1>12. \/ UNCHANGED <<chunks, allocated>>
         \/ /\ n_children'[r] = 0 /\ n_views'[r] = 0 /\ allocated[r] /\ ~planned[r].output
            /\ chunks' = FreeBytes(chunks, addr[r], planned[r].size)
            /\ allocated' = [allocated EXCEPT ![r] = FALSE]
    BY <1>1, <1>2, <1>10, <1>11 DEF Release, FreeNode
  <1>13. CASE UNCHANGED <<chunks, allocated>>
    <2>1. Owners' = Owners
      BY <1>5, <1>13
    <2>2. OwnersRight'
      BY <1>4, <1>6, <1>7, <1>13, <2>1 DEF PlanInv, OwnersRight
    <2>3. PlacedWell'
      BY <1>1, <1>6, <1>7, <1>8, <1>9, <1>13 DEF PlanInv, PlacedWell
    <2>4. PlanTypeOK'
      BY <1>1, <1>2, <1>3, <1>13 DEF PlanTypeOK
    <2>5. Balanced(chunks', planned', addr', Owners') /\ LastChunk(chunks', planned', Turn')
      BY <1>1, <1>4, <1>13, <2>1
    <2> QED
      BY <1>3, <1>13, <2>2, <2>3, <2>4, <2>5 DEF PlanInv
  <1>14. CASE /\ n_children'[r] = 0 /\ n_views'[r] = 0 /\ allocated[r] /\ ~planned[r].output
              /\ chunks' = FreeBytes(chunks, addr[r], planned[r].size)
              /\ allocated' = [allocated EXCEPT ![r] = FALSE]
    <2>1. r \in Tensors(planned) /\ r \in Owners
      <3>1. r \in Tensors(planned)
        <4>1. Len(planned) \in Nat /\ i \in 1..(Len(planned) + 1) /\ i <= Len(planned)
          BY <1>1, <1>2 DEF PlanTypeOK, IsGraph
        <4>2. i \in Tensors(planned)
          BY <4>1 DEF Tensors
        <4>3. src \in 1..Len(planned[i].srcs)
          BY <1>1, <1>2, <4>2, TensorFacts
        <4>4. p \in Tensors(planned)
          BY <1>2, <1>10, <4>2, <4>3, TensorFacts
        <4> QED
          BY <1>2, <1>11, <4>4, TensorFacts DEF Root
      <3> QED
        BY <1>5, <1>14, <3>1
    <2>2. allocated' \in [Tensors(planned) -> BOOLEAN] /\ Owners' = Owners \ {r}
          /\ \A t \in Tensors(planned) : t # r => allocated'[t] = allocated[t]
      BY <1>4, <1>5, <1>14, <2>1
    <2>3. Freed(chunks, chunks', addr[r], planned[r].size)
      <3>1. /\ chunks \in Seq(Chunk) /\ \A c \in 1..Len(chunks) : Sorted(chunks[c].free)
            /\ addr[r] \in Place /\ planned[r].size \in Nat \ {0} /\ addr[r].chunk \in 1..Len(chunks)
        BY <1>4, <2>1, Zenon DEF Balanced
      <3>2. ASSUME NEW a \in Nat, In(addr[r], planned[r].size, addr[r].chunk, a)
            PROVE  ~Open(chunks[addr[r].chunk].free, a)
        <4>1. Holds(planned, addr, r, addr[r].chunk, a)
          BY <3>2, Zenon DEF Holds
        <4> QED
          BY <1>4, <2>1, <3>1, <4>1, Zenon DEF Balanced
      <3>3. Freed(chunks, FreeBytes(chunks, addr[r], planned[r].size), addr[r], planned[r].size)
        BY <3>1, <3>2, FreeBytesFacts
      <3> QED
        BY <1>14, <3>3
    <2>4. Balanced(chunks', planned, addr, Owners \ {r}) /\ LastChunk(chunks', planned, Turn)
      BY <1>4, <2>1, <2>3, FreedBalanced, LastFreed
    <2>5. Balanced(chunks', planned', addr', Owners') /\ LastChunk(chunks', planned', Turn')
      BY <1>1, <1>4, <2>2, <2>4
    <2>6. ~Needed(r, i)
      BY <1>3, <1>14, <2>1
    <2>7. OwnersRight'
      <3>1. Owners \subseteq Placed /\ \A t \in Placed : Needed(t, i) => allocated[t]
        BY <1>4 DEF PlanInv, OwnersRight
      <3>2. \A t \in Placed : Needed(t, i) => allocated'[t]
        <4>1. Placed \subseteq Tensors(planned)
          <5>1. Len(planned) \in Nat /\ i <= Len(planned) /\ i \in 1..(Len(planned) + 1)
            BY <1>1, <1>2 DEF PlanTypeOK, IsGraph
          <5> QED
            BY <1>4, <5>1 DEF Placed, Tensors
        <4> QED
          BY <2>2, <2>6, <3>1, <4>1
      <3> QED
        BY <1>4, <1>6, <1>7, <2>2, <3>1, <3>2 DEF OwnersRight
    <2>8. Len(chunks') = Len(chunks) /\ \A c \in 1..Len(chunks) : chunks'[c].max_size = chunks[c].max_size
      BY <2>3 DEF Freed
    <2>9. PlacedWell'
      <3>1. \A t \in Placed : addr[t].chunk \in 1..Len(chunks') /\ addr[t].offset + planned[t].size <= chunks'[addr[t].chunk].max_size
        BY <2>8 DEF PlanInv, PlacedWell
      <3> QED
        BY <1>1, <1>6, <1>7, <1>8, <1>9, <3>1 DEF PlanInv, PlacedWell
    <2>10. PlanTypeOK'
      BY <1>1, <1>2, <1>3, <2>2 DEF PlanTypeOK
    <2> QED
      BY <1>3, <2>5, <2>7, <2>8, <2>9, <2>10 DEF PlanInv
  <1> QED
    BY <1>12, <1>13, <1>14

LEMMA StartPlanInv ==
    ASSUME NEW x, IsGraph(x), StartPlan(x), g' = x, buffer' \in Seq(Nat)
    PROVE  PlanInv'
  <1>1. /\ planned' = x /\ phase' = "plan" /\ i' = 1 /\ src' = 1 /\ chunks' = <<>>
        /\ addr' = [t \in Tensors(x) |-> NoAddr] /\ allocated' = [t \in Tensors(x) |-> FALSE]
        /\ n_children' = [t \in Tensors(x) |-> Cardinality(Uses(x, t))]
        /\ n_views' = [t \in Tensors(x) |-> Cardinality(Views(x, t))]
    BY DEF StartPlan
  <1>2. \A t : IsFiniteSet(Uses(x, t)) /\ IsFiniteSet(Views(x, t))
    BY UsesFacts
  <1>3. \A t : Cardinality(Uses(x, t)) \in Nat /\ Cardinality(Views(x, t)) \in Nat
    BY <1>2, FS_CardinalityType
  <1>4. NoAddr \in Place
    BY DEF NoAddr, Place
  <1>5. Len(x) \in Nat
    BY DEF IsGraph
  <1>6. PlanTypeOK'
    <2>1. 1 \in 1..(Len(x) + 1)
      BY <1>5
    <2> QED
      BY <1>1, <1>3, <1>4, <2>1 DEF PlanTypeOK
  <1>7. ASSUME NEW p PROVE Left(p)' = Uses(x, p)
    <2>1. ASSUME NEW e \in Uses(x, p) PROVE e[1] > 1 \/ e[1] = 1
      <3>1. e[1] \in Tensors(x)
        BY UsesFacts
      <3> QED
        BY <1>5, <3>1 DEF Tensors
    <2> QED
      BY <1>1, <2>1 DEF Left
  <1>8. ASSUME NEW r PROVE Held(r)' = Views(x, r)
    <2>1. Held(r)' = {v \in Views(x, r) : Uses(x, v) = {} \/ Left(v)' # {}}
      BY <1>1 DEF Held
    <2> QED
      BY <1>7, <2>1
  <1>9. CountsRight'
    BY <1>1, <1>7, <1>8 DEF CountsRight
  <1>10. Turn' = 0 /\ Placed' = {} /\ Owners' = {}
    <2>1. Turn' = 0
      BY <1>1 DEF Turn
    <2>2. 1..0 = {}
      OBVIOUS
    <2> QED
      BY <1>1, <2>1, <2>2 DEF Placed, Owners
  <1>11. OwnersRight' /\ PlacedWell'
    BY <1>10 DEF OwnersRight, PlacedWell
  <1>12. <<>> \in Seq(Chunk) /\ Len(<<>>) = 0 /\ 1..Len(<<>>) = {}
    OBVIOUS
  <1>13. Balanced(chunks', planned', addr', Owners')
    BY <1>1, <1>10, <1>12, Zenon DEF Balanced
  <1>14. LastChunk(chunks', planned', Turn')
    BY <1>1, <1>12, TallocAssumption DEF LastChunk
  <1> QED
    BY <1>6, <1>9, <1>11, <1>13, <1>14 DEF PlanInv

LEMMA PlanInvInit ==
    ASSUME Init
    PROVE  PlanInv
  <1>1. /\ planned = <<>> /\ phase = "idle" /\ i = 1 /\ src = 1 /\ chunks = <<>> /\ addr = <<>>
        /\ allocated = <<>> /\ n_children = <<>> /\ n_views = <<>> /\ buffer = <<>>
    BY DEF Init
  <1>2. <<>> \in Seq(Chunk) /\ <<>> \in Seq(Tensor) /\ <<>> \in Seq(Nat) /\ Len(<<>>) = 0 /\ 1..Len(<<>>) = {}
    OBVIOUS
  <1>3. Tensors(planned) = {} /\ Turn = 0 /\ IsGraph(planned)
    BY <1>1, <1>2 DEF Tensors, Turn, IsGraph
  <1>4. Placed = {} /\ Owners = {}
    <2>1. 1..0 = {}
      OBVIOUS
    <2> QED
      BY <1>3, <2>1 DEF Placed, Owners
  <1>5. PlanTypeOK
    <2>1. \A S : <<>> \in [{} -> S]
      OBVIOUS
    <2> QED
      BY <1>1, <1>2, <1>3, <2>1 DEF PlanTypeOK
  <1>6. CountsRight /\ OwnersRight /\ PlacedWell
    BY <1>3, <1>4 DEF CountsRight, OwnersRight, PlacedWell
  <1>7. Balanced(chunks, planned, addr, Owners)
    BY <1>1, <1>2, <1>4, Zenon DEF Balanced
  <1>8. LastChunk(chunks, planned, Turn)
    BY <1>1, <1>2, TallocAssumption DEF LastChunk
  <1> QED
    BY <1>5, <1>6, <1>7, <1>8 DEF PlanInv

LEMMA AllocGraphInv ==
    ASSUME PlanInv, NEW x, IsGraph(x), AllocGraph(x)
    PROVE  PlanInv'
  <1>1. phase \in {"idle", "ready"} /\ g' = x /\ buffer' = buffer
    BY DEF AllocGraph
  <1>2. CASE StartPlan(x)
    <2>1. buffer' \in Seq(Nat)
      BY <1>1 DEF PlanInv, PlanTypeOK
    <2> QED
      BY <1>1, <1>2, <2>1, StartPlanInv
  <1>3. CASE phase' = "ready" /\ UNCHANGED plan
    <2>1. UNCHANGED <<planned, i, src, chunks, addr, allocated, n_children, n_views>>
      BY <1>3 DEF plan
    <2>2. Turn' = Turn /\ \A p : Left(p)' = Left(p)
      BY <1>1, <1>3, <2>1 DEF Turn, Left
    <2>3. /\ CountsRight' /\ OwnersRight' /\ PlacedWell'
          /\ Balanced(chunks, planned, addr, Owners)' /\ LastChunk(chunks, planned, Turn)'
      BY <2>1, <2>2, NothingMoves
    <2>4. PlanTypeOK'
      BY <1>1, <1>3, <2>1 DEF PlanInv, PlanTypeOK
    <2> QED
      BY <2>3, <2>4 DEF PlanInv
  <1> QED
    BY <1>2, <1>3 DEF AllocGraph

\* The plan is complete.
LEMMA PlanDone ==
    ASSUME PlanInv, phase = "plan", i > Len(g), phase' = "ready", UNCHANGED plan, buffer' \in Seq(Nat)
    PROVE  PlanInv'
  <1>1. UNCHANGED <<planned, i, src, chunks, addr, allocated, n_children, n_views>>
    BY DEF plan
  <1>2. Turn' = Turn /\ \A p : Left(p)' = Left(p)
    BY <1>1 DEF Turn, Left
  <1>3. /\ CountsRight' /\ OwnersRight' /\ PlacedWell'
        /\ Balanced(chunks, planned, addr, Owners)' /\ LastChunk(chunks, planned, Turn)'
    BY <1>1, <1>2, NothingMoves
  <1>4. i = Len(planned) + 1
    <2>1. g = planned /\ i \in 1..(Len(planned) + 1) /\ Len(planned) \in Nat
      BY DEF PlanInv, PlanTypeOK, IsGraph
    <2> QED
      BY <2>1
  <1>5. PlanTypeOK'
    BY <1>1, <1>4 DEF PlanInv, PlanTypeOK
  <1> QED
    BY <1>3, <1>5 DEF PlanInv

LEMMA ReserveInv ==
    ASSUME PlanInv, Reserve \/ ReserveFails
    PROVE  PlanInv'
  <1>1. g' = g /\ phase = "plan" /\ i > Len(g)
    BY DEF Reserve, ReserveFails
  <1>2. <<>> \in Seq(Nat)
    OBVIOUS
  <1>3. CASE Reserve
    <2>1. [c \in 1..Len(chunks) |-> chunks[c].max_size] \in Seq(Nat)
      <3>1. chunks \in Seq(Chunk)
        BY DEF PlanInv, Balanced
      <3>2. ASSUME NEW c \in 1..Len(chunks) PROVE chunks[c].max_size \in Nat
        <4>1. chunks[c] \in Chunk
          BY <3>1
        <4> QED
          BY <4>1 DEF Chunk
      <3>3. Len(chunks) \in Nat
        BY <3>1
      <3> QED
        BY <3>2, <3>3
    <2>2. buffer \in Seq(Nat)
      BY DEF PlanInv, PlanTypeOK
    <2>3. buffer' \in Seq(Nat)
      BY <1>3, <2>1, <2>2, Zenon DEF Reserve
    <2> QED
      BY <1>1, <1>3, <2>3, PlanDone DEF Reserve
  <1>4. CASE ReserveFails /\ StartPlan(g)
    <2>1. IsGraph(g)
      BY <1>1 DEF PlanInv, PlanTypeOK
    <2> QED
      BY <1>1, <1>2, <1>4, <2>1, StartPlanInv DEF ReserveFails
  <1>5. CASE ReserveFails /\ phase' = "ready" /\ UNCHANGED plan
    BY <1>1, <1>2, <1>5, PlanDone DEF ReserveFails
  <1> QED
    BY <1>3, <1>4, <1>5 DEF ReserveFails

LEMMA Unmoved ==
    ASSUME PlanInv, UNCHANGED vars
    PROVE  PlanInv'
  <1>1. UNCHANGED <<g, phase, planned, i, src, chunks, addr, allocated, n_children, n_views, buffer>>
    BY DEF vars, plan
  <1>2. Turn' = Turn /\ \A p : Left(p)' = Left(p)
    BY <1>1 DEF Turn, Left
  <1>3. /\ CountsRight' /\ OwnersRight' /\ PlacedWell'
        /\ Balanced(chunks, planned, addr, Owners)' /\ LastChunk(chunks, planned, Turn)'
    BY <1>1, <1>2, NothingMoves
  <1>4. PlanTypeOK'
    BY <1>1 DEF PlanInv, PlanTypeOK
  <1> QED
    BY <1>3, <1>4 DEF PlanInv

\* The graph stays among the graphs a program may allocate.
LEMMA GraphStep ==
    ASSUME NEW All, GraphsIn(All), g \in All, [Next]_vars
    PROVE  g' \in All
  <1>1. CASE UNCHANGED vars
    BY <1>1 DEF vars
  <1>2. CASE \E x \in {g} \cup Variants(g) : AllocGraph(x)
    BY <1>2 DEF AllocGraph, GraphsIn
  <1>3. CASE PlaceLeaf \/ PlaceParent \/ PlaceNode \/ ReleaseParent \/ NextNode \/ Reserve \/ ReserveFails
    BY <1>3 DEF PlaceLeaf, PlaceParent, PlaceNode, ReleaseParent, NextNode, Reserve, ReserveFails
  <1> QED
    BY <1>1, <1>2, <1>3 DEF Next, Rest

LEMMA PlanInvStep ==
    ASSUME NEW All, GraphsIn(All), g \in All, PlanInv, [Next]_vars
    PROVE  PlanInv'
  <1>1. CASE UNCHANGED vars
    BY <1>1, Unmoved
  <1>2. ASSUME NEW x \in {g} \cup Variants(g), AllocGraph(x) PROVE PlanInv'
    <2>1. IsGraph(x)
      BY <1>2 DEF GraphsIn
    <2> QED
      BY <1>2, <2>1, AllocGraphInv
  <1>3. CASE PlaceLeaf
    BY <1>3, PlaceLeafInv
  <1>4. CASE PlaceParent
    BY <1>4, PlaceParentInv
  <1>5. CASE PlaceNode
    BY <1>5, PlaceNodeInv
  <1>6. CASE ReleaseParent
    BY <1>6, ReleaseParentInv
  <1>7. CASE NextNode
    BY <1>7, NextNodeInv
  <1>8. CASE Reserve \/ ReserveFails
    BY <1>8, ReserveInv
  <1>9. (graphs = 0 /\ AllocGraph(g)) => PlanInv'
    BY <1>2
  <1> QED
    BY <1>1, <1>2, <1>3, <1>4, <1>5, <1>6, <1>7, <1>8, <1>9 DEF Next, Rest

LEMMA PlanInvHolds ==
    ASSUME NEW All, GraphsIn(All)
    PROVE  Spec => [](PlanInv /\ g \in All)
  <1>1. Init => PlanInv /\ g \in All
    BY PlanInvInit DEF Init, GraphsIn
  <1>2. PlanInv /\ g \in All /\ [Next]_vars => (PlanInv /\ g \in All)'
    BY PlanInvStep, GraphStep
  <1> QED
    BY <1>1, <1>2, PTL DEF Spec
-----------------------------------------------------------------------------
(* The graph fits the plan, and the plan the buffer.                       *)

LEMMA FitsItself ==
    ASSUME NEW x, IsGraph(x)
    PROVE  FitsPlanOf(x, x)
  <1>1. ASSUME NEW t \in Tensors(x) PROVE x[t].size \in Nat
    <2>1. x[t] \in Tensor
      BY DEF IsGraph, Tensors
    <2> QED
      BY <2>1 DEF Tensor
  <1>2. SameShape(x, x)
    BY DEF SameShape
  <1>3. ASSUME NEW n \in Nat PROVE n <= n
    OBVIOUS
  <1> QED
    BY <1>1, <1>2, <1>3 DEF FitsPlanOf

LEMMA ShapeTransitive ==
    ASSUME NEW x, NEW y, NEW z, SameShape(x, y), SameShape(y, z)
    PROVE  SameShape(x, z)
  <1>1. Len(y) = Len(x) /\ Len(z) = Len(y) /\ Tensors(y) = Tensors(x)
    BY DEF SameShape, Tensors
  <1>2. ASSUME NEW t \in Tensors(x)
        PROVE  /\ z[t].kind = x[t].kind /\ z[t].srcs = x[t].srcs
               /\ z[t].view_src = x[t].view_src /\ z[t].output = x[t].output
    BY <1>1, Zenon DEF SameShape
  <1>3. ASSUME NEW t \in Tensors(x), NEW u \in Tensors(x), x[t].size = x[u].size
        PROVE  z[t].size = z[u].size
    BY <1>1, <1>3, Zenon DEF SameShape
  <1> QED
    BY <1>1, <1>2, <1>3, Zenon DEF SameShape

\* A plan that is kept has room for every tensor of the graph: nodes are compared, and
\* a leaf with the node that reads it.
LEMMA KeptPlanFits ==
    ASSUME NEW x, IsGraph(x), SameShape(planned, x), PlanFits(x)
    PROVE  FitsPlanOf(planned, x)
  <1>1. SUFFICES ASSUME NEW t \in Tensors(x), NeedsMemory(x[t]) PROVE x[t].size <= planned[t].size
    BY DEF FitsPlanOf
  <1>2. CASE IsNode(x, t)
    <2>1. t \in Tensors(x) \ Leafs(x)
      BY <1>2 DEF Leafs
    <2> QED
      BY <1>1, <2>1 DEF PlanFits, Fits
  <1>3. CASE ~IsNode(x, t)
    <2>1. x[t].kind = "leaf"
      BY <1>1, <1>3 DEF IsNode, NeedsMemory
    <2>2. PICK u \in Tensors(x) : \E j \in 1..Len(x[u].srcs) : x[u].srcs[j] = t
      BY <2>1, Zenon DEF IsGraph
    <2>3. PICK j \in 1..Len(x[u].srcs) : x[u].srcs[j] = t
      BY <2>2
    <2>4. IsNode(x, u)
      <3>1. SUFFICES ASSUME ~IsNode(x, u) PROVE FALSE
        OBVIOUS
      <3>2. x[u].srcs = <<>>
        BY <3>1, Zenon DEF IsGraph
      <3> QED
        BY <2>3, <3>2
    <2>5. u \in Tensors(x) \ Leafs(x)
      BY <2>4 DEF Leafs
    <2>6. SourceFits(u, x, j)
      BY <2>3, <2>5, Zenon DEF PlanFits
    <2>7. u \in Tensors(planned) /\ planned[u].srcs = x[u].srcs
      BY DEF SameShape, Tensors
    <2>8. Fits(planned[t], x[t])
      BY <2>3, <2>6, <2>7 DEF SourceFits
    <2> QED
      BY <1>1, <2>8 DEF Fits
  <1> QED
    BY <1>2, <1>3

LEMMA AllocGraphFits ==
    ASSUME PlanInv, FitsInv, NEW x, IsGraph(x), x = g \/ SameShape(g, x), AllocGraph(x), PlanInv'
    PROVE  FitsInv'
  <1>1. phase \in {"idle", "ready"} /\ g' = x /\ buffer' = buffer
    BY DEF AllocGraph
  <1>2. CASE StartPlan(x)
    <2>1. phase' = "plan" /\ planned' = x
      BY <1>2 DEF StartPlan
    <2>2. FitsPlanOf(planned', g')
      BY <1>1, <2>1, FitsItself
    <2> QED
      BY <2>1, <2>2, Zenon DEF FitsInv
  <1>3. CASE PlanFits(x) /\ phase' = "ready" /\ UNCHANGED plan
    <2>1. planned' = planned /\ chunks' = chunks
      BY <1>3 DEF plan
    <2>2. SameShape(planned, x)
      <3>1. CASE phase = "idle"
        <4>1. planned = <<>> /\ Len(planned) = Len(x)
          BY <1>3, <3>1 DEF FitsInv, PlanFits
        <4>2. Len(<<>>) = 0 /\ 1..0 = {}
          OBVIOUS
        <4>3. Tensors(planned) = {} /\ Len(x) = Len(planned)
          BY <4>1, <4>2 DEF Tensors
        <4> QED
          BY <4>3, Zenon DEF SameShape
      <3>2. CASE phase = "ready"
        <4>1. SameShape(planned, g)
          BY <3>2 DEF FitsInv, FitsPlanOf
        <4> QED
          BY <4>1, ShapeTransitive, Zenon
      <3> QED
        BY <1>1, <3>1, <3>2
    <2>3. FitsPlanOf(planned', g')
      BY <1>1, <1>3, <2>1, <2>2, KeptPlanFits
    <2>4. (buffer' # <<>>) => BufferSuffices'
      <3>1. CASE phase = "idle"
        <4>1. Len(<<>>) = 0 /\ 1..0 = {}
          OBVIOUS
        <4>2. 1..Len(chunks') = {}
          BY <2>1, <3>1, <4>1 DEF FitsInv
        <4> QED
          BY <4>2, Zenon DEF BufferSuffices
      <3>2. CASE phase = "ready"
        BY <1>1, <2>1, <3>2 DEF FitsInv, BufferSuffices
      <3> QED
        BY <1>1, <3>1, <3>2
    <2> QED
      BY <1>3, <2>3, <2>4, Zenon DEF FitsInv
  <1> QED
    BY <1>2, <1>3 DEF AllocGraph

\* The buffer that is allocated has room for the plan.
LEMMA ReserveFits ==
    ASSUME PlanInv, FitsInv, Reserve \/ ReserveFails
    PROVE  (phase' = "ready" /\ buffer' # <<>>) => BufferSuffices'
  <1>1. CASE Reserve
    <2>1. chunks' = chunks /\ chunks \in Seq(Chunk)
      BY <1>1 DEF Reserve, plan, PlanInv, Balanced
    <2>2. CASE BufferSuffices
      <3>1. buffer' = buffer
        BY <1>1, <2>2 DEF Reserve
      <3> QED
        BY <2>1, <2>2, <3>1 DEF BufferSuffices
    <2>3. CASE ~BufferSuffices
      <3>1. buffer' = [c \in 1..Len(chunks) |-> chunks[c].max_size]
        BY <1>1, <2>3 DEF Reserve
      <3>2. Len(chunks) \in Nat
        BY <2>1
      <3>3. Len(buffer') = Len(chunks)
        BY <3>1, <3>2
      <3>4. ASSUME NEW c \in 1..Len(chunks)
            PROVE  c <= Len(buffer') /\ chunks[c].max_size <= buffer'[c]
        <4>1. chunks[c] \in Chunk
          BY <2>1
        <4>2. PICK m \in Nat : m = chunks[c].max_size
          BY <4>1 DEF Chunk
        <4>3. buffer'[c] = m
          BY <3>1, <4>2
        <4> QED
          BY <3>2, <3>3, <4>2, <4>3
      <3> QED
        BY <2>1, <3>4 DEF BufferSuffices
    <2> QED
      BY <2>2, <2>3
  <1>2. CASE ReserveFails
    BY <1>2 DEF ReserveFails
  <1> QED
    BY <1>1, <1>2

LEMMA FitsInvStep ==
    ASSUME NEW All, GraphsIn(All), \A x \in All : \A y \in Variants(x) : SameShape(x, y),
           g \in All, PlanInv, PlanInv', FitsInv, [Next]_vars
    PROVE  FitsInv'
  <1>1. CASE UNCHANGED vars
    <2>1. phase' = phase /\ planned' = planned /\ g' = g /\ chunks' = chunks /\ buffer' = buffer
      BY <1>1 DEF vars, plan
    <2> QED
      BY <2>1 DEF FitsInv, BufferSuffices
  <1>2. ASSUME NEW x \in {g} \cup Variants(g), AllocGraph(x) PROVE FitsInv'
    <2>1. IsGraph(x) /\ (x = g \/ SameShape(g, x))
      BY <1>2 DEF GraphsIn
    <2> QED
      BY <1>2, <2>1, AllocGraphFits
  <1>3. IsGraph(planned')
    BY DEF PlanInv, PlanTypeOK
  <1>4. CASE PlaceLeaf \/ PlaceParent \/ PlaceNode \/ ReleaseParent \/ NextNode
    <2>1. phase' \in {"plan", "release"}
      BY <1>4 DEF PlaceLeaf, PlaceParent, PlaceNode, ReleaseParent, NextNode, Planning
    <2>2. g' = planned'
      BY <2>1 DEF PlanInv, PlanTypeOK
    <2>3. FitsPlanOf(planned', g')
      BY <1>3, <2>2, FitsItself
    <2>4. phase' # "ready" /\ phase' # "idle"
      BY <2>1
    <2> QED
      BY <2>3, <2>4, Zenon DEF FitsInv
  <1>5. CASE Reserve \/ ReserveFails
    <2>1. phase' \in {"plan", "ready"} /\ g' = g /\ g = planned /\ (planned' = planned \/ planned' = g)
      BY <1>5 DEF Reserve, ReserveFails, StartPlan, plan, PlanInv, PlanTypeOK
    <2>2. g' = planned'
      BY <2>1
    <2>3. FitsPlanOf(planned', g')
      BY <1>3, <2>2, FitsItself
    <2>4. phase' # "idle" /\ ((phase' = "ready" /\ buffer' # <<>>) => BufferSuffices')
      BY <1>5, <2>1, ReserveFits
    <2> QED
      BY <2>3, <2>4, Zenon DEF FitsInv
  <1>6. (graphs = 0 /\ AllocGraph(g)) => FitsInv'
    BY <1>2
  <1> QED
    BY <1>1, <1>2, <1>4, <1>5, <1>6 DEF Next, Rest

LEMMA FitsInvHolds ==
    ASSUME NEW All, GraphsIn(All), \A x \in All : \A y \in Variants(x) : SameShape(x, y)
    PROVE  Spec => [](PlanInv /\ FitsInv /\ IsGraph(g))
  <1>1. Init => PlanInv /\ FitsInv /\ g \in All
    <2>1. ASSUME Init PROVE PlanInv /\ g \in All
      BY <2>1, PlanInvInit DEF Init, GraphsIn
    <2>2. ASSUME Init PROVE FitsInv
      BY <2>2 DEF Init, FitsInv
    <2> QED
      BY <2>1, <2>2
  <1>2. PlanInv /\ FitsInv /\ g \in All /\ [Next]_vars => (PlanInv /\ FitsInv /\ g \in All)'
    BY PlanInvStep, GraphStep, FitsInvStep
  <1>3. g \in All => IsGraph(g)
    BY DEF GraphsIn
  <1> QED
    BY <1>1, <1>2, <1>3, PTL DEF Spec
-----------------------------------------------------------------------------
(* The theorems.                                                           *)

\* The addresses of chunk c that are free or owned are those up to the end of its last
\* free block or its highest use.
LEMMA UsedUpTo ==
    ASSUME NEW ch, NEW x, NEW ad, NEW O, Balanced(ch, x, ad, O), NEW c \in 1..Len(ch), NEW a \in Nat
    PROVE  Used(ch, x, ad, O, c, a) <=>
             a <= (IF ch[c].free = <<>> THEN ch[c].max_size - 1
                   ELSE IF LastOf(Last(ch[c].free)) > ch[c].max_size
                   THEN LastOf(Last(ch[c].free)) - 1 ELSE ch[c].max_size - 1)
  <1> DEFINE free == ch[c].free
             L    == LastOf(Last(free))
             top  == IF free = <<>> THEN ch[c].max_size - 1
                     ELSE IF L > ch[c].max_size THEN L - 1 ELSE ch[c].max_size - 1
  <1>1. Sorted(free) /\ free \in Seq(Block)
    BY Zenon DEF Balanced, Sorted
  <1>2. PICK m \in Nat : m = ch[c].max_size
    <2>1. ch[c] \in Chunk
      BY DEF Balanced
    <2> QED
      BY <2>1 DEF Chunk
  <1>3. m > 0 => Used(ch, x, ad, O, c, m - 1)
    BY <1>2, Zenon DEF Balanced
  <1>4. \A b \in Nat : (a < b /\ Used(ch, x, ad, O, c, b)) => Used(ch, x, ad, O, c, a)
    BY Zenon DEF Balanced
  <1>5. ASSUME NEW t \in O, Holds(x, ad, t, c, a) PROVE a < m
    <2>1. /\ ad[t] \in Place /\ x[t].size \in Nat
          /\ ad[t].offset + x[t].size <= ch[ad[t].chunk].max_size
      BY Zenon DEF Balanced
    <2>2. ad[t].chunk = c /\ a < ad[t].offset + x[t].size
      BY <1>5 DEF Holds, In
    <2>3. PICK o \in Nat, n \in Nat : o = ad[t].offset /\ n = x[t].size
      BY <2>1 DEF Place
    <2> QED
      BY <1>2, <2>1, <2>2, <2>3
  <1>6. CASE free = <<>>
    <2>1. ~Open(free, a)
      BY <1>6 DEF Open
    <2>2. Used(ch, x, ad, O, c, a) <=> a <= m - 1
      <3>1. ASSUME Used(ch, x, ad, O, c, a) PROVE a <= m - 1
        BY <1>5, <2>1, <3>1 DEF Used
      <3>2. ASSUME a <= m - 1 PROVE Used(ch, x, ad, O, c, a)
        <4>1. m > 0 /\ m - 1 \in Nat /\ (a = m - 1 \/ a < m - 1)
          BY <3>2
        <4> QED
          BY <1>3, <1>4, <4>1
      <3> QED
        BY <3>1, <3>2
    <2> QED
      BY <1>2, <1>6, <2>2
  <1>7. CASE free # <<>>
    <2>1. PICK n \in Nat : n = Len(free) /\ n > 0
      BY <1>1, <1>7
    <2>2. free[n] \in Block /\ Last(free) = free[n]
      BY <1>1, <2>1 DEF Last
    <2>3. PICK o \in Nat, s \in Nat : o = free[n].offset /\ s = free[n].size /\ s > 0
      BY <2>2 DEF Block
    <2>4. L = o + s
      BY <2>2, <2>3 DEF LastOf
    <2>5. Open(free, o + s - 1)
      <3>1. InBlock(free[n], o + s - 1)
        BY <2>3, <2>4 DEF InBlock, LastOf
      <3> QED
        BY <2>1, <3>1 DEF Open
    <2>6. ASSUME Open(free, a) PROVE a < o + s
      <3>1. PICK k \in 1..Len(free) : InBlock(free[k], a)
        BY <2>6 DEF Open
      <3>2. CASE k = n
        BY <2>3, <3>1, <3>2 DEF InBlock, LastOf
      <3>3. CASE k # n
        <4>1. k < n /\ n \in 1..Len(free)
          BY <2>1, <3>3
        <4>2. LastOf(free[k]) < o
          BY <1>1, <2>3, <4>1 DEF Sorted
        <4>3. LastOf(free[k]) \in Nat
          <5>1. free[k] \in Block
            BY <1>1
          <5> QED
            BY <5>1 DEF Block, LastOf
        <4> QED
          BY <2>3, <3>1, <4>2, <4>3 DEF InBlock
      <3> QED
        BY <3>2, <3>3
    <2>7. PICK e \in Nat : e = IF o + s > m THEN o + s ELSE m
      OBVIOUS
    <2>8. e >= m /\ e >= o + s /\ e > 0
      BY <2>3, <2>7
    <2>9. ASSUME Used(ch, x, ad, O, c, a) PROVE a < e
      BY <1>5, <2>6, <2>8, <2>9 DEF Used
    <2>10. Used(ch, x, ad, O, c, e - 1)
      <3>1. CASE o + s > m
        BY <2>5, <2>7, <3>1 DEF Used
      <3>2. CASE ~(o + s > m)
        BY <1>3, <2>7, <2>8, <3>2
      <3> QED
        BY <3>1, <3>2
    <2>11. ASSUME a < e PROVE Used(ch, x, ad, O, c, a)
      <3>1. e - 1 \in Nat /\ (a = e - 1 \/ a < e - 1)
        BY <2>8, <2>11
      <3> QED
        BY <1>4, <2>10, <3>1
    <2>12. top = e - 1
      BY <1>2, <1>7, <2>4, <2>7
    <2>13. a < e <=> a <= e - 1
      OBVIOUS
    <2> QED
      BY <2>9, <2>11, <2>12, <2>13
  <1> QED
    BY <1>6, <1>7

\* The invariant says what the books of the allocator are.
LEMMA BooksBalance ==
    ASSUME PlanInv
    PROVE  FreeListExact
  <1>1. Balanced(chunks, planned, addr, Owners) /\ LastChunk(chunks, planned, Turn)
    BY DEF PlanInv
  <1>2. DOMAIN allocated = Tensors(planned)
    BY DEF PlanInv, PlanTypeOK
  <1>3. SUFFICES ASSUME NEW c \in 1..Len(chunks)
        PROVE  LET free == chunks[c].free
                   area == UNION {addr[t].offset..(addr[t].offset + planned[t].size - 1) : t \in Owned(c)}
                   open == UNION {free[b].offset..(LastOf(free[b]) - 1) : b \in 1..Len(free)}
               IN /\ Len(chunks) <= MaxChunks
                  /\ \A b \in 1..Len(free) : free[b].size > 0
                  /\ \A b \in 1..(Len(free) - 1) : LastOf(free[b]) < free[b + 1].offset
                  /\ \A t, u \in Owned(c) : t # u =>
                        ~Overlap(addr[t], planned[t].size, addr[u], planned[u].size)
                  /\ area \cap open = {}
                  /\ area \cup open = 0..(IF free = <<>> THEN chunks[c].max_size - 1
                                          ELSE IF LastOf(Last(free)) > chunks[c].max_size
                                          THEN LastOf(Last(free)) - 1 ELSE chunks[c].max_size - 1)
    BY DEF FreeListExact
  <1> DEFINE free == chunks[c].free
             area == UNION {addr[t].offset..(addr[t].offset + planned[t].size - 1) : t \in Owned(c)}
             open == UNION {free[b].offset..(LastOf(free[b]) - 1) : b \in 1..Len(free)}
             top  == IF free = <<>> THEN chunks[c].max_size - 1
                     ELSE IF LastOf(Last(free)) > chunks[c].max_size
                     THEN LastOf(Last(free)) - 1 ELSE chunks[c].max_size - 1
  <1>4. Sorted(free) /\ free \in Seq(Block)
    BY <1>1, Zenon DEF Balanced, Sorted
  <1>5. Owned(c) \subseteq Owners /\ \A t \in Owners : t \in Owned(c) <=> addr[t].chunk = c
    BY <1>2 DEF Owned, Owners
  <1>6. Len(chunks) <= MaxChunks
    BY <1>1 DEF LastChunk
  <1>7. ASSUME NEW b \in 1..Len(free) PROVE free[b].size > 0 /\ free[b].offset \in Nat /\ LastOf(free[b]) \in Nat
    <2>1. free[b] \in Block
      BY <1>4
    <2> QED
      BY <2>1 DEF Block, LastOf
  <1>8. ASSUME NEW b \in 1..(Len(free) - 1) PROVE LastOf(free[b]) < free[b + 1].offset
    <2>1. b \in 1..Len(free) /\ b + 1 \in 1..Len(free) /\ b < b + 1
      BY <1>4
    <2> QED
      BY <1>4, <2>1 DEF Sorted
  <1>9. \A t, u \in Owned(c) : t # u => ~Overlap(addr[t], planned[t].size, addr[u], planned[u].size)
    BY <1>1, <1>5, OwnersApart
  <1>10. ASSUME NEW t \in Owners
         PROVE  addr[t].offset \in Nat /\ planned[t].size \in Nat
    BY <1>1, Zenon DEF Balanced, Place
  <1>11. ASSUME NEW a PROVE a \in area <=> a \in Nat /\ \E t \in Owners : Holds(planned, addr, t, c, a)
    <2>1. ASSUME NEW t \in Owned(c)
          PROVE  a \in addr[t].offset..(addr[t].offset + planned[t].size - 1) <=>
                    a \in Nat /\ Holds(planned, addr, t, c, a)
      <3>1. PICK o \in Nat, n \in Nat : o = addr[t].offset /\ n = planned[t].size
        BY <1>5, <1>10
      <3>2. addr[t].chunk = c
        BY <1>5
      <3>3. Holds(planned, addr, t, c, a) <=> o <= a /\ a < o + n
        BY <3>1, <3>2 DEF Holds, In
      <3>4. a \in o..(o + n - 1) <=> a \in Nat /\ o <= a /\ a < o + n
        OBVIOUS
      <3> QED
        BY <3>1, <3>3, <3>4
    <2>2. ASSUME NEW t \in Owners, Holds(planned, addr, t, c, a) PROVE t \in Owned(c)
      BY <1>5, <2>2 DEF Holds, In
    <2> QED
      BY <1>5, <2>1, <2>2
  <1>12. ASSUME NEW a PROVE a \in open <=> a \in Nat /\ Open(free, a)
    <2>1. ASSUME NEW b \in 1..Len(free)
          PROVE  a \in free[b].offset..(LastOf(free[b]) - 1) <=> a \in Nat /\ InBlock(free[b], a)
      <3>1. PICK o \in Nat, e \in Nat : o = free[b].offset /\ e = LastOf(free[b])
        BY <1>7
      <3>2. a \in o..(e - 1) <=> a \in Nat /\ o <= a /\ a < e
        OBVIOUS
      <3> QED
        BY <3>1, <3>2 DEF InBlock
    <2> QED
      BY <2>1 DEF Open
  <1>13. area \cap open = {}
    <2>1. SUFFICES ASSUME NEW a \in area, a \in open PROVE FALSE
      OBVIOUS
    <2> QED
      BY <1>1, <1>11, <1>12, <2>1, Zenon DEF Balanced
  <1>14. area \cup open = 0..top
    <2>1. top \in Int
      <3>1. chunks[c] \in Chunk
        BY <1>1 DEF Balanced
      <3>2. chunks[c].max_size \in Nat
        BY <3>1 DEF Chunk
      <3>3. free # <<>> => LastOf(Last(free)) \in Nat
        BY <1>4, <1>7 DEF Last
      <3> QED
        BY <3>2, <3>3
    <2>2. \A a \in Nat : Used(chunks, planned, addr, Owners, c, a) <=> a <= top
      BY <1>1, UsedUpTo
    <2>3. \A a : a \in area \cup open <=> a \in Nat /\ Used(chunks, planned, addr, Owners, c, a)
      BY <1>11, <1>12, Zenon DEF Used
    <2>4. \A a : a \in 0..top <=> a \in Nat /\ a <= top
      BY <2>1
    <2> HIDE DEF area, open, top
    <2> QED
      BY <2>2, <2>3, <2>4
  <1> QED
    BY <1>6, <1>7, <1>8, <1>9, <1>13, <1>14, Zenon

\* When a graph is ready each of its tensors has been placed, with at least the memory
\* it needs.
LEMMA ReadyFacts ==
    ASSUME PlanInv, FitsInv, IsGraph(g), phase = "ready"
    PROVE  /\ Tensors(g) = Tensors(planned)
           /\ \A t \in Tensors(g) :
                 /\ g[t].kind = planned[t].kind /\ g[t].srcs = planned[t].srcs
                 /\ g[t].view_src = planned[t].view_src /\ g[t].output = planned[t].output
           /\ \A t \in Tensors(g) : (IsNode(g, t) <=> IsNode(planned, t)) /\ Root(g, t) = Root(planned, t)
           /\ \A t \in Tensors(g) : HasMemory(t) =>
                 /\ t \in Placed
                 /\ addr[t] \in Place /\ g[t].size \in Nat /\ planned[t].size \in Nat
                 /\ g[t].size <= planned[t].size
  <1>1. FitsPlanOf(planned, g)
    BY DEF FitsInv
  <1>2. /\ Tensors(g) = Tensors(planned)
        /\ \A t \in Tensors(g) :
              /\ g[t].kind = planned[t].kind /\ g[t].srcs = planned[t].srcs
              /\ g[t].view_src = planned[t].view_src /\ g[t].output = planned[t].output
    BY <1>1, Zenon DEF FitsPlanOf, SameShape, Tensors
  <1>3. \A t \in Tensors(g) : (IsNode(g, t) <=> IsNode(planned, t)) /\ Root(g, t) = Root(planned, t)
    BY <1>2 DEF IsNode, Root, IsView
  <1>4. ASSUME NEW t \in Tensors(g), HasMemory(t)
        PROVE  /\ t \in Placed
               /\ addr[t] \in Place /\ g[t].size \in Nat /\ planned[t].size \in Nat
               /\ g[t].size <= planned[t].size
    <2>1. planned \in Seq(Tensor) /\ i = Len(planned) + 1 /\ addr \in [Tensors(planned) -> Place]
      BY DEF PlanInv, PlanTypeOK, IsGraph
    <2>2. Turn = Len(planned)
      BY <2>1 DEF Turn
    <2>3. t \in Placed
      BY <1>2, <1>4, <2>2 DEF Placed, Tensors, HasMemory, NeedsMemory
    <2>4. g[t].size <= planned[t].size
      BY <1>1, <1>4 DEF FitsPlanOf, HasMemory
    <2>5. planned[t].size \in Nat
      <3>1. planned[t] \in Tensor
        BY <1>2, <2>1 DEF Tensors
      <3> QED
        BY <3>1 DEF Tensor
    <2>6. g[t].size \in Nat
      <3>1. g[t] \in Tensor
        BY DEF IsGraph, Tensors
      <3> QED
        BY <3>1 DEF Tensor
    <2> QED
      BY <1>2, <2>1, <2>3, <2>4, <2>5, <2>6
  <1> QED
    BY <1>2, <1>3, <1>4

\* Tensors share memory only where their planned places do.
LEMMA ShareClash ==
    ASSUME PlanInv, FitsInv, IsGraph(g), phase = "ready",
           NEW t \in Tensors(g), NEW u \in Tensors(g), HasMemory(t), HasMemory(u), Share(t, u)
    PROVE  Clash(t, u) /\ Clash(u, t)
  <1>1. PICK m \in Nat, n \in Nat : m = planned[t].size /\ n = planned[u].size
    BY ReadyFacts
  <1>2. PICK a \in Nat, b \in Nat : a = addr[t].offset /\ b = addr[u].offset
    BY ReadyFacts DEF Place
  <1>3. PICK v \in Nat, w \in Nat : v = g[t].size /\ w = g[u].size
    BY ReadyFacts
  <1>4. v <= m /\ w <= n
    BY <1>1, <1>3, ReadyFacts
  <1>5. addr[t].chunk = addr[u].chunk /\ a < b + w /\ b < a + v
    BY <1>2, <1>3, Zenon DEF Share, Overlap
  <1>6. a < b + n /\ b < a + m
    BY <1>4, <1>5
  <1> QED
    BY <1>1, <1>2, <1>5, <1>6, Zenon DEF Clash, Overlap

LEMMA ReadySources ==
    ASSUME PlanInv, FitsInv, IsGraph(g)
    PROVE  SourcesIntact
  <1>1. SUFFICES ASSUME phase = "ready",
                        NEW k \in Tensors(g), IsNode(g, k), NEW j \in 1..Len(g[k].srcs),
                        HasMemory(Root(g, g[k].srcs[j]))
        PROVE  LET s == g[k].srcs[j]
                   r == Root(g, s)
               IN /\ \A w \in Tensors(g) : WrittenBetween(w, r, k) => ~Share(w, r)
                  /\ (HasMemory(k) /\ Share(k, r)) =>
                        g[k].kind = "inplace" /\ s = r /\ addr[k] = addr[r] /\ g[k].size = g[r].size
    BY DEF SourcesIntact
  <1> DEFINE s == g[k].srcs[j]
             r == Root(g, s)
  <1>2. s \in Tensors(g) /\ r \in Tensors(g)
    <2>1. s \in 1..(k - 1) /\ k \in 1..Len(g)
      BY Zenon DEF IsGraph, Tensors
    <2>2. s \in Tensors(g) /\ Len(g) \in Nat
      BY <2>1 DEF Tensors, IsGraph
    <2>3. IsView(g, s) => g[s].view_src \in 1..(s - 1)
      BY <2>2, Zenon DEF IsGraph
    <2> QED
      BY <2>1, <2>2, <2>3 DEF Root, Tensors
  <1>3. /\ j \in 1..Len(planned[k].srcs) /\ s = planned[k].srcs[j] /\ r = Root(planned, s)
        /\ Tensors(planned) = Tensors(g) /\ NeedsMemory(planned[r])
    <2>1. g[k].srcs = planned[k].srcs /\ r = Root(planned, s)
      BY <1>1, <1>2, ReadyFacts, Zenon
    <2>2. NeedsMemory(planned[r])
      BY <1>1, <1>2, ReadyFacts DEF HasMemory, NeedsMemory
    <2>3. Tensors(planned) = Tensors(g)
      BY <1>1, ReadyFacts, Zenon
    <2> QED
      BY <2>1, <2>2, <2>3, Zenon
  <1>4. r \in Placed
    BY <1>1, <1>2, ReadyFacts, Zenon
  <1>5. PlacedWell
    BY DEF PlanInv
  <1>6. ASSUME NEW w \in Tensors(g), WrittenBetween(w, r, k), Share(w, r) PROVE FALSE
    <2>1. HasMemory(w) /\ w # r
      BY <1>6, Zenon DEF WrittenBetween
    <2>2. w \in Placed /\ (IsNode(g, w) <=> IsNode(planned, w)) /\ (IsNode(g, r) <=> IsNode(planned, r))
      BY <1>1, <1>2, <2>1, ReadyFacts, Zenon
    <2>3. Clash(w, r) /\ Clash(r, w)
      BY <1>1, <1>2, <1>6, <2>1, ShareClash, Zenon
    <2>4. CASE IsNode(g, w)
      <3>1. r < w /\ w < k
        BY <1>6, <2>4, Zenon DEF WrittenBetween
      <3>2. Reads(k, r)
        BY <1>3, Zenon DEF Reads
      <3>3. Needed(r, w)
        <4>1. k > w
          BY <3>1 DEF Tensors
        <4> QED
          BY <1>3, <3>2, <4>1, Zenon DEF Needed
      <3> QED
        BY <1>4, <1>5, <2>2, <2>3, <2>4, <3>1, <3>3, Zenon DEF PlacedWell
    <2>5. CASE ~IsNode(g, w)
      <3>1. ~IsNode(g, r)
        BY <1>6, <2>5, Zenon DEF WrittenBetween
      <3> QED
        BY <1>4, <1>5, <2>1, <2>2, <2>3, <2>5, <3>1, Zenon DEF PlacedWell
    <2> QED
      BY <2>4, <2>5
  <1>7. ASSUME HasMemory(k), Share(k, r)
        PROVE  g[k].kind = "inplace" /\ s = r /\ addr[k] = addr[r] /\ g[k].size = g[r].size
    <2>1. Clash(k, r)
      BY <1>1, <1>2, <1>7, ShareClash, Zenon
    <2>2. k \in Placed
      BY <1>1, <1>7, ReadyFacts, Zenon
    <2>3. KeepsSource(k, j)
      BY <1>3, <1>5, <2>2, Zenon DEF PlacedWell
    <2>4. planned[k].kind = "inplace" /\ s = r /\ addr[k] = addr[r] /\ planned[k].size = planned[r].size
      BY <1>3, <2>1, <2>3, Zenon DEF KeepsSource
    <2>5. SameShape(planned, g) /\ g[k].kind = planned[k].kind
      BY <1>1, ReadyFacts DEF FitsInv, FitsPlanOf
    <2>6. g[k].size = g[r].size
      BY <1>2, <1>3, <2>4, <2>5, Zenon DEF SameShape
    <2> QED
      BY <2>4, <2>5, <2>6
  <1> QED
    BY <1>6, <1>7

LEMMA ReadyOutputs ==
    ASSUME PlanInv, FitsInv, IsGraph(g)
    PROVE  OutputsKept
  <1>1. SUFFICES ASSUME phase = "ready", NEW o \in Outputs, ~LosesMemory(o),
                        NEW w \in Tensors(g), w > o, HasMemory(w), IsNode(g, w), Share(w, Root(g, o))
        PROVE  FALSE
    BY DEF OutputsKept, Stays
  <1>2. PICK r : r = Root(g, o)
    OBVIOUS
  <1>3. /\ o \in Tensors(g) /\ g[o].output /\ HasMemory(r)
        /\ r = o \/ (IsView(g, o) /\ g[o].view_src = r /\ (g[r].output \/ Uses(g, o) = {}))
    BY <1>1, <1>2 DEF Outputs, LosesMemory, Root
  <1>4. r \in Tensors(g) /\ r < w
    <2>1. r \in Tensors(g) /\ r \in Nat /\ o \in Nat /\ w \in Nat /\ (r = o \/ r < o)
      BY <1>3, TensorFacts
    <2> QED
      BY <1>1, <2>1
  <1>5. r \in Placed /\ w \in Placed /\ IsNode(planned, w)
    BY <1>1, <1>3, <1>4, ReadyFacts
  <1>6. Clash(r, w)
    BY <1>1, <1>2, <1>3, <1>4, ShareClash, Zenon
  <1>7. Kept(r)
    <2>1. CASE g[r].output
      BY <1>1, <1>4, <2>1, ReadyFacts DEF Kept
    <2>2. CASE IsView(g, o) /\ g[o].view_src = r /\ Uses(g, o) = {}
      <3>1. o \in Views(planned, r)
        BY <1>1, <1>3, <2>2, ReadyFacts DEF Views, IsView
      <3>2. ASSUME NEW e \in Uses(planned, o) PROVE FALSE
        <4>1. /\ e[1] \in Tensors(planned)
              /\ e[2] \in 1..Len(planned[e[1]].srcs) /\ planned[e[1]].srcs[e[2]] = o
          BY <3>2, UsesFacts DEF PlanInv, PlanTypeOK
        <4>2. e[1] \in Tensors(g) /\ g[e[1]].srcs = planned[e[1]].srcs
          BY <1>1, <4>1, ReadyFacts
        <4>3. <<e[1], e[2]>> \in Uses(g, o)
          BY <4>1, <4>2, UsesFacts
        <4> QED
          BY <2>2, <4>3
      <3> QED
        BY <3>1, <3>2 DEF Kept
    <2> QED
      BY <1>3, <2>1, <2>2
  <1>8. Needed(r, w)
    BY <1>7 DEF Needed
  <1> QED
    BY <1>4, <1>5, <1>6, <1>8, Zenon DEF PlanInv, PlacedWell

LEMMA ReadyBuffer ==
    ASSUME PlanInv, FitsInv, IsGraph(g)
    PROVE  PlanInBuffer
  <1>1. SUFFICES ASSUME phase = "ready", buffer # <<>>, NEW t \in Tensors(g), HasMemory(t)
        PROVE  addr[t].chunk <= Len(buffer) /\ addr[t].offset + g[t].size <= buffer[addr[t].chunk]
    BY DEF PlanInBuffer
  <1>2. BufferSuffices /\ buffer \in Seq(Nat) /\ chunks \in Seq(Chunk)
    BY <1>1 DEF FitsInv, PlanInv, PlanTypeOK, Balanced
  <1>3. t \in Placed
    BY <1>1, ReadyFacts
  <1>4. PICK c \in 1..Len(chunks) : c = addr[t].chunk /\ addr[t].offset + planned[t].size <= chunks[c].max_size
    BY <1>3, Zenon DEF PlanInv, PlacedWell
  <1>5. c <= Len(buffer) /\ chunks[c].max_size <= buffer[c]
    BY <1>2 DEF BufferSuffices
  <1>6. PICK m \in Nat, b \in Nat : m = chunks[c].max_size /\ b = buffer[c]
    <2>1. chunks[c] \in Chunk /\ c \in 1..Len(buffer)
      BY <1>2, <1>5
    <2> QED
      BY <1>2, <2>1 DEF Chunk
  <1>7. PICK o \in Nat, n \in Nat, z \in Nat : o = addr[t].offset /\ n = g[t].size /\ z = planned[t].size /\ n <= z
    BY <1>1, ReadyFacts DEF Place
  <1>8. o + z <= m /\ m <= b
    BY <1>4, <1>5, <1>6, <1>7
  <1>9. o + n <= b
    BY <1>7, <1>8
  <1> QED
    BY <1>4, <1>5, <1>6, <1>7, <1>9, Zenon

\* In every run that allocates graphs, the records of the allocator are consistent: which
\* tensors are placed, how many of their readers and views are left, and who owns memory.
THEOREM PlanTypesHold == OnlyGraphs => (Spec => []PlanTypeOK)
  <1>1. SUFFICES ASSUME OnlyGraphs PROVE Spec => []PlanTypeOK
    OBVIOUS
  <1>2. PICK All : GraphsIn(All)
    BY <1>1 DEF OnlyGraphs
  <1>3. Spec => [](PlanInv /\ g \in All)
    BY <1>2, PlanInvHolds
  <1>4. PlanInv => PlanTypeOK
    BY DEF PlanInv
  <1> QED
    BY <1>3, <1>4, PTL

\* The dynamic allocator neither loses nor doubles memory, whatever graphs are allocated
\* and however often its plans are made anew: in every chunk free blocks and owned tensors
\* are disjoint and together leave no gap.
THEOREM FreeListIsExact == OnlyGraphs => (Spec => []FreeListExact)
  <1>1. SUFFICES ASSUME OnlyGraphs PROVE Spec => []FreeListExact
    OBVIOUS
  <1>2. PICK All : GraphsIn(All)
    BY <1>1 DEF OnlyGraphs
  <1>3. Spec => [](PlanInv /\ g \in All)
    BY <1>2, PlanInvHolds
  <1>4. PlanInv => FreeListExact
    BY BooksBalance
  <1> QED
    BY <1>3, <1>4, PTL

\* When a planned graph runs, every node finds in its sources what was written there for
\* it, although memory is shared and inplace nodes take over that of a source; also with
\* a plan that ggml_gallocr_needs_realloc kept for tensors of other sizes.
THEOREM SourcesAreIntact == ShapesKept => (Spec => []SourcesIntact)
  <1>1. SUFFICES ASSUME ShapesKept PROVE Spec => []SourcesIntact
    OBVIOUS
  <1>2. PICK All : GraphsIn(All) /\ \A x \in All : \A y \in Variants(x) : SameShape(x, y)
    BY <1>1 DEF ShapesKept
  <1>3. Spec => [](PlanInv /\ FitsInv /\ IsGraph(g))
    BY <1>2, FitsInvHolds
  <1>4. PlanInv /\ FitsInv /\ IsGraph(g) => SourcesIntact
    BY ReadySources
  <1> QED
    BY <1>3, <1>4, PTL

\* What an output holds is still there when the graph is done.  An output with memory of
\* its own, and so a view of one: ggml_gallocr_free_node passes over it, and no inplace
\* node takes its memory.  A view that no node reads, of any tensor: it is counted in
\* n_views of that tensor, and nothing ever counts it off.  (A view of another tensor that
\* some node reads is counted off; then the memory goes, see EveryOutputStays.)
THEOREM OutputsAreKept == ShapesKept => (Spec => []OutputsKept)
  <1>1. SUFFICES ASSUME ShapesKept PROVE Spec => []OutputsKept
    OBVIOUS
  <1>2. PICK All : GraphsIn(All) /\ \A x \in All : \A y \in Variants(x) : SameShape(x, y)
    BY <1>1 DEF ShapesKept
  <1>3. Spec => [](PlanInv /\ FitsInv /\ IsGraph(g))
    BY <1>2, FitsInvHolds
  <1>4. PlanInv /\ FitsInv /\ IsGraph(g) => OutputsKept
    BY ReadyOutputs
  <1> QED
    BY <1>3, <1>4, PTL

\* A buffer that was kept from an earlier plan, or allocated for this one, has room for
\* every tensor at its place, chunk by chunk.
THEOREM PlanIsInBuffer == ShapesKept => (Spec => []PlanInBuffer)
  <1>1. SUFFICES ASSUME ShapesKept PROVE Spec => []PlanInBuffer
    OBVIOUS
  <1>2. PICK All : GraphsIn(All) /\ \A x \in All : \A y \in Variants(x) : SameShape(x, y)
    BY <1>1 DEF ShapesKept
  <1>3. Spec => [](PlanInv /\ FitsInv /\ IsGraph(g))
    BY <1>2, FitsInvHolds
  <1>4. PlanInv /\ FitsInv /\ IsGraph(g) => PlanInBuffer
    BY ReadyBuffer
  <1> QED
    BY <1>3, <1>4, PTL
=============================================================================
