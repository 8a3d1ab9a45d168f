--------------------------- MODULE KvCacheProofs ---------------------------
(***************************************************************************)
(* The KV cache for any number of decoders, any size and any prompt.  The  *)
(* inductive invariant says, for each place of the loop, which sequence id *)
(* holds which tokens: one cell for each, and no other.  The operations of *)
(* the cache are described by what they do to the cells of one id (Same,   *)
(* Absent), and the invariant moves along those facts.                     *)
(* That a batch finds a slot has an invariant of its own (SlotInv).        *)
(***************************************************************************)
EXTENDS KvCache, FiniteSetTheorems, WellFoundedInduction, TLAPS

Cell  == [pos : -1..(TextCtx - 1), seqs : SUBSET SeqIds, tok : Tokens]
Index(kc) == 0..(kc.size - 1)

CellArrays == UNION {[0..(s - 1) -> Cell] : s \in Nat}

\* A cache as the code may have it; a cell is free exactly if it has no position.
CacheOK(kc) ==
    /\ kc \in [size : Nat \ {0}, head : Nat, cells : CellArrays]
    /\ kc.head \in 0..kc.size
    /\ kc.cells \in [0..(kc.size - 1) -> Cell]
    /\ \A c \in Index(kc) : kc.cells[c].pos = -1 <=> kc.cells[c].seqs = {}

Absent(kc, id) == \A c \in Index(kc) : id \notin kc.cells[c].seqs

\* Sequence b of cache kd has the cells that sequence a has in kc.
Same(kc, a, kd, b) ==
    /\ kd.size = kc.size
    /\ \A c \in Index(kc) :
          /\ b \in kd.cells[c].seqs <=> a \in kc.cells[c].seqs
          /\ a \in kc.cells[c].seqs => kd.cells[c].pos = kc.cells[c].pos /\ kd.cells[c].tok = kc.cells[c].tok

\* Sequence id holds the first m tokens of t, in one cell each.
Holds(kc, id, t, m) ==
    /\ \A c \in Index(kc) : id \in kc.cells[c].seqs =>
          kc.cells[c].pos \in 0..(m - 1) /\ kc.cells[c].tok = t[kc.cells[c].pos + 1]
    /\ \A p \in 0..(m - 1) : \E c \in Index(kc) : id \in kc.cells[c].seqs /\ kc.cells[c].pos = p
    /\ \A c, d \in Index(kc) :
          (id \in kc.cells[c].seqs /\ id \in kc.cells[d].seqs /\ kc.cells[c].pos = kc.cells[d].pos) => c = d

ViewIn(kc, id) == {<<kc.cells[c].pos, kc.cells[c].tok>> : c \in {c \in DOMAIN kc.cells : id \in kc.cells[c].seqs}}
-----------------------------------------------------------------------------
(* The inductive invariant.                                                *)

Idle == pc \in {"idle", "freed"}

LoopOK ==
    /\ n \in 1..MaxDecoders /\ live \subseteq Decoders /\ i \in Nat /\ plen \in Nat
    /\ tokens \in [Decoders -> Seq(Tokens)] /\ old \in [Decoders -> Seq(Tokens)]
    /\ pc \in {"idle", "freed", "prompt", "sample", "copy", "replace", "update", "batch", "compute"}
    /\ ~Idle => plen + i < TextCtx /\ i < NMax /\ plen \in PromptLens
    /\ pc \in {"copy", "replace"} => todo \subseteq live

\* No cell is marked with the temporary id of a decoder outside s.
OnlyMarked(s) == \A j \in Decoders \ s : Absent(kv, Tmp(j))

\* Before the other decoders share its cells, only decoder 0 has the prompt.
AtPrompt ==
    /\ i = 0 /\ live = 0..(n - 1)
    /\ \A j \in live : tokens[j] = tokens[0] /\ Len(tokens[j]) = plen
    /\ Holds(kv, 0, tokens[0], plen)
    /\ \A id \in SeqIds \ {0} : Absent(kv, id)

AtSample ==
    /\ \A j \in live : Holds(kv, j, tokens[j], plen + i) /\ Len(tokens[j]) = plen + i
    /\ OnlyMarked({})

AtCopy ==
    /\ \A j \in live : Holds(kv, j, old[j], plen + i) /\ Len(old[j]) = plen + i
    /\ \A j \in live \ todo :
          /\ Holds(kv, Tmp(j), tokens[j], plen + i) /\ Len(tokens[j]) = plen + i + 1
          /\ \E s \in live : ViewIn(kv, Tmp(j)) = ViewIn(kv, s)
    /\ OnlyMarked(live \ todo)

AtReplace ==
    /\ \A j \in live : Len(tokens[j]) = plen + i + 1
    /\ \A j \in todo : Holds(kv, Tmp(j), tokens[j], plen + i)
    /\ \A j \in live \ todo : Holds(kv, j, tokens[j], plen + i)
    /\ OnlyMarked(todo)

AtUpdate ==
    /\ \A j \in live : Holds(kv, j, tokens[j], plen + i) /\ Len(tokens[j]) = plen + i + 1
    /\ OnlyMarked({})

AtCompute ==
    /\ \A j \in live : Holds(kv, j, tokens[j], plen + i + 1) /\ Len(tokens[j]) = plen + i + 1
    /\ OnlyMarked({})

IInv ==
    /\ CacheOK(kv)
    /\ LoopOK
    /\ pc = "prompt" => AtPrompt
    /\ pc = "sample" => AtSample
    /\ pc = "copy" => AtCopy
    /\ pc = "replace" => AtReplace
    /\ pc \in {"update", "batch"} => AtUpdate
    /\ pc = "compute" => AtCompute
-----------------------------------------------------------------------------
(* Finite sets of naturals in increasing order.                            *)

\* A set of naturals that is not empty has a least element.
LEMMA LeastNat ==
    ASSUME NEW S \in SUBSET Nat, S # {}
    PROVE  \E m \in S : \A k \in S : m <= k
  <1>1. IsWellFoundedOn(OpToRel(<, Nat), Nat)
    BY NatLessThanWellFounded
  <1>2. PICK m \in S : \A k \in S : ~(<<k, m>> \in OpToRel(<, Nat))
    BY <1>1, WFMin
  <1>3. \A k \in S : ~(k < m)
    BY <1>2 DEF OpToRel
  <1> QED
    BY <1>3

\* A bounded one has a greatest.
LEMMA GreatestNat ==
    ASSUME NEW S \in SUBSET Nat, S # {}, NEW b \in Nat, \A s \in S : s <= b
    PROVE  \E m \in S : \A k \in S : k <= m
  <1> DEFINE T == {b - s : s \in S}
  <1>1. T \in SUBSET Nat /\ T # {}
    <2>1. \A s \in S : b - s \in Nat
      OBVIOUS
    <2> QED
      BY <2>1, Zenon
  <1>2. PICK t \in T : \A u \in T : t <= u
    BY <1>1, LeastNat
  <1>3. PICK m \in S : t = b - m
    BY <1>2
  <1>4. \A k \in S : b - m <= b - k
    BY <1>2, <1>3
  <1> QED
    BY <1>4

\* Numbering a finite set: different elements have different ranks, all below the size of
\* the set, so every rank is taken; and ranks grow with the elements.
LEMMA NthFacts ==
    ASSUME NEW S \in SUBSET Nat, IsFiniteSet(S)
    PROVE  /\ Cardinality(S) \in Nat
           /\ \A z \in 1..Cardinality(S) : Nth(S, z) \in S
           /\ \A m, z \in 1..Cardinality(S) : m < z => Nth(S, m) < Nth(S, z)
           /\ \A k \in S : \E z \in 1..Cardinality(S) : Nth(S, z) = k
  <1> DEFINE A(d) == {e \in S : e < d}
             f    == [d \in S |-> Below(S, d)]
  <1>1. PICK N \in Nat : N = Cardinality(S)
    BY FS_CardinalityType
  <1>2. ASSUME NEW d, NEW T \in SUBSET S, A(d) \subseteq T, A(d) # T
        PROVE  /\ Below(S, d) \in Nat /\ Cardinality(T) \in Nat
               /\ Below(S, d) < Cardinality(T)
    <2>1. IsFiniteSet(T)
      BY FS_Subset
    <2>2. A(d) \in SUBSET T /\ Below(S, d) = Cardinality(A(d))
      BY <1>2 DEF Below
    <2> HIDE DEF A
    <2>3. /\ IsFiniteSet(A(d)) /\ Cardinality(A(d)) <= Cardinality(T)
          /\ Cardinality(A(d)) # Cardinality(T)
      BY <1>2, <2>1, <2>2, FS_Subset
    <2>4. Cardinality(A(d)) \in Nat /\ Cardinality(T) \in Nat
      BY <2>1, <2>3, FS_CardinalityType
    <2> QED
      BY <2>2, <2>3, <2>4
  <1>3. ASSUME NEW d \in S PROVE Below(S, d) \in 0..(N - 1)
    <2>1. A(d) # S
      OBVIOUS
    <2>2. Below(S, d) \in Nat /\ Below(S, d) < N
      BY <1>1, <1>2, <2>1
    <2> QED
      BY <1>1, <2>2
  <1>4. ASSUME NEW d \in S, NEW e \in S, d < e PROVE Below(S, d) < Below(S, e)
    <2>1. \A x \in S : x < d => x < e
      BY <1>4
    <2>2. A(d) \subseteq A(e) /\ A(e) \in SUBSET S
      BY <2>1
    <2>3. d \in A(e) /\ d \notin A(d)
      BY <1>4
    <2> HIDE DEF A
    <2>4. Below(S, d) < Cardinality(A(e))
      BY <1>2, <2>2, <2>3
    <2> QED
      BY <2>4 DEF A, Below
  <1>5. ASSUME NEW d \in S, NEW e \in S, Below(S, d) = Below(S, e) PROVE d = e
    <2>1. Below(S, d) \in Nat /\ ~(d < e) /\ ~(e < d)
      BY <1>1, <1>3, <1>4, <1>5
    <2> QED
      BY <2>1
  <1>6. ASSUME NEW r \in 0..(N - 1) PROVE \E d \in S : Below(S, d) = r
    <2>1. f \in Injection(S, 0..(N - 1))
      BY <1>3, <1>5 DEF Injection, IsInjective
    <2>2. IsFiniteSet(0..(N - 1)) /\ Cardinality(0..(N - 1)) = N
      BY <1>1, FS_Interval
    <2>3. f \in Surjection(S, 0..(N - 1))
      BY <1>1, <2>1, <2>2, FS_Injection, Zenon
    <2> QED
      BY <2>3 DEF Surjection
  <1> HIDE DEF f
  <1>7. ASSUME NEW z \in 1..N PROVE Nth(S, z) \in S /\ Below(S, Nth(S, z)) = z - 1
    <2>1. z - 1 \in 0..(N - 1)
      BY <1>1
    <2>2. \E d \in S : Below(S, d) = z - 1
      BY <1>6, <2>1
    <2> QED
      BY <2>2, Zenon DEF Nth
  <1>8. ASSUME NEW m \in 1..N, NEW z \in 1..N, m < z PROVE Nth(S, m) < Nth(S, z)
    <2>1. PICK a \in S : a = Nth(S, m) /\ Below(S, a) = m - 1
      BY <1>7
    <2>2. PICK b \in S : b = Nth(S, z) /\ Below(S, b) = z - 1
      BY <1>7
    <2>3. m - 1 < z - 1 /\ m - 1 \in Nat /\ z - 1 \in Nat
      BY <1>1, <1>8
    <2>4. ~(b < a) /\ a # b
      BY <1>4, <2>1, <2>2, <2>3
    <2> QED
      BY <2>1, <2>2, <2>4
  <1>9. ASSUME NEW k \in S PROVE \E z \in 1..N : Nth(S, z) = k
    <2>1. PICK z : z = Below(S, k) + 1
      OBVIOUS
    <2>2. z \in 1..N /\ Below(S, k) = z - 1
      BY <1>1, <1>3, <2>1
    <2>3. Nth(S, z) \in S /\ Below(S, Nth(S, z)) = z - 1
      BY <1>7, <2>2
    <2> QED
      BY <1>5, <2>2, <2>3
  <1> QED
    BY <1>1, <1>7, <1>8, <1>9
-----------------------------------------------------------------------------
(* The operations of the cache.                                            *)

\* The bounds of the ids and of the positions.
LEMMA IdFacts ==
    /\ MaxDecoders \in Nat \ {0} /\ NMax \in Nat \ {0} /\ TextCtx \in Nat \ {0}
    /\ \A p \in PromptLens : p \in Nat \ {0} /\ p + NMax <= TextCtx /\ p - 1 <= TextCtx - 1
    /\ Decoders \subseteq SeqIds /\ 0 \in Decoders /\ PromptTok \in Tokens /\ Decoders \subseteq Tokens
    /\ \A j \in Decoders : Tmp(j) \in SeqIds /\ Tmp(j) \notin Decoders
    /\ \A j, k \in Decoders : Tmp(j) = Tmp(k) => j = k
    /\ \A k \in 1..MaxDecoders : 0..(k - 1) \subseteq Decoders
  <1>1. PICK p \in PromptLens : TRUE
    BY KvAssumption
  <1>2. TextCtx \in Nat \ {0}
    BY KvAssumption, <1>1
  <1> QED
    BY <1>2, KvAssumption DEF Decoders, SeqIds, Tokens, PromptTok, Tmp

\* Facts of a cache that the proofs use.
LEMMA CacheFacts ==
    ASSUME NEW kc, CacheOK(kc)
    PROVE  /\ kc.size \in Nat \ {0} /\ kc.head \in 0..kc.size /\ DOMAIN kc.cells = Index(kc)
           /\ Index(kc) \subseteq Nat
           /\ \A c \in Index(kc) :
                 /\ kc.cells[c].pos \in -1..(TextCtx - 1) /\ kc.cells[c].seqs \subseteq SeqIds
                 /\ kc.cells[c].tok \in Tokens
                 /\ kc.cells[c].pos = -1 <=> kc.cells[c].seqs = {}
  BY DEF CacheOK, Index, Cell

WithCells(kc, h, cs) == [kc EXCEPT !.head = h, !.cells = cs]

CellsOK(kc, cs) ==
    /\ cs \in [Index(kc) -> Cell]
    /\ \A c \in Index(kc) : cs[c].pos = -1 <=> cs[c].seqs = {}

\* How a cache is shown to be one.
LEMMA CacheMade ==
    ASSUME NEW kc, NEW h \in Nat, NEW cs, CacheOK(kc), h <= kc.size, CellsOK(kc, cs)
    PROVE  /\ CacheOK(WithCells(kc, h, cs)) /\ WithCells(kc, h, cs).size = kc.size
           /\ Index(WithCells(kc, h, cs)) = Index(kc) /\ WithCells(kc, h, cs).cells = cs
  <1> DEFINE kd == WithCells(kc, h, cs)
  <1>1. cs \in CellArrays /\ kc.size \in Nat \ {0}
    BY DEF CacheOK, CellArrays, Index, CellsOK
  <1>2. kd.size = kc.size /\ kd.head = h /\ kd.cells = cs
    BY DEF CacheOK, WithCells
  <1>3. kd \in [size : Nat \ {0}, head : Nat, cells : CellArrays]
    BY <1>1 DEF CacheOK, WithCells
  <1> QED
    BY <1>1, <1>2, <1>3 DEF CacheOK, Index, CellsOK

\* A new cache is empty.
LEMMA KvInitOK ==
    ASSUME NEW k \in Nat
    PROVE  /\ CacheOK(KvInit(k))
           /\ \A id : Absent(KvInit(k), id)
  <1> DEFINE z == SizeFor(k)
  <1>1. z \in Nat \ {0}
    <2>1. TextCtx \in Nat \ {0}
      BY IdFacts
    <2>2. \A a, b \in Nat \ {0} : a * b \in Nat \ {0}
      OBVIOUS
    <2>3. (IF k > 1 THEN k + 2 ELSE 1) \in Nat \ {0}
      OBVIOUS
    <2> QED
      BY <2>1, <2>2, <2>3, Zenon DEF SizeFor
  <1>2. KvInit(k) = [size |-> z, head |-> 0, cells |-> [c \in 0..(z - 1) |-> EmptyCell]]
    BY DEF KvInit
  <1> HIDE DEF z
  <1>3. EmptyCell \in Cell /\ EmptyCell.pos = -1 /\ EmptyCell.seqs = {}
    BY IdFacts DEF EmptyCell, Cell
  <1>4. [c \in 0..(z - 1) |-> EmptyCell] \in [0..(z - 1) -> Cell]
    BY <1>3
  <1>5. [c \in 0..(z - 1) |-> EmptyCell] \in CellArrays
    BY <1>1, <1>4 DEF CellArrays
  <1> QED
    BY <1>1, <1>2, <1>3, <1>4, <1>5 DEF CacheOK, Absent, Index

\* A cleared cache is empty.
LEMMA KvClearOK ==
    ASSUME NEW kc, CacheOK(kc)
    PROVE  /\ CacheOK(KvClear(kc))
           /\ \A id : Absent(KvClear(kc), id)
  <1>1. EmptyCell \in Cell /\ EmptyCell.pos = -1 /\ EmptyCell.seqs = {}
    BY IdFacts DEF EmptyCell, Cell
  <1> DEFINE cs == [c \in 0..(kc.size - 1) |-> EmptyCell]
  <1>2. cs \in [Index(kc) -> Cell] /\ (\A c \in Index(kc) : cs[c] = EmptyCell)
    BY <1>1 DEF Index
  <1>3. KvClear(kc) = WithCells(kc, 0, cs)
    BY DEF KvClear, WithCells
  <1> HIDE DEF cs
  <1>4. 0 <= kc.size /\ CellsOK(kc, cs)
    BY <1>1, <1>2, CacheFacts DEF CellsOK
  <1>5. CacheOK(KvClear(kc)) /\ Index(KvClear(kc)) = Index(kc) /\ KvClear(kc).cells = cs
    BY <1>3, <1>4, CacheMade
  <1> QED
    BY <1>1, <1>2, <1>5 DEF Absent

\* SeqRm takes id out of every cell, and leaves the other ids where they are.
LEMMA SeqRmFacts ==
    ASSUME NEW kc, CacheOK(kc), NEW id
    PROVE  /\ CacheOK(SeqRm(kc, id)) /\ SeqRm(kc, id).size = kc.size
           /\ Absent(SeqRm(kc, id), id)
           /\ \A j : j # id => Same(kc, j, SeqRm(kc, id), j)
  <1> DEFINE freed == {c \in 0..(kc.size - 1) : kc.cells[c].seqs = {id}}
             h  == IF freed = {} THEN kc.head ELSE CHOOSE c \in freed : \A b \in freed : c <= b
             cs == [c \in 0..(kc.size - 1) |->
                       [pos  |-> IF c \in freed THEN -1 ELSE kc.cells[c].pos,
                        seqs |-> kc.cells[c].seqs \ {id},
                        tok  |-> kc.cells[c].tok]]
  <1>1. h \in Nat /\ h <= kc.size
    <2>1. CASE freed = {}
      BY <2>1, CacheFacts
    <2>2. CASE freed # {}
      <3>1. freed \in SUBSET Nat /\ \A c \in freed : c <= kc.size
        BY CacheFacts
      <3> HIDE DEF freed
      <3>2. \E c \in freed : \A b \in freed : c <= b
        BY <2>2, <3>1, LeastNat
      <3> QED
        BY <2>2, <3>1, <3>2
    <2> QED
      BY <2>1, <2>2
  <1>2. ASSUME NEW c \in Index(kc)
        PROVE  /\ cs[c].seqs = kc.cells[c].seqs \ {id}
               /\ cs[c].tok = kc.cells[c].tok
               /\ cs[c].pos = IF kc.cells[c].seqs = {id} THEN -1 ELSE kc.cells[c].pos
               /\ cs[c] \in Cell
    <2>1. /\ kc.cells[c].pos \in -1..(TextCtx - 1) /\ kc.cells[c].seqs \subseteq SeqIds
          /\ kc.cells[c].tok \in Tokens
      BY CacheFacts
    <2>2. /\ cs[c].seqs = kc.cells[c].seqs \ {id}
          /\ cs[c].tok = kc.cells[c].tok
          /\ cs[c].pos = IF kc.cells[c].seqs = {id} THEN -1 ELSE kc.cells[c].pos
          /\ cs[c] = [pos |-> cs[c].pos, seqs |-> cs[c].seqs, tok |-> cs[c].tok]
      BY DEF Index
    <2> HIDE DEF cs
    <2>3. cs[c].pos \in -1..(TextCtx - 1) /\ cs[c].seqs \subseteq SeqIds /\ cs[c].tok \in Tokens
      BY <2>1, <2>2, IdFacts
    <2>4. cs[c] \in Cell
      BY <2>2, <2>3 DEF Cell
    <2> QED
      BY <2>2, <2>4
  <1>3. cs \in [Index(kc) -> Cell]
    <2>1. DOMAIN cs = Index(kc) /\ cs = [c \in Index(kc) |-> cs[c]]
      BY DEF Index
    <2> HIDE DEF cs
    <2> QED
      BY <1>2, <2>1
  <1>4. \A c \in Index(kc) : cs[c].pos = -1 <=> cs[c].seqs = {}
    <2> HIDE DEF cs
    <2> TAKE c \in Index(kc)
    <2>1. kc.cells[c].pos = -1 <=> kc.cells[c].seqs = {}
      BY CacheFacts
    <2> QED
      BY <1>2, <2>1
  <1>5. SeqRm(kc, id) = WithCells(kc, h, cs)
    BY DEF SeqRm, WithCells
  <1> HIDE DEF cs, h, freed
  <1>6. CacheOK(SeqRm(kc, id)) /\ SeqRm(kc, id).size = kc.size /\ Index(SeqRm(kc, id)) = Index(kc)
        /\ SeqRm(kc, id).cells = cs
    <2>1. CellsOK(kc, cs)
      BY <1>3, <1>4 DEF CellsOK
    <2> QED
      BY <2>1, <1>1, <1>5, CacheMade
  <1>7. Absent(SeqRm(kc, id), id)
    BY <1>2, <1>6 DEF Absent
  <1>8. ASSUME NEW j, j # id PROVE Same(kc, j, SeqRm(kc, id), j)
    BY <1>2, <1>6, <1>8 DEF Same
  <1> QED
    BY <1>6, <1>7, <1>8

\* SeqCp gives dst the cells of src, if it had none, and leaves the other ids.
LEMMA SeqCpFacts ==
    ASSUME NEW kc, CacheOK(kc), NEW src, NEW dst \in SeqIds
    PROVE  /\ CacheOK(SeqCp(kc, src, dst)) /\ SeqCp(kc, src, dst).size = kc.size
           /\ \A j : j # dst => Same(kc, j, SeqCp(kc, src, dst), j)
           /\ Absent(kc, dst) => Same(kc, src, SeqCp(kc, src, dst), dst)
  <1> DEFINE cs == [c \in 0..(kc.size - 1) |->
                    [pos  |-> kc.cells[c].pos,
                     seqs |-> kc.cells[c].seqs \cup (IF src \in kc.cells[c].seqs THEN {dst} ELSE {}),
                     tok  |-> kc.cells[c].tok]]
             R == SeqCp(kc, src, dst)
  <1>2. ASSUME NEW c \in Index(kc)
        PROVE  /\ cs[c].seqs = kc.cells[c].seqs \cup (IF src \in kc.cells[c].seqs THEN {dst} ELSE {})
               /\ cs[c].tok = kc.cells[c].tok
               /\ cs[c].pos = kc.cells[c].pos
               /\ cs[c] \in Cell
    <2>1. /\ kc.cells[c].pos \in -1..(TextCtx - 1) /\ kc.cells[c].seqs \subseteq SeqIds
          /\ kc.cells[c].tok \in Tokens
      BY CacheFacts
    <2>2. /\ cs[c].seqs = kc.cells[c].seqs \cup (IF src \in kc.cells[c].seqs THEN {dst} ELSE {})
          /\ cs[c].tok = kc.cells[c].tok
          /\ cs[c].pos = kc.cells[c].pos
          /\ cs[c] = [pos |-> cs[c].pos, seqs |-> cs[c].seqs, tok |-> cs[c].tok]
      BY DEF Index
    <2> QED
      BY <2>1, <2>2 DEF Cell
  <1>3. cs \in [Index(kc) -> Cell]
    <2>1. DOMAIN cs = Index(kc) /\ cs = [c \in Index(kc) |-> cs[c]]
      BY DEF Index
    <2> HIDE DEF cs
    <2> QED
      BY <1>2, <2>1
  <1>4. \A c \in Index(kc) : cs[c].pos = -1 <=> cs[c].seqs = {}
    <2> HIDE DEF cs
    <2> TAKE c \in Index(kc)
    <2>1. kc.cells[c].pos = -1 <=> kc.cells[c].seqs = {}
      BY CacheFacts
    <2> QED
      BY <1>2, <2>1
  <1>5. R = WithCells(kc, 0, cs)
    BY DEF SeqCp, WithCells
  <1> HIDE DEF cs, R
  <1>6. CacheOK(R) /\ R.size = kc.size /\ Index(R) = Index(kc) /\ R.cells = cs
    <2>1. 0 <= kc.size /\ CellsOK(kc, cs)
      BY <1>3, <1>4, CacheFacts DEF CellsOK
    <2> QED
      BY <2>1, <1>5, CacheMade
  <1>7. ASSUME NEW j, j # dst PROVE Same(kc, j, R, j)
    BY <1>2, <1>6, <1>7 DEF Same
  <1>8. ASSUME Absent(kc, dst) PROVE Same(kc, src, R, dst)
    <2>1. \A c \in Index(kc) : dst \in cs[c].seqs <=> src \in kc.cells[c].seqs
      BY <1>2, <1>8 DEF Absent
    <2> QED
      BY <2>1, <1>2, <1>6 DEF Same
  <1> QED
    BY <1>6, <1>7, <1>8 DEF R

\* A token of a batch.
BatchToken == [pos : 0..(TextCtx - 1), seq : SeqIds, tok : Tokens]

\* Cache kd is kc with the batch in the cells from s on, which were free.
StoredAt(kc, kd, batch, s) ==
    /\ kd.size = kc.size
    /\ \A c \in Index(kc) :
          IF c \in s..(s + Len(batch) - 1)
          THEN /\ c - s + 1 \in 1..Len(batch)
               /\ kc.cells[c].seqs = {}
               /\ kd.cells[c].seqs = {batch[c - s + 1].seq}
               /\ kd.cells[c].pos = batch[c - s + 1].pos
               /\ kd.cells[c].tok = batch[c - s + 1].tok
          ELSE kd.cells[c] = kc.cells[c]

\* find_slot finds free cells, and the batch goes there.
LEMMA StoreFacts ==
    ASSUME NEW kc, CacheOK(kc), NEW batch \in Seq(BatchToken), Slots(kc, Len(batch)) # {}
    PROVE  /\ CacheOK(Store(kc, batch))
           /\ \E s \in Nat : s + Len(batch) <= kc.size /\ StoredAt(kc, Store(kc, batch), batch, s)
  <1> DEFINE L == Len(batch)
             all   == Slots(kc, L)
             ahead == {s \in all : s >= kc.head}
             from  == IF ahead # {} THEN ahead ELSE all
  <1>0. L \in Nat /\ kc.size \in Nat \ {0} /\ TextCtx \in Nat \ {0}
    BY CacheFacts, IdFacts
  <1>1. /\ all \in SUBSET Nat
        /\ \A s \in all : s + L <= kc.size /\ \A c \in s..(s + L - 1) : kc.cells[c].pos < 0
    BY <1>0 DEF Slots
  <1>2. from \in SUBSET all /\ from # {}
    OBVIOUS
  <1>3. Slot(kc, L) = CHOOSE s \in from : \A t \in from : s <= t
    BY DEF Slot
  <1> HIDE DEF from, ahead
  <1>4. \E s \in from : \A t \in from : s <= t
    BY <1>1, <1>2, LeastNat
  <1>5. PICK s : s = Slot(kc, L)
    OBVIOUS
  <1>6. s \in all
    BY <1>2, <1>3, <1>4, <1>5
  <1>7. s \in Nat /\ s + L <= kc.size /\ \A c \in s..(s + L - 1) : kc.cells[c].pos < 0
    BY <1>1, <1>6
  <1> HIDE DEF all
  <1> DEFINE cs == [c \in 0..(kc.size - 1) |->
                       IF c \in s..(s + L - 1)
                       THEN [pos  |-> batch[c - s + 1].pos,
                             seqs |-> kc.cells[c].seqs \cup {batch[c - s + 1].seq},
                             tok  |-> batch[c - s + 1].tok]
                       ELSE kc.cells[c]]
  <1>8. Store(kc, batch) = WithCells(kc, s, cs)
    BY <1>5 DEF Store, WithCells
  <1>9. ASSUME NEW c \in Index(kc), c \in s..(s + L - 1)
        PROVE  /\ c - s + 1 \in 1..L
               /\ batch[c - s + 1] \in BatchToken
               /\ kc.cells[c].seqs = {}
    <2>1. c - s + 1 \in 1..L
      BY <1>0, <1>7, <1>9
    <2>2. kc.cells[c].pos < 0 /\ kc.cells[c].pos \in -1..(TextCtx - 1) /\ (kc.cells[c].pos = -1 <=> kc.cells[c].seqs = {})
      BY <1>7, <1>9, CacheFacts
    <2> QED
      BY <2>1, <2>2, <1>0
  <1>10. ASSUME NEW c \in Index(kc), c \in s..(s + L - 1)
         PROVE  /\ cs[c].pos = batch[c - s + 1].pos /\ cs[c].seqs = {batch[c - s + 1].seq}
                /\ cs[c].tok = batch[c - s + 1].tok
                /\ cs[c] \in Cell /\ cs[c].pos # -1 /\ cs[c].seqs # {}
    <2>1. kc.cells[c].seqs \cup {batch[c - s + 1].seq} = {batch[c - s + 1].seq}
      BY <1>9, <1>10
    <2>2. cs[c] = [pos |-> batch[c - s + 1].pos, seqs |-> {batch[c - s + 1].seq}, tok |-> batch[c - s + 1].tok]
      BY <2>1, <1>10 DEF Index
    <2> HIDE DEF cs
    <2>3. /\ batch[c - s + 1].pos \in 0..(TextCtx - 1) /\ batch[c - s + 1].seq \in SeqIds
          /\ batch[c - s + 1].tok \in Tokens
      BY <1>9, <1>10 DEF BatchToken
    <2>4. batch[c - s + 1].pos \in -1..(TextCtx - 1) /\ batch[c - s + 1].pos # -1
      BY <2>3, <1>0
    <2>5. cs[c].pos = batch[c - s + 1].pos /\ cs[c].seqs = {batch[c - s + 1].seq} /\ cs[c].tok = batch[c - s + 1].tok
      BY <2>2
    <2>6. cs[c] \in Cell
      BY <2>2, <2>3, <2>4 DEF Cell
    <2> QED
      BY <2>4, <2>5, <2>6
  <1>11. ASSUME NEW c \in Index(kc), c \notin s..(s + L - 1) PROVE cs[c] = kc.cells[c]
    BY <1>11 DEF Index
  <1>12. DOMAIN cs = Index(kc) /\ cs = [c \in Index(kc) |-> cs[c]]
    BY DEF Index
  <1> HIDE DEF cs
  <1>13. CellsOK(kc, cs)
    <2>1. \A c \in Index(kc) : cs[c] \in Cell
      BY <1>10, <1>11 DEF CacheOK, Index
    <2>2. \A c \in Index(kc) : cs[c].pos = -1 <=> cs[c].seqs = {}
      <3>1. \A c \in Index(kc) : kc.cells[c].pos = -1 <=> kc.cells[c].seqs = {}
        BY CacheFacts
      <3> QED
        BY <3>1, <1>10, <1>11, Zenon
    <2> QED
      BY <2>1, <2>2, <1>12 DEF CellsOK
  <1>14. /\ CacheOK(Store(kc, batch)) /\ Store(kc, batch).size = kc.size
         /\ Store(kc, batch).cells = cs
    <2>1. s \in Nat /\ s <= kc.size
      BY <1>0, <1>7
    <2> QED
      BY <2>1, <1>8, <1>13, CacheMade
  <1>15. StoredAt(kc, Store(kc, batch), batch, s)
    <2> SUFFICES ASSUME NEW c \in Index(kc)
                 PROVE  IF c \in s..(s + L - 1)
                        THEN /\ c - s + 1 \in 1..L
                             /\ kc.cells[c].seqs = {}
                             /\ cs[c].seqs = {batch[c - s + 1].seq}
                             /\ cs[c].pos = batch[c - s + 1].pos
                             /\ cs[c].tok = batch[c - s + 1].tok
                        ELSE cs[c] = kc.cells[c]
      BY <1>14 DEF StoredAt
    <2>1. CASE c \in s..(s + L - 1)
      <3>1. /\ cs[c].seqs = {batch[c - s + 1].seq}
            /\ cs[c].pos = batch[c - s + 1].pos
            /\ cs[c].tok = batch[c - s + 1].tok
        BY <2>1, <1>10
      <3> QED
        BY <2>1, <3>1, <1>9
    <2>2. CASE c \notin s..(s + L - 1)
      BY <2>2, <1>11
    <2> QED
      BY <2>1, <2>2
  <1> QED
    BY <1>7, <1>14, <1>15

\* The cells of an id that is not in the batch stay.
LEMMA StoredOther ==
    ASSUME NEW kc, NEW kd, NEW batch, NEW s, StoredAt(kc, kd, batch, s), NEW id,
           \A k \in 1..Len(batch) : batch[k].seq # id
    PROVE  Same(kc, id, kd, id)
  <1> SUFFICES ASSUME NEW c \in Index(kc)
               PROVE  /\ id \in kd.cells[c].seqs <=> id \in kc.cells[c].seqs
                      /\ id \in kc.cells[c].seqs =>
                            kd.cells[c].pos = kc.cells[c].pos /\ kd.cells[c].tok = kc.cells[c].tok
    BY DEF Same, StoredAt
  <1>1. CASE c \in s..(s + Len(batch) - 1)
    <2>1. /\ c - s + 1 \in 1..Len(batch)
          /\ kc.cells[c].seqs = {}
          /\ kd.cells[c].seqs = {batch[c - s + 1].seq}
      BY <1>1 DEF StoredAt
    <2> QED
      BY <2>1
  <1>2. CASE c \notin s..(s + Len(batch) - 1)
    BY <1>2 DEF StoredAt
  <1> QED
    BY <1>1, <1>2

\* An id that has one token in the batch holds one token more.
LEMMA StoredOwn ==
    ASSUME NEW kc, NEW kd, NEW batch, NEW s \in Nat, StoredAt(kc, kd, batch, s), CacheOK(kc),
           Len(batch) \in Nat, s + Len(batch) <= kc.size, NEW id, NEW t, NEW m \in Nat, Holds(kc, id, t, m),
           NEW k \in 1..Len(batch), batch[k].seq = id, batch[k].pos = m, batch[k].tok = t[m + 1],
           \A l \in 1..Len(batch) : batch[l].seq = id => l = k
    PROVE  Holds(kd, id, t, m + 1)
  <1> DEFINE e == s + k - 1
  <1>0. kc.size \in Nat /\ Index(kd) = Index(kc) /\ Index(kc) = 0..(kc.size - 1)
    BY CacheFacts DEF StoredAt, Index
  <1>1. e \in Index(kc) /\ e \in s..(s + Len(batch) - 1) /\ e - s + 1 = k
    BY <1>0
  <1>2. /\ kc.cells[e].seqs = {} /\ kd.cells[e].seqs = {batch[k].seq}
        /\ kd.cells[e].pos = batch[k].pos /\ kd.cells[e].tok = batch[k].tok
    BY <1>1 DEF StoredAt
  <1>3. id \in kd.cells[e].seqs /\ kd.cells[e].pos = m /\ kd.cells[e].tok = t[m + 1] /\ id \notin kc.cells[e].seqs
    BY <1>2
  <1>4. ASSUME NEW c \in Index(kc), c # e
        PROVE  /\ id \in kd.cells[c].seqs <=> id \in kc.cells[c].seqs
               /\ id \in kd.cells[c].seqs => kd.cells[c] = kc.cells[c]
    <2>1. CASE c \in s..(s + Len(batch) - 1)
      <3>1. /\ c - s + 1 \in 1..Len(batch)
            /\ kc.cells[c].seqs = {}
            /\ kd.cells[c].seqs = {batch[c - s + 1].seq}
        BY <2>1 DEF StoredAt
      <3>2. c - s + 1 # k
        BY <1>0, <1>4
      <3>3. batch[c - s + 1].seq # id
        BY <3>1, <3>2
      <3> QED
        BY <3>1, <3>3
    <2>2. CASE c \notin s..(s + Len(batch) - 1)
      BY <2>2 DEF StoredAt
    <2> QED
      BY <2>1, <2>2
  <1> HIDE DEF e
  <1>5. ASSUME NEW c \in Index(kc), id \in kc.cells[c].seqs
        PROVE  kc.cells[c].pos \in 0..(m - 1) /\ kc.cells[c].tok = t[kc.cells[c].pos + 1]
    BY <1>5 DEF Holds
  <1>6. ASSUME NEW c \in Index(kc), id \in kd.cells[c].seqs
        PROVE  kd.cells[c].pos \in 0..m /\ kd.cells[c].tok = t[kd.cells[c].pos + 1]
    <2>1. CASE c = e
      BY <2>1, <1>3
    <2>2. CASE c # e
      <3>1. id \in kc.cells[c].seqs /\ kd.cells[c] = kc.cells[c]
        BY <2>2, <1>4, <1>6
      <3>2. kc.cells[c].pos \in 0..(m - 1) /\ kc.cells[c].tok = t[kc.cells[c].pos + 1]
        BY <3>1, <1>5
      <3> QED
        BY <3>1, <3>2
    <2> QED
      BY <2>1, <2>2
  <1>7. ASSUME NEW p \in 0..m PROVE \E c \in Index(kc) : id \in kd.cells[c].seqs /\ kd.cells[c].pos = p
    <2>1. CASE p = m
      BY <2>1, <1>1, <1>3
    <2>2. CASE p # m
      <3>1. p \in 0..(m - 1)
        BY <2>2
      <3>2. PICK c \in Index(kc) : id \in kc.cells[c].seqs /\ kc.cells[c].pos = p
        BY <3>1 DEF Holds
      <3>3. c # e
        BY <3>2, <1>3
      <3> QED
        BY <3>2, <3>3, <1>4
    <2> QED
      BY <2>1, <2>2
  <1>8. ASSUME NEW c \in Index(kc), NEW d \in Index(kc), id \in kd.cells[c].seqs, id \in kd.cells[d].seqs,
               kd.cells[c].pos = kd.cells[d].pos
        PROVE  c = d
    <2>1. \A x \in Index(kc) : (x # e /\ id \in kd.cells[x].seqs) => kd.cells[x].pos # m
      <3> TAKE x \in Index(kc)
      <3> HAVE x # e /\ id \in kd.cells[x].seqs
      <3>1. id \in kc.cells[x].seqs /\ kd.cells[x] = kc.cells[x]
        BY <1>4
      <3>2. kc.cells[x].pos \in 0..(m - 1)
        BY <3>1, <1>5
      <3> QED
        BY <3>1, <3>2
    <2>2. CASE c # e /\ d # e
      <3>1. id \in kc.cells[c].seqs /\ id \in kc.cells[d].seqs /\ kc.cells[c].pos = kc.cells[d].pos
        BY <2>2, <1>4, <1>8
      <3> QED
        BY <3>1 DEF Holds
    <2> QED
      BY <2>1, <2>2, <1>3, <1>8
  <1>9. (m + 1) - 1 = m
    OBVIOUS
  <1> QED
    BY <1>0, <1>6, <1>7, <1>8, <1>9 DEF Holds
-----------------------------------------------------------------------------
(* What Same, Absent and Holds give.                                       *)

\* Same is transitive.
LEMMA SameTrans ==
    ASSUME NEW kc, NEW kd, NEW ke, NEW a, NEW b, NEW c, Same(kc, a, kd, b), Same(kd, b, ke, c)
    PROVE  Same(kc, a, ke, c)
  BY DEF Same, Index

\* The cells of an id carry what it holds and what it shows.
LEMMA SameCells ==
    ASSUME NEW kc, NEW kd, NEW a, NEW b, Same(kc, a, kd, b), CacheOK(kc), CacheOK(kd)
    PROVE  /\ \A t, m : Holds(kc, a, t, m) => Holds(kd, b, t, m)
           /\ Absent(kc, a) => Absent(kd, b)
           /\ ViewIn(kd, b) = ViewIn(kc, a)
  <1>1. Index(kd) = Index(kc) /\ DOMAIN kc.cells = Index(kc) /\ DOMAIN kd.cells = Index(kc)
    <2>1. Index(kd) = Index(kc)
      BY DEF Same, Index
    <2> QED
      BY <2>1, CacheFacts
  <1>2. \A c \in Index(kc) :
           /\ b \in kd.cells[c].seqs <=> a \in kc.cells[c].seqs
           /\ a \in kc.cells[c].seqs => kd.cells[c].pos = kc.cells[c].pos /\ kd.cells[c].tok = kc.cells[c].tok
    BY DEF Same
  <1>3. ASSUME NEW t, NEW m, Holds(kc, a, t, m) PROVE Holds(kd, b, t, m)
    <2>1. \A c \in Index(kd) : b \in kd.cells[c].seqs =>
             kd.cells[c].pos \in 0..(m - 1) /\ kd.cells[c].tok = t[kd.cells[c].pos + 1]
      BY <1>1, <1>2, <1>3, Zenon DEF Holds
    <2>2. \A p \in 0..(m - 1) : \E c \in Index(kd) : b \in kd.cells[c].seqs /\ kd.cells[c].pos = p
      BY <1>1, <1>2, <1>3, Zenon, SMTT(30) DEF Holds
    <2>3. \A c, d \in Index(kd) :
             (b \in kd.cells[c].seqs /\ b \in kd.cells[d].seqs /\ kd.cells[c].pos = kd.cells[d].pos) => c = d
      <3> SUFFICES ASSUME NEW c \in Index(kd), NEW d \in Index(kd), b \in kd.cells[c].seqs, b \in kd.cells[d].seqs,
                          kd.cells[c].pos = kd.cells[d].pos
                   PROVE  c = d
        OBVIOUS
      <3>1. a \in kc.cells[c].seqs /\ a \in kc.cells[d].seqs /\ kc.cells[c].pos = kc.cells[d].pos
        BY <1>1, <1>2
      <3> QED
        BY <3>1, <1>1, <1>3 DEF Holds
    <2> QED
      BY <2>1, <2>2, <2>3 DEF Holds
  <1>4. Absent(kc, a) => Absent(kd, b)
    BY <1>1, <1>2 DEF Absent
  <1>5. ViewIn(kd, b) = ViewIn(kc, a)
    <2>1. {c \in DOMAIN kd.cells : b \in kd.cells[c].seqs} = {c \in DOMAIN kc.cells : a \in kc.cells[c].seqs}
      BY <1>1, <1>2
    <2>2. \A c \in {c \in DOMAIN kc.cells : a \in kc.cells[c].seqs} :
             <<kd.cells[c].pos, kd.cells[c].tok>> = <<kc.cells[c].pos, kc.cells[c].tok>>
      BY <1>1, <1>2
    <2> QED
      BY <2>1, <2>2, Zenon DEF ViewIn
  <1> QED
    BY <1>3, <1>4, <1>5

\* An id that is in no cell shows nothing.
LEMMA AbsentView ==
    ASSUME NEW kc, CacheOK(kc), NEW id, Absent(kc, id)
    PROVE  ViewIn(kc, id) = {} /\ \A t : Holds(kc, id, t, 0)
  <1>1. ViewIn(kc, id) = {}
    BY CacheFacts DEF ViewIn, Absent
  <1>2. ASSUME NEW t PROVE Holds(kc, id, t, 0)
    BY DEF Holds, Absent
  <1> QED
    BY <1>1, <1>2

\* The entries of the first m tokens of t.
EntriesTo(t, m) == {<<p - 1, t[p]>> : p \in 1..m}

\* An id shows the tokens it holds, and has as many cells.
LEMMA HoldsView ==
    ASSUME NEW kc, CacheOK(kc), NEW id, NEW t, NEW m \in Nat, Holds(kc, id, t, m)
    PROVE  /\ ViewIn(kc, id) = EntriesTo(t, m)
           /\ Cardinality({c \in Index(kc) : id \in kc.cells[c].seqs}) = m
  <1> DEFINE H == {c \in Index(kc) : id \in kc.cells[c].seqs}
  <1>0. DOMAIN kc.cells = Index(kc)
    BY CacheFacts
  <1>1. ASSUME NEW c \in H
        PROVE  /\ kc.cells[c].pos + 1 \in 1..m
               /\ <<kc.cells[c].pos, kc.cells[c].tok>> = <<(kc.cells[c].pos + 1) - 1, t[kc.cells[c].pos + 1]>>
    <2>1. kc.cells[c].pos \in 0..(m - 1) /\ kc.cells[c].tok = t[kc.cells[c].pos + 1]
      BY DEF Holds
    <2> QED
      BY <2>1
  <1>2. ASSUME NEW p \in 1..m
        PROVE  \E c \in H : kc.cells[c].pos = p - 1 /\ kc.cells[c].tok = t[p]
    <2>1. p - 1 \in 0..(m - 1) /\ (p - 1) + 1 = p
      OBVIOUS
    <2>2. PICK c \in Index(kc) : id \in kc.cells[c].seqs /\ kc.cells[c].pos = p - 1
      BY <2>1 DEF Holds
    <2>3. kc.cells[c].tok = t[kc.cells[c].pos + 1]
      BY <2>2 DEF Holds
    <2> QED
      BY <2>1, <2>2, <2>3
  <1>3. ViewIn(kc, id) = EntriesTo(t, m)
    <2>1. ViewIn(kc, id) = {<<kc.cells[c].pos, kc.cells[c].tok>> : c \in H}
      BY <1>0 DEF ViewIn
    <2> HIDE DEF H
    <2>2. ASSUME NEW c \in H PROVE <<kc.cells[c].pos, kc.cells[c].tok>> \in EntriesTo(t, m)
      BY <1>1 DEF EntriesTo
    <2>3. ASSUME NEW p \in 1..m PROVE \E c \in H : <<p - 1, t[p]>> = <<kc.cells[c].pos, kc.cells[c].tok>>
      BY <1>2
    <2> QED
      BY <2>1, <2>2, <2>3 DEF EntriesTo
  <1>4. Cardinality(H) = m
    <2> DEFINE f == [p \in 1..m |-> CHOOSE c \in H : kc.cells[c].pos = p - 1]
    <2>1. \A p \in 1..m : f[p] \in H /\ kc.cells[f[p]].pos = p - 1
      <3> TAKE p \in 1..m
      <3>1. \E c \in H : kc.cells[c].pos = p - 1
        BY <1>2
      <3> HIDE DEF H
      <3> QED
        BY <3>1
    <2>2. f \in [1..m -> H]
      BY <2>1
    <2> HIDE DEF f
    <2>3. \A p, q \in 1..m : f[p] = f[q] => p = q
      <3> TAKE p, q \in 1..m
      <3> HAVE f[p] = f[q]
      <3>1. p - 1 = q - 1
        BY <2>1
      <3> QED
        BY <3>1
    <2>4. \A c \in H : \E p \in 1..m : f[p] = c
      <3> TAKE c \in H
      <3> DEFINE p == kc.cells[c].pos + 1
      <3>1. p \in 1..m /\ kc.cells[c].pos = p - 1
        <4>1. kc.cells[c].pos \in 0..(m - 1)
          BY DEF Holds
        <4> QED
          BY <4>1
      <3> HIDE DEF p
      <3>2. f[p] \in H /\ kc.cells[f[p]].pos = kc.cells[c].pos
        BY <2>1, <3>1
      <3>3. f[p] = c
        BY <3>2 DEF Holds
      <3> QED
        BY <3>1, <3>3
    <2> HIDE DEF H
    <2>5. f \in Bijection(1..m, H)
      BY <2>2, <2>3, <2>4 DEF Bijection, Injection, Surjection, IsInjective
    <2>6. ExistsBijection(1..m, H)
      BY <2>5 DEF ExistsBijection
    <2> QED
      BY <2>6, FS_CountingElements
  <1> QED
    BY <1>3, <1>4

\* The entries of a sequence hold each position once.
LEMMA EntriesCount ==
    ASSUME NEW t, NEW m \in Nat
    PROVE  /\ Cardinality(EntriesTo(t, m)) = m
           /\ {e[1] : e \in EntriesTo(t, m)} = 0..(m - 1)
  <1> DEFINE f == [p \in 1..m |-> <<p - 1, t[p]>>]
             E == EntriesTo(t, m)
  <1>1. \A p \in 1..m : f[p] = <<p - 1, t[p]>> /\ f[p] \in E
    BY DEF EntriesTo
  <1>2. f \in [1..m -> E]
    BY <1>1
  <1>3. \A x \in E : \E p \in 1..m : x = <<p - 1, t[p]>>
    BY DEF EntriesTo
  <1> HIDE DEF f, E
  <1>4. \A p, q \in 1..m : f[p] = f[q] => p = q
    <2> TAKE p, q \in 1..m
    <2> HAVE f[p] = f[q]
    <2>1. p - 1 = q - 1
      BY <1>1
    <2> QED
      BY <2>1
  <1>5. f \in Bijection(1..m, E)
    BY <1>1, <1>2, <1>3, <1>4 DEF Bijection, Injection, Surjection, IsInjective
  <1>6. ExistsBijection(1..m, E)
    BY <1>5 DEF ExistsBijection
  <1>7. Cardinality(E) = m
    BY <1>6, FS_CountingElements
  <1>8. {e[1] : e \in E} = 0..(m - 1)
    <2>1. ASSUME NEW e \in E PROVE e[1] \in 0..(m - 1)
      BY <1>3
    <2>2. ASSUME NEW r \in 0..(m - 1) PROVE \E e \in E : e[1] = r
      <3>1. r + 1 \in 1..m /\ (r + 1) - 1 = r
        OBVIOUS
      <3>2. f[r + 1] \in E /\ f[r + 1] = <<(r + 1) - 1, t[r + 1]>>
        BY <3>1, <1>1
      <3>3. f[r + 1][1] = r
        BY <3>1, <3>2
      <3> QED
        BY <3>2, <3>3
    <2> QED
      BY <2>1, <2>2
  <1> QED
    BY <1>7, <1>8 DEF E

\* Up to its last position the mask shows an id all its cells: none lies behind
\* the last used one.
LEMMA VisibleAll ==
    ASSUME NEW kc, CacheOK(kc), NEW id, NEW t, NEW m \in Nat, Holds(kc, id, t, m + 1)
    PROVE  Visible(kc, id, m) = {c \in Index(kc) : id \in kc.cells[c].seqs}
  <1> DEFINE used == {c \in 1..(kc.size - 1) : kc.cells[c].pos >= 0 /\ kc.cells[c].seqs # {}}
  <1>0. kc.size \in Nat \ {0} /\ Index(kc) = 0..(kc.size - 1)
    BY CacheFacts DEF Index
  <1>1. /\ CellMax(kc) \in 1..kc.size
        /\ \A c \in used : c < CellMax(kc)
    <2>1. CASE used = {}
      <3>1. CellMax(kc) = 1
        BY <2>1 DEF CellMax
      <3> QED
        BY <2>1, <3>1, <1>0
    <2>2. CASE used # {}
      <3>1. used \in SUBSET Nat /\ \A c \in used : c \in 1..(kc.size - 1) /\ c <= kc.size
        BY <1>0
      <3>2. CellMax(kc) = 1 + CHOOSE c \in used : \A b \in used : b <= c
        BY <2>2 DEF CellMax
      <3> HIDE DEF used
      <3>3. \E c \in used : \A b \in used : b <= c
        BY <2>2, <3>1, <1>0, GreatestNat
      <3>4. PICK g \in used : CellMax(kc) = 1 + g /\ \A b \in used : b <= g
        BY <3>2, <3>3
      <3>5. g \in 1..(kc.size - 1)
        BY <3>1
      <3> QED
        BY <3>1, <3>4, <3>5, <1>0
    <2> QED
      BY <2>1, <2>2
  <1>2. ASSUME NEW c \in Index(kc), id \in kc.cells[c].seqs
        PROVE  c \in 0..(CellMax(kc) - 1) /\ kc.cells[c].pos <= m
    <2>1. kc.cells[c].pos \in 0..((m + 1) - 1)
      BY <1>2 DEF Holds
    <2>2. kc.cells[c].pos >= 0 /\ kc.cells[c].pos <= m /\ kc.cells[c].seqs # {}
      BY <2>1, <1>2
    <2>3. c = 0 \/ c \in used
      BY <2>2, <1>0
    <2> QED
      BY <2>2, <2>3, <1>0, <1>1
  <1>3. 0..(CellMax(kc) - 1) \subseteq Index(kc)
    BY <1>0, <1>1
  <1> QED
    BY <1>2, <1>3 DEF Visible
-----------------------------------------------------------------------------
(* The batches.                                                            *)

\* The prompt is a batch of sequence 0.
LEMMA PromptFacts ==
    ASSUME NEW len \in Nat, len <= TextCtx
    PROVE  /\ Prompt(len) \in Seq(BatchToken) /\ Len(Prompt(len)) = len
           /\ \A k \in 1..len : Prompt(len)[k].pos = k - 1 /\ Prompt(len)[k].seq = 0 /\ Prompt(len)[k].tok = PromptTok
  <1>1. \A k \in 1..len : Prompt(len)[k] = [pos |-> k - 1, seq |-> 0, tok |-> PromptTok]
    BY DEF Prompt
  <1>2. 0 \in SeqIds /\ PromptTok \in Tokens /\ TextCtx \in Nat
    BY IdFacts
  <1>3. ASSUME NEW k \in 1..len PROVE [pos |-> k - 1, seq |-> 0, tok |-> PromptTok] \in BatchToken
    BY <1>2 DEF BatchToken
  <1>4. Prompt(len) \in [1..len -> BatchToken]
    BY <1>3 DEF Prompt
  <1> QED
    BY <1>1, <1>4

\* Stored in a cache without sequence 0, the prompt is what sequence 0 holds.
LEMMA StoredPrompt ==
    ASSUME NEW kc, NEW kd, NEW len \in Nat, len <= TextCtx, NEW s \in Nat, CacheOK(kc), s + len <= kc.size,
           StoredAt(kc, kd, Prompt(len), s), Absent(kc, 0), NEW t, \A p \in 1..len : t[p] = PromptTok
    PROVE  Holds(kd, 0, t, len)
  <1>0. /\ Len(Prompt(len)) = len
        /\ \A k \in 1..len : Prompt(len)[k].pos = k - 1 /\ Prompt(len)[k].seq = 0 /\ Prompt(len)[k].tok = PromptTok
    BY PromptFacts
  <1>1. Index(kd) = Index(kc) /\ Index(kc) = 0..(kc.size - 1) /\ kc.size \in Nat
    BY CacheFacts DEF StoredAt, Index
  <1>2. ASSUME NEW c \in Index(kc), c \in s..(s + len - 1)
        PROVE  0 \in kd.cells[c].seqs /\ kd.cells[c].pos = c - s /\ kd.cells[c].tok = PromptTok
    <2>1. c - s + 1 \in 1..len /\ (c - s + 1) - 1 = c - s
      BY <1>1, <1>2
    <2>2. /\ kd.cells[c].seqs = {Prompt(len)[c - s + 1].seq}
          /\ kd.cells[c].pos = Prompt(len)[c - s + 1].pos
          /\ kd.cells[c].tok = Prompt(len)[c - s + 1].tok
      BY <1>0, <1>2 DEF StoredAt
    <2>3. /\ Prompt(len)[c - s + 1].pos = (c - s + 1) - 1 /\ Prompt(len)[c - s + 1].seq = 0
          /\ Prompt(len)[c - s + 1].tok = PromptTok
      BY <2>1, <1>0
    <2> QED
      BY <2>1, <2>2, <2>3
  <1>3. ASSUME NEW c \in Index(kc), 0 \in kd.cells[c].seqs PROVE c \in s..(s + len - 1)
    BY <1>0, <1>3 DEF StoredAt, Absent
  <1>4. ASSUME NEW c \in Index(kc), 0 \in kd.cells[c].seqs
        PROVE  /\ kd.cells[c].pos = c - s /\ c - s \in 0..(len - 1)
               /\ kd.cells[c].tok = t[kd.cells[c].pos + 1]
    <2>1. c \in s..(s + len - 1)
      BY <1>3, <1>4
    <2>2. kd.cells[c].pos = c - s /\ kd.cells[c].tok = PromptTok
      BY <2>1, <1>2
    <2>3. c - s \in 0..(len - 1) /\ (c - s) + 1 \in 1..len
      BY <2>1, <1>1
    <2> QED
      BY <2>2, <2>3
  <1>5. ASSUME NEW p \in 0..(len - 1) PROVE \E c \in Index(kc) : 0 \in kd.cells[c].seqs /\ kd.cells[c].pos = p
    <2>1. s + p \in Index(kc) /\ s + p \in s..(s + len - 1) /\ (s + p) - s = p
      BY <1>1
    <2> QED
      BY <2>1, <1>2
  <1>6. ASSUME NEW c \in Index(kc), NEW d \in Index(kc), 0 \in kd.cells[c].seqs, 0 \in kd.cells[d].seqs,
               kd.cells[c].pos = kd.cells[d].pos
        PROVE  c = d
    <2>1. c - s = d - s /\ c \in Nat /\ d \in Nat
      BY <1>1, <1>4, <1>6
    <2> QED
      BY <2>1
  <1> QED
    BY <1>1, <1>4, <1>5, <1>6, SMTT(30) DEF Holds

\* The batch has one token of each live decoder.
LEMMA LiveBatchFacts ==
    ASSUME live \subseteq Decoders, plen \in Nat, i \in Nat, plen + i < TextCtx,
           tokens \in [Decoders -> Seq(Tokens)], \A j \in live : Len(tokens[j]) = plen + i + 1
    PROVE  /\ LiveBatch \in Seq(BatchToken) /\ Len(LiveBatch) = Cardinality(live) /\ Cardinality(live) \in Nat
           /\ \A k \in 1..Cardinality(live) : LiveBatch[k].seq \in live
           /\ \A j \in live : \E k \in 1..Cardinality(live) :
                 /\ LiveBatch[k].seq = j /\ LiveBatch[k].pos = plen + i
                 /\ LiveBatch[k].tok = tokens[j][(plen + i) + 1]
                 /\ \A l \in 1..Cardinality(live) : LiveBatch[l].seq = j => l = k
  <1> DEFINE K == Cardinality(live)
             J(k) == Nth(live, k)
  <1>1. IsFiniteSet(live) /\ live \in SUBSET Nat /\ K \in Nat
    <2>1. IsFiniteSet(Decoders) /\ Decoders \subseteq Nat
      BY IdFacts, FS_Interval DEF Decoders
    <2>2. IsFiniteSet(live)
      BY <2>1, FS_Subset
    <2> QED
      BY <2>1, <2>2, FS_CardinalityType
  <1>2. /\ \A k \in 1..K : J(k) \in live
        /\ \A k, l \in 1..K : k < l => J(k) < J(l)
        /\ \A j \in live : \E k \in 1..K : J(k) = j
    BY <1>1, NthFacts, Zenon
  <1>3. ASSUME NEW k \in 1..K
        PROVE  LiveBatch[k] = [pos |-> plen + i, seq |-> J(k), tok |-> tokens[J(k)][Len(tokens[J(k)])]]
    BY DEF LiveBatch
  <1>4. LiveBatch = [k \in 1..K |-> LiveBatch[k]]
    BY DEF LiveBatch
  <1> HIDE DEF J
  <1>5. ASSUME NEW k \in 1..K
        PROVE  /\ LiveBatch[k].seq = J(k) /\ LiveBatch[k].pos = plen + i
               /\ LiveBatch[k].tok = tokens[J(k)][(plen + i) + 1]
               /\ LiveBatch[k] \in BatchToken
    <2>0. LiveBatch[k] = [pos |-> plen + i, seq |-> J(k), tok |-> tokens[J(k)][Len(tokens[J(k)])]]
      BY <1>3, Zenon
    <2>1. J(k) \in live /\ J(k) \in Decoders /\ J(k) \in SeqIds
      BY <1>2, IdFacts
    <2>2. tokens[J(k)] \in Seq(Tokens) /\ Len(tokens[J(k)]) = plen + i + 1
      BY <2>1
    <2>3. plen + i + 1 = (plen + i) + 1 /\ plen + i + 1 \in 1..Len(tokens[J(k)])
      BY <2>2
    <2>4. tokens[J(k)][Len(tokens[J(k)])] \in Tokens
      BY <2>2, <2>3
    <2>5. plen + i \in 0..(TextCtx - 1)
      BY IdFacts
    <2>6. LiveBatch[k].seq = J(k) /\ LiveBatch[k].pos = plen + i /\ LiveBatch[k].tok = tokens[J(k)][Len(tokens[J(k)])]
      BY <2>0
    <2>7. LiveBatch[k] \in BatchToken
      BY <2>0, <2>1, <2>4, <2>5 DEF BatchToken
    <2> QED
      BY <2>2, <2>3, <2>6, <2>7
  <1>6. LiveBatch \in Seq(BatchToken) /\ Len(LiveBatch) = K
    <2>1. LiveBatch \in [1..K -> BatchToken]
      BY <1>4, <1>5, Zenon
    <2> QED
      BY <2>1, <1>1
  <1>7. ASSUME NEW j \in live
        PROVE  \E k \in 1..K :
                 /\ LiveBatch[k].seq = j /\ LiveBatch[k].pos = plen + i
                 /\ LiveBatch[k].tok = tokens[j][(plen + i) + 1]
                 /\ \A l \in 1..K : LiveBatch[l].seq = j => l = k
    <2>1. PICK k \in 1..K : J(k) = j
      BY <1>2
    <2>2. ASSUME NEW l \in 1..K, LiveBatch[l].seq = j PROVE l = k
      <3>1. J(l) = j /\ ~(J(l) < J(k)) /\ ~(J(k) < J(l))
        BY <2>1, <2>2, <1>1, <1>5
      <3>2. ~(l < k) /\ ~(k < l)
        BY <3>1, <1>2
      <3> QED
        BY <3>2, <1>1
    <2> QED
      BY <2>1, <2>2, <1>5
  <1> QED
    BY <1>1, <1>2, <1>5, <1>6, <1>7

PromptShared(kc, m) ==
    [kc EXCEPT
       !.head  = 0,
       !.cells = [c \in 0..(kc.size - 1) |->
                    IF 0 \in kc.cells[c].seqs
                    THEN [kc.cells[c] EXCEPT !.seqs = @ \cup 1..(m - 1)]
                    ELSE kc.cells[c]]]

\* The copy of the prompt gives decoders 1 to m - 1 the cells of decoder 0.
LEMMA PromptSharedFacts ==
    ASSUME NEW kc, CacheOK(kc), NEW m \in 1..MaxDecoders, \A id \in SeqIds \ {0} : Absent(kc, id)
    PROVE  /\ CacheOK(PromptShared(kc, m)) /\ PromptShared(kc, m).size = kc.size
           /\ \A j \in 0..(m - 1) : Same(kc, 0, PromptShared(kc, m), j)
           /\ \A id \in SeqIds : id \notin 0..(m - 1) => Same(kc, id, PromptShared(kc, m), id)
  <1> DEFINE cs == [c \in 0..(kc.size - 1) |->
                    IF 0 \in kc.cells[c].seqs
                    THEN [kc.cells[c] EXCEPT !.seqs = @ \cup 1..(m - 1)]
                    ELSE kc.cells[c]]
             R == PromptShared(kc, m)
  <1>1. ASSUME NEW c \in Index(kc)
        PROVE  /\ cs[c].seqs = IF 0 \in kc.cells[c].seqs THEN kc.cells[c].seqs \cup 1..(m - 1) ELSE kc.cells[c].seqs
               /\ cs[c].pos = kc.cells[c].pos /\ cs[c].tok = kc.cells[c].tok
               /\ cs[c] \in Cell
    <2>1. kc.cells[c] \in [pos : -1..(TextCtx - 1), seqs : SUBSET SeqIds, tok : Tokens]
      BY DEF CacheOK, Cell, Index
    <2>2. 1..(m - 1) \subseteq SeqIds
      BY IdFacts DEF SeqIds
    <2>3. cs[c] = IF 0 \in kc.cells[c].seqs THEN [kc.cells[c] EXCEPT !.seqs = @ \cup 1..(m - 1)] ELSE kc.cells[c]
      BY DEF Index
    <2> HIDE DEF cs
    <2> QED
      BY <2>1, <2>2, <2>3 DEF Cell
  <1>2. DOMAIN cs = Index(kc) /\ cs = [c \in Index(kc) |-> cs[c]]
    BY DEF Index
  <1>3. R = WithCells(kc, 0, cs)
    BY DEF PromptShared, WithCells
  <1> HIDE DEF cs, R
  <1>4. CellsOK(kc, cs) /\ 0 <= kc.size
    <2>1. \A c \in Index(kc) : kc.cells[c].pos = -1 <=> kc.cells[c].seqs = {}
      BY CacheFacts
    <2>2. \A c \in Index(kc) : cs[c].pos = -1 <=> cs[c].seqs = {}
      BY <2>1, <1>1
    <2>3. cs \in [Index(kc) -> Cell]
      BY <1>1, <1>2, Zenon
    <2> QED
      BY <2>2, <2>3, CacheFacts DEF CellsOK
  <1>5. CacheOK(R) /\ R.size = kc.size /\ R.cells = cs
    BY <1>3, <1>4, CacheMade
  <1>6. ASSUME NEW j \in 0..(m - 1) PROVE Same(kc, 0, R, j)
    <2>1. j \in SeqIds /\ (j # 0 => j \in 1..(m - 1))
      BY IdFacts DEF SeqIds
    <2>2. \A c \in Index(kc) : j \in cs[c].seqs <=> 0 \in kc.cells[c].seqs
      BY <2>1, <1>1 DEF Absent
    <2> QED
      BY <2>2, <1>1, <1>5 DEF Same
  <1>7. ASSUME NEW id \in SeqIds, id \notin 0..(m - 1) PROVE Same(kc, id, R, id)
    <2>1. id \notin 1..(m - 1)
      BY <1>7 DEF SeqIds
    <2> QED
      BY <2>1, <1>1, <1>5 DEF Same
  <1> QED
    BY <1>5, <1>6, <1>7 DEF R
-----------------------------------------------------------------------------
(* The steps of the loop.                                                  *)

\* An empty cache, and no window yet.
LEMMA InitIInv == Init => IInv
  <1> SUFFICES ASSUME Init PROVE IInv
    OBVIOUS
  <1>1. CacheOK(kv)
    BY KvInitOK DEF Init
  <1>2. LoopOK
    BY IdFacts DEF Init, LoopOK, Idle
  <1> QED
    BY <1>1, <1>2 DEF IInv, Init

\* Language detection stores one token in a cache it may share with an old window.
LEMMA DetectCache ==
    ASSUME NEW kc, CacheOK(kc), NEW kd, Slots(kc, 1) # {}, kd = Store(kc, Prompt(1)), Absent(kc, 0)
    PROVE  /\ CacheOK(kd)
           /\ \A id : id # 0 => Same(kc, id, kd, id)
           /\ \A t : t[1] = PromptTok => Holds(kd, 0, t, 1)
  <1>1. 1 \in Nat /\ 1 <= TextCtx
    BY IdFacts
  <1>2. /\ Prompt(1) \in Seq(BatchToken) /\ Len(Prompt(1)) = 1
        /\ \A k \in 1..1 : Prompt(1)[k].pos = k - 1 /\ Prompt(1)[k].seq = 0 /\ Prompt(1)[k].tok = PromptTok
    BY <1>1, PromptFacts
  <1>3. CacheOK(kd) /\ \E s \in Nat : s + 1 <= kc.size /\ StoredAt(kc, kd, Prompt(1), s)
    <2>1. Slots(kc, Len(Prompt(1))) # {}
      BY <1>2
    <2>2. CacheOK(Store(kc, Prompt(1)))
          /\ \E s \in Nat : s + Len(Prompt(1)) <= kc.size /\ StoredAt(kc, Store(kc, Prompt(1)), Prompt(1), s)
      BY <1>2, <2>1, StoreFacts
    <2> QED
      BY <1>2, <2>2
  <1>4. PICK s \in Nat : s + 1 <= kc.size /\ StoredAt(kc, kd, Prompt(1), s)
    BY <1>3
  <1>5. ASSUME NEW id, id # 0 PROVE Same(kc, id, kd, id)
    <2>1. \A k \in 1..Len(Prompt(1)) : Prompt(1)[k].seq # id
      BY <1>2, <1>5
    <2> QED
      BY <2>1, <1>4, StoredOther
  <1>6. ASSUME NEW t, t[1] = PromptTok PROVE Holds(kd, 0, t, 1)
    <2>1. \A p \in 1..1 : t[p] = PromptTok
      BY <1>6
    <2> QED
      BY <2>1, <1>1, <1>4, StoredPrompt
  <1> QED
    BY <1>3, <1>5, <1>6

\* Detection leaves a well-formed cache; no window is under way.
LEMMA DetectStep == ASSUME IInv, DetectLanguage PROVE IInv'
  <1>1. CacheOK(kv) /\ LoopOK /\ pc = "idle" /\ pc' = "idle"
    BY DEF IInv, DetectLanguage
  <1>2. PICK kc : kc = SeqRm(kv, 0)
    OBVIOUS
  <1>3. CacheOK(kc) /\ Absent(kc, 0)
    BY <1>1, <1>2, SeqRmFacts
  <1>4. CASE Slots(kc, 1) = {}
    <2>1. kv' = kc /\ tokens' = tokens
      BY <1>2, <1>4 DEF DetectLanguage
    <2>2. CacheOK(kv')
      BY <2>1, <1>3
    <2>3. LoopOK'
      BY <1>1, <2>1 DEF LoopOK, Idle, DetectLanguage
    <2> QED
      BY <2>2, <2>3, <1>1 DEF IInv
  <1>5. CASE Slots(kc, 1) # {}
    <2>1. kv' = Store(kc, Prompt(1)) /\ tokens' = [tokens EXCEPT ![0] = <<PromptTok>>]
      BY <1>2, <1>5 DEF DetectLanguage
    <2>2. CacheOK(kv')
      BY <2>1, <1>3, <1>5, DetectCache
    <2>3. tokens' \in [Decoders -> Seq(Tokens)]
      <3>1. <<PromptTok>> \in Seq(Tokens)
        BY IdFacts
      <3> QED
        BY <3>1, <2>1, <1>1 DEF LoopOK
    <2>4. LoopOK'
      BY <1>1, <2>3 DEF LoopOK, Idle, DetectLanguage
    <2> QED
      BY <2>2, <2>4, <1>1 DEF IInv
  <1> QED
    BY <1>4, <1>5

\* The cache a temperature begins with.
LEMMA BeginCache ==
    ASSUME NEW kc, CacheOK(kc), NEW kd, NEW len \in PromptLens, \A id : Absent(kc, id),
           Slots(kc, len) # {}, kd = Store(kc, Prompt(len))
    PROVE  /\ CacheOK(kd)
           /\ \A id : id # 0 => Absent(kd, id)
           /\ \A t : (\A p \in 1..len : t[p] = PromptTok) => Holds(kd, 0, t, len)
  <1>1. len \in Nat /\ len <= TextCtx
    BY IdFacts
  <1>2. /\ Prompt(len) \in Seq(BatchToken) /\ Len(Prompt(len)) = len
        /\ \A k \in 1..len : Prompt(len)[k].seq = 0
    BY <1>1, PromptFacts
  <1>3. CacheOK(kd) /\ \E s \in Nat : s + len <= kc.size /\ StoredAt(kc, kd, Prompt(len), s)
    <2>1. Slots(kc, Len(Prompt(len))) # {}
      BY <1>2
    <2>2. CacheOK(Store(kc, Prompt(len)))
          /\ \E s \in Nat : s + Len(Prompt(len)) <= kc.size /\ StoredAt(kc, Store(kc, Prompt(len)), Prompt(len), s)
      BY <1>2, <2>1, StoreFacts
    <2> QED
      BY <1>2, <2>2
  <1>4. PICK s \in Nat : s + len <= kc.size /\ StoredAt(kc, kd, Prompt(len), s)
    BY <1>3
  <1>5. ASSUME NEW id, id # 0 PROVE Absent(kd, id)
    <2>1. \A k \in 1..Len(Prompt(len)) : Prompt(len)[k].seq # id
      BY <1>2, <1>5
    <2>2. Same(kc, id, kd, id)
      BY <2>1, <1>4, StoredOther
    <2> QED
      BY <2>2, <1>3, SameCells
  <1>6. ASSUME NEW t, \A p \in 1..len : t[p] = PromptTok PROVE Holds(kd, 0, t, len)
    BY <1>1, <1>4, <1>6, StoredPrompt
  <1> QED
    BY <1>3, <1>5, <1>6

\* When the prompt is stored, decoder 0 holds it and no other id has a cell.
LEMMA BeginStep ==
    ASSUME IInv, NEW k \in 1..MaxDecoders, NEW len \in PromptLens, NEW b \in BOOLEAN, BeginTemperature(k, len, b)
    PROVE  IInv'
  <1>1. CacheOK(kv) /\ LoopOK
    BY DEF IInv
  <1>2. PICK kc : kc = KvClear(IF nDec < k THEN KvInit(k) ELSE kv)
    OBVIOUS
  <1>3. CacheOK(kc) /\ \A id : Absent(kc, id)
    <2>1. CacheOK(KvInit(k))
      BY KvInitOK
    <2> QED
      BY <2>1, <1>1, <1>2, KvClearOK
  <1>4. /\ pc' \in {"prompt", "idle"} /\ n' = k /\ plen' = len /\ i' = 0 /\ live' = 0..(k - 1)
        /\ tokens' = [j \in Decoders |-> IF j < k THEN [p \in 1..len |-> PromptTok] ELSE <<>>]
        /\ old' = old
        /\ \/ pc' = "idle" /\ kv' = kc
           \/ Slots(kc, len) # {} /\ kv' = Store(kc, Prompt(len))
    BY <1>2 DEF BeginTemperature
  <1>5. CacheOK(kv')
    BY <1>3, <1>4, BeginCache
  <1>6. tokens' \in [Decoders -> Seq(Tokens)]
    <2>1. [p \in 1..len |-> PromptTok] \in Seq(Tokens)
      BY IdFacts
    <2>2. <<>> \in Seq(Tokens)
      OBVIOUS
    <2> QED
      BY <1>4, <2>1, <2>2
  <1>7. LoopOK'
    <2>1. len \in Nat /\ len + 0 < TextCtx /\ 0 < NMax /\ 0..(k - 1) \subseteq Decoders
      BY IdFacts
    <2> QED
      BY <1>1, <1>4, <1>6, <2>1 DEF LoopOK, Idle
  <1>8. ASSUME pc' = "prompt" PROVE AtPrompt'
    <2>1. Slots(kc, len) # {} /\ kv' = Store(kc, Prompt(len))
      BY <1>4, <1>8
    <2>2. 0 \in 0..(k - 1) /\ 0..(k - 1) \subseteq Decoders /\ len \in Nat
      BY IdFacts
    <2>3. \A j \in 0..(k - 1) : tokens'[j] = [p \in 1..len |-> PromptTok]
      BY <1>4, <2>2
    <2>4. Len([p \in 1..len |-> PromptTok]) = len
      BY <2>2
    <2>5. Holds(kv', 0, tokens'[0], len)
      <3>1. \A p \in 1..len : tokens'[0][p] = PromptTok
        BY <2>2, <2>3
      <3> QED
        BY <3>1, <2>1, <1>3, BeginCache
    <2>6. \A id \in SeqIds \ {0} : Absent(kv', id)
      BY <2>1, <1>3, BeginCache
    <2> QED
      BY <1>4, <2>2, <2>3, <2>4, <2>5, <2>6 DEF AtPrompt
  <1> QED
    BY <1>4, <1>5, <1>7, <1>8 DEF IInv

\* Sharing the prompt: every decoder of the temperature holds it.
LEMMA CopyPromptStep == ASSUME IInv, CopyPrompt PROVE IInv'
  <1>1. CacheOK(kv) /\ LoopOK /\ AtPrompt /\ pc = "prompt"
    BY DEF IInv, CopyPrompt
  <1>2. /\ pc' = "sample" /\ UNCHANGED <<nDec, n, plen, beam, live, tokens, old, todo, i>>
        /\ kv' = IF n = 1 THEN kv ELSE PromptShared(kv, n)
    BY DEF CopyPrompt, PromptShared
  <1>3. n \in 1..MaxDecoders /\ \A id \in SeqIds \ {0} : Absent(kv, id)
    BY <1>1 DEF LoopOK, AtPrompt
  <1>4. LoopOK'
    BY <1>1, <1>2 DEF LoopOK, Idle
  <1>5. /\ CacheOK(kv')
        /\ \A j \in 0..(n - 1) : Same(kv, 0, kv', j)
        /\ \A id \in SeqIds : id \notin 0..(n - 1) => Same(kv, id, kv', id)
    <2>1. CASE n = 1
      <3>1. kv' = kv
        BY <1>2, <2>1
      <3>2. \A j \in 0..(n - 1) : j = 0
        BY <2>1
      <3>3. \A id : Same(kv, id, kv, id)
        BY DEF Same
      <3> QED
        BY <3>1, <3>2, <3>3, <1>1
    <2>2. CASE n # 1
      <3>1. kv' = PromptShared(kv, n)
        BY <1>2, <2>2
      <3> QED
        BY <3>1, <1>1, <1>3, PromptSharedFacts
    <2> QED
      BY <2>1, <2>2
  <1>6. AtSample'
    <2>1. plen \in Nat /\ i = 0 /\ live = 0..(n - 1) /\ plen + i = plen
      BY <1>1 DEF AtPrompt, LoopOK
    <2>2. ASSUME NEW j \in live PROVE Holds(kv', j, tokens[j], plen) /\ Len(tokens[j]) = plen
      <3>1. Holds(kv, 0, tokens[j], plen) /\ Len(tokens[j]) = plen
        BY <1>1 DEF AtPrompt
      <3>2. Same(kv, 0, kv', j)
        BY <1>5, <2>1
      <3> QED
        BY <3>1, <3>2, <1>1, <1>5, SameCells
    <2>3. ASSUME NEW j \in Decoders PROVE Absent(kv', Tmp(j))
      <3>1. Tmp(j) \in SeqIds /\ Tmp(j) \notin Decoders
        BY IdFacts
      <3>2. Tmp(j) \notin 0..(n - 1) /\ Tmp(j) # 0
        BY <3>1, <1>3, IdFacts
      <3>3. Same(kv, Tmp(j), kv', Tmp(j)) /\ Absent(kv, Tmp(j))
        BY <3>1, <3>2, <1>3, <1>5
      <3> QED
        BY <3>3, <1>1, <1>5, SameCells
    <2> QED
      BY <1>2, <2>1, <2>2, <2>3 DEF AtSample, OnlyMarked
  <1> QED
    BY <1>2, <1>4, <1>5, <1>6 DEF IInv

\* A token more does not change what comes before it.
LEMMA AppendHolds ==
    ASSUME NEW kc, NEW id, NEW t \in Seq(Tokens), NEW x \in Tokens, Holds(kc, id, t, Len(t)), CacheOK(kc)
    PROVE  Holds(kc, id, Append(t, x), Len(t)) /\ Len(Append(t, x)) = Len(t) + 1 /\ Append(t, x) \in Seq(Tokens)
  <1>1. \A p \in 1..Len(t) : Append(t, x)[p] = t[p]
    OBVIOUS
  <1>2. ASSUME NEW c \in Index(kc), id \in kc.cells[c].seqs
        PROVE  kc.cells[c].pos \in 0..(Len(t) - 1) /\ kc.cells[c].tok = Append(t, x)[kc.cells[c].pos + 1]
    <2>1. kc.cells[c].pos \in 0..(Len(t) - 1) /\ kc.cells[c].tok = t[kc.cells[c].pos + 1]
      BY <1>2 DEF Holds
    <2>2. kc.cells[c].pos + 1 \in 1..Len(t)
      BY <2>1
    <2> QED
      BY <2>1, <2>2, <1>1
  <1>3. Holds(kc, id, Append(t, x), Len(t))
    BY <1>2 DEF Holds
  <1> QED
    BY <1>3

\* Greedy sampling appends tokens whose cells are still to come.
LEMMA GreedyStep == ASSUME IInv, SampleGreedy PROVE IInv'
  <1>1. CacheOK(kv) /\ LoopOK /\ AtSample /\ pc = "sample"
    BY DEF IInv, SampleGreedy
  <1>2. /\ pc' = "update" /\ UNCHANGED <<kv, nDec, n, plen, beam, live, old, todo, i>>
        /\ tokens' = [j \in Decoders |-> IF j \in live THEN Append(tokens[j], j) ELSE tokens[j]]
    BY DEF SampleGreedy
  <1>3. ASSUME NEW j \in live
        PROVE  /\ tokens'[j] \in Seq(Tokens) /\ Len(tokens'[j]) = plen + i + 1
               /\ Holds(kv, j, tokens'[j], plen + i)
    <2>1. j \in Decoders /\ j \in Tokens /\ tokens[j] \in Seq(Tokens)
      BY <1>1, IdFacts DEF LoopOK
    <2>2. Holds(kv, j, tokens[j], plen + i) /\ Len(tokens[j]) = plen + i
      BY <1>1 DEF AtSample
    <2>3. tokens'[j] = Append(tokens[j], j)
      BY <1>2, <2>1
    <2> QED
      BY <2>1, <2>2, <2>3, <1>1, AppendHolds
  <1>4. tokens' \in [Decoders -> Seq(Tokens)]
    <2>1. \A j \in Decoders : tokens'[j] \in Seq(Tokens)
      BY <1>1, <1>2, <1>3 DEF LoopOK
    <2> QED
      BY <2>1, <1>2
  <1>5. LoopOK'
    BY <1>1, <1>2, <1>4 DEF LoopOK, Idle
  <1>6. AtUpdate'
    BY <1>1, <1>2, <1>3 DEF AtUpdate, AtSample, OnlyMarked
  <1> QED
    BY <1>1, <1>2, <1>5, <1>6 DEF IInv

\* The candidates are built from the sequences the cells hold.
LEMMA BeamStep == ASSUME IInv, SampleBeam PROVE IInv'
  <1>1. CacheOK(kv) /\ LoopOK /\ AtSample /\ pc = "sample"
    BY DEF IInv, SampleBeam
  <1>2. /\ pc' = "copy" /\ UNCHANGED <<kv, nDec, n, plen, beam, live, tokens, i>>
        /\ old' = tokens /\ todo' = live
    BY DEF SampleBeam
  <1>3. LoopOK'
    BY <1>1, <1>2 DEF LoopOK, Idle
  <1>4. AtCopy'
    BY <1>1, <1>2 DEF AtCopy, AtSample, OnlyMarked
  <1> QED
    BY <1>1, <1>2, <1>3, <1>4 DEF IInv

\* A decoder takes a candidate: the cells of decoder s get the mark of decoder j.
LEMMA CopyOutStep == ASSUME IInv, NEW j \in todo, NEW s \in live, CopyOut(j, s) PROVE IInv'
  <1>1. CacheOK(kv) /\ LoopOK /\ AtCopy /\ pc = "copy"
    BY DEF IInv, CopyOut
  <1>2. /\ UNCHANGED <<nDec, pc, n, plen, beam, live, old, i>>
        /\ tokens' = [tokens EXCEPT ![j] = Append(old[s], j)]
        /\ kv' = SeqCp(kv, s, Tmp(j))
        /\ todo' = todo \ {j}
    BY DEF CopyOut
  <1>3. j \in live /\ j \in Decoders /\ s \in Decoders /\ j \in Tokens /\ live \subseteq Decoders
    BY <1>1, IdFacts DEF LoopOK
  <1>4. Tmp(j) \in SeqIds /\ Absent(kv, Tmp(j))
    BY <1>1, <1>3, IdFacts DEF AtCopy, OnlyMarked
  <1>5. /\ CacheOK(kv')
        /\ \A d : d # Tmp(j) => Same(kv, d, kv', d)
        /\ Same(kv, s, kv', Tmp(j))
    BY <1>1, <1>2, <1>4, SeqCpFacts
  <1>6. old[s] \in Seq(Tokens) /\ Holds(kv, s, old[s], plen + i) /\ Len(old[s]) = plen + i
    BY <1>1, <1>3 DEF LoopOK, AtCopy
  <1>7. /\ Append(old[s], j) \in Seq(Tokens) /\ Len(Append(old[s], j)) = plen + i + 1
        /\ Holds(kv, s, Append(old[s], j), plen + i)
    BY <1>1, <1>3, <1>6, AppendHolds
  <1>8. LoopOK'
    <2>1. tokens' \in [Decoders -> Seq(Tokens)]
      BY <1>1, <1>2, <1>7 DEF LoopOK
    <2> QED
      BY <2>1, <1>1, <1>2 DEF LoopOK, Idle
  <1>9. AtCopy'
    <2>1. ASSUME NEW d \in live PROVE Holds(kv', d, old[d], plen + i) /\ Len(old[d]) = plen + i
      <3>1. d # Tmp(j)
        BY <1>3, IdFacts
      <3>2. Holds(kv, d, old[d], plen + i) /\ Len(old[d]) = plen + i
        BY <1>1 DEF AtCopy
      <3> QED
        BY <3>1, <3>2, <1>1, <1>5, SameCells
    <2>2. ASSUME NEW d \in live \ (todo \ {j})
          PROVE  /\ Holds(kv', Tmp(d), tokens'[d], plen + i) /\ Len(tokens'[d]) = plen + i + 1
                 /\ \E r \in live : ViewIn(kv', Tmp(d)) = ViewIn(kv', r)
      <3>1. CASE d = j
        <4>1. tokens'[d] = Append(old[s], j)
          BY <3>1, <1>1, <1>2, <1>3 DEF LoopOK
        <4>2. Holds(kv', Tmp(d), tokens'[d], plen + i)
          BY <3>1, <4>1, <1>1, <1>5, <1>7, SameCells
        <4>3. ViewIn(kv', Tmp(d)) = ViewIn(kv, s)
          BY <3>1, <1>1, <1>5, SameCells
        <4>4. ViewIn(kv', s) = ViewIn(kv, s)
          <5>1. s # Tmp(j)
            BY <1>3, IdFacts
          <5>2. Same(kv, s, kv', s)
            BY <5>1, <1>5
          <5> QED
            BY <5>2, <1>1, <1>5, SameCells
        <4> QED
          BY <4>1, <4>2, <4>3, <4>4, <1>7
      <3>2. CASE d # j
        <4>1. d \in live \ todo /\ d \in Decoders
          BY <3>2, <1>3
        <4>2. Tmp(d) # Tmp(j)
          BY <3>2, <4>1, <1>3, IdFacts
        <4>3. tokens'[d] = tokens[d]
          BY <3>2, <4>1, <1>1, <1>2 DEF LoopOK
        <4>4. Holds(kv, Tmp(d), tokens[d], plen + i) /\ Len(tokens[d]) = plen + i + 1
          BY <4>1, <1>1 DEF AtCopy
        <4>5. PICK r \in live : ViewIn(kv, Tmp(d)) = ViewIn(kv, r)
          BY <4>1, <1>1 DEF AtCopy
        <4>6. Holds(kv', Tmp(d), tokens[d], plen + i) /\ ViewIn(kv', Tmp(d)) = ViewIn(kv, Tmp(d))
          BY <4>2, <4>4, <1>1, <1>5, SameCells
        <4>7. ViewIn(kv', r) = ViewIn(kv, r)
          <5>1. r # Tmp(j)
            BY <1>3, IdFacts
          <5>2. Same(kv, r, kv', r)
            BY <5>1, <1>5
          <5> QED
            BY <5>2, <1>1, <1>5, SameCells
        <4> QED
          BY <4>3, <4>4, <4>5, <4>6, <4>7
      <3> QED
        BY <3>1, <3>2
    <2>3. ASSUME NEW d \in Decoders \ (live \ (todo \ {j})) PROVE Absent(kv', Tmp(d))
      <3>1. d # j /\ d \in Decoders \ (live \ todo)
        BY <1>3
      <3>2. Tmp(d) # Tmp(j) /\ Absent(kv, Tmp(d))
        BY <3>1, <1>1, <1>3, IdFacts DEF AtCopy, OnlyMarked
      <3> QED
        BY <3>2, <1>1, <1>5, SameCells
    <2> QED
      BY <1>2, <2>1, <2>2, <2>3 DEF AtCopy, OnlyMarked
  <1> QED
    BY <1>1, <1>2, <1>5, <1>8, <1>9 DEF IInv

\* All the cells are marked.
LEMMA StartReplaceStep == ASSUME IInv, StartReplace PROVE IInv'
  <1>1. CacheOK(kv) /\ LoopOK /\ AtCopy /\ todo = {}
    BY DEF IInv, StartReplace
  <1>2. pc' = "replace" /\ todo' = live /\ UNCHANGED <<kv, nDec, n, plen, beam, live, tokens, old, i>> /\ pc = "copy"
    BY DEF StartReplace
  <1>3. LoopOK'
    BY <1>1, <1>2 DEF LoopOK, Idle
  <1>4. AtReplace'
    BY <1>1, <1>2 DEF AtReplace, AtCopy, OnlyMarked
  <1> QED
    BY <1>1, <1>2, <1>3, <1>4 DEF IInv

Exchanged(kc, j) == SeqRm(SeqCp(SeqRm(kc, j), Tmp(j), j), Tmp(j))

\* The replacement of one decoder: it has the cells that were marked for it.
LEMMA ExchangedFacts ==
    ASSUME NEW kc, CacheOK(kc), NEW j \in Decoders
    PROVE  /\ CacheOK(Exchanged(kc, j))
           /\ Same(kc, Tmp(j), Exchanged(kc, j), j)
           /\ Absent(Exchanged(kc, j), Tmp(j))
           /\ \A d : (d # j /\ d # Tmp(j)) => Same(kc, d, Exchanged(kc, j), d)
  <1>0. j \in SeqIds /\ Tmp(j) \in SeqIds /\ Tmp(j) # j
    BY IdFacts
  <1>1. PICK k1 : k1 = SeqRm(kc, j)
    OBVIOUS
  <1>2. PICK k2 : k2 = SeqCp(k1, Tmp(j), j)
    OBVIOUS
  <1>3. PICK k3 : k3 = SeqRm(k2, Tmp(j))
    OBVIOUS
  <1>4. k3 = Exchanged(kc, j)
    BY <1>1, <1>2, <1>3 DEF Exchanged
  <1>5. CacheOK(k1) /\ Absent(k1, j) /\ \A d : d # j => Same(kc, d, k1, d)
    BY <1>1, SeqRmFacts
  <1>6. CacheOK(k2) /\ Same(k1, Tmp(j), k2, j) /\ \A d : d # j => Same(k1, d, k2, d)
    BY <1>0, <1>2, <1>5, SeqCpFacts
  <1>7. CacheOK(k3) /\ Absent(k3, Tmp(j)) /\ \A d : d # Tmp(j) => Same(k2, d, k3, d)
    BY <1>3, <1>6, SeqRmFacts
  <1>8. Same(kc, Tmp(j), k3, j)
    <2>1. Same(kc, Tmp(j), k1, Tmp(j)) /\ Same(k2, j, k3, j)
      BY <1>0, <1>5, <1>7
    <2>2. Same(kc, Tmp(j), k2, j)
      BY <2>1, <1>6, SameTrans
    <2> QED
      BY <2>1, <2>2, SameTrans
  <1>9. ASSUME NEW d, d # j, d # Tmp(j) PROVE Same(kc, d, k3, d)
    <2>1. Same(kc, d, k1, d) /\ Same(k1, d, k2, d) /\ Same(k2, d, k3, d)
      BY <1>5, <1>6, <1>7, <1>9
    <2>2. Same(kc, d, k2, d)
      BY <2>1, SameTrans
    <2> QED
      BY <2>1, <2>2, SameTrans
  <1> QED
    BY <1>4, <1>7, <1>8, <1>9

\* A decoder gives up its cells for those marked for it; nobody else loses one.
LEMMA ReplaceStep == ASSUME IInv, NEW j \in todo, Replace(j) PROVE IInv'
  <1>1. CacheOK(kv) /\ LoopOK /\ AtReplace /\ pc = "replace"
    BY DEF IInv, Replace
  <1>2. /\ UNCHANGED <<nDec, pc, n, plen, beam, live, tokens, old, i>>
        /\ kv' = Exchanged(kv, j)
        /\ todo' = todo \ {j}
    BY DEF Replace, Exchanged
  <1>3. j \in live /\ j \in Decoders /\ live \subseteq Decoders /\ todo \subseteq live
    BY <1>1 DEF LoopOK
  <1>4. /\ CacheOK(kv')
        /\ Same(kv, Tmp(j), kv', j)
        /\ Absent(kv', Tmp(j))
        /\ \A d : (d # j /\ d # Tmp(j)) => Same(kv, d, kv', d)
    BY <1>1, <1>2, <1>3, ExchangedFacts
  <1>5. LoopOK'
    BY <1>1, <1>2 DEF LoopOK, Idle
  <1>6. ASSUME NEW d \in todo \ {j} PROVE Holds(kv', Tmp(d), tokens[d], plen + i)
    <2>1. d \in Decoders /\ Tmp(d) # Tmp(j) /\ Tmp(d) # j
      BY <1>3, IdFacts
    <2>2. Holds(kv, Tmp(d), tokens[d], plen + i)
      BY <1>1 DEF AtReplace
    <2> QED
      BY <2>1, <2>2, <1>1, <1>4, SameCells
  <1>7. ASSUME NEW d \in live \ (todo \ {j}) PROVE Holds(kv', d, tokens[d], plen + i)
    <2>1. CASE d = j
      <3>1. Holds(kv, Tmp(j), tokens[j], plen + i)
        BY <1>1 DEF AtReplace
      <3> QED
        BY <2>1, <3>1, <1>1, <1>4, SameCells
    <2>2. CASE d # j
      <3>1. d \in live \ todo /\ d # Tmp(j)
        BY <2>2, <1>3, IdFacts
      <3>2. Holds(kv, d, tokens[d], plen + i)
        BY <3>1, <1>1 DEF AtReplace
      <3> QED
        BY <2>2, <3>1, <3>2, <1>1, <1>4, SameCells
    <2> QED
      BY <2>1, <2>2
  <1>8. ASSUME NEW d \in Decoders \ (todo \ {j}) PROVE Absent(kv', Tmp(d))
    <2>1. CASE d = j
      BY <2>1, <1>4
    <2>2. CASE d # j
      <3>1. Tmp(d) # Tmp(j) /\ Tmp(d) # j /\ Absent(kv, Tmp(d))
        BY <2>2, <1>1, <1>3, IdFacts DEF AtReplace, OnlyMarked
      <3> QED
        BY <3>1, <1>1, <1>4, SameCells
    <2> QED
      BY <2>1, <2>2
  <1>9. AtReplace'
    BY <1>1, <1>2, <1>6, <1>7, <1>8 DEF AtReplace, OnlyMarked
  <1> QED
    BY <1>1, <1>2, <1>4, <1>5, <1>9 DEF IInv

\* All beams are exchanged, or decoders have completed.
LEMMA UpdateSteps ==
    ASSUME IInv, EndReplace \/ \E alive \in SUBSET live : Update(alive)
    PROVE  IInv'
  <1>1. CacheOK(kv) /\ LoopOK
    BY DEF IInv
  <1>2. CASE EndReplace
    <2>1. /\ pc = "replace" /\ todo = {} /\ AtReplace /\ pc' = "update"
          /\ UNCHANGED <<kv, nDec, n, plen, beam, live, tokens, old, todo, i>>
      BY <1>2 DEF IInv, EndReplace
    <2>2. LoopOK'
      BY <1>1, <2>1 DEF LoopOK, Idle
    <2>3. AtUpdate'
      BY <2>1 DEF AtReplace, AtUpdate, OnlyMarked
    <2> QED
      BY <1>1, <2>1, <2>2, <2>3 DEF IInv
  <1>3. ASSUME NEW alive \in SUBSET live, Update(alive) PROVE IInv'
    <2>1. /\ pc = "update" /\ AtUpdate /\ pc' \in {"idle", "batch"} /\ live' = alive
          /\ UNCHANGED <<kv, nDec, n, plen, beam, tokens, old, todo, i>>
      BY <1>3 DEF IInv, Update
    <2>2. LoopOK'
      BY <1>1, <2>1 DEF LoopOK, Idle
    <2>3. AtUpdate'
      BY <2>1 DEF AtUpdate, OnlyMarked
    <2> QED
      BY <1>1, <2>1, <2>2, <2>3 DEF IInv
  <1> QED
    BY <1>2, <1>3

\* The batch in a slot: each live decoder holds one token more, the others what they had.
LEMMA BatchStored ==
    ASSUME IInv, pc = "batch", Slots(kv, Cardinality(live)) # {}, kv' = Store(kv, LiveBatch)
    PROVE  /\ CacheOK(kv')
           /\ \A j \in live : Holds(kv', j, tokens[j], plen + i + 1)
           /\ \A id : id \notin live => Same(kv, id, kv', id)
  <1>1. CacheOK(kv) /\ LoopOK /\ AtUpdate
    BY DEF IInv
  <1>2. /\ live \subseteq Decoders /\ plen \in Nat /\ i \in Nat /\ plen + i < TextCtx
        /\ tokens \in [Decoders -> Seq(Tokens)] /\ \A j \in live : Len(tokens[j]) = plen + i + 1
    BY <1>1 DEF LoopOK, AtUpdate, Idle
  <1>3. PICK batch : batch = LiveBatch
    OBVIOUS
  <1>4. PICK m : m = plen + i
    OBVIOUS
  <1>5. /\ batch \in Seq(BatchToken) /\ Len(batch) = Cardinality(live) /\ Len(batch) \in Nat
        /\ \A k \in 1..Len(batch) : batch[k].seq \in live
    BY <1>2, <1>3, LiveBatchFacts
  <1>6. \A j \in live : \E k \in 1..Len(batch) :
              /\ batch[k].seq = j /\ batch[k].pos = m
              /\ batch[k].tok = tokens[j][m + 1]
              /\ \A l \in 1..Len(batch) : batch[l].seq = j => l = k
    BY <1>2, <1>3, <1>4, <1>5, LiveBatchFacts
  <1>7. CacheOK(kv') /\ \E s \in Nat : s + Len(batch) <= kv.size /\ StoredAt(kv, kv', batch, s)
    <2>1. Slots(kv, Len(batch)) # {}
      BY <1>5
    <2> QED
      BY <2>1, <1>1, <1>3, <1>5, StoreFacts
  <1>8. PICK s \in Nat : s + Len(batch) <= kv.size /\ StoredAt(kv, kv', batch, s)
    BY <1>7
  <1>9. ASSUME NEW j \in live PROVE Holds(kv', j, tokens[j], plen + i + 1)
    <2>1. PICK k \in 1..Len(batch) :
              /\ batch[k].seq = j /\ batch[k].pos = m
              /\ batch[k].tok = tokens[j][m + 1]
              /\ \A l \in 1..Len(batch) : batch[l].seq = j => l = k
      BY <1>6
    <2>2. Holds(kv, j, tokens[j], m) /\ m \in Nat
      BY <1>1, <1>2, <1>4 DEF AtUpdate
    <2>3. Holds(kv', j, tokens[j], m + 1)
      BY <2>1, <2>2, <1>1, <1>5, <1>8, StoredOwn, SMTT(30)
    <2> QED
      BY <2>3, <1>4
  <1>10. ASSUME NEW id, id \notin live PROVE Same(kv, id, kv', id)
    <2>1. \A k \in 1..Len(batch) : batch[k].seq # id
      BY <1>5, <1>10
    <2> QED
      BY <2>1, <1>8, StoredOther
  <1> QED
    BY <1>7, <1>9, <1>10

\* The batch finds a slot, or the temperature ends.
LEMMA FindSlotStep == ASSUME IInv, FindSlot PROVE IInv'
  <1>1. CacheOK(kv) /\ LoopOK /\ AtUpdate /\ pc = "batch"
    BY DEF IInv, FindSlot
  <1>2. UNCHANGED <<nDec, n, plen, beam, live, tokens, old, todo, i>>
    BY DEF FindSlot
  <1>3. CASE pc' = "idle" /\ kv' = kv
    <2>1. LoopOK'
      BY <1>1, <1>2, <1>3 DEF LoopOK, Idle
    <2> QED
      BY <1>1, <1>3, <2>1 DEF IInv
  <1>4. CASE Slots(kv, Cardinality(live)) # {} /\ pc' = "compute" /\ kv' = Store(kv, LiveBatch)
    <2>1. LoopOK'
      BY <1>1, <1>2, <1>4 DEF LoopOK, Idle
    <2>2. /\ CacheOK(kv')
          /\ \A j \in live : Holds(kv', j, tokens[j], plen + i + 1)
          /\ \A id : id \notin live => Same(kv, id, kv', id)
      BY <1>1, <1>4, BatchStored
    <2>3. ASSUME NEW j \in Decoders PROVE Absent(kv', Tmp(j))
      <3>1. Tmp(j) \notin live /\ Absent(kv, Tmp(j))
        BY <1>1, IdFacts DEF AtUpdate, OnlyMarked, LoopOK
      <3> QED
        BY <3>1, <2>2, <1>1, SameCells
    <2>4. AtCompute'
      BY <1>1, <1>2, <2>2, <2>3 DEF AtCompute, AtUpdate, OnlyMarked
    <2> QED
      BY <1>4, <2>1, <2>2, <2>4 DEF IInv
  <1> QED
    BY <1>3, <1>4 DEF FindSlot

\* The other steps leave the cache as it is.
LEMMA QuietSteps ==
    ASSUME IInv, Compute \/ (\E k \in 1..MaxDecoders : KvInitFails(k)) \/ Stopped \/ UNCHANGED vars
    PROVE  IInv'
  <1>1. CacheOK(kv) /\ LoopOK
    BY DEF IInv
  <1>2. CASE Compute
    <2>1. /\ pc = "compute" /\ AtCompute /\ i' = i + 1 /\ (pc' = "idle" \/ (i + 1 < NMax /\ pc' = "sample"))
          /\ UNCHANGED <<kv, nDec, n, plen, beam, live, tokens, old, todo>>
      BY <1>2 DEF IInv, Compute
    <2>2. i \in Nat /\ plen \in Nat /\ plen \in PromptLens /\ plen + NMax <= TextCtx /\ NMax \in Nat /\ TextCtx \in Nat
      BY <1>1, <2>1, IdFacts DEF LoopOK, Idle
    <2>3. plen + (i + 1) = plen + i + 1 /\ (i + 1 < NMax => plen + (i + 1) < TextCtx) /\ i + 1 \in Nat
      BY <2>2
    <2>4. LoopOK'
      BY <1>1, <2>1, <2>2, <2>3 DEF LoopOK, Idle
    <2>5. AtSample'
      BY <2>1, <2>3 DEF AtSample, AtCompute, OnlyMarked
    <2> QED
      BY <1>1, <2>1, <2>4, <2>5 DEF IInv
  <1>3. ASSUME NEW k \in 1..MaxDecoders, KvInitFails(k) PROVE IInv'
    <2>1. pc' = "freed" /\ UNCHANGED <<kv, nDec, n, plen, beam, live, tokens, old, todo, i>>
      BY <1>3 DEF KvInitFails
    <2>2. LoopOK'
      BY <1>1, <2>1 DEF LoopOK, Idle
    <2> QED
      BY <1>1, <2>1, <2>2 DEF IInv
  <1>4. CASE Stopped \/ UNCHANGED vars
    <2>1. UNCHANGED <<kv, nDec, pc, n, plen, beam, live, tokens, old, todo, i>>
      BY <1>4 DEF Stopped, vars
    <2>2. LoopOK' = LoopOK /\ AtPrompt' = AtPrompt /\ AtSample' = AtSample /\ AtCopy' = AtCopy
          /\ AtReplace' = AtReplace /\ AtUpdate' = AtUpdate /\ AtCompute' = AtCompute
      BY <2>1 DEF LoopOK, Idle, AtPrompt, AtSample, AtCopy, AtReplace, AtUpdate, AtCompute, OnlyMarked
    <2> QED
      BY <2>1, <2>2 DEF IInv
  <1> QED
    BY <1>2, <1>3, <1>4
-----------------------------------------------------------------------------
(* The theorems.                                                           *)

\* The invariant holds in every run of the loop.
THEOREM CacheInvariant == Spec => []IInv
  <1>1. IInv /\ [Next]_vars => IInv'
    <2> SUFFICES ASSUME IInv, [Next]_vars PROVE IInv'
      OBVIOUS
    <2> QED
      BY DetectStep, BeginStep, CopyPromptStep, GreedyStep, BeamStep, CopyOutStep, StartReplaceStep,
         ReplaceStep, UpdateSteps, FindSlotStep, QuietSteps DEF Next
  <1> QED
    BY <1>1, InitIInv, PTL DEF Spec

\* The cache keeps its type: in particular a cell is free exactly if no sequence
\* is in it, through every removal, copy and store.
THEOREM KvTypeCorrect == Spec => []KvTypeOK
  <1>1. IInv => KvTypeOK
    <2> SUFFICES ASSUME CacheOK(kv) PROVE KvTypeOK
      BY DEF IInv
    <2>1. DOMAIN kv.cells = Index(kv)
      BY CacheFacts
    <2> QED
      BY <2>1 DEF CacheOK, KvTypeOK, Cell
  <1> QED
    BY <1>1, CacheInvariant, PTL

\* In every batch the mask shows each decoder exactly its own tokens, one cell for
\* each, for any number of decoders and however the beams were exchanged.
THEOREM EveryDecoderAttendsItsOwn == Spec => []AttendsOwnTokens
  <1>1. IInv => AttendsOwnTokens
    <2> SUFFICES ASSUME IInv, pc = "compute", NEW j \in live
                 PROVE  /\ {<<kv.cells[c].pos, kv.cells[c].tok>> : c \in Visible(kv, j, plen + i)} = Entries(tokens[j])
                        /\ Cardinality(Visible(kv, j, plen + i)) = Len(tokens[j])
      BY DEF AttendsOwnTokens
    <2>1. /\ CacheOK(kv) /\ plen + i \in Nat
          /\ Holds(kv, j, tokens[j], plen + i + 1) /\ Len(tokens[j]) = plen + i + 1
      BY DEF IInv, LoopOK, AtCompute
    <2>2. Visible(kv, j, plen + i) = {c \in Index(kv) : j \in kv.cells[c].seqs}
      BY <2>1, VisibleAll
    <2>3. /\ ViewIn(kv, j) = EntriesTo(tokens[j], Len(tokens[j]))
          /\ Cardinality({c \in Index(kv) : j \in kv.cells[c].seqs}) = Len(tokens[j])
      BY <2>1, HoldsView
    <2>4. ViewIn(kv, j) = {<<kv.cells[c].pos, kv.cells[c].tok>> : c \in Visible(kv, j, plen + i)}
      BY <2>1, <2>2, CacheFacts DEF ViewIn
    <2> QED
      BY <2>2, <2>3, <2>4 DEF Entries, EntriesTo
  <1> QED
    BY <1>1, CacheInvariant, PTL
-----------------------------------------------------------------------------
(* The cells implement sequences that each decoder has to itself.          *)

\* What decoder j is seen to attend to, and whether a temperature is under way.
Seen(j) == IF pc = "replace" /\ j \in todo THEN ViewIn(kv, Tmp(j)) ELSE ViewIn(kv, j)
Views   == [j \in Decoders |-> IF pc = "replace" /\ j \in todo THEN View(Tmp(j)) ELSE View(j)]
Busy    == pc \notin {"idle", "freed"}

\* The mapping of KvCache in terms of the invariant's.
LEMMA ViewsAre ==
    /\ DOMAIN Views = Decoders /\ \A j \in Decoders : Views[j] = Seen(j)
    /\ DOMAIN Views' = Decoders /\ \A j \in Decoders : Views'[j] = Seen(j)'
    /\ (\A j \in Decoders : Seen(j)' = Seen(j)) => Views' = Views
  BY DEF Views, Seen, View, ViewIn

\* The two modules count alike.
LEMMA SameCount == ASSUME NEW S PROVE Promised!Cardinality(S) = Cardinality(S)
  BY DEF Promised!Cardinality, Cardinality

\* The entries of a sequence of tokens are a sequence.
LEMMA EntriesAre ==
    ASSUME NEW kc, CacheOK(kc), NEW id, NEW t, NEW m \in Nat, Holds(kc, id, t, m)
    PROVE  /\ Promised!IsSequence(ViewIn(kc, id))
           /\ ViewIn(kc, id) = EntriesTo(t, m) /\ Cardinality(ViewIn(kc, id)) = m
  <1>1. ViewIn(kc, id) = EntriesTo(t, m)
    BY HoldsView
  <1>2. Cardinality(EntriesTo(t, m)) = m /\ {e[1] : e \in EntriesTo(t, m)} = 0..(m - 1)
    BY EntriesCount
  <1> QED
    BY <1>1, <1>2, SameCount DEF Promised!IsSequence

\* An id without cells is seen as the empty sequence.
LEMMA NothingIsSequence == ASSUME NEW kc, CacheOK(kc), NEW id, Absent(kc, id)
                           PROVE  Promised!IsSequence(ViewIn(kc, id)) /\ ViewIn(kc, id) = {}
  <1>1. Holds(kc, id, <<>>, 0) /\ ViewIn(kc, id) = {}
    BY AbsentView
  <1> QED
    BY <1>1, EntriesAre

\* A temperature begins with one prompt, or with nothing.
LEMMA RestartIs ==
    ASSUME ~Busy, Promised!IsSequence(Seen(0)'), \A j \in Decoders \ {0} : Seen(j)' = {}
    PROVE  Promised!Next
  <1>1. 0 \in Decoders
    BY IdFacts
  <1>2. Promised!IsSequence(Views'[0]) /\ \A j \in Decoders \ {0} : Views'[j] = {}
    BY <1>1, ViewsAre
  <1> QED
    BY <1>2, ViewsAre DEF Promised!Next, Promised!Restart, Busy, Views

\* Detection gives decoder 0 a sequence and leaves the others theirs.
LEMMA DetectIs ==
    ASSUME ~Busy, ~Busy', Promised!IsSequence(Seen(0)'), \A j \in Decoders \ {0} : Seen(j)' = Seen(j)
    PROVE  Promised!Next
  <1>1. 0 \in Decoders
    BY IdFacts
  <1>2. Promised!IsSequence(Views'[0]) /\ \A j \in Decoders \ {0} : Views'[j] = Views[j]
    BY <1>1, ViewsAre
  <1> QED
    BY <1>2, ViewsAre DEF Promised!Next, Promised!Detect, Busy, Views

\* Decoders take over sequences that decoders had.
LEMMA DealIs ==
    ASSUME Busy, Busy', \A j \in Decoders : \E s \in Decoders : Seen(j)' = Seen(s)
    PROVE  Promised!Next
  <1>1. \A j \in Decoders : \E s \in Decoders : Views'[j] = Views[s]
    BY ViewsAre
  <1> QED
    BY <1>1, ViewsAre DEF Promised!Next, Promised!Deal, Busy, Views

\* Decoders get one entry more at the end of their sequences.
LEMMA ExtendIs ==
    ASSUME Busy,
           \A j \in Decoders : \/ Seen(j)' = Seen(j)
                               \/ \E t \in Tokens : Seen(j)' = Seen(j) \cup {<<Cardinality(Seen(j)), t>>}
    PROVE  Promised!Next
  <1>1. \A j \in Decoders : \/ Views'[j] = Views[j]
                            \/ \E t \in Tokens : Views'[j] = Views[j] \cup {<<Cardinality(Views[j]), t>>}
    BY ViewsAre
  <1> QED
    BY <1>1, ViewsAre, SameCount DEF Promised!Next, Promised!Extend, Busy, Views

\* Detection is Detect.
LEMMA DetectRefines == ASSUME IInv, DetectLanguage PROVE Promised!Next
  <1>1. CacheOK(kv) /\ pc = "idle" /\ pc' = "idle"
    BY DEF IInv, DetectLanguage
  <1>2. PICK kc : kc = SeqRm(kv, 0)
    OBVIOUS
  <1>3. CacheOK(kc) /\ Absent(kc, 0) /\ \A id : id # 0 => Same(kv, id, kc, id)
    BY <1>1, <1>2, SeqRmFacts
  <1>4. CacheOK(kv') /\ Promised!IsSequence(ViewIn(kv', 0)) /\ \A id : id # 0 => Same(kv, id, kv', id)
    <2>1. CASE Slots(kc, 1) = {}
      <3>1. kv' = kc
        BY <1>2, <2>1 DEF DetectLanguage
      <3> QED
        BY <3>1, <1>3, NothingIsSequence
    <2>2. CASE Slots(kc, 1) # {}
      <3>1. kv' = Store(kc, Prompt(1))
        BY <1>2, <2>2 DEF DetectLanguage
      <3>2. /\ CacheOK(kv') /\ \A id : id # 0 => Same(kc, id, kv', id)
            /\ \A t : t[1] = PromptTok => Holds(kv', 0, t, 1)
        BY <3>1, <2>2, <1>3, DetectCache
      <3>3. Holds(kv', 0, <<PromptTok>>, 1)
        <4>1. <<PromptTok>>[1] = PromptTok
          OBVIOUS
        <4> QED
          BY <4>1, <3>2
      <3>4. Promised!IsSequence(ViewIn(kv', 0))
        BY <3>2, <3>3, EntriesAre
      <3> QED
        BY <3>2, <3>4, <1>3, SameTrans
    <2> QED
      BY <2>1, <2>2
  <1>5. \A j : Seen(j) = ViewIn(kv, j) /\ Seen(j)' = ViewIn(kv', j)
    BY <1>1 DEF Seen
  <1>6. ASSUME NEW j \in Decoders \ {0} PROVE Seen(j)' = Seen(j)
    <2>1. Same(kv, j, kv', j)
      BY <1>4
    <2>2. ViewIn(kv', j) = ViewIn(kv, j)
      BY <2>1, <1>1, <1>4, SameCells
    <2> QED
      BY <2>2, <1>5
  <1>7. ~Busy /\ ~Busy'
    BY <1>1 DEF Busy
  <1> QED
    BY <1>4, <1>5, <1>6, <1>7, DetectIs

\* A temperature begins with Restart.
LEMMA BeginRefines ==
    ASSUME IInv, NEW k \in 1..MaxDecoders, NEW len \in PromptLens, NEW b \in BOOLEAN, BeginTemperature(k, len, b)
    PROVE  Promised!Next
  <1>1. CacheOK(kv) /\ pc = "idle"
    BY DEF IInv, BeginTemperature
  <1>2. PICK kc : kc = KvClear(IF nDec < k THEN KvInit(k) ELSE kv)
    OBVIOUS
  <1>3. CacheOK(kc) /\ \A id : Absent(kc, id)
    <2>1. CacheOK(KvInit(k))
      BY KvInitOK
    <2> QED
      BY <2>1, <1>1, <1>2, KvClearOK
  <1>4. /\ pc' \in {"prompt", "idle"}
        /\ kv' = kc \/ (Slots(kc, len) # {} /\ kv' = Store(kc, Prompt(len)))
    BY <1>2 DEF BeginTemperature
  <1>5. CacheOK(kv') /\ Promised!IsSequence(ViewIn(kv', 0)) /\ \A id : id # 0 => Absent(kv', id)
    <2>1. CASE kv' = kc
      BY <2>1, <1>3, NothingIsSequence
    <2>2. CASE Slots(kc, len) # {} /\ kv' = Store(kc, Prompt(len))
      <3>1. /\ CacheOK(kv') /\ \A id : id # 0 => Absent(kv', id)
            /\ \A t : (\A p \in 1..len : t[p] = PromptTok) => Holds(kv', 0, t, len)
        BY <2>2, <1>3, BeginCache
      <3>2. PICK t : t = [p \in 1..len |-> PromptTok]
        OBVIOUS
      <3>3. \A p \in 1..len : t[p] = PromptTok
        BY <3>2
      <3>4. Holds(kv', 0, t, len) /\ len \in Nat
        BY <3>1, <3>3, IdFacts
      <3>5. Promised!IsSequence(ViewIn(kv', 0))
        BY <3>1, <3>4, EntriesAre
      <3> QED
        BY <3>1, <3>5
    <2> QED
      BY <2>1, <2>2, <1>4
  <1>6. \A j : Seen(j)' = ViewIn(kv', j)
    BY <1>4 DEF Seen
  <1>7. \A j \in Decoders \ {0} : Seen(j)' = {}
    BY <1>5, <1>6, AbsentView
  <1>8. ~Busy
    BY <1>1 DEF Busy
  <1> QED
    BY <1>5, <1>6, <1>7, <1>8, RestartIs

\* Sharing the prompt deals decoder 0's sequence to the others.
LEMMA CopyPromptRefines == ASSUME IInv, CopyPrompt PROVE Promised!Next
  <1>1. CacheOK(kv) /\ LoopOK /\ AtPrompt /\ pc = "prompt" /\ pc' = "sample"
    BY DEF IInv, CopyPrompt
  <1>2. kv' = IF n = 1 THEN kv ELSE PromptShared(kv, n)
    BY DEF CopyPrompt, PromptShared
  <1>3. n \in 1..MaxDecoders /\ \A id \in SeqIds \ {0} : Absent(kv, id)
    BY <1>1 DEF LoopOK, AtPrompt
  <1>4. \A j : Seen(j) = ViewIn(kv, j) /\ Seen(j)' = ViewIn(kv', j)
    BY <1>1 DEF Seen
  <1>5. ASSUME NEW j \in Decoders PROVE \E s \in Decoders : Seen(j)' = Seen(s)
    <2>1. CASE n = 1
      BY <2>1, <1>2, <1>4
    <2>2. CASE n # 1
      <3>1. /\ CacheOK(kv')
            /\ \A d \in 0..(n - 1) : Same(kv, 0, kv', d)
            /\ \A id \in SeqIds : id \notin 0..(n - 1) => Same(kv, id, kv', id)
        BY <2>2, <1>1, <1>2, <1>3, PromptSharedFacts
      <3>2. j \in SeqIds /\ 0 \in Decoders
        BY IdFacts
      <3>3. CASE j \in 0..(n - 1)
        <4>1. Same(kv, 0, kv', j)
          BY <3>1, <3>3
        <4> QED
          BY <4>1, <3>1, <3>2, <1>1, <1>4, SameCells
      <3>4. CASE j \notin 0..(n - 1)
        <4>1. Same(kv, j, kv', j)
          BY <3>1, <3>2, <3>4
        <4> QED
          BY <4>1, <3>1, <1>1, <1>4, SameCells
      <3> QED
        BY <3>3, <3>4
    <2> QED
      BY <2>1, <2>2
  <1>6. Busy /\ Busy'
    BY <1>1 DEF Busy
  <1> QED
    BY <1>5, <1>6, DealIs

\* Marking a candidate's cells changes nothing that is seen.
LEMMA CopyOutRefines == ASSUME IInv, NEW j \in todo, NEW s \in live, CopyOut(j, s) PROVE UNCHANGED <<Views, Busy>>
  <1>1. CacheOK(kv) /\ LoopOK /\ pc = "copy" /\ pc' = "copy" /\ kv' = SeqCp(kv, s, Tmp(j))
    BY DEF IInv, CopyOut
  <1>2. j \in Decoders
    BY <1>1 DEF LoopOK
  <1>3. CacheOK(kv') /\ \A d : d # Tmp(j) => Same(kv, d, kv', d)
    BY <1>1, <1>2, IdFacts, SeqCpFacts
  <1>4. ASSUME NEW d \in Decoders PROVE Seen(d)' = Seen(d)
    <2>1. Same(kv, d, kv', d)
      BY <1>2, <1>3, IdFacts
    <2>2. ViewIn(kv', d) = ViewIn(kv, d)
      BY <2>1, <1>1, <1>3, SameCells
    <2> QED
      BY <2>2, <1>1 DEF Seen
  <1>5. Views' = Views
    BY <1>4, ViewsAre
  <1> QED
    BY <1>1, <1>5 DEF Busy

\* When all cells are marked the sequences are dealt out, all at once.
LEMMA StartReplaceRefines == ASSUME IInv, StartReplace PROVE Promised!Next
  <1>1. /\ LoopOK /\ AtCopy /\ pc = "copy" /\ pc' = "replace" /\ todo = {} /\ todo' = live /\ kv' = kv
    BY DEF IInv, StartReplace
  <1>2. ASSUME NEW j \in Decoders PROVE \E s \in Decoders : Seen(j)' = Seen(s)
    <2>1. CASE j \in live
      <3>1. PICK s \in live : ViewIn(kv, Tmp(j)) = ViewIn(kv, s)
        BY <2>1, <1>1 DEF AtCopy
      <3>2. Seen(j)' = ViewIn(kv, Tmp(j)) /\ Seen(s) = ViewIn(kv, s)
        BY <2>1, <1>1 DEF Seen
      <3> QED
        BY <3>1, <3>2, <1>1 DEF LoopOK
    <2>2. CASE j \notin live
      <3>1. Seen(j)' = ViewIn(kv, j) /\ Seen(j) = ViewIn(kv, j)
        BY <2>2, <1>1 DEF Seen
      <3> QED
        BY <3>1
    <2> QED
      BY <2>1, <2>2
  <1>3. Busy /\ Busy'
    BY <1>1 DEF Busy
  <1> QED
    BY <1>2, <1>3, DealIs

\* The replacement of one decoder is invisible: it is seen by its mark before, and
\* by its own id after.
LEMMA ReplaceRefines == ASSUME IInv, NEW j \in todo, Replace(j) PROVE UNCHANGED <<Views, Busy>>
  <1>1. CacheOK(kv) /\ LoopOK /\ pc = "replace" /\ pc' = "replace" /\ todo' = todo \ {j} /\ kv' = Exchanged(kv, j)
    BY DEF IInv, Replace, Exchanged
  <1>2. j \in Decoders
    BY <1>1 DEF LoopOK
  <1>3. /\ CacheOK(kv') /\ Same(kv, Tmp(j), kv', j)
        /\ \A d : (d # j /\ d # Tmp(j)) => Same(kv, d, kv', d)
    BY <1>1, <1>2, ExchangedFacts
  <1>4. ASSUME NEW d \in Decoders PROVE Seen(d)' = Seen(d)
    <2>1. CASE d = j
      <3>1. ViewIn(kv', j) = ViewIn(kv, Tmp(j))
        BY <1>1, <1>3, SameCells
      <3> QED
        BY <2>1, <3>1, <1>1 DEF Seen
    <2>2. CASE d # j
      <3>1. Same(kv, d, kv', d) /\ Same(kv, Tmp(d), kv', Tmp(d))
        BY <2>2, <1>2, <1>3, IdFacts
      <3>2. ViewIn(kv', d) = ViewIn(kv, d) /\ ViewIn(kv', Tmp(d)) = ViewIn(kv, Tmp(d))
        BY <3>1, <1>1, <1>3, SameCells
      <3> QED
        BY <2>2, <3>2, <1>1 DEF Seen
    <2> QED
      BY <2>1, <2>2
  <1>5. Views' = Views
    BY <1>4, ViewsAre
  <1> QED
    BY <1>1, <1>5 DEF Busy

\* A batch gives each live decoder the entry of its last token.
LEMMA FindSlotRefines == ASSUME IInv, FindSlot PROVE Promised!Next
  <1>1. CacheOK(kv) /\ LoopOK /\ AtUpdate /\ pc = "batch" /\ pc' \in {"idle", "compute"}
    BY DEF IInv, FindSlot
  <1>2. \A j : Seen(j) = ViewIn(kv, j) /\ Seen(j)' = ViewIn(kv', j)
    BY <1>1 DEF Seen
  <1>3. ASSUME NEW j \in Decoders
        PROVE  \/ Seen(j)' = Seen(j)
               \/ \E t \in Tokens : Seen(j)' = Seen(j) \cup {<<Cardinality(Seen(j)), t>>}
    <2>1. CASE kv' = kv
      BY <2>1, <1>2
    <2>2. CASE Slots(kv, Cardinality(live)) # {} /\ kv' = Store(kv, LiveBatch)
      <3>1. /\ CacheOK(kv')
            /\ \A d \in live : Holds(kv', d, tokens[d], plen + i + 1)
            /\ \A id : id \notin live => Same(kv, id, kv', id)
        BY <2>2, <1>1, BatchStored
      <3>2. CASE j \notin live
        <4>1. Same(kv, j, kv', j)
          BY <3>1, <3>2
        <4>2. ViewIn(kv', j) = ViewIn(kv, j)
          BY <4>1, <3>1, <1>1, SameCells
        <4> QED
          BY <4>2, <1>2
      <3>3. CASE j \in live
        <4>1. PICK m : m = plen + i
          OBVIOUS
        <4>2. PICK t : t = tokens[j]
          OBVIOUS
        <4>3. m \in Nat /\ m + 1 \in Nat /\ t \in Seq(Tokens) /\ Len(t) = m + 1
          BY <3>3, <4>1, <4>2, <1>1 DEF LoopOK, AtUpdate
        <4>4. Holds(kv, j, t, m) /\ Holds(kv', j, t, m + 1)
          BY <3>1, <3>3, <4>1, <4>2, <1>1 DEF AtUpdate
        <4>5. ViewIn(kv, j) = EntriesTo(t, m) /\ Cardinality(ViewIn(kv, j)) = m
          BY <4>3, <4>4, <1>1, EntriesAre
        <4>6. ViewIn(kv', j) = EntriesTo(t, m + 1)
          BY <4>3, <4>4, <3>1, EntriesAre
        <4>7. t[m + 1] \in Tokens
          BY <4>3
        <4>8. EntriesTo(t, m + 1) = EntriesTo(t, m) \cup {<<m, t[m + 1]>>}
          <5>1. 1..(m + 1) = 1..m \cup {m + 1} /\ (m + 1) - 1 = m
            BY <4>3
          <5> QED
            BY <5>1 DEF EntriesTo
        <4> QED
          BY <4>5, <4>6, <4>7, <4>8, <1>2
      <3> QED
        BY <3>2, <3>3
    <2> QED
      BY <2>1, <2>2 DEF FindSlot
  <1>4. Busy
    BY <1>1 DEF Busy
  <1> QED
    BY <1>3, <1>4, ExtendIs

\* The other steps leave all sequences as they are; some of them end the temperature.
LEMMA OtherRefines ==
    ASSUME IInv,
           \/ \E k \in 1..MaxDecoders : KvInitFails(k)
           \/ SampleGreedy \/ SampleBeam \/ EndReplace \/ Compute \/ Stopped \/ UNCHANGED vars
           \/ \E alive \in SUBSET live : Update(alive)
    PROVE  Promised!Next \/ UNCHANGED <<Views, Busy>>
  <1>1. /\ kv' = kv
        /\ Busy' => Busy
        /\ \/ pc # "replace" /\ pc' # "replace"
           \/ pc = "replace" /\ todo = {} /\ pc' # "replace"
           \/ pc' = pc /\ todo' = todo
    BY DEF KvInitFails, SampleGreedy, SampleBeam, EndReplace, Compute, Stopped, vars, Update, Busy
  <1>2. \A j \in Decoders : Seen(j)' = Seen(j)
    BY <1>1 DEF Seen
  <1>3. CASE Busy
    BY <1>2, <1>3, ExtendIs
  <1>4. CASE ~Busy
    <2>1. Views' = Views
      BY <1>2, ViewsAre
    <2>2. Busy' = Busy
      BY <1>1, <1>4 DEF Busy
    <2> QED
      BY <2>1, <2>2
  <1> QED
    BY <1>3, <1>4

\* The shared cells implement sequences that each decoder has to itself, as
\* KvSequences says: a temperature starts from one prompt, an exchange of beams
\* through temporary ids is one simultaneous deal, a batch extends each sequence at
\* its own end, and no step of one decoder changes what another attends to.
THEOREM CellsImplementSequences == Spec => ImplementsSequences
  <1>1. Init => Promised!Init
    <2> SUFFICES ASSUME Init PROVE Promised!Init
      OBVIOUS
    <2>1. CacheOK(kv) /\ pc = "idle" /\ \A id : Absent(kv, id)
      BY KvInitOK DEF Init
    <2>2. \A j \in Decoders : Seen(j) = {}
      BY <2>1, AbsentView DEF Seen
    <2>3. Views = [j \in Decoders |-> {}]
      BY <2>2, ViewsAre DEF Views
    <2> QED
      BY <2>1, <2>3 DEF Promised!Init, Views
  <1>2. IInv /\ [Next]_vars => Promised!Next \/ UNCHANGED <<Views, Busy>>
    <2> SUFFICES ASSUME IInv, [Next]_vars PROVE Promised!Next \/ UNCHANGED <<Views, Busy>>
      OBVIOUS
    <2> QED
      BY DetectRefines, BeginRefines, CopyPromptRefines, CopyOutRefines, StartReplaceRefines,
         ReplaceRefines, FindSlotRefines, OtherRefines DEF Next
  <1> QED
    BY <1>1, <1>2, CacheInvariant, PTL DEF Spec, ImplementsSequences, Promised!Spec, Views, Busy
-----------------------------------------------------------------------------
(* A batch always finds a slot.  The cells behind the number of tokens that *)
(* were decoded in this temperature, shared ones counted for each decoder,  *)
(* are free, and the search begins before them.                             *)

FreeFrom(kc, f) == kc.head <= f /\ \A c \in Index(kc) : c >= f => kc.cells[c].pos = -1

\* Turns of the loop whose batch is stored.
Turns == IF pc = "compute" THEN i + 1 ELSE i

SlotInv ==
    /\ nDec \in 1..MaxDecoders /\ kv.size = SizeFor(nDec)
    /\ ~Idle => n <= nDec /\ live \subseteq 0..(n - 1) /\ FreeFrom(kv, plen + n * Turns)

\* A removal frees cells that were used, and the search begins at one of those.
LEMMA SeqRmFree ==
    ASSUME NEW kc, CacheOK(kc), NEW id, NEW f \in Nat, FreeFrom(kc, f)
    PROVE  FreeFrom(SeqRm(kc, id), f)
  <1> DEFINE freed == {c \in 0..(kc.size - 1) : kc.cells[c].seqs = {id}}
             h == IF freed = {} THEN kc.head ELSE CHOOSE c \in freed : \A b \in freed : c <= b
  <1>1. kc.size \in Nat /\ kc.head \in Nat /\ kc.head <= f
    BY CacheFacts DEF FreeFrom
  <1>2. freed \in SUBSET Nat /\ \A c \in freed : c <= f
    <2> SUFFICES ASSUME NEW c \in freed PROVE c \in Nat /\ c <= f
      OBVIOUS
    <2>1. c \in Index(kc) /\ c \in Nat /\ kc.cells[c].seqs # {}
      BY <1>1 DEF Index
    <2>2. kc.cells[c].pos # -1
      BY <2>1, CacheFacts
    <2> QED
      BY <2>1, <2>2 DEF FreeFrom
  <1>3. /\ SeqRm(kc, id).head = h /\ SeqRm(kc, id).size = kc.size
        /\ \A c \in 0..(kc.size - 1) : SeqRm(kc, id).cells[c].pos = IF c \in freed THEN -1 ELSE kc.cells[c].pos
    <2>1. kc \in [size : Nat \ {0}, head : Nat, cells : CellArrays]
      BY DEF CacheOK
    <2> QED
      BY <2>1 DEF SeqRm
  <1>4. h <= f
    <2>1. CASE freed = {}
      BY <2>1, <1>1
    <2>2. CASE freed # {}
      <3> HIDE DEF freed
      <3>1. \E c \in freed : \A b \in freed : c <= b
        BY <2>2, <1>2, LeastNat
      <3> QED
        BY <2>2, <1>2, <3>1
    <2> QED
      BY <2>1, <2>2
  <1> HIDE DEF freed, h
  <1> QED
    BY <1>3, <1>4 DEF FreeFrom, Index

\* A copy changes no position.
LEMMA SeqCpFree ==
    ASSUME NEW kc, CacheOK(kc), NEW src, NEW dst, NEW f \in Nat, FreeFrom(kc, f)
    PROVE  FreeFrom(SeqCp(kc, src, dst), f)
  <1>1. kc \in [size : Nat \ {0}, head : Nat, cells : CellArrays]
    BY DEF CacheOK
  <1>2. /\ SeqCp(kc, src, dst).head = 0 /\ SeqCp(kc, src, dst).size = kc.size
        /\ \A c \in 0..(kc.size - 1) : SeqCp(kc, src, dst).cells[c].pos = kc.cells[c].pos
    BY <1>1 DEF SeqCp
  <1> QED
    BY <1>2 DEF FreeFrom, Index

LEMMA PromptSharedFree ==
    ASSUME NEW kc, CacheOK(kc), NEW m, NEW f \in Nat, FreeFrom(kc, f)
    PROVE  FreeFrom(PromptShared(kc, m), f)
  <1>1. kc \in [size : Nat \ {0}, head : Nat, cells : CellArrays]
    BY DEF CacheOK
  <1>2. \A c \in 0..(kc.size - 1) : kc.cells[c] \in Cell
    BY DEF CacheOK
  <1>3. /\ PromptShared(kc, m).head = 0 /\ PromptShared(kc, m).size = kc.size
        /\ \A c \in 0..(kc.size - 1) : PromptShared(kc, m).cells[c].pos = kc.cells[c].pos
    BY <1>1, <1>2 DEF PromptShared, Cell
  <1> QED
    BY <1>3 DEF FreeFrom, Index

\* A batch that fits behind the used cells has a slot, and gets one no later.
LEMMA StoreFree ==
    ASSUME NEW kc, CacheOK(kc), NEW batch \in Seq(BatchToken), NEW f \in Nat, FreeFrom(kc, f),
           f + Len(batch) <= kc.size
    PROVE  Slots(kc, Len(batch)) # {} /\ FreeFrom(Store(kc, batch), f + Len(batch))
  <1> DEFINE L == Len(batch)
             all   == Slots(kc, L)
             ahead == {s \in all : s >= kc.head}
             s     == Slot(kc, L)
  <1>1. L \in Nat /\ kc.size \in Nat /\ kc.head <= f /\ kc.head \in Nat
    BY CacheFacts DEF FreeFrom
  <1>2. f \in ahead
    <2>1. \A c \in f..(f + L - 1) : kc.cells[c].pos < 0
      BY <1>1 DEF FreeFrom, Index
    <2> QED
      BY <1>1, <2>1 DEF Slots
  <1>3. ahead \in SUBSET Nat
    BY <1>1 DEF Slots
  <1>4. s = CHOOSE t \in ahead : \A u \in ahead : t <= u
    BY <1>2, Zenon DEF Slot
  <1>5. all # {}
    BY <1>2
  <1> HIDE DEF all, ahead, s
  <1>6. s \in Nat /\ s <= f
    <2>1. \E t \in ahead : \A u \in ahead : t <= u
      BY <1>2, <1>3, LeastNat
    <2> QED
      BY <1>2, <1>3, <1>4, <2>1
  <1>7. /\ Store(kc, batch).head = s /\ Store(kc, batch).size = kc.size
        /\ \A c \in 0..(kc.size - 1) : c \notin s..(s + L - 1) => Store(kc, batch).cells[c] = kc.cells[c]
    <2>1. kc \in [size : Nat \ {0}, head : Nat, cells : CellArrays]
      BY DEF CacheOK
    <2> QED
      BY <2>1 DEF Store, s
  <1>8. s <= f + L
    BY <1>1, <1>6
  <1>9. ASSUME NEW c \in 0..(kc.size - 1), c >= f + L PROVE Store(kc, batch).cells[c].pos = -1
    <2>1. c \notin s..(s + L - 1) /\ c >= f
      BY <1>1, <1>6, <1>9
    <2> QED
      BY <2>1, <1>7 DEF FreeFrom, Index
  <1> QED
    BY <1>5, <1>7, <1>8, <1>9 DEF FreeFrom, Index, all

\* There is room for every turn of every decoder.
LEMMA RoomFor ==
    ASSUME NEW m \in Nat \ {0}, NEW k \in Nat, m <= k, NEW len \in Nat, NEW t \in Nat, len + t + 1 <= TextCtx
    PROVE  /\ SizeFor(k) \in Nat /\ len + m * t \in Nat /\ m * (t + 1) = m * t + m
           /\ len + m * t + m <= SizeFor(k)
  <1>1. TextCtx \in Nat
    BY IdFacts
  <1>2. m * t \in Nat /\ m * (t + 1) = m * t + m /\ m * len \in Nat /\ len <= m * len
    <2>1. \A a \in Nat \ {0}, b \in Nat : a * b \in Nat /\ a * (b + 1) = a * b + a
      OBVIOUS
    <2>2. \A a \in Nat \ {0}, b \in Nat : b <= a * b
      OBVIOUS
    <2> QED
      BY <2>1, <2>2
  <1>3. m * (len + t + 1) = m * len + m * t + m
    OBVIOUS
  <1>4. m * (len + t + 1) <= m * TextCtx
    <2>1. \A a, b, c \in Nat : b <= c => a * b <= a * c
      OBVIOUS
    <2> QED
      BY <2>1, <1>1
  <1>5. m * TextCtx <= SizeFor(k) /\ SizeFor(k) \in Nat
    <2>1. PICK q \in Nat : q = (IF k > 1 THEN k + 2 ELSE 1)
      OBVIOUS
    <2>2. m <= q /\ SizeFor(k) = TextCtx * q
      BY <2>1 DEF SizeFor
    <2>3. \A a, b, c \in Nat : b <= c => b * a <= a * c /\ a * c \in Nat
      OBVIOUS
    <2> QED
      BY <2>2, <2>3, <1>1
  <1> QED
    BY <1>1, <1>2, <1>3, <1>4, <1>5

\* The prompt of a temperature goes to the front of a cleared cache.
LEMMA BeginSlots ==
    ASSUME IInv, SlotInv, NEW k \in 1..MaxDecoders, NEW len \in PromptLens, NEW b \in BOOLEAN, BeginTemperature(k, len, b)
    PROVE  SlotInv'
  <1>1. CacheOK(kv) /\ nDec \in 1..MaxDecoders /\ kv.size = SizeFor(nDec) /\ MaxDecoders \in Nat
    BY IdFacts DEF IInv, SlotInv
  <1>2. PICK ka : ka = IF nDec < k THEN KvInit(k) ELSE kv
    OBVIOUS
  <1>3. CacheOK(ka) /\ ka.size = SizeFor(IF nDec < k THEN k ELSE nDec)
    BY <1>1, <1>2, KvInitOK DEF KvInit
  <1>4. PICK kc : kc = KvClear(ka)
    OBVIOUS
  <1>5. CacheOK(kc) /\ kc.size = ka.size /\ kc.head = 0 /\ \A id : Absent(kc, id)
    <2>1. ka \in [size : Nat \ {0}, head : Nat, cells : CellArrays]
      BY <1>3 DEF CacheOK
    <2> QED
      BY <1>3, <1>4, <2>1, KvClearOK DEF KvClear
  <1>6. FreeFrom(kc, 0)
    <2>1. \A c \in Index(kc) : kc.cells[c].seqs \subseteq SeqIds /\ (kc.cells[c].pos = -1 <=> kc.cells[c].seqs = {})
      BY <1>5, CacheFacts
    <2>2. \A c \in Index(kc) : kc.cells[c].seqs = {}
      BY <2>1, <1>5 DEF Absent
    <2> QED
      BY <2>1, <2>2, <1>5 DEF FreeFrom
  <1>7. /\ nDec' = (IF nDec < k THEN k ELSE nDec) /\ n' = k /\ plen' = len /\ i' = 0 /\ live' = 0..(k - 1)
        /\ pc' \in {"prompt", "idle"}
        /\ \/ pc' = "idle" /\ kv' = kc
           \/ Slots(kc, len) # {} /\ kv' = Store(kc, Prompt(len))
    BY <1>2, <1>4 DEF BeginTemperature
  <1>8. len \in Nat /\ len + 0 + 1 <= TextCtx /\ Prompt(len) \in Seq(BatchToken) /\ Len(Prompt(len)) = len
    <2>1. len \in Nat /\ len + 0 + 1 <= TextCtx /\ len <= TextCtx
      BY IdFacts
    <2>2. Prompt(len) \in Seq(BatchToken) /\ Len(Prompt(len)) = len
      BY <2>1, PromptFacts, Zenon
    <2> QED
      BY <2>1, <2>2
  <1>9. nDec' \in 1..MaxDecoders /\ k <= nDec'
    BY <1>1, <1>7
  <1>10. kv'.size = SizeFor(nDec')
    <2>1. CASE kv' = kc
      BY <2>1, <1>3, <1>5, <1>7
    <2>2. CASE Slots(kc, len) # {} /\ kv' = Store(kc, Prompt(len))
      BY <2>2, <1>3, <1>5, <1>7, <1>8, StoreFacts DEF StoredAt
    <2> QED
      BY <2>1, <2>2, <1>7
  <1>11. ASSUME pc' = "prompt" PROVE FreeFrom(kv', plen' + n' * Turns')
    <2>1. kv' = Store(kc, Prompt(len))
      BY <1>7, <1>11
    <2>2. len + k <= SizeFor(nDec') /\ SizeFor(nDec') \in Nat /\ k * 0 = 0
      <3>1. k \in Nat \ {0} /\ nDec' \in Nat /\ len + 1 + 0 = len + 0 + 1 /\ 0 \in Nat
        BY <1>8, <1>9, IdFacts
      <3>2. SizeFor(nDec') \in Nat /\ len + k * 0 + k <= SizeFor(nDec')
        BY <1>8, <1>9, <3>1, RoomFor, Zenon
      <3>3. k * 0 = 0
        BY <3>1
      <3> QED
        BY <1>8, <3>1, <3>2, <3>3
    <2>3. 0 + len <= kc.size
      <3>1. kc.size = SizeFor(nDec')
        BY <1>3, <1>5, <1>7
      <3>2. k \in Nat
        BY IdFacts
      <3> QED
        BY <2>2, <3>1, <3>2, <1>8
    <2>4. FreeFrom(kv', 0 + len)
      BY <2>1, <2>3, <1>5, <1>6, <1>8, StoreFree
    <2>5. Turns' = 0
      BY <1>7, <1>11 DEF Turns
    <2> QED
      BY <2>2, <2>4, <2>5, <1>7, <1>8
  <1> QED
    BY <1>7, <1>9, <1>10, <1>11 DEF SlotInv, Idle

\* The batch of the live decoders fits behind the used cells.
LEMMA BatchFits ==
    ASSUME IInv, SlotInv, pc = "batch"
    PROVE  /\ Slots(kv, Cardinality(live)) # {}
           /\ Store(kv, LiveBatch).size = kv.size
           /\ FreeFrom(Store(kv, LiveBatch), plen + n * (i + 1))
  <1>1. CacheOK(kv) /\ LoopOK /\ AtUpdate /\ live \subseteq 0..(n - 1) /\ n <= nDec /\ nDec \in Nat
        /\ kv.size = SizeFor(nDec) /\ FreeFrom(kv, plen + n * i)
    BY IdFacts DEF IInv, SlotInv, Turns, Idle
  <1>2. /\ live \subseteq Decoders /\ plen \in Nat /\ i \in Nat /\ plen + i < TextCtx /\ TextCtx \in Nat
        /\ tokens \in [Decoders -> Seq(Tokens)] /\ \A j \in live : Len(tokens[j]) = plen + i + 1
        /\ n \in Nat \ {0}
    BY <1>1, IdFacts DEF LoopOK, AtUpdate, Idle
  <1>3. PICK batch : batch = LiveBatch
    OBVIOUS
  <1>4. /\ batch \in Seq(BatchToken) /\ Len(batch) = Cardinality(live) /\ Len(batch) \in Nat
    BY <1>2, <1>3, LiveBatchFacts
  <1>5. Len(batch) <= n
    <2>1. IsFiniteSet(0..(n - 1)) /\ Cardinality(0..(n - 1)) = n
      BY <1>2, FS_Interval
    <2> QED
      BY <2>1, <1>1, <1>4, FS_Subset
  <1>6. PICK f : f = plen + n * i
    OBVIOUS
  <1>7. f \in Nat /\ f + n <= kv.size /\ plen + n * (i + 1) = f + n /\ kv.size \in Nat
    <2>1. plen + i + 1 <= TextCtx
      BY <1>2
    <2>2. /\ SizeFor(nDec) \in Nat /\ plen + n * i \in Nat /\ n * (i + 1) = n * i + n
          /\ plen + n * i + n <= SizeFor(nDec)
      BY <1>1, <1>2, <2>1, RoomFor
    <2>3. plen + (n * i + n) = plen + n * i + n
      BY <1>2, <2>2
    <2> QED
      BY <1>1, <1>2, <1>6, <2>2, <2>3
  <1>8. f + Len(batch) <= kv.size
    BY <1>2, <1>4, <1>5, <1>7
  <1>9. Slots(kv, Len(batch)) # {} /\ FreeFrom(Store(kv, batch), f + Len(batch))
    BY <1>1, <1>4, <1>6, <1>7, <1>8, StoreFree
  <1>10. Store(kv, batch).size = kv.size
    BY <1>1, <1>4, <1>9, StoreFacts DEF StoredAt
  <1>11. FreeFrom(Store(kv, batch), f + n)
    <2>1. CacheOK(Store(kv, batch))
      BY <1>1, <1>4, <1>9, StoreFacts
    <2>2. Store(kv, batch).head \in Nat /\ Index(Store(kv, batch)) \subseteq Nat
      BY <2>1, CacheFacts
    <2> QED
      BY <2>2, <1>2, <1>4, <1>5, <1>7, <1>9 DEF FreeFrom
  <1> QED
    BY <1>3, <1>4, <1>7, <1>9, <1>10, <1>11

\* A cell is taken only by the prompt and by a batch.
LEMMA SlotStep == ASSUME IInv, SlotInv, [Next]_vars PROVE SlotInv'
  <1>1. CacheOK(kv) /\ LoopOK /\ nDec \in 1..MaxDecoders /\ kv.size = SizeFor(nDec)
    BY DEF IInv, SlotInv
  <1>2. ASSUME ~Idle
        PROVE  /\ n <= nDec /\ live \subseteq 0..(n - 1) /\ FreeFrom(kv, plen + n * Turns)
               /\ plen + n * Turns \in Nat
    <2>1. n <= nDec /\ live \subseteq 0..(n - 1) /\ FreeFrom(kv, plen + n * Turns)
      BY <1>2 DEF SlotInv
    <2>2. n \in Nat /\ plen \in Nat /\ Turns \in Nat
      BY <1>1, IdFacts DEF LoopOK, Turns
    <2>3. \A a, b, c \in Nat : a + b * c \in Nat
      OBVIOUS
    <2> QED
      BY <2>1, <2>2, <2>3
  <1>3. CASE DetectLanguage
    <2>1. /\ pc' = "idle" /\ UNCHANGED <<nDec>>
          /\ \/ kv' = SeqRm(kv, 0)
             \/ Slots(SeqRm(kv, 0), 1) # {} /\ kv' = Store(SeqRm(kv, 0), Prompt(1))
      BY <1>3 DEF DetectLanguage
    <2>2. CacheOK(SeqRm(kv, 0)) /\ SeqRm(kv, 0).size = kv.size
      BY <1>1, SeqRmFacts
    <2>3. Prompt(1) \in Seq(BatchToken) /\ Len(Prompt(1)) = 1
      <3>1. 1 \in Nat /\ 1 <= TextCtx
        BY IdFacts
      <3> QED
        BY <3>1, PromptFacts, Zenon
    <2>4. kv'.size = kv.size
      BY <2>1, <2>2, <2>3, StoreFacts DEF StoredAt
    <2> QED
      BY <2>1, <2>4, <1>1 DEF SlotInv, Idle
  <1>4. ASSUME NEW k \in 1..MaxDecoders, NEW len \in PromptLens, NEW b \in BOOLEAN, BeginTemperature(k, len, b)
        PROVE  SlotInv'
    BY <1>4, BeginSlots
  <1>5. CASE CopyPrompt
    <2>1. /\ pc = "prompt" /\ pc' = "sample" /\ AtPrompt
          /\ UNCHANGED <<nDec, n, plen, live, i>> /\ kv' = IF n = 1 THEN kv ELSE PromptShared(kv, n)
      BY <1>5 DEF CopyPrompt, PromptShared, IInv
    <2>2. Turns' = Turns
      BY <2>1 DEF Turns
    <2>3. FreeFrom(kv', plen + n * Turns) /\ kv'.size = kv.size
      <3>1. PromptShared(kv, n).size = kv.size
        BY <1>1, <2>1, PromptSharedFacts DEF LoopOK, AtPrompt
      <3> QED
        BY <3>1, <1>1, <1>2, <2>1, PromptSharedFree DEF Idle
    <2> QED
      BY <2>1, <2>2, <2>3, <1>1, <1>2 DEF SlotInv, Idle
  <1>6. ASSUME NEW j \in todo, NEW s \in live, CopyOut(j, s) PROVE SlotInv'
    <2>1. pc = "copy" /\ UNCHANGED <<nDec, pc, n, plen, live, i>> /\ kv' = SeqCp(kv, s, Tmp(j))
      BY <1>6 DEF CopyOut
    <2>2. Tmp(j) \in SeqIds
      BY <2>1, <1>1, IdFacts DEF LoopOK
    <2>3. FreeFrom(kv', plen + n * Turns) /\ kv'.size = kv.size
      BY <1>1, <1>2, <2>1, <2>2, SeqCpFacts, SeqCpFree DEF Idle
    <2> QED
      BY <2>1, <2>3, <1>1, <1>2 DEF SlotInv, Idle, Turns
  <1>7. ASSUME NEW j \in todo, Replace(j) PROVE SlotInv'
    <2>1. pc = "replace" /\ UNCHANGED <<nDec, pc, n, plen, live, i>> /\ kv' = SeqRm(SeqCp(SeqRm(kv, j), Tmp(j), j), Tmp(j))
      BY <1>7 DEF Replace
    <2>2. j \in SeqIds
      BY <2>1, <1>1, IdFacts DEF LoopOK
    <2>3. PICK k1 : k1 = SeqRm(kv, j)
      OBVIOUS
    <2>4. PICK k2 : k2 = SeqCp(k1, Tmp(j), j)
      OBVIOUS
    <2>5. CacheOK(k1) /\ k1.size = kv.size /\ FreeFrom(k1, plen + n * Turns)
      BY <1>1, <1>2, <2>1, <2>3, SeqRmFacts, SeqRmFree DEF Idle
    <2>6. CacheOK(k2) /\ k2.size = kv.size /\ FreeFrom(k2, plen + n * Turns)
      BY <1>2, <2>1, <2>2, <2>4, <2>5, SeqCpFacts, SeqCpFree DEF Idle
    <2>7. kv'.size = kv.size /\ FreeFrom(kv', plen + n * Turns)
      BY <1>2, <2>1, <2>3, <2>4, <2>6, SeqRmFacts, SeqRmFree DEF Idle
    <2> QED
      BY <2>1, <2>7, <1>1, <1>2 DEF SlotInv, Idle, Turns
  <1>8. ASSUME NEW alive \in SUBSET live, Update(alive) PROVE SlotInv'
    <2>1. /\ pc = "update" /\ live' = alive /\ pc' \in {"idle", "batch"} /\ UNCHANGED <<kv, nDec, n, plen, i>>
      BY <1>8 DEF Update
    <2>2. Turns' = Turns /\ live' \subseteq live
      BY <2>1 DEF Turns
    <2> QED
      BY <2>1, <2>2, <1>1, <1>2 DEF SlotInv, Idle
  <1>9. CASE FindSlot
    <2>1. /\ pc = "batch" /\ UNCHANGED <<nDec, n, plen, live, i>>
          /\ IF Slots(kv, Cardinality(live)) = {} THEN pc' = "idle" /\ kv' = kv
             ELSE pc' = "compute" /\ kv' = Store(kv, LiveBatch)
      BY <1>9 DEF FindSlot
    <2>2. pc' = "compute" /\ kv'.size = kv.size /\ FreeFrom(kv', plen + n * (i + 1))
      BY <2>1, BatchFits
    <2>3. Turns' = i + 1
      BY <2>1, <2>2 DEF Turns
    <2> QED
      BY <2>1, <2>2, <2>3, <1>1, <1>2 DEF SlotInv, Idle
  <1>10. CASE Compute
    <2>1. pc = "compute" /\ i' = i + 1 /\ pc' \in {"sample", "idle"} /\ UNCHANGED <<kv, nDec, n, plen, live>>
      BY <1>10 DEF Compute
    <2>2. Turns' = Turns
      BY <2>1 DEF Turns
    <2> QED
      BY <2>1, <2>2, <1>1, <1>2 DEF SlotInv, Idle
  <1>11. CASE SampleGreedy \/ SampleBeam \/ StartReplace \/ EndReplace
    <2>1. /\ pc \in {"sample", "copy", "replace"} /\ pc' \in {"update", "copy", "replace"}
          /\ UNCHANGED <<kv, nDec, n, plen, live, i>>
      BY <1>11 DEF SampleGreedy, SampleBeam, StartReplace, EndReplace
    <2>2. Turns' = Turns
      BY <2>1 DEF Turns
    <2> QED
      BY <2>1, <2>2, <1>1, <1>2 DEF SlotInv, Idle
  <1>12. CASE (\E k \in 1..MaxDecoders : KvInitFails(k)) \/ Stopped \/ UNCHANGED vars
    <2>1. UNCHANGED <<kv, nDec, n, plen, live, i>> /\ (pc' = "freed" \/ pc' = pc)
      BY <1>12 DEF KvInitFails, Stopped, vars
    <2>2. pc' = pc => Turns' = Turns
      BY <2>1 DEF Turns
    <2> QED
      BY <2>1, <2>2, <1>1, <1>2 DEF SlotInv, Idle
  <1> QED
    BY <1>3, <1>4, <1>5, <1>6, <1>7, <1>8, <1>9, <1>10, <1>11, <1>12, Zenon DEF Next

\* However completed decoders and exchanged beams have fragmented the cache, every batch
\* finds a run of free cells, for any number of decoders: the cells ever taken in a
\* temperature fit one after another.
THEOREM BatchesFindSlots == Spec => []SlotAvailable
  <1>1. Init => SlotInv
    BY IdFacts DEF Init, SlotInv, Idle, KvInit
  <1>2. IInv /\ SlotInv => SlotAvailable
    BY BatchFits DEF SlotAvailable
  <1>3. IInv /\ SlotInv /\ [Next]_vars => SlotInv'
    BY SlotStep
  <1> QED
    BY <1>1, <1>2, <1>3, CacheInvariant, PTL DEF Spec
=============================================================================
