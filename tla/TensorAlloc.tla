----------------------------- MODULE TensorAlloc -----------------------------
(***************************************************************************)
(* ggml_dyn_tallocr: the allocator that plans where the tensors of a graph *)
(* go.  A buffer is a list of chunks; a chunk is its sorted free blocks    *)
(* and the highest address used so far (max_size).  Sizes are in units of  *)
(* the alignment, so they are aligned already.                             *)
(***************************************************************************)
EXTENDS Integers, Sequences, SequencesExt

CONSTANTS
    MaxChunks,      \* GGML_VBUFFER_MAX_CHUNKS, 16
    MaxChunkSize,   \* max_chunk_size of the buffer type
    HugeSize        \* SIZE_MAX / 2, the size of the last chunk

ASSUME TallocAssumption ==
    /\ MaxChunks \in Nat \ {0} /\ MaxChunkSize \in Nat \ {0}
    /\ HugeSize \in Nat /\ HugeSize >= MaxChunkSize

LastOf(b) == b.offset + b.size

\* ggml_dyn_tallocr_remove_block is RemoveAt; a block is inserted before the first
\* that begins after it.
InsertBlock(free, b) ==
    LET after == {k \in 1..Len(free) : free[k].offset >= b.offset}
    IN IF after = {} THEN Append(free, b)
       ELSE InsertAt(free, CHOOSE k \in after : \A o \in after : k <= o, b)

\* ggml_dyn_tallocr_new_chunk
NewChunk(chunks, size) ==
    LET room == IF Len(chunks) = MaxChunks - 1 THEN HugeSize
                ELSE IF size > MaxChunkSize THEN size ELSE MaxChunkSize
    IN Append(chunks, [free |-> <<[offset |-> 0, size |-> room]>>, max_size |-> 0])

(***************************************************************************)
(* The block an allocation is taken from.  Blocks between tensors come     *)
(* first: of the last chunk that has one, the smallest, the last of these. *)
(* Then the last blocks: the one that leaves the least of the memory its   *)
(* chunk has used already, or else the one that has to grow the least.     *)
(***************************************************************************)
InnerBlocks(chunks, size) ==
    UNION {{<<c, i>> : i \in {k \in 1..(Len(chunks[c].free) - 1) : chunks[c].free[k].size >= size}}
           : c \in 1..Len(chunks)}

BestInner(chunks, fits) ==
    CHOOSE b \in fits :
        \A o \in fits :
            \/ o[1] < b[1]
            \/ /\ o[1] = b[1]
               /\ LET bs == chunks[b[1]].free[b[2]].size
                      os == chunks[o[1]].free[o[2]].size
                  IN os > bs \/ (os = bs /\ o[2] <= b[2])

\* The memory already used behind the start of the block, less the tensor.
Reuse(chunk, size) == chunk.max_size - Last(chunk.free).offset - size

TailChunks(chunks, size) ==
    {c \in 1..Len(chunks) : chunks[c].free # <<>> /\ Last(chunks[c].free).size >= size}

BestTail(chunks, size, tails) ==
    CHOOSE c \in tails :
        \A o \in tails \ {c} :
            LET rc == Reuse(chunks[c], size)
                ro == Reuse(chunks[o], size)
            IN IF rc >= 0 THEN ro < 0 \/ rc < ro \/ (rc = ro /\ c < o)
               ELSE ro < rc \/ (ro = rc /\ c < o)

\* The front of free block i is taken; an empty block is removed.
Shrink(free, i, size) ==
    IF free[i].size = size THEN RemoveAt(free, i)
    ELSE [free EXCEPT ![i] = [offset |-> @.offset + size, size |-> @.size - size]]

TakeFrom(chunks, c, i, size) ==
    LET at == chunks[c].free[i].offset
    IN [addr   |-> [chunk |-> c, offset |-> at],
        chunks |-> [chunks EXCEPT ![c] =
                      [free     |-> Shrink(@.free, i, size),
                       max_size |-> IF @.max_size < at + size THEN at + size ELSE @.max_size]]]

\* ggml_dyn_tallocr_alloc.  With all chunks used up the code aborts, which "should never
\* happen" since the last chunk is as large as can be.
Alloc(chunks, size) ==
    LET inner == InnerBlocks(chunks, size)
        tails == TailChunks(chunks, size)
    IN IF inner # {}
       THEN LET b == BestInner(chunks, inner) IN TakeFrom(chunks, b[1], b[2], size)
       ELSE IF tails # {}
       THEN LET c == BestTail(chunks, size, tails)
            IN TakeFrom(chunks, c, Len(chunks[c].free), size)
       ELSE TakeFrom(NewChunk(chunks, size), Len(chunks) + 1, 1, size)

\* Mutant: the grown block is not merged with the next.
MUT_NoMerge(free, i) == free

\* Block i has grown at its end: it may now touch the next.
MergeNext(free, i) ==
    IF i < Len(free) /\ LastOf(free[i]) = free[i + 1].offset
    THEN [RemoveAt(free, i + 1) EXCEPT ![i] = [offset |-> free[i].offset,
                                               size   |-> free[i].size + free[i + 1].size]]
    ELSE free

(***************************************************************************)
(* ggml_dyn_tallocr_free_bytes: the first block that touches the region    *)
(* grows, at its end or at its start; otherwise a new block is inserted.   *)
(* (A block that grows at its start cannot touch the block before it: that *)
(* block would have been met first.)                                       *)
(***************************************************************************)
FreeBlocks(free, offset, size) ==
    LET touches(i) == LastOf(free[i]) = offset \/ offset + size = free[i].offset
        near       == {i \in 1..Len(free) : touches(i)}
        i          == CHOOSE k \in near : \A o \in near : k <= o
    IN IF near = {} THEN InsertBlock(free, [offset |-> offset, size |-> size])
       ELSE IF LastOf(free[i]) = offset
       THEN MergeNext([free EXCEPT ![i] = [offset |-> @.offset, size |-> @.size + size]], i)
       ELSE [free EXCEPT ![i] = [offset |-> offset, size |-> @.size + size]]

FreeBytes(chunks, addr, size) ==
    [chunks EXCEPT ![addr.chunk] =
        [free |-> FreeBlocks(@.free, addr.offset, size), max_size |-> @.max_size]]
=============================================================================
