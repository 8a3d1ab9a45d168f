------------------------------ MODULE KvCache ------------------------------
(***************************************************************************)
(* The unified self-attention KV cache (struct whisper_kv_cache) under the *)
(* decoders of whisper_full_with_state.  Decoders share cells: a cell      *)
(* holds the key and value of one token and the ids of the sequences it    *)
(* belongs to.  Beam search moves sequences between decoders through       *)
(* temporary ids MaxDecoders + j, one decoder at a time.                   *)
(*                                                                         *)
(* The data of a cell is named by the token it was computed for; a decoder *)
(* samples the token that bears its own number, so that tokens tell which  *)
(* decoder decoded them.  Which beam survives is left open.                *)
(***************************************************************************)
EXTENDS Integers, Sequences, FiniteSets, SortedSets

CONSTANTS
    MaxDecoders,   \* WHISPER_MAX_DECODERS
    TextCtx,       \* n_text_ctx, padded
    NMax,          \* token budget of a window
    PromptLens     \* lengths a prompt may have

VARIABLES
    kv,        \* kv_self: [size, head, cells]
    nDec,      \* kv_self_n_dec
    pc,        \* where the window is
    n,         \* n_decoders_cur
    plen,      \* length of the prompt
    beam,      \* is this temperature decoded by beam search?
    live,      \* decoders neither completed nor failed
    tokens,    \* the prompt and sequence.tokens of each decoder
    old,       \* the sequences the beam candidates were built from
    todo,      \* decoders the current loop has still to visit
    i          \* index of the token within the window

vars == <<kv, nDec, pc, n, plen, beam, live, tokens, old, todo, i>>

Decoders  == 0..(MaxDecoders - 1)
SeqIds    == 0..(2 * MaxDecoders - 1)
PromptTok == MaxDecoders
Tokens    == Decoders \cup {PromptTok}

\* Mutant: one temporary id for all decoders.
MUT_SharedTmp(j) == MaxDecoders

\* The temporary id of decoder j while beams are exchanged.
Tmp(j) == MaxDecoders + j

ASSUME KvAssumption ==
    /\ MaxDecoders \in Nat \ {0} /\ TextCtx \in Nat /\ NMax \in Nat \ {0}
    /\ PromptLens \subseteq Nat \ {0} /\ PromptLens # {}
    /\ \A p \in PromptLens : p + NMax <= TextCtx
-----------------------------------------------------------------------------
(* The operations of the cache.                                            *)

EmptyCell == [pos |-> -1, seqs |-> {}, tok |-> PromptTok]

\* Mutant: a recreated cache is not larger.
MUT_SizeFor(k) == TextCtx

\* The cache is overallocated for more than one decoder.
SizeFor(k) == TextCtx * (IF k > 1 THEN k + 2 ELSE 1)

KvInit(k)   == [size |-> SizeFor(k), head |-> 0, cells |-> [c \in 0..(SizeFor(k) - 1) |-> EmptyCell]]
KvClear(kc) == [kc EXCEPT !.head = 0, !.cells = [c \in 0..(kc.size - 1) |-> EmptyCell]]

\* Mutant: a cell without sequences keeps its position.
MUT_KeepsPos(kc, id) ==
    [kc EXCEPT !.cells = [c \in 0..(kc.size - 1) |-> [kc.cells[c] EXCEPT !.seqs = @ \ {id}]]]

\* Sequence id leaves its cells; a cell no sequence is left in becomes free, and
\* the search for the next slot starts at the first such cell.
SeqRm(kc, id) ==
    LET freed == {c \in 0..(kc.size - 1) : kc.cells[c].seqs = {id}}
    IN [kc EXCEPT
          !.head  = IF freed = {} THEN @ ELSE CHOOSE c \in freed : \A b \in freed : c <= b,
          !.cells = [c \in 0..(kc.size - 1) |->
                       [pos  |-> IF c \in freed THEN -1 ELSE kc.cells[c].pos,
                        seqs |-> kc.cells[c].seqs \ {id},
                        tok  |-> kc.cells[c].tok]]]

\* Sequence dst joins every cell of sequence src.
SeqCp(kc, src, dst) ==
    [kc EXCEPT
       !.head  = 0,
       !.cells = [c \in 0..(kc.size - 1) |->
                    [pos  |-> kc.cells[c].pos,
                     seqs |-> kc.cells[c].seqs \cup (IF src \in kc.cells[c].seqs THEN {dst} ELSE {}),
                     tok  |-> kc.cells[c].tok]]]

(***************************************************************************)
(* A batch is a sequence of [pos, seq, tok].  It needs a run of free cells *)
(* of its length: the first from head on, or else the first of all.        *)
(***************************************************************************)
Slots(kc, len) ==
    {s \in 0..(kc.size - len) : \A c \in s..(s + len - 1) : kc.cells[c].pos < 0}

Slot(kc, len) ==
    LET all   == Slots(kc, len)
        ahead == {s \in all : s >= kc.head}
        from  == IF ahead # {} THEN ahead ELSE all
    IN CHOOSE s \in from : \A t \in from : s <= t

\* find_slot, and the decode that stores the keys of the batch in the slot.
Store(kc, batch) ==
    LET s == Slot(kc, Len(batch))
    IN [kc EXCEPT
          !.head  = s,
          !.cells = [c \in 0..(kc.size - 1) |->
                       IF c \in s..(s + Len(batch) - 1)
                       THEN [pos  |-> batch[c - s + 1].pos,
                             seqs |-> kc.cells[c].seqs \cup {batch[c - s + 1].seq},
                             tok  |-> batch[c - s + 1].tok]
                       ELSE kc.cells[c]]]

\* Mutant: the index of the last used cell instead of their number.
MUT_LastCell(kc) ==
    LET used == {c \in 1..(kc.size - 1) : kc.cells[c].pos >= 0 /\ kc.cells[c].seqs # {}}
    IN IF used = {} THEN 1 ELSE CHOOSE c \in used : \A b \in used : b <= c

\* Cells behind the last used one are left out of the attention.
CellMax(kc) ==
    LET used == {c \in 1..(kc.size - 1) : kc.cells[c].pos >= 0 /\ kc.cells[c].seqs # {}}
    IN IF used = {} THEN 1 ELSE 1 + CHOOSE c \in used : \A b \in used : b <= c

\* The cells the mask leaves visible to sequence id at position pos.
Visible(kc, id, pos) ==
    {c \in 0..(CellMax(kc) - 1) : id \in kc.cells[c].seqs /\ kc.cells[c].pos <= pos}

Prompt(len) == [k \in 1..len |-> [pos |-> k - 1, seq |-> 0, tok |-> PromptTok]]

\* One token of each live decoder, in the order of the decoders.
LiveBatch ==
    [k \in 1..Cardinality(live) |->
       LET j == Nth(live, k)
       IN [pos |-> plen + i, seq |-> j, tok |-> tokens[j][Len(tokens[j])]]]

First(s) == CHOOSE j \in s : \A m \in s : j <= m
-----------------------------------------------------------------------------
(* The loop that uses it.                                                  *)

Init ==
    /\ kv = KvInit(1) /\ nDec = 1
    /\ pc = "idle" /\ n = 1 /\ plen = 0 /\ beam = FALSE
    /\ live = {} /\ tokens = [j \in Decoders |-> <<>>] /\ old = tokens
    /\ todo = {} /\ i = 0

\* Language detection decodes one token as decoder 0, in whatever is left of an
\* earlier window.
DetectLanguage ==
    /\ pc = "idle"
    /\ LET kc == SeqRm(kv, 0)
       IN IF Slots(kc, 1) = {} THEN kv' = kc /\ UNCHANGED tokens
          ELSE /\ kv' = Store(kc, Prompt(1))
               /\ tokens' = [tokens EXCEPT ![0] = <<PromptTok>>]
    /\ UNCHANGED <<nDec, pc, n, plen, beam, live, old, todo, i>>

\* A temperature begins with k decoders: the cache is recreated if it was made
\* for fewer, cleared, and the prompt is decoded as sequence 0.
BeginTemperature(k, len, b) ==
    /\ pc = "idle"
    /\ LET kc == KvClear(IF nDec < k THEN KvInit(k) ELSE kv)
       IN IF Slots(kc, len) = {} THEN pc' = "idle" /\ kv' = kc
          ELSE pc' \in {"prompt", "idle"} /\ kv' = Store(kc, Prompt(len))
    /\ nDec' = IF nDec < k THEN k ELSE nDec
    /\ n' = k /\ plen' = len /\ beam' = b /\ i' = 0
    /\ live' = 0..(k - 1)
    /\ tokens' = [j \in Decoders |-> IF j < k THEN [p \in 1..len |-> PromptTok] ELSE <<>>]
    /\ UNCHANGED <<old, todo>>

\* The recreated cache cannot be allocated; the state is freed.
KvInitFails(k) ==
    /\ pc = "idle" /\ nDec < k
    /\ pc' = "freed"
    /\ UNCHANGED <<kv, nDec, n, plen, beam, live, tokens, old, todo, i>>

\* The other decoders share the cells of the prompt.
CopyPrompt ==
    /\ pc = "prompt"
    /\ kv' = IF n = 1 THEN kv
             ELSE [kv EXCEPT
                     !.head  = 0,
                     !.cells = [c \in 0..(kv.size - 1) |->
                                  IF 0 \in kv.cells[c].seqs
                                  THEN [kv.cells[c] EXCEPT !.seqs = @ \cup 1..(n - 1)]
                                  ELSE kv.cells[c]]]
    /\ pc' = "sample"
    /\ UNCHANGED <<nDec, n, plen, beam, live, tokens, old, todo, i>>

\* Greedy: each decoder extends its own sequence.
SampleGreedy ==
    /\ pc = "sample" /\ ~beam
    /\ tokens' = [j \in Decoders |-> IF j \in live THEN Append(tokens[j], j) ELSE tokens[j]]
    /\ pc' = "update"
    /\ UNCHANGED <<kv, nDec, n, plen, beam, live, old, todo, i>>

\* Beam search: the candidates are built from the sequences as they are now.
SampleBeam ==
    /\ pc = "sample" /\ beam
    /\ old' = tokens
    /\ todo' = live
    /\ pc' = "copy"
    /\ UNCHANGED <<kv, nDec, n, plen, beam, live, tokens, i>>

\* The next live decoder takes a candidate of decoder s, and its cells are marked
\* with the temporary id.
CopyOut(j, s) ==
    /\ pc = "copy" /\ todo # {} /\ j = First(todo)
    /\ tokens' = [tokens EXCEPT ![j] = Append(old[s], j)]
    /\ kv' = SeqCp(kv, s, Tmp(j))
    /\ todo' = todo \ {j}
    /\ UNCHANGED <<nDec, pc, n, plen, beam, live, old, i>>

StartReplace ==
    /\ pc = "copy" /\ todo = {}
    /\ pc' = "replace" /\ todo' = live
    /\ UNCHANGED <<kv, nDec, n, plen, beam, live, tokens, old, i>>

\* The next live decoder gives up its cells for those marked for it.
Replace(j) ==
    /\ pc = "replace" /\ todo # {} /\ j = First(todo)
    /\ kv' = SeqRm(SeqCp(SeqRm(kv, j), Tmp(j), j), Tmp(j))
    /\ todo' = todo \ {j}
    /\ UNCHANGED <<nDec, pc, n, plen, beam, live, tokens, old, i>>

EndReplace ==
    /\ pc = "replace" /\ todo = {}
    /\ pc' = "update"
    /\ UNCHANGED <<kv, nDec, n, plen, beam, live, tokens, old, todo, i>>

\* Decoders complete or fail; without a live one the temperature is over.
Update(alive) ==
    /\ pc = "update"
    /\ live' = alive
    /\ pc' = IF alive = {} THEN "idle" ELSE "batch"
    /\ UNCHANGED <<kv, nDec, n, plen, beam, tokens, old, todo, i>>

\* One batch with the last token of each live decoder gets a slot.
FindSlot ==
    /\ pc = "batch"
    /\ IF Slots(kv, Cardinality(live)) = {} THEN pc' = "idle" /\ UNCHANGED kv
       ELSE pc' = "compute" /\ kv' = Store(kv, LiveBatch)
    /\ UNCHANGED <<nDec, n, plen, beam, live, tokens, old, todo, i>>

\* The batch is computed, or the computation fails or is aborted.
Compute ==
    /\ pc = "compute"
    /\ i' = i + 1
    /\ pc' \in {IF i + 1 < NMax THEN "sample" ELSE "idle", "idle"}
    /\ UNCHANGED <<kv, nDec, n, plen, beam, live, tokens, old, todo>>

Stopped == pc = "freed" /\ UNCHANGED vars

Next ==
    \/ DetectLanguage
    \/ \E k \in 1..MaxDecoders, len \in PromptLens, b \in BOOLEAN : BeginTemperature(k, len, b)
    \/ \E k \in 1..MaxDecoders : KvInitFails(k)
    \/ CopyPrompt \/ SampleGreedy \/ SampleBeam
    \/ \E j \in todo, s \in live : CopyOut(j, s)
    \/ StartReplace
    \/ \E j \in todo : Replace(j)
    \/ EndReplace
    \/ \E alive \in SUBSET live : Update(alive)
    \/ FindSlot \/ Compute
    \/ Stopped

Spec == Init /\ [][Next]_vars
-----------------------------------------------------------------------------
(* Properties.                                                             *)

\* The entries a sequence of tokens stands for.
Entries(t) == {<<p - 1, t[p]>> : p \in 1..Len(t)}

\* The entries the cells hold for a sequence id.
View(id) == {<<kv.cells[c].pos, kv.cells[c].tok>> : c \in {c \in DOMAIN kv.cells : id \in kv.cells[c].seqs}}

\* The type invariant of the cache: a cell is free exactly if no sequence is in it.
KvTypeOK ==
    /\ kv.head \in 0..kv.size
    /\ kv.cells \in [0..(kv.size - 1) -> [pos : -1..(TextCtx - 1), seqs : SUBSET SeqIds, tok : Tokens]]
    /\ \A c \in DOMAIN kv.cells : kv.cells[c].pos = -1 <=> kv.cells[c].seqs = {}

\* When a batch is computed, the mask shows each decoder in it exactly its own
\* tokens: one cell for each, whichever decoders decoded them and however the
\* beams were exchanged before.
AttendsOwnTokens ==
    pc = "compute" =>
        \A j \in live :
            LET seen == Visible(kv, j, plen + i)
            IN /\ {<<kv.cells[c].pos, kv.cells[c].tok>> : c \in seen} = Entries(tokens[j])
               /\ Cardinality(seen) = Len(tokens[j])

\* Overallocation is enough: however completed decoders and exchanged beams have
\* fragmented the cache, a batch finds a run of free cells.
SlotAvailable == pc = "batch" => Slots(kv, Cardinality(live)) # {}

\* What the decoders are promised.  An exchange takes effect when all the cells
\* are marked: from then on a decoder not yet visited is seen by its mark.
Promised ==
    INSTANCE KvSequences WITH
        busy <- pc \notin {"idle", "freed"},
        view <- [j \in Decoders |->
                   IF pc = "replace" /\ j \in todo THEN View(Tmp(j)) ELSE View(j)]

\* The cells implement sequences that each decoder has to itself.
ImplementsSequences == Promised!Spec
=============================================================================
