---------------------------- MODULE DecoderStep ----------------------------
(***************************************************************************)
(* One text decoder of whisper_full_with_state: which tokens its logit     *)
(* filters leave, how one sampled token moves it, and the text segments    *)
(* its tokens are cut into.  Everything here is a function of a decoder    *)
(* record; the loop that drives the decoders is module WhisperFull.        *)
(*                                                                         *)
(* Token ids keep the layout of the vocabulary: text ids lie below         *)
(* TokenEot, timestamp ids from TokenBeg up, TokenBeg + k standing for     *)
(* time 2k frames of 10 ms.  The special ids between the two are always    *)
(* suppressed and do not occur.                                            *)
(***************************************************************************)
EXTENDS Integers, Sequences, FiniteSets, SequencesExt, SortedSets

CONSTANTS
    TokenEot,     \* whisper_token_eot: the ids below it are text
    TokenBeg,     \* whisper_token_beg: the timestamp 0.00
    Chunk,        \* 100*WHISPER_CHUNK_SIZE, the frames of one window
    NTextCtx,     \* whisper_n_text_ctx
    PatLen,       \* length of the pattern of the repetition kill switch (3)
    Reps,         \* number of its occurrences that trip the switch (3)
    EntropyLen    \* result length above which the entropy test applies (32)

ASSUME VocabAssumption ==
    /\ TokenEot \in Nat \ {0} /\ TokenBeg \in Nat /\ TokenEot < TokenBeg
    /\ Chunk \in Nat \ {0} /\ Chunk % 2 = 0

ASSUME ContextAssumption ==
    /\ NTextCtx \in Nat /\ NTextCtx >= 10
    /\ PatLen \in Nat \ {0} /\ Reps \in Nat \ {0} /\ EntropyLen \in Nat

NTs   == Chunk \div 2
Texts == 0..(TokenEot - 1)
Times == TokenBeg..(TokenBeg + NTs)
Vocab == Texts \cup {TokenEot} \cup Times

\* The token budget of one window and of the prompt in front of it.
MUT_NMax == NTextCtx \div 2 - 3   \* mutant: one token too many

NMax    == NTextCtx \div 2 - 4
HalfCtx == NTextCtx \div 2

Frames(id)   == 2 * (id - TokenBeg)

(***************************************************************************)
(* A decoder as whisper_full_with_state resets it before each temperature. *)
(* tid0 is the tid of the first token (where the first segment starts),    *)
(* lowAvg says avg_logprobs < logprob_thold (true of -INFINITY); stamp is  *)
(* a history field: the window and temperature the sequence belongs to.    *)
(***************************************************************************)
FreshDecoder(stamp) ==
    [tokens     |-> <<>>,
     tid0       |-> 0,
     result_len |-> 0,
     seek_delta |-> Chunk,
     failed     |-> FALSE,
     completed  |-> FALSE,
     has_ts     |-> FALSE,
     lowAvg     |-> TRUE,
     stamp      |-> stamp]

Live(d) == ~d.failed /\ ~d.completed

\* Mutant: the increasing rule is missing.
MUT_NoOrder(d, id) == TRUE

\* Timestamp tokens are conditioned to be increasing.
NotBeforeLast(d, id) ==
    (d.has_ts /\ id >= TokenBeg) => id >= TokenBeg + d.seek_delta \div 2

(***************************************************************************)
(* whisper_process_logits: the ids whose logit is not -INFINITY after the  *)
(* filters.  The later rule "sum of the timestamps above any text" can     *)
(* only remove more, as can the regex, grammar and non-speech filters.     *)
(***************************************************************************)
AllowedTokens(p, d) ==
    LET n == Len(d.tokens)
        lastTs        == n > 0 /\ d.tokens[n] >= TokenBeg
        penultimateTs == n < 2 \/ d.tokens[n - 1] >= TokenBeg
    IN {id \in Vocab :
        /\ (n = 0 /\ p.suppress_blank)        => id # TokenEot
        /\ p.no_timestamps                    => id < TokenBeg
        /\ (/\ ~p.no_timestamps /\ ~p.single_segment
            /\ p.max_tokens > 0 /\ n >= p.max_tokens) => id >= TokenEot
        /\ (lastTs /\ penultimateTs)          => id < TokenBeg
        /\ (lastTs /\ ~penultimateTs)         => id >= TokenEot
        /\ (n = 0 /\ p.max_initial_ts > 0)    => id <= TokenBeg + p.max_initial_ts
        /\ NotBeforeLast(d, id)}

(***************************************************************************)
(* whisper_sample_token, whisper_sample_token_topk: the tid that goes with *)
(* id.  With every timestamp filtered out the greedy sampler leaves tid at *)
(* 0, the beam sampler at TokenBeg.                                        *)
(***************************************************************************)
TidsOf(p, d, id) ==
    LET times == AllowedTokens(p, d) \cap Times
    IN IF id >= TokenBeg THEN {id}
       ELSE IF times # {} THEN times
       ELSE IF p.strategy = "greedy" THEN {0} ELSE {TokenBeg}

\* The sampled token goes to the end of the sequence.
PushToken(d, id, tid) ==
    [d EXCEPT !.tokens = Append(@, id),
              !.tid0   = IF d.tokens = <<>> THEN tid ELSE @]

(***************************************************************************)
(* The repetition kill switch: the last PatLen tokens occurred Reps times  *)
(* in a row.                                                               *)
(***************************************************************************)
Repeats(toks) ==
    LET n == Len(toks)
    IN /\ n >= PatLen * Reps
       /\ \A k \in 0..(PatLen - 1), r \in 1..(Reps - 1) :
              toks[n - k] = toks[n - k - r * PatLen]

\* Mutant: the timestamp 0.00 counts.
MUT_ZeroMoves(tok) == tok >= TokenBeg

\* A timestamp above 0.00 moves the sliding window.
MovesWindow(tok) == tok > TokenBeg

(***************************************************************************)
(* Update of one live decoder after its token number i (from 0) was pushed *)
(* (the loop "update the decoder state"); w.seek, w.seek_end and           *)
(* w.delta_min describe the window.                                        *)
(***************************************************************************)
UpdateDecoder(p, w, d, i) ==
    LET tok      == Last(d.tokens)
        goesBack == /\ MovesWindow(tok) /\ d.has_ts
                    /\ d.seek_delta > Frames(tok) /\ d.result_len < i
        moves    == MovesWindow(tok) /\ ~goesBack
        delta    == IF moves THEN Frames(tok) ELSE d.seek_delta
        len      == IF moves THEN i + 1 ELSE d.result_len
        hasTs    == moves \/ d.has_ts
        atEnd    == w.seek + delta + w.delta_min >= w.seek_end
        ends     == /\ ~goesBack
                    /\ \/ tok = TokenEot
                       \/ p.max_tokens > 0 /\ i >= p.max_tokens
                       \/ hasTs /\ atEnd
        empty    == len = 0 /\ ~p.no_timestamps
        closes   == ends /\ (empty => atEnd)
        whole    == p.single_segment \/ p.no_timestamps
        killed   == ~goesBack /\ ~ends /\ Repeats(d.tokens)
        stuck    == /\ ~ends /\ ~killed
                    /\ i = NMax - 1 /\ (len = 0 \/ delta < Chunk \div 2)
    IN [d EXCEPT !.has_ts     = hasTs,
                 !.result_len = IF closes /\ (whole \/ empty) THEN i + 1 ELSE len,
                 !.seek_delta = IF closes /\ whole THEN Chunk ELSE delta,
                 !.completed  = closes \/ killed,
                 !.failed     = goesBack \/ (ends /\ ~closes) \/ stuck]

\* Mutant: the cut is one token short of the result.
MUT_ShortCut(d, lowEntropy, lowAvg) ==
    [d EXCEPT !.tokens = IF d.failed THEN @ ELSE SubSeq(@, 1, d.result_len - 1),
              !.lowAvg = IF d.failed \/ d.result_len = 0 THEN @ ELSE lowAvg,
              !.failed = @ \/ (lowEntropy /\ d.result_len > EntropyLen)]

(***************************************************************************)
(* Ranking of one decoder that did not fail: its tokens are cut to         *)
(* result_len and scored.  The score itself is abstract: lowEntropy and    *)
(* lowAvg are the outcomes of the two threshold tests on it.  A sequence   *)
(* without result keeps the score and average -INFINITY.                   *)
(***************************************************************************)
RankDecoder(d, lowEntropy, lowAvg) ==
    [d EXCEPT !.tokens = IF d.failed THEN @ ELSE SubSeq(@, 1, d.result_len),
              !.lowAvg = IF d.failed \/ d.result_len = 0 THEN @ ELSE lowAvg,
              !.failed = @ \/ (lowEntropy /\ d.result_len > EntropyLen)]

(***************************************************************************)
(* The text segments of a window (the loop over tokens_cur).  A segment    *)
(* ends at the first of a run of timestamps above 0.00; the next starts    *)
(* at the last timestamp of the run.  The text after the last run ends at  *)
(* seek + seek_delta.  A segment without text is not emitted.              *)
(***************************************************************************)
TimeMarks(p, t) == IF p.single_segment THEN {} ELSE {k \in 1..Len(t) : t[k] > TokenBeg}

Cuts(p, t) == {k \in TimeMarks(p, t) : k - 1 \notin TimeMarks(p, t)}

\* Mutant: trailing text lasts to the end of the chunk.
MUT_WholeChunk(d, seek) == seek + Chunk

\* Where the text after the last timestamp ends.
TrailingEnd(d, seek) == seek + d.seek_delta

\* The segment that ends with the cut k, or the trailing one (k = Len + 1).
SegmentTo(p, d, seek, k) ==
    LET t      == d.tokens
        before == {m \in TimeMarks(p, t) : m < k}
        start  == IF before = {} THEN d.tid0
                  ELSE t[CHOOSE m \in before : \A b \in before : b <= m]
    IN [t0 |-> seek + Frames(start),
        t1 |-> IF k > Len(t) THEN TrailingEnd(d, seek) ELSE seek + Frames(t[k])]

\* The ends with text in front, after the last timestamp before them.
TextEnds(p, t) ==
    {k \in Cuts(p, t) \cup {Len(t) + 1} :
        \E m \in 1..Len(t) : /\ m < k /\ t[m] < TokenEot
                             /\ \A c \in TimeMarks(p, t) : c < k => c < m}

WindowSegments(p, d, seek) ==
    LET ends == TextEnds(p, d.tokens)
    IN [n \in 1..Cardinality(ends) |-> SegmentTo(p, d, seek, Nth(ends, n))]

(***************************************************************************)
(* A window that ends in text followed by one timestamp is skipped to its  *)
(* end; otherwise seek advances by the decoder's own seek_delta.           *)
(***************************************************************************)
SeekAdvance(p, d, seek, seek_end) ==
    LET t == d.tokens
        n == Len(t)
        maxTokensEnding == p.max_tokens > 0 /\ ~p.single_segment /\ n > p.max_tokens
        singleTimestamp == /\ n > 1 /\ ~maxTokensEnding
                           /\ t[n - 1] < TokenBeg /\ t[n] > TokenBeg
    IN IF singleTimestamp
       THEN IF seek_end - seek < Chunk THEN seek_end - seek ELSE Chunk
       ELSE d.seek_delta
=============================================================================
