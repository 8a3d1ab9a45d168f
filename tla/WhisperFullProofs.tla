------------------------- MODULE WhisperFullProofs -------------------------
(***************************************************************************)
(* Theorems about the transcription loop, for every vocabulary, context    *)
(* size, window size, set of parameters and number of decoders.            *)
(***************************************************************************)
EXTENDS WhisperFull, FiniteSetTheorems, WellFoundedInduction, SequenceTheorems, TLAPS

-----------------------------------------------------------------------------
(* Finite sets of naturals in increasing order.                            *)

\* A set of naturals that is not empty has a least element.
LEMMA LeastNat ==
    ASSUME NEW S \in SUBSET Nat, S # {}
    PROVE  \E m \in S : \A k \in S : m <= k
  <1>1. IsWellFoundedOn(OpToRel(<, Nat), Nat)
    BY NatLessThanWellFounded
  <1>2. PICK m \in S : \A k \in S : ~(<<k, m>> \in OpToRel(<, Nat))
    BY <1>1, WFMin
  <1>3. \A k \in S : ~(k < m)
    BY <1>2 DEF OpToRel
  <1> QED
    BY <1>3

\* A bounded one has a greatest.
LEMMA GreatestNat ==
    ASSUME NEW S \in SUBSET Nat, S # {}, NEW b \in Nat, \A s \in S : s <= b
    PROVE  \E m \in S : \A k \in S : k <= m
  <1> DEFINE T == {b - s : s \in S}
  <1>1. T \in SUBSET Nat /\ T # {}
    <2>1. \A s \in S : b - s \in Nat
      OBVIOUS
    <2> QED
      BY <2>1, Zenon
  <1>2. PICK t \in T : \A u \in T : t <= u
    BY <1>1, LeastNat
  <1>3. PICK m \in S : t = b - m
    BY <1>2
  <1>4. \A k \in S : b - m <= b - k
    BY <1>2, <1>3
  <1> QED
    BY <1>4

\* Numbering a finite set: different elements have different ranks, all below the size of
\* the set, so every rank is taken; and ranks grow with the elements.
LEMMA NthFacts ==
    ASSUME NEW S \in SUBSET Nat, IsFiniteSet(S)
    PROVE  /\ Cardinality(S) \in Nat
           /\ \A z \in 1..Cardinality(S) : Nth(S, z) \in S
           /\ \A m, z \in 1..Cardinality(S) : m < z => Nth(S, m) < Nth(S, z)
           /\ \A k \in S : \E z \in 1..Cardinality(S) : Nth(S, z) = k
  <1> DEFINE A(d) == {e \in S : e < d}
             f    == [d \in S |-> Below(S, d)]
  <1>1. PICK N \in Nat : N = Cardinality(S)
    BY FS_CardinalityType
  <1>2. ASSUME NEW d, NEW T \in SUBSET S, A(d) \subseteq T, A(d) # T
        PROVE  /\ Below(S, d) \in Nat /\ Cardinality(T) \in Nat
               /\ Below(S, d) < Cardinality(T)
    <2>1. IsFiniteSet(T)
      BY FS_Subset
    <2>2. A(d) \in SUBSET T /\ Below(S, d) = Cardinality(A(d))
      BY <1>2 DEF Below
    <2> HIDE DEF A
    <2>3. /\ IsFiniteSet(A(d)) /\ Cardinality(A(d)) <= Cardinality(T)
          /\ Cardinality(A(d)) # Cardinality(T)
      BY <1>2, <2>1, <2>2, FS_Subset
    <2>4. Cardinality(A(d)) \in Nat /\ Cardinality(T) \in Nat
      BY <2>1, <2>3, FS_CardinalityType
    <2> QED
      BY <2>2, <2>3, <2>4
  <1>3. ASSUME NEW d \in S PROVE Below(S, d) \in 0..(N - 1)
    <2>1. A(d) # S
      OBVIOUS
    <2>2. Below(S, d) \in Nat /\ Below(S, d) < N
      BY <1>1, <1>2, <2>1
    <2> QED
      BY <1>1, <2>2
  <1>4. ASSUME NEW d \in S, NEW e \in S, d < e PROVE Below(S, d) < Below(S, e)
    <2>1. \A x \in S : x < d => x < e
      BY <1>4
    <2>2. A(d) \subseteq A(e) /\ A(e) \in SUBSET S
      BY <2>1
    <2>3. d \in A(e) /\ d \notin A(d)
      BY <1>4
    <2> HIDE DEF A
    <2>4. Below(S, d) < Cardinality(A(e))
      BY <1>2, <2>2, <2>3
    <2> QED
      BY <2>4 DEF A, Below
  <1>5. ASSUME NEW d \in S, NEW e \in S, Below(S, d) = Below(S, e) PROVE d = e
    <2>1. Below(S, d) \in Nat /\ ~(d < e) /\ ~(e < d)
      BY <1>1, <1>3, <1>4, <1>5
    <2> QED
      BY <2>1
  <1>6. ASSUME NEW r \in 0..(N - 1) PROVE \E d \in S : Below(S, d) = r
    <2>1. f \in Injection(S, 0..(N - 1))
      BY <1>3, <1>5 DEF Injection, IsInjective
    <2>2. IsFiniteSet(0..(N - 1)) /\ Cardinality(0..(N - 1)) = N
      BY <1>1, FS_Interval
    <2>3. f \in Surjection(S, 0..(N - 1))
      BY <1>1, <2>1, <2>2, FS_Injection, Zenon
    <2> QED
      BY <2>3 DEF Surjection
  <1> HIDE DEF f
  <1>7. ASSUME NEW z \in 1..N PROVE Nth(S, z) \in S /\ Below(S, Nth(S, z)) = z - 1
    <2>1. z - 1 \in 0..(N - 1)
      BY <1>1
    <2>2. \E d \in S : Below(S, d) = z - 1
      BY <1>6, <2>1
    <2> QED
      BY <2>2, Zenon DEF Nth
  <1>8. ASSUME NEW m \in 1..N, NEW z \in 1..N, m < z PROVE Nth(S, m) < Nth(S, z)
    <2>1. PICK a \in S : a = Nth(S, m) /\ Below(S, a) = m - 1
      BY <1>7
    <2>2. PICK b \in S : b = Nth(S, z) /\ Below(S, b) = z - 1
      BY <1>7
    <2>3. m - 1 < z - 1 /\ m - 1 \in Nat /\ z - 1 \in Nat
      BY <1>1, <1>8
    <2>4. ~(b < a) /\ a # b
      BY <1>4, <2>1, <2>2, <2>3
    <2> QED
      BY <2>1, <2>2, <2>4
  <1>9. ASSUME NEW k \in S PROVE \E z \in 1..N : Nth(S, z) = k
    <2>1. PICK z : z = Below(S, k) + 1
      OBVIOUS
    <2>2. z \in 1..N /\ Below(S, k) = z - 1
      BY <1>1, <1>3, <2>1
    <2>3. Nth(S, z) \in S /\ Below(S, Nth(S, z)) = z - 1
      BY <1>7, <2>2
    <2> QED
      BY <1>5, <2>2, <2>3
  <1> QED
    BY <1>1, <1>7, <1>8, <1>9
-----------------------------------------------------------------------------
(* Lemmas about the operators on one decoder.                              *)

\* A prefix of a sequence.
LEMMA SubSeqFacts ==
    ASSUME NEW S, NEW s \in Seq(S), NEW n \in Nat, n <= Len(s)
    PROVE  SubSeq(s, 1, n) \in Seq(S) /\ Len(SubSeq(s, 1, n)) = n
BY SubSeqProperties

\* A decoder has finitely many tokens.
LEMMA LenType == ASSUME NEW d \in DecoderType PROVE Len(d.tokens) \in Nat
<1>1. d.tokens \in Seq(Vocab)
  BY DEF DecoderType
<1>2. QED
  BY <1>1

\* Pushing a token of the vocabulary leaves a decoder a decoder.
LEMMA PushTokenType ==
    ASSUME NEW d \in DecoderType, NEW id \in Vocab, NEW tid \in Int
    PROVE  /\ PushToken(d, id, tid) \in DecoderType
           /\ Len(PushToken(d, id, tid).tokens) = Len(d.tokens) + 1
           /\ PushToken(d, id, tid).result_len = d.result_len
           /\ PushToken(d, id, tid).stamp = d.stamp
           /\ PushToken(d, id, tid).seek_delta = d.seek_delta
<1> DEFINE t == Append(d.tokens, id)
           a == IF d.tokens = <<>> THEN tid ELSE d.tid0
<1>1. d.tokens \in Seq(Vocab)
  BY DEF DecoderType
<1>2. t \in Seq(Vocab) /\ Len(t) = Len(d.tokens) + 1
  BY <1>1
<1>3. a \in Int
  BY DEF DecoderType
<1>4. PushToken(d, id, tid) = [d EXCEPT !.tokens = t, !.tid0 = a]
  BY DEF PushToken, DecoderType
<1> HIDE DEF t, a
<1>5. QED
  BY <1>2, <1>3, <1>4 DEF DecoderType

\* The vocabulary consists of integers.
LEMMA VocabIsInt == Vocab \subseteq Int /\ Times \subseteq Int /\ NTs \in Int
BY VocabAssumption DEF Vocab, Texts, Times, NTs

\* The update keeps the type, the tokens and the stamp; the result either stays
\* or ends with the new token; the shift stays, is the new timestamp or a chunk.
LEMMA UpdateDecoderType ==
    ASSUME NEW p, NEW w, NEW k \in Nat,
           NEW d \in DecoderType, Len(d.tokens) > 0
    PROVE  LET e == UpdateDecoder(p, w, d, k)
               t == d.tokens[Len(d.tokens)]
           IN /\ e \in DecoderType
              /\ e.tokens = d.tokens /\ e.stamp = d.stamp
              /\ e.result_len \in {d.result_len, k + 1}
              /\ e.seek_delta \in {d.seek_delta, Chunk} \/ (t > TokenBeg /\ e.seek_delta = Frames(t))
<1> DEFINE tok      == d.tokens[Len(d.tokens)]
           goesBack == /\ MovesWindow(tok) /\ d.has_ts
                       /\ d.seek_delta > Frames(tok) /\ d.result_len < k
           moves    == MovesWindow(tok) /\ ~goesBack
           delta    == IF moves THEN Frames(tok) ELSE d.seek_delta
           len      == IF moves THEN k + 1 ELSE d.result_len
           hasTs    == moves \/ d.has_ts
           atEnd    == w.seek + delta + w.delta_min >= w.seek_end
           ends     == /\ ~goesBack
                       /\ \/ tok = TokenEot
                          \/ p.max_tokens > 0 /\ k >= p.max_tokens
                          \/ hasTs /\ atEnd
           empty    == len = 0 /\ ~p.no_timestamps
           closes   == ends /\ (empty => atEnd)
           whole    == p.single_segment \/ p.no_timestamps
           killed   == ~goesBack /\ ~ends /\ Repeats(d.tokens)
           stuck    == /\ ~ends /\ ~killed
                       /\ k = NMax - 1 /\ (len = 0 \/ delta < Chunk \div 2)
           newLen   == IF closes /\ (whole \/ empty) THEN k + 1 ELSE len
           newDelta == IF closes /\ whole THEN Chunk ELSE delta
           done     == closes \/ killed
           fails    == goesBack \/ (ends /\ ~closes) \/ stuck
<1>0. d.tokens \in Seq(Vocab) /\ d.has_ts \in BOOLEAN /\ d.result_len \in Nat /\ d.seek_delta \in Int
  BY DEF DecoderType
<1>a. tok \in Vocab
  BY <1>0
<1> HIDE DEF tok
<1>1. tok \in Int
  BY <1>a, VocabIsInt
<1>2. Frames(tok) \in Int
  BY <1>1, VocabAssumption DEF Frames
<1>3. Chunk \in Int
  BY VocabAssumption
<1>4. Last(d.tokens) = tok
  BY DEF Last, tok
<1>5. UpdateDecoder(p, w, d, k) =
        [d EXCEPT !.has_ts = hasTs, !.result_len = newLen, !.seek_delta = newDelta,
                  !.completed = done, !.failed = fails]
  BY <1>4, ZenonT(40) DEF UpdateDecoder
<1>6. /\ newLen \in {d.result_len, k + 1} /\ newLen \in Nat
      /\ newDelta \in {d.seek_delta, Chunk} \/ (tok > TokenBeg /\ newDelta = Frames(tok))
      /\ newDelta \in Int
  <2> HIDE DEF closes, whole, empty, goesBack
  <2>1. QED
    BY <1>0, <1>2, <1>3 DEF MovesWindow
<1>7. hasTs \in BOOLEAN /\ done \in BOOLEAN /\ fails \in BOOLEAN
  BY <1>0, Zenon
<1> HIDE DEF hasTs, newLen, newDelta, closes, killed, done, fails
<1> DEFINE e == UpdateDecoder(p, w, d, k)
<1>8. /\ e \in DecoderType
      /\ e.tokens = d.tokens /\ e.stamp = d.stamp
      /\ e.result_len = newLen /\ e.seek_delta = newDelta
  BY <1>5, <1>6, <1>7 DEF DecoderType
<1> HIDE DEF e
<1>9. QED
  BY <1>6, <1>8 DEF tok, e

\* Ranking keeps the type and never leaves a result longer than the tokens.
LEMMA RankDecoderType ==
    ASSUME NEW d \in DecoderType, d.result_len <= Len(d.tokens),
           NEW le \in BOOLEAN, NEW la \in BOOLEAN
    PROVE  LET e == RankDecoder(d, le, la)
           IN /\ e \in DecoderType
              /\ e.result_len = d.result_len /\ e.seek_delta = d.seek_delta
              /\ e.stamp = d.stamp
              /\ e.result_len <= Len(e.tokens) /\ Len(e.tokens) <= Len(d.tokens)
<1> DEFINE t == IF d.failed THEN d.tokens ELSE SubSeq(d.tokens, 1, d.result_len)
           a == IF d.failed \/ d.result_len = 0 THEN d.lowAvg ELSE la
           f == d.failed \/ (le /\ d.result_len > EntropyLen)
           e == RankDecoder(d, le, la)
<1>1. d.tokens \in Seq(Vocab) /\ d.result_len \in Nat /\ d.failed \in BOOLEAN /\ d.lowAvg \in BOOLEAN
  BY DEF DecoderType
<1>2. /\ SubSeq(d.tokens, 1, d.result_len) \in Seq(Vocab)
      /\ Len(SubSeq(d.tokens, 1, d.result_len)) = d.result_len
  BY <1>1, SubSeqFacts
<1>3. t \in Seq(Vocab) /\ d.result_len <= Len(t) /\ Len(t) <= Len(d.tokens)
  <2>1. CASE d.failed
    BY <1>1, <2>1
  <2>2. CASE ~d.failed
    BY <1>1, <1>2, <2>2
  <2>3. QED
    BY <2>1, <2>2
<1>4. a \in BOOLEAN /\ f \in BOOLEAN
  BY <1>1
<1>5. e = [d EXCEPT !.tokens = t, !.lowAvg = a, !.failed = f]
  BY DEF RankDecoder, DecoderType
<1> HIDE DEF t, a, f, e
<1>6. /\ e \in DecoderType
      /\ e.result_len = d.result_len /\ e.seek_delta = d.seek_delta
      /\ e.stamp = d.stamp /\ e.tokens = t
  BY <1>3, <1>4, <1>5 DEF DecoderType
<1>7. QED
  BY <1>3, <1>6 DEF e
-----------------------------------------------------------------------------
(* The inductive invariant.  TypeOK alone is not inductive: ranking cuts a  *)
(* sequence to result_len, which needs result_len <= Len(tokens), which in *)
(* turn needs the number of tokens of every running decoder to agree with  *)
(* the index of the token loop.                                            *)

InLoop == {"window", "temperature", "sample", "check", "rank", "output"}

\* The decoders asked for fit the array of decoders.
DecodersFit == pc \in InLoop => NDecoders <= MaxDecoders

\* The index of the token loop and the tokens of the running decoders agree.
TokenCount ==
    /\ \A j \in Decoders : Len(dec[j].tokens) <= NMax
    /\ pc = "sample" => i < NMax /\ \A j \in Running : Len(dec[j].tokens) = i
    /\ pc = "check"  => i < NMax /\ \A j \in Running : Len(dec[j].tokens) = i + 1

\* The history in the prompt is at most half the text context.
HistoryFits == pc \in InLoop => hist <= HalfCtx

IInv == TypeOK /\ ResultWithinTokens /\ DecodersFit /\ TokenCount /\ HistoryFits

\* The types of the parameters of a call.
LEMMA ParamTypes ==
    ASSUME params \in ParamSet
    PROVE  /\ params.best_of \in Int /\ params.beam_size \in Int
           /\ params.n_max_text_ctx \in Nat /\ params.n_prompt \in Nat
           /\ params.offset_ms \in Nat /\ params.duration_ms \in Nat
           /\ params.no_timestamps \in BOOLEAN /\ params.strategy \in {"greedy", "beam"}
BY ParamAssumption

\* The budgets derived from the text context.
LEMMA Budgets ==
    /\ NMax \in Nat \ {0} /\ HalfCtx \in Nat /\ HalfCtx > 0
    /\ HalfCtx + 4 + NMax <= NTextCtx
BY ContextAssumption DEF NMax, HalfCtx

\* At least one decoder runs at every temperature, and no more than exist.
LEMMA DecoderRange ==
    ASSUME params \in ParamSet, NDecoders <= MaxDecoders
    PROVE  NDecodersCur \in Nat /\ 1 <= NDecodersCur /\ NDecodersCur <= MaxDecoders
<1>1. params.best_of \in Int /\ params.beam_size \in Int /\ params.strategy \in {"greedy", "beam"}
  BY ParamTypes
<1>2. MaxDecoders \in Nat /\ 1 <= MaxDecoders
  BY LoopAssumption
<1>3. CASE params.strategy = "greedy"
  BY <1>1, <1>2, <1>3 DEF NDecodersCur, NDecoders, Larger
<1>4. CASE params.strategy = "beam"
  BY <1>1, <1>2, <1>4 DEF NDecodersCur, NDecoders, Larger
<1>5. QED
  BY <1>1, <1>3, <1>4

\* A reset decoder is a decoder.
LEMMA FreshType ==
    ASSUME NEW k \in Int
    PROVE  FreshDecoder(k) \in DecoderType /\ Len(FreshDecoder(k).tokens) = 0
           /\ FreshDecoder(k).result_len = 0 /\ FreshDecoder(k).stamp = k
           /\ FreshDecoder(k).seek_delta = Chunk
BY VocabAssumption DEF FreshDecoder, DecoderType

\* Every candidate extends a decoder by one token of the vocabulary.
LEMMA CandidateFacts ==
    ASSUME NEW j \in Decoders, dec[j] \in DecoderType, NEW c \in Candidates(j)
    PROVE  /\ c \in DecoderType
           /\ Len(c.tokens) = Len(dec[j].tokens) + 1
           /\ c.result_len = dec[j].result_len
           /\ c.stamp = dec[j].stamp /\ c.seek_delta = dec[j].seek_delta
<1>1. PICK id \in AllowedTokens(params, dec[j]) :
        c \in {PushToken(dec[j], id, tid) : tid \in IF dec[j].tokens = <<>>
                                                   THEN TidsOf(params, dec[j], id) ELSE {0}}
  BY DEF Candidates
<1>2. PICK tid \in (IF dec[j].tokens = <<>> THEN TidsOf(params, dec[j], id) ELSE {0}) :
        c = PushToken(dec[j], id, tid)
  BY <1>1
<1>3. id \in Vocab
  BY DEF AllowedTokens
<1>4. TidsOf(params, dec[j], id) \subseteq Int
  <2>1. {id} \subseteq Int /\ {0} \subseteq Int /\ {TokenBeg} \subseteq Int
    BY <1>3, VocabIsInt, VocabAssumption
  <2>2. AllowedTokens(params, dec[j]) \cap Times \subseteq Int
    BY VocabIsInt
  <2>3. QED
    BY <2>1, <2>2, Zenon DEF TidsOf
<1>5. tid \in Int
  BY <1>2, <1>4
<1>6. QED
  BY <1>2, <1>3, <1>5, PushTokenType

\* The initial state satisfies the invariant.
LEMMA InitIInv == Init => IInv
<1> SUFFICES ASSUME Init PROVE IInv
  OBVIOUS
<1>1. PICK u \in UninitInts :
        dec = [j \in Decoders |-> [FreshDecoder(-1) EXCEPT !.seek_delta = u]]
  BY DEF Init, InitDecoders
<1>2. u \in Int
  BY LoopAssumption
<1> DEFINE f == FreshDecoder(-1)
           d == [f EXCEPT !.seek_delta = u]
<1>a. f \in DecoderType /\ Len(f.tokens) = 0 /\ f.result_len = 0
  BY FreshType
<1> HIDE DEF f
<1>b. d \in DecoderType /\ Len(d.tokens) = 0 /\ d.result_len = 0
  BY <1>a, <1>2 DEF DecoderType
<1>c. dec = [j \in Decoders |-> d]
  BY <1>1 DEF f
<1> HIDE DEF d
<1>3. \A j \in Decoders : /\ dec[j] \in DecoderType
                          /\ Len(dec[j].tokens) = 0 /\ dec[j].result_len = 0
  BY <1>b, <1>c
<1>4. dec \in [Decoders -> DecoderType]
  BY <1>b, <1>c
<1>5. 0 \in Decoders
  BY LoopAssumption DEF Decoders
<1>d. freed \in BOOLEAN
  BY Zenon DEF Init
<1>e. calls \in 0..MaxCalls
  BY LoopAssumption DEF Init
<1>6. TypeOK
  BY <1>4, <1>5, <1>d, <1>e DEF Init, TypeOK, Stages
<1>7. ResultWithinTokens
  BY <1>3 DEF ResultWithinTokens
<1>8. DecodersFit /\ HistoryFits
  BY DEF Init, DecodersFit, HistoryFits, InLoop
<1>9. TokenCount
  BY <1>3, Budgets DEF Init, TokenCount
<1>10. QED
  BY <1>6, <1>7, <1>8, <1>9 DEF IInv

\* Steps that leave the decoders, the prompt and the token index alone keep
\* the invariant if they keep the types and enter no later stage.
LEMMA QuietStep ==
    ASSUME IInv, TypeOK',
           dec' = dec, params' = params, hist' = hist,
           pc' \in {"idle", "begin"}
    PROVE  IInv'
<1>1. ResultWithinTokens'
  BY DEF IInv, ResultWithinTokens
<1>2. DecodersFit' /\ HistoryFits'
  BY DEF DecodersFit, HistoryFits, InLoop
<1>3. TokenCount'
  BY DEF IInv, TokenCount
<1>4. QED
  BY <1>1, <1>2, <1>3 DEF IInv

\* The steps before the main loop and those that end a call.
LEMMA BeginSteps ==
    ASSUME IInv, \/ \E p \in ParamSet, n \in AudioLens : Call(p, n)
                 \/ DetectFails \/ ReturnEarly \/ Finish \/ StopBeforeWindow
    PROVE  IInv'
<1>1. CASE \E p \in ParamSet, n \in AudioLens : Call(p, n)
  <2>1. PICK p \in ParamSet, n \in AudioLens : Call(p, n)
    BY <1>1
  <2>2. n_len' \in Nat /\ calls' \in 0..MaxCalls
    BY <2>1, LoopAssumption DEF Call, Larger, IInv, TypeOK
  <2>3. TypeOK'
    BY <2>1, <2>2 DEF Call, IInv, TypeOK, Stages
  <2>4. ResultWithinTokens' /\ DecodersFit' /\ HistoryFits' /\ TokenCount'
    BY <2>1 DEF Call, IInv, ResultWithinTokens, DecodersFit, HistoryFits, TokenCount, InLoop
  <2>5. QED
    BY <2>3, <2>4 DEF IInv
<1>2. CASE DetectFails
  BY <1>2, QuietStep DEF DetectFails, Return, IInv, TypeOK, Stages
<1>3. CASE ReturnEarly
  BY <1>3, QuietStep DEF ReturnEarly, Return, IInv, TypeOK, Stages
<1>4. CASE Finish
  BY <1>4, QuietStep DEF Finish, Return, IInv, TypeOK, Stages
<1>5. CASE StopBeforeWindow
  BY <1>5, QuietStep DEF StopBeforeWindow, Return, IInv, TypeOK, Stages
<1>6. QED
  BY <1>1, <1>2, <1>3, <1>4, <1>5

\* The step into the main loop: the prompt history is set, the prompt empty.
LEMMA PrepareStep == ASSUME IInv, PreparePrompt PROVE IInv'
<1> USE DEF IInv
<1>1. MaxPromptCtx \in Nat
  BY ParamTypes, Budgets DEF TypeOK, MaxPromptCtx, Smaller
<1>2. past0' \in Nat /\ past1' \in Nat
  BY <1>1, ParamTypes DEF PreparePrompt, CarriedPrompt, RollingPrompt, HistoryKept, Smaller, Larger, TypeOK
<1>3. SeekStart \in Nat
  BY ParamTypes DEF TypeOK, SeekStart
<1>4. TypeOK'
  BY <1>2, <1>3 DEF PreparePrompt, Return, TypeOK, Stages
<1>5. ResultWithinTokens'
  BY DEF PreparePrompt, ResultWithinTokens
<1>6. DecodersFit'
  BY DEF PreparePrompt, Return, DecodersFit, NDecoders, InLoop
<1>7. HistoryFits'
  BY Budgets DEF PreparePrompt, Return, HistoryFits, InLoop
<1>8. TokenCount'
  BY DEF PreparePrompt, Return, TokenCount
<1>9. QED
  BY <1>4, <1>5, <1>6, <1>7, <1>8

\* A window begins: only the stamps of the decoders change.
LEMMA WindowStep == ASSUME IInv, BeginWindow PROVE IInv'
<1> USE DEF IInv
<1>1. \A j \in Decoders : /\ dec'[j] \in DecoderType
                          /\ dec'[j].tokens = dec[j].tokens
                          /\ dec'[j].result_len = dec[j].result_len
  <2> SUFFICES ASSUME NEW j \in Decoders
               PROVE  /\ dec'[j] \in DecoderType
                      /\ dec'[j].tokens = dec[j].tokens
                      /\ dec'[j].result_len = dec[j].result_len
    OBVIOUS
  <2>1. PICK k : k = Smaller(dec[j].stamp, 0)
    OBVIOUS
  <2>2. dec[j] \in DecoderType /\ k \in Int
    BY <2>1 DEF TypeOK, DecoderType, Smaller
  <2>3. dec'[j] = [dec[j] EXCEPT !.stamp = k]
    BY <2>1 DEF BeginWindow
  <2>4. QED
    BY <2>2, <2>3 DEF DecoderType
<1>2. dec' \in [Decoders -> DecoderType]
  BY <1>1 DEF BeginWindow
<1>3. 0 \in Decoders
  BY LoopAssumption DEF Decoders
<1>4. TypeOK'
  BY <1>2, <1>3 DEF BeginWindow, TypeOK, Stages
<1>5. ResultWithinTokens'
  BY <1>1 DEF ResultWithinTokens
<1>6. DecodersFit' /\ HistoryFits'
  BY DEF BeginWindow, DecodersFit, HistoryFits, NDecoders, InLoop
<1>7. TokenCount'
  BY <1>1 DEF BeginWindow, TokenCount
<1>8. QED
  BY <1>4, <1>5, <1>6, <1>7

\* The decoders after a reset, whatever the step does besides.
LEMMA ResetFacts ==
    ASSUME IInv, pc \in InLoop, ResetDecoders
    PROVE  /\ dec' \in [Decoders -> DecoderType]
           /\ \A j \in Decoders : /\ dec'[j].result_len <= Len(dec'[j].tokens)
                                  /\ Len(dec'[j].tokens) <= NMax
           /\ \A j \in 0..(NDecodersCur - 1) :
                 j \in Decoders /\ dec'[j] = FreshDecoder(it) /\ Len(dec'[j].tokens) = 0
<1> USE DEF IInv
<1>1. it \in Nat /\ dec \in [Decoders -> DecoderType]
  BY DEF TypeOK
<1>2. FreshDecoder(it) \in DecoderType /\ Len(FreshDecoder(it).tokens) = 0
      /\ FreshDecoder(it).result_len = 0
  BY <1>1, FreshType
<1>3. NDecodersCur \in Nat /\ 1 <= NDecodersCur /\ NDecodersCur <= MaxDecoders
  BY DecoderRange DEF TypeOK, DecodersFit
<1>4. \A j \in Decoders : dec'[j] = IF j < NDecodersCur THEN FreshDecoder(it) ELSE dec[j]
  BY DEF ResetDecoders
<1>5. \A j \in Decoders : dec'[j] \in DecoderType
  BY <1>1, <1>2, <1>4
<1>6. dec' \in [Decoders -> DecoderType]
  BY <1>5 DEF ResetDecoders
<1>7. \A j \in Decoders : /\ dec'[j].result_len <= Len(dec'[j].tokens)
                          /\ Len(dec'[j].tokens) <= NMax
  BY <1>2, <1>4, Budgets DEF ResultWithinTokens, TokenCount
<1>8. \A j \in 0..(NDecodersCur - 1) : j \in Decoders /\ j < NDecodersCur
  BY <1>3, LoopAssumption DEF Decoders
<1>9. QED
  BY <1>2, <1>4, <1>6, <1>7, <1>8

\* Without an exception the history that enters the prompt keeps its budget.
LEMMA PromptFacts ==
    ASSUME IInv, pc \in InLoop, ~(TakesHistory /\ Take1 < 0), BuildPrompt
    PROVE  hist' \in Nat /\ hist' <= HalfCtx
<1>1. /\ past0 \in Nat /\ past1 \in Nat
      /\ params.n_max_text_ctx \in Nat
  BY ParamTypes DEF IInv, TypeOK
<1>2. MaxPromptCtx \in Nat /\ MaxPromptCtx <= HalfCtx
  BY <1>1, Budgets DEF MaxPromptCtx, Smaller
<1>3. Take0 \in Nat
  BY <1>1 DEF Take0
<1>4. CASE TakesHistory
  <2>1. Take1 \in Int /\ Take1 <= MaxPromptCtx - Take0 - 1
    BY <1>1, <1>2, <1>3 DEF Take1, Smaller
  <2>2. Take1 >= 0
    BY <1>4, <2>1
  <2>3. hist' = 1 + Take0 + Take1
    BY <1>4 DEF BuildPrompt
  <2>4. QED
    BY <1>2, <1>3, <2>1, <2>2, <2>3, Budgets
<1>5. CASE ~TakesHistory
  BY <1>5, Budgets DEF BuildPrompt
<1>6. QED
  BY <1>4, <1>5

\* A temperature begins, or the call ends while it prepares the prompt.
LEMMA TemperatureSteps ==
    ASSUME IInv, PromptThrows \/ KvInitFails \/ DecodePrompt
    PROVE  IInv'
<1>1. pc \in InLoop /\ ResetDecoders
  BY DEF PromptThrows, KvInitFails, DecodePrompt, InLoop
<1>2. /\ dec' \in [Decoders -> DecoderType]
      /\ \A j \in Decoders : /\ dec'[j].result_len <= Len(dec'[j].tokens)
                             /\ Len(dec'[j].tokens) <= NMax
      /\ \A j \in 0..(NDecodersCur - 1) : Len(dec'[j].tokens) = 0
  BY <1>1, ResetFacts
<1>3. ResultWithinTokens'
  BY <1>2 DEF ResultWithinTokens
<1>4. params' = params
  BY DEF PromptThrows, KvInitFails, DecodePrompt
<1>5. CASE PromptThrows
  <2>1. TypeOK'
    BY <1>2, <1>5 DEF PromptThrows, Return, IInv, TypeOK, Stages
  <2>2. DecodersFit' /\ HistoryFits' /\ TokenCount'
    BY <1>2, <1>5 DEF PromptThrows, Return, DecodersFit, HistoryFits, TokenCount, InLoop
  <2>3. QED
    BY <1>3, <2>1, <2>2 DEF IInv
<1>6. CASE KvInitFails
  <2>1. hist' \in Nat
    BY <1>1, <1>6, PromptFacts DEF KvInitFails
  <2>2. TypeOK'
    BY <1>2, <1>6, <2>1 DEF KvInitFails, Return, IInv, TypeOK, Stages
  <2>3. DecodersFit' /\ HistoryFits' /\ TokenCount'
    BY <1>2, <1>6 DEF KvInitFails, Return, DecodersFit, HistoryFits, TokenCount, InLoop
  <2>4. QED
    BY <1>3, <2>2, <2>3 DEF IInv
<1>7. CASE DecodePrompt
  <2>1. hist' \in Nat /\ hist' <= HalfCtx
    BY <1>1, <1>7, PromptFacts DEF DecodePrompt
  <2>2. NDecodersCur \in Nat
    BY <1>1, DecoderRange DEF IInv, TypeOK, DecodersFit
  <2>3. kvNDec' \in Nat
    BY <1>7, <2>2 DEF DecodePrompt, Larger, IInv, TypeOK
  <2>4. TypeOK'
    BY <1>2, <1>7, <2>1, <2>3 DEF DecodePrompt, Return, IInv, TypeOK, Stages
  <2>5. DecodersFit' /\ HistoryFits'
    BY <1>1, <1>7, <2>1 DEF DecodePrompt, Return, IInv, DecodersFit, HistoryFits, NDecoders, InLoop
  <2>6. Running' \subseteq 0..(NDecodersCur - 1)
    BY <1>4, <1>7 DEF DecodePrompt, Running, NDecodersCur, Temperatures
  <2>7. TokenCount'
    BY <1>2, <1>7, <2>6, Budgets DEF DecodePrompt, Return, TokenCount
  <2>8. QED
    BY <1>3, <2>4, <2>5, <2>7 DEF IInv
<1>8. QED
  BY <1>5, <1>6, <1>7

\* What one step of the token loop makes of a running decoder.
LEMMA SampledDecoder ==
    ASSUME IInv, pc = "sample",
           NEW s \in Running, NEW c \in Candidates(s)
    PROVE  LET e == UpdateDecoder(params, Window, c, i)
           IN /\ e \in DecoderType
              /\ e.result_len <= Len(e.tokens)
              /\ Len(e.tokens) = i + 1
              /\ e.stamp = dec[s].stamp
              /\ dec[s].seek_delta > 0 => e.seek_delta > 0
<1> DEFINE e == UpdateDecoder(params, Window, c, i)
           t == c.tokens[Len(c.tokens)]
<1>1. NDecodersCur \in Nat /\ NDecodersCur <= MaxDecoders
  BY DecoderRange DEF IInv, TypeOK, DecodersFit, InLoop
<1>2. s \in Decoders
  BY <1>1, LoopAssumption DEF Running, Decoders
<1>3. dec[s] \in DecoderType /\ i \in Nat
  BY <1>2 DEF IInv, TypeOK
<1>4. dec[s].result_len \in Nat /\ dec[s].tokens \in Seq(Vocab) /\ dec[s].seek_delta \in Int
  BY <1>3 DEF DecoderType
<1>5. Len(dec[s].tokens) = i /\ dec[s].result_len <= i
  BY <1>2 DEF IInv, TokenCount, ResultWithinTokens
<1>6. /\ c \in DecoderType /\ Len(c.tokens) = i + 1
      /\ c.result_len = dec[s].result_len /\ c.stamp = dec[s].stamp
      /\ c.seek_delta = dec[s].seek_delta
  BY <1>2, <1>3, <1>5, CandidateFacts
<1>7. Len(c.tokens) > 0
  BY <1>3, <1>6
<1>8. /\ e \in DecoderType
      /\ e.tokens = c.tokens /\ e.stamp = c.stamp
      /\ e.result_len \in {c.result_len, i + 1}
      /\ e.seek_delta \in {c.seek_delta, Chunk} \/ (t > TokenBeg /\ e.seek_delta = Frames(t))
  BY <1>3, <1>6, <1>7, UpdateDecoderType
<1>9. c.tokens \in Seq(Vocab)
  BY <1>6 DEF DecoderType
<1>10. t \in Vocab
  BY <1>7, <1>9
<1> HIDE DEF e, t
<1>11. t \in Int
  BY <1>10, VocabIsInt
<1>12. t > TokenBeg => Frames(t) > 0
  BY <1>11, VocabAssumption DEF Frames
<1>13. dec[s].seek_delta > 0 => e.seek_delta > 0
  BY <1>6, <1>8, <1>12, VocabAssumption
<1>14. e.result_len <= Len(e.tokens) /\ Len(e.tokens) = i + 1
  BY <1>3, <1>4, <1>5, <1>6, <1>8
<1>15. QED
  BY <1>6, <1>8, <1>13, <1>14 DEF e

\* Every running decoder takes over an updated candidate; the rest stay.
LEMMA SampleFacts ==
    ASSUME IInv, Sample
    PROVE  /\ dec' \in [Decoders -> DecoderType]
           /\ \A j \in Decoders \ Running : dec'[j] = dec[j]
           /\ \A j \in Running : /\ j \in Decoders
                                 /\ dec'[j].result_len <= Len(dec'[j].tokens)
                                 /\ Len(dec'[j].tokens) = i + 1
                                 /\ \E s \in Running :
                                      /\ dec'[j].stamp = dec[s].stamp
                                      /\ dec[s].seek_delta > 0 => dec'[j].seek_delta > 0
<1>0. pc = "sample"
  BY DEF Sample
<1>1. NDecodersCur \in Nat /\ NDecodersCur <= MaxDecoders
  BY <1>0, DecoderRange DEF IInv, TypeOK, DecodersFit, InLoop
<1>2. Running \subseteq Decoders
  BY <1>1, LoopAssumption DEF Running, Decoders
<1>3. PICK next \in [Running -> UNION {Candidates(j) : j \in Running}] :
        dec' = [j \in Decoders |-> IF j \in Running THEN UpdateDecoder(params, Window, next[j], i)
                                   ELSE dec[j]]
  BY DEF Sample
<1>4. \A j \in Running : \E s \in Running : next[j] \in Candidates(s)
  BY <1>3
<1>5. \A j \in Running : dec'[j] = UpdateDecoder(params, Window, next[j], i)
  BY <1>2, <1>3
<1>6. \A j \in Decoders \ Running : dec'[j] = dec[j]
  BY <1>3
<1>7. ASSUME NEW j \in Running
      PROVE  /\ dec'[j] \in DecoderType
             /\ dec'[j].result_len <= Len(dec'[j].tokens)
             /\ Len(dec'[j].tokens) = i + 1
             /\ \E s \in Running : /\ dec'[j].stamp = dec[s].stamp
                                   /\ dec[s].seek_delta > 0 => dec'[j].seek_delta > 0
  <2>1. PICK s \in Running : next[j] \in Candidates(s)
    BY <1>4
  <2> DEFINE e == UpdateDecoder(params, Window, next[j], i)
  <2>2. /\ e \in DecoderType /\ e.result_len <= Len(e.tokens) /\ Len(e.tokens) = i + 1
        /\ e.stamp = dec[s].stamp /\ (dec[s].seek_delta > 0 => e.seek_delta > 0)
    BY <1>0, <2>1, SampledDecoder
  <2>3. dec'[j] = e
    BY <1>5
  <2> HIDE DEF e
  <2>4. QED
    BY <2>2, <2>3
<1>8. \A j \in Decoders : dec'[j] \in DecoderType
  BY <1>6, <1>7 DEF IInv, TypeOK
<1>9. dec' \in [Decoders -> DecoderType]
  BY <1>3, <1>8
<1>10. QED
  BY <1>2, <1>6, <1>7, <1>9

\* One token is sampled for every running decoder.
LEMMA SampleStep == ASSUME IInv, Sample PROVE IInv'
<1>0. pc = "sample" /\ pc' = "check"
  BY DEF Sample
<1>1. /\ dec' \in [Decoders -> DecoderType]
      /\ \A j \in Decoders \ Running : dec'[j] = dec[j]
      /\ \A j \in Running : /\ j \in Decoders
                            /\ dec'[j].result_len <= Len(dec'[j].tokens)
                            /\ Len(dec'[j].tokens) = i + 1
  BY SampleFacts
<1>2. TypeOK'
  <2>1. UNCHANGED <<ret, calls, params, n_len, seek, it, i, best, noSpeech, past0, past1, hist,
                   kvNDec, freed, result_all, notified>>
    BY DEF Sample
  <2>2. QED
    BY <1>0, <1>1, <2>1 DEF IInv, TypeOK, Stages
<1>3. ResultWithinTokens'
  BY <1>1 DEF IInv, ResultWithinTokens
<1>4. UNCHANGED <<params, it, i, hist>>
  BY DEF Sample
<1>5. DecodersFit' /\ HistoryFits'
  BY <1>0, <1>4 DEF IInv, DecodersFit, HistoryFits, NDecoders, InLoop
<1>6. NDecodersCur' = NDecodersCur
  BY <1>4 DEF NDecodersCur, Temperatures
<1>7. Running' \subseteq Running
  <2>1. \A j \in 0..(NDecodersCur - 1) : j \in Decoders
    BY <1>0, DecoderRange, LoopAssumption DEF IInv, TypeOK, DecodersFit, InLoop, Decoders
  <2>2. QED
    BY <1>1, <1>6, <2>1 DEF Running
<1>8. i \in Nat /\ i < NMax /\ NMax \in Nat
  BY <1>0, Budgets DEF IInv, TypeOK, TokenCount
<1>9. \A j \in Decoders : Len(dec'[j].tokens) <= NMax
  BY <1>1, <1>8 DEF IInv, TokenCount
<1>10. TokenCount'
  BY <1>0, <1>1, <1>4, <1>7, <1>8, <1>9 DEF TokenCount
<1>11. QED
  BY <1>2, <1>3, <1>5, <1>10 DEF IInv

\* The end of the token loop, or its next turn.
LEMMA CheckSteps == ASSUME IInv, EndSampling \/ DecodeBatch PROVE IInv'
<1>1. UNCHANGED <<params, it, dec, hist>> /\ pc = "check"
  BY DEF EndSampling, DecodeBatch
<1>2. i' \in Nat /\ pc' \in {"idle", "sample", "rank"} /\ (pc' = "sample" => i' = i + 1 /\ i' < NMax)
  BY DEF EndSampling, DecodeBatch, Return, IInv, TypeOK
<1>3. TypeOK'
  BY <1>1, <1>2 DEF EndSampling, DecodeBatch, Return, IInv, TypeOK, Stages
<1>4. ResultWithinTokens'
  BY <1>1 DEF IInv, ResultWithinTokens
<1>5. DecodersFit' /\ HistoryFits'
  BY <1>1, <1>2 DEF IInv, DecodersFit, HistoryFits, NDecoders, InLoop
<1>6. Running' = Running
  BY <1>1 DEF Running, NDecodersCur, Temperatures
<1>7. TokenCount'
  BY <1>1, <1>2, <1>6 DEF IInv, TokenCount
<1>8. QED
  BY <1>3, <1>4, <1>5, <1>7 DEF IInv

\* The decoders after ranking.
LEMMA RankFacts ==
    ASSUME IInv, Rank
    PROVE  /\ dec' \in [Decoders -> DecoderType]
           /\ best' \in Decoders /\ noSpeech' \in {-1, 0, 1}
           /\ best' = best \/ best' \in 0..(NDecodersCur - 1)
           /\ \A j \in Decoders : /\ dec'[j].result_len <= Len(dec'[j].tokens)
                                  /\ Len(dec'[j].tokens) <= Len(dec[j].tokens)
                                  /\ dec'[j].stamp = dec[j].stamp
                                  /\ dec'[j].seek_delta = dec[j].seek_delta
<1>0. pc = "rank"
  BY DEF Rank
<1>1. NDecodersCur \in Nat /\ NDecodersCur <= MaxDecoders
  BY <1>0, DecoderRange DEF IInv, TypeOK, DecodersFit, InLoop
<1>2. 0..(NDecodersCur - 1) \subseteq Decoders
  BY <1>1, LoopAssumption DEF Decoders
<1>3. PICK le \in [0..(NDecodersCur - 1) -> BOOLEAN], la \in [0..(NDecodersCur - 1) -> BOOLEAN],
           speech \in {-1, 0, 1} :
        LET ranked == [j \in Decoders |->
                         IF j < NDecodersCur THEN RankDecoder(dec[j], le[j], la[j]) ELSE dec[j]]
            winners == {j \in 0..(NDecodersCur - 1) : Rankable(ranked[j])}
        IN /\ dec' = ranked
           /\ noSpeech' = speech
           /\ best' \in IF winners = {} THEN {best} ELSE winners
  BY ZenonT(40) DEF Rank
<1>4. noSpeech' \in {-1, 0, 1}
  BY <1>3
<1>5. best' = best \/ best' \in 0..(NDecodersCur - 1)
  BY <1>3
<1>6. dec' = [j \in Decoders |->
                IF j < NDecodersCur THEN RankDecoder(dec[j], le[j], la[j]) ELSE dec[j]]
  BY <1>3
<1>7. ASSUME NEW j \in Decoders
      PROVE  /\ dec'[j] \in DecoderType
             /\ dec'[j].result_len <= Len(dec'[j].tokens)
             /\ Len(dec'[j].tokens) <= Len(dec[j].tokens)
             /\ dec'[j].stamp = dec[j].stamp
             /\ dec'[j].seek_delta = dec[j].seek_delta
  <2>1. dec[j] \in DecoderType /\ dec[j].result_len <= Len(dec[j].tokens)
    BY DEF IInv, TypeOK, ResultWithinTokens
  <2>2. CASE j < NDecodersCur
    <3>1. j \in 0..(NDecodersCur - 1)
      BY <1>1, <2>2 DEF Decoders
    <3>2. le[j] \in BOOLEAN /\ la[j] \in BOOLEAN
      BY <1>3, <3>1
    <3> DEFINE e == RankDecoder(dec[j], le[j], la[j])
    <3>3. /\ e \in DecoderType
          /\ e.result_len <= Len(e.tokens) /\ Len(e.tokens) <= Len(dec[j].tokens)
          /\ e.stamp = dec[j].stamp /\ e.seek_delta = dec[j].seek_delta
      BY <2>1, <3>2, RankDecoderType
    <3>4. dec'[j] = e
      BY <1>6, <2>2
    <3> HIDE DEF e
    <3>5. QED
      BY <3>3, <3>4
  <2>3. CASE ~(j < NDecodersCur)
    <3>1. dec'[j] = dec[j]
      BY <1>6, <2>3
    <3>2. Len(dec[j].tokens) \in Nat
      BY <2>1 DEF DecoderType
    <3>3. QED
      BY <2>1, <3>1, <3>2
  <2>4. QED
    BY <2>2, <2>3
<1>8. dec' \in [Decoders -> DecoderType]
  BY <1>6, <1>7
<1>9. best' \in Decoders
  BY <1>2, <1>5 DEF IInv, TypeOK
<1>10. QED
  BY <1>4, <1>5, <1>7, <1>8, <1>9

\* The sequences are ranked and a result accepted or the next temperature tried.
LEMMA RankStep == ASSUME IInv, Rank PROVE IInv'
<1>1. /\ dec' \in [Decoders -> DecoderType]
      /\ best' \in Decoders /\ noSpeech' \in {-1, 0, 1}
      /\ \A j \in Decoders : /\ dec'[j].result_len <= Len(dec'[j].tokens)
                             /\ Len(dec'[j].tokens) <= Len(dec[j].tokens)
  BY RankFacts
<1>2. /\ pc = "rank"
      /\ UNCHANGED <<ret, calls, params, n_len, seek, i, past0, past1, hist, kvNDec, freed>>
  BY DEF Rank
<1>3. pc' \in {"temperature", "output"} /\ it' \in {it, it + 1}
  BY DEF Rank
<1>4. TypeOK'
  BY <1>1, <1>2, <1>3 DEF IInv, TypeOK, Stages
<1>5. ResultWithinTokens'
  BY <1>1 DEF ResultWithinTokens
<1>6. DecodersFit' /\ HistoryFits'
  BY <1>2, <1>3 DEF IInv, DecodersFit, HistoryFits, NDecoders, InLoop
<1>7. \A j \in Decoders : Len(dec[j].tokens) \in Nat /\ Len(dec'[j].tokens) \in Nat
  BY <1>1, LenType DEF IInv, TypeOK
<1>8. TokenCount'
  BY <1>1, <1>3, <1>7, Budgets DEF IInv, TokenCount
<1>9. QED
  BY <1>4, <1>5, <1>6, <1>8 DEF IInv

\* The number of frames a window moves on is an integer.
LEMMA AdvanceType ==
    ASSUME TypeOK
    PROVE  SeekAdvance(params, Best, seek, SeekEnd) \in Int
<1>1. Best.seek_delta \in Int
  BY DEF TypeOK, DecoderType, Best
<1>2. SeekEnd \in Int /\ seek \in Int /\ Chunk \in Int
  BY ParamTypes, VocabAssumption DEF TypeOK, SeekEnd, SeekStart
<1>3. SeekAdvance(params, Best, seek, SeekEnd) \in {SeekEnd - seek, Chunk, Best.seek_delta}
  BY Zenon DEF SeekAdvance
<1>4. QED
  BY <1>1, <1>2, <1>3

\* The result of a window is output and the window moves on.
LEMMA OutputStep == ASSUME IInv, Output PROVE IInv'
<1>1. /\ pc = "output" /\ pc' = "window"
      /\ UNCHANGED <<ret, calls, params, n_len, it, i, dec, best, noSpeech, past0, hist, kvNDec, freed>>
  BY DEF Output
<1>2. seek' \in Int
  <2>1. seek' = seek + SeekAdvance(params, Best, seek, SeekEnd)
    BY DEF Output
  <2>2. QED
    BY <2>1, AdvanceType DEF IInv, TypeOK
<1>3. past1' \in Nat
  <2>1. PICK n \in ResultLens : past1' = HistoryOfWindow + (IF IsNoSpeech THEN 0 ELSE n)
    BY DEF Output
  <2>2. n \in Nat
    BY LoopAssumption DEF ResultLens, Larger, IInv, TypeOK, DecoderType, Best
  <2>3. HistoryOfWindow \in Nat
    BY DEF HistoryOfWindow, IInv, TypeOK
  <2>4. QED
    BY <2>1, <2>2, <2>3
<1>4. TypeOK'
  BY <1>1, <1>2, <1>3 DEF IInv, TypeOK, Stages
<1>5. ResultWithinTokens' /\ DecodersFit' /\ HistoryFits' /\ TokenCount'
  BY <1>1 DEF IInv, ResultWithinTokens, DecodersFit, HistoryFits, TokenCount, NDecoders, InLoop
<1>6. QED
  BY <1>4, <1>5 DEF IInv

\* A step that changes nothing.
LEMMA StutterStep == ASSUME IInv, UNCHANGED vars PROVE IInv'
<1> USE DEF vars
<1>1. TypeOK'
  BY DEF IInv, TypeOK
<1>2. ResultWithinTokens' /\ DecodersFit' /\ HistoryFits'
  BY DEF IInv, ResultWithinTokens, DecodersFit, HistoryFits, NDecoders
<1>3. Running' = Running
  BY DEF Running, NDecodersCur, Temperatures
<1>4. TokenCount'
  BY <1>3 DEF IInv, TokenCount
<1>5. QED
  BY <1>1, <1>2, <1>4 DEF IInv

\* The invariant of the transcription loop is inductive.
THEOREM Invariance == Spec => []IInv
<1>1. Init => IInv
  BY InitIInv
<1>2. IInv /\ [Next]_vars => IInv'
  <2> SUFFICES ASSUME IInv, [Next]_vars PROVE IInv'
    OBVIOUS
  <2>1. CASE \E p \in ParamSet, n \in AudioLens : Call(p, n)
    BY <2>1, BeginSteps
  <2>2. CASE DetectFails \/ ReturnEarly \/ Finish \/ StopBeforeWindow
    BY <2>2, BeginSteps
  <2>3. CASE PreparePrompt
    BY <2>3, PrepareStep
  <2>4. CASE BeginWindow
    BY <2>4, WindowStep
  <2>5. CASE PromptThrows \/ KvInitFails \/ DecodePrompt
    BY <2>5, TemperatureSteps
  <2>6. CASE Sample
    BY <2>6, SampleStep
  <2>7. CASE EndSampling \/ DecodeBatch
    BY <2>7, CheckSteps
  <2>8. CASE Rank
    BY <2>8, RankStep
  <2>9. CASE Output
    BY <2>9, OutputStep
  <2>10. CASE Rest \/ UNCHANGED vars
    BY <2>10, StutterStep DEF Rest
  <2>11. QED
    BY <2>1, <2>2, <2>3, <2>4, <2>5, <2>6, <2>7, <2>8, <2>9, <2>10 DEF Next, Work
<1>3. QED
  BY <1>1, <1>2, PTL DEF Spec

\* Types, for every instance.
THEOREM TypeCorrect == Spec => []TypeOK
<1>1. IInv => TypeOK
  BY DEF IInv
<1>2. QED
  BY <1>1, Invariance, PTL

\* The tokens a result claims exist: the output loop of whisper_full_with_state
\* reads tokens_cur only inside the vector.
THEOREM ResultsExist == Spec => []ResultWithinTokens
<1>1. IInv => ResultWithinTokens
  BY DEF IInv
<1>2. QED
  BY <1>1, Invariance, PTL

\* Every position the loop hands to the text decoder lies inside the text
\* context, for every prompt, carried prompt, history and number of windows.
THEOREM PositionsFit == Spec => []PositionsInContext
<1>1. IInv => PositionsInContext
  <2> SUFFICES ASSUME IInv PROVE PositionsInContext
    OBVIOUS
  <2>1. hist \in Nat /\ i \in Nat
    BY DEF IInv, TypeOK
  <2>2. PromptInitLen \in Nat /\ PromptInitLen <= 4
    BY LoopAssumption, ParamTypes DEF PromptInitLen, IInv, TypeOK
  <2>3. pc \in {"sample", "check", "rank"} => hist <= HalfCtx
    BY DEF IInv, HistoryFits, InLoop
  <2>4. pc = "check" => i < NMax
    BY DEF IInv, TokenCount
  <2>5. QED
    BY <2>1, <2>2, <2>3, <2>4, Budgets, ContextAssumption DEF PositionsInContext, PromptLen, BatchPos
<1>2. QED
  BY <1>1, Invariance, PTL
-----------------------------------------------------------------------------
(* Progress.  A window moves on because the decoder it outputs was reset   *)
(* in this window: a reset decoder shifts by a whole chunk, and only a     *)
(* timestamp above 0.00 makes the shift smaller.  An older decoder may     *)
(* hold any shift, so the stamps have to show that none is output.         *)

Decoding == {"sample", "check", "rank"}

ShiftPositive == \A j \in Decoders : dec[j].stamp > 0 => dec[j].seek_delta > 0

BestIsFresh ==
    /\ pc = "temperature" => best = 0 \/ dec[best].stamp > 0
    /\ pc \in Decoding => /\ dec[best].stamp > 0
                          /\ \A j \in 0..(NDecodersCur - 1) : dec[j].stamp > 0
    /\ (pc = "output" /\ Temperatures # <<>>) => dec[best].stamp > 0

WindowOpen == pc \in InLoop \ {"window"} => seek < SeekEnd

ProgressInv == ShiftPositive /\ BestIsFresh /\ WindowOpen

\* Steps that leave the decoders, the window and the winner alone.
LEMMA ProgressQuiet ==
    ASSUME ProgressInv, dec' = dec, pc' \in {"idle", "begin", "window"}
    PROVE  ProgressInv'
BY DEF ProgressInv, ShiftPositive, BestIsFresh, WindowOpen, InLoop, Decoding

\* A window begins with no stamp of this window.
LEMMA WindowStamps == ASSUME IInv, BeginWindow PROVE \A j \in Decoders : ~(dec'[j].stamp > 0)
<1> SUFFICES ASSUME NEW j \in Decoders PROVE ~(dec'[j].stamp > 0)
  OBVIOUS
<1>1. PICK k : k = Smaller(dec[j].stamp, 0)
  OBVIOUS
<1>2. dec[j] \in DecoderType /\ ~(k > 0)
  BY <1>1 DEF IInv, TypeOK, DecoderType, Smaller
<1>3. dec'[j] = [dec[j] EXCEPT !.stamp = k]
  BY <1>1 DEF BeginWindow
<1>4. QED
  BY <1>2, <1>3 DEF DecoderType

\* A window begins within the audio.
LEMMA ProgressWindow == ASSUME IInv, BeginWindow PROVE ProgressInv'
<1>1. \A j \in Decoders : ~(dec'[j].stamp > 0)
  BY WindowStamps
<1>2. ShiftPositive'
  BY <1>1 DEF ShiftPositive
<1>3. /\ best' = 0 /\ UNCHANGED <<params, seek, n_len>>
      /\ pc' = IF Temperatures = <<>> THEN "output" ELSE "temperature"
  BY DEF BeginWindow
<1>4. Temperatures' = Temperatures
  BY <1>3 DEF Temperatures
<1>5. BestIsFresh'
  BY <1>3, <1>4 DEF BestIsFresh, Decoding
<1>6. DeltaMin \in Nat /\ SeekEnd \in Int /\ seek \in Int
  BY ParamTypes, LoopAssumption DEF DeltaMin, SeekEnd, SeekStart, IInv, TypeOK
<1>7. seek < SeekEnd
  BY <1>6 DEF BeginWindow
<1>8. WindowOpen'
  BY <1>3, <1>7 DEF WindowOpen, SeekEnd, SeekStart
<1>9. QED
  BY <1>2, <1>5, <1>8 DEF ProgressInv

\* A temperature begins: its decoders get a fresh stamp.
LEMMA ProgressTemperature ==
    ASSUME IInv, ProgressInv, PromptThrows \/ KvInitFails \/ DecodePrompt
    PROVE  ProgressInv'
<1>1. /\ pc = "temperature" /\ pc \in InLoop /\ ResetDecoders
      /\ UNCHANGED <<params, it, best, seek, n_len>>
      /\ pc' \in {"idle", "sample"}
  BY DEF PromptThrows, KvInitFails, DecodePrompt, Return, InLoop
<1>2. NDecodersCur \in Nat /\ 1 <= NDecodersCur /\ NDecodersCur <= MaxDecoders
  BY <1>1, DecoderRange DEF IInv, TypeOK, DecodersFit
<1>3. it \in Nat /\ it > 0
  BY DEF IInv, TypeOK
<1>4. FreshDecoder(it).stamp = it /\ FreshDecoder(it).seek_delta = Chunk
  BY <1>3, FreshType
<1>5. \A j \in Decoders : dec'[j] = IF j < NDecodersCur THEN FreshDecoder(it) ELSE dec[j]
  BY <1>1 DEF ResetDecoders
<1>6. \A j \in 0..(NDecodersCur - 1) : j \in Decoders
  BY <1>2, LoopAssumption DEF Decoders
<1>7. ShiftPositive'
  BY <1>4, <1>5, VocabAssumption DEF ProgressInv, ShiftPositive
<1>8. \A j \in 0..(NDecodersCur - 1) : dec'[j].stamp > 0
  BY <1>2, <1>3, <1>4, <1>5, <1>6
<1>9. dec'[best].stamp > 0
  <2>1. best \in Decoders /\ best \in Nat
    BY DEF IInv, TypeOK, Decoders
  <2>2. CASE best < NDecodersCur
    BY <1>3, <1>4, <1>5, <2>1, <2>2
  <2>3. CASE ~(best < NDecodersCur)
    BY <1>1, <1>2, <1>5, <2>1, <2>3 DEF ProgressInv, BestIsFresh
  <2>4. QED
    BY <2>2, <2>3
<1>10. NDecodersCur' = NDecodersCur
  BY <1>1 DEF NDecodersCur, Temperatures
<1>11. BestIsFresh'
  BY <1>1, <1>8, <1>9, <1>10 DEF BestIsFresh, Decoding
<1>12. WindowOpen'
  BY <1>1 DEF ProgressInv, WindowOpen, InLoop, SeekEnd, SeekStart
<1>13. QED
  BY <1>7, <1>11, <1>12 DEF ProgressInv

\* Sampling keeps the stamps of the temperature and positive shifts.
LEMMA ProgressSample == ASSUME IInv, ProgressInv, Sample PROVE ProgressInv'
<1>1. /\ pc = "sample" /\ pc' = "check" /\ pc \in Decoding
      /\ UNCHANGED <<params, it, best, seek, n_len>>
  BY DEF Sample, Decoding
<1>2. /\ \A j \in Decoders \ Running : dec'[j] = dec[j]
      /\ \A j \in Running : \E s \in Running :
            /\ dec'[j].stamp = dec[s].stamp
            /\ dec[s].seek_delta > 0 => dec'[j].seek_delta > 0
  BY SampleFacts
<1>3. \A s \in Running : s \in Decoders /\ dec[s].stamp > 0 /\ dec[s].seek_delta > 0
  <2>1. NDecodersCur \in Nat /\ NDecodersCur <= MaxDecoders
    BY <1>1, DecoderRange DEF IInv, TypeOK, DecodersFit, InLoop
  <2>2. \A s \in Running : s \in Decoders /\ s \in 0..(NDecodersCur - 1)
    BY <2>1, LoopAssumption DEF Running, Decoders
  <2>3. QED
    BY <1>1, <2>2 DEF ProgressInv, ShiftPositive, BestIsFresh
<1>4. \A j \in Running : dec'[j].stamp > 0 /\ dec'[j].seek_delta > 0
  BY <1>2, <1>3
<1>5. \A j \in Decoders : /\ dec[j].stamp > 0 => dec'[j].stamp > 0
                          /\ dec'[j].stamp > 0 => dec'[j].seek_delta > 0
  BY <1>2, <1>4 DEF ProgressInv, ShiftPositive
<1>6. NDecodersCur' = NDecodersCur
  BY <1>1 DEF NDecodersCur, Temperatures
<1>7. \A j \in 0..(NDecodersCur - 1) : j \in Decoders
  BY <1>1, DecoderRange, LoopAssumption DEF IInv, TypeOK, DecodersFit, InLoop, Decoders
<1>8. best \in Decoders
  BY DEF IInv, TypeOK
<1>9. BestIsFresh'
  BY <1>1, <1>5, <1>6, <1>7, <1>8 DEF ProgressInv, BestIsFresh, Decoding
<1>10. WindowOpen'
  BY <1>1 DEF ProgressInv, WindowOpen, InLoop, SeekEnd, SeekStart
<1>11. QED
  BY <1>5, <1>9, <1>10 DEF ProgressInv, ShiftPositive

\* The token loop turns or ends.
LEMMA ProgressCheck == ASSUME ProgressInv, EndSampling \/ DecodeBatch PROVE ProgressInv'
<1>1. /\ pc = "check" /\ pc' \in {"idle", "sample", "rank"}
      /\ UNCHANGED <<params, it, dec, best, seek, n_len>>
  BY DEF EndSampling, DecodeBatch, Return
<1>2. NDecodersCur' = NDecodersCur
  BY <1>1 DEF NDecodersCur, Temperatures
<1>3. QED
  BY <1>1, <1>2 DEF ProgressInv, ShiftPositive, BestIsFresh, WindowOpen, InLoop, Decoding, SeekEnd, SeekStart

\* Ranking selects among the decoders of this temperature, or keeps the winner
\* of an earlier temperature of the same window.
LEMMA ProgressRank == ASSUME IInv, ProgressInv, Rank PROVE ProgressInv'
<1>1. /\ pc = "rank" /\ pc' \in {"temperature", "output"}
      /\ UNCHANGED <<params, seek, n_len>>
  BY DEF Rank
<1>2. /\ best' \in Decoders
      /\ best' = best \/ best' \in 0..(NDecodersCur - 1)
      /\ \A j \in Decoders : dec'[j].stamp = dec[j].stamp /\ dec'[j].seek_delta = dec[j].seek_delta
  BY RankFacts
<1>3. dec[best'].stamp > 0
  BY <1>1, <1>2 DEF ProgressInv, BestIsFresh, Decoding
<1>4. BestIsFresh'
  BY <1>1, <1>2, <1>3 DEF BestIsFresh, Decoding
<1>5. QED
  BY <1>1, <1>2, <1>4 DEF ProgressInv, ShiftPositive, WindowOpen, InLoop, SeekEnd, SeekStart

\* The progress invariant holds.
THEOREM ProgressInvariance == Spec => []ProgressInv
<1>1. Init => ProgressInv
  <2> SUFFICES ASSUME Init PROVE ProgressInv
    OBVIOUS
  <2>1. PICK u \in UninitInts :
          dec = [j \in Decoders |-> [FreshDecoder(-1) EXCEPT !.seek_delta = u]]
    BY DEF Init, InitDecoders
  <2>2. \A j \in Decoders : dec[j].stamp = -1
    BY <2>1 DEF FreshDecoder
  <2>3. QED
    BY <2>2 DEF Init, ProgressInv, ShiftPositive, BestIsFresh, WindowOpen, InLoop, Decoding
<1>2. IInv /\ ProgressInv /\ [Next]_vars => ProgressInv'
  <2> SUFFICES ASSUME IInv, ProgressInv, [Next]_vars PROVE ProgressInv'
    OBVIOUS
  <2>1. CASE \E p \in ParamSet, n \in AudioLens : Call(p, n)
    BY <2>1, ProgressQuiet DEF Call
  <2>2. CASE DetectFails \/ ReturnEarly \/ Finish \/ StopBeforeWindow
    BY <2>2, ProgressQuiet DEF DetectFails, ReturnEarly, Finish, StopBeforeWindow, Return
  <2>3. CASE PreparePrompt
    BY <2>3, ProgressQuiet DEF PreparePrompt, Return
  <2>4. CASE BeginWindow
    BY <2>4, ProgressWindow
  <2>5. CASE PromptThrows \/ KvInitFails \/ DecodePrompt
    BY <2>5, ProgressTemperature
  <2>6. CASE Sample
    BY <2>6, ProgressSample
  <2>7. CASE EndSampling \/ DecodeBatch
    BY <2>7, ProgressCheck
  <2>8. CASE Rank
    BY <2>8, ProgressRank
  <2>9. CASE Output
    BY <2>9, ProgressQuiet DEF Output
  <2>10. CASE Rest \/ UNCHANGED vars
    <3>1. UNCHANGED vars
      BY <2>10 DEF Rest
    <3>2. NDecodersCur' = NDecodersCur /\ Temperatures' = Temperatures /\ SeekEnd' = SeekEnd
      BY <3>1 DEF vars, NDecodersCur, Temperatures, SeekEnd, SeekStart
    <3>3. QED
      BY <3>1, <3>2 DEF vars, ProgressInv, ShiftPositive, BestIsFresh, WindowOpen
  <2>11. QED
    BY <2>1, <2>2, <2>3, <2>4, <2>5, <2>6, <2>7, <2>8, <2>9, <2>10 DEF Next, Work
<1>3. QED
  BY <1>1, <1>2, Invariance, PTL DEF Spec

\* Every window moves the position in the audio forward, whatever the decoders
\* sample and however many temperatures fail: the main loop cannot spin.
THEOREM WindowsAdvance == Spec => SeekAdvances
<1>1. ASSUME IInv, ProgressInv, [Next]_vars, pc = "output", Temperatures # <<>>, ~UNCHANGED vars
      PROVE  seek' > seek
  <2>1. Output
    BY <1>1 DEF Next, Work, Call, DetectFails, ReturnEarly, PreparePrompt, Finish, StopBeforeWindow,
                BeginWindow, PromptThrows, KvInitFails, DecodePrompt, Sample, EndSampling,
                DecodeBatch, Rank, Rest
  <2>2. seek' = seek + SeekAdvance(params, Best, seek, SeekEnd)
    BY <2>1 DEF Output
  <2>3. Best.seek_delta > 0 /\ Best.seek_delta \in Int
    BY <1>1 DEF IInv, TypeOK, DecoderType, ProgressInv, ShiftPositive, BestIsFresh, Best
  <2>4. seek \in Int /\ SeekEnd \in Int /\ seek < SeekEnd
    BY <1>1, ParamTypes DEF IInv, TypeOK, ProgressInv, WindowOpen, InLoop, SeekEnd, SeekStart
  <2>5. SeekAdvance(params, Best, seek, SeekEnd) \in {SeekEnd - seek, Chunk, Best.seek_delta}
    BY Zenon DEF SeekAdvance
  <2>6. QED
    BY <2>2, <2>3, <2>4, <2>5, VocabAssumption
<1>2. IInv /\ ProgressInv /\ [Next]_vars => [(pc = "output" /\ Temperatures # <<>>) => seek' > seek]_vars
  BY <1>1
<1>3. QED
  BY <1>2, Invariance, ProgressInvariance, PTL DEF Spec, SeekAdvances

\* The rolling prompt history stays bounded over windows and calls.
THEOREM HistoryStaysBounded == Spec => []HistoryBounded
<1>1. Init => HistoryBounded
  BY DEF Init, HistoryBounded
<1>2. IInv /\ ProgressInv /\ HistoryBounded /\ [Next]_vars => HistoryBounded'
  <2> SUFFICES ASSUME IInv, ProgressInv, HistoryBounded, [Next]_vars,
                      pc' = "window", seek' > SeekStart', Temperatures' # <<>>
               PROVE  past1' < HalfCtx + NMax
    BY DEF HistoryBounded
  <2>1. CASE PreparePrompt
    <3>1. seek' = SeekStart /\ SeekStart' = SeekStart
      BY <2>1 DEF PreparePrompt, Return, SeekStart
    <3>2. SeekStart \in Int
      BY ParamTypes DEF IInv, TypeOK, SeekStart
    <3>3. QED
      BY <3>1, <3>2
  <2>2. CASE Output
    <3>0. Temperatures # <<>> /\ pc = "output"
      BY <2>2 DEF Output, Temperatures
    <3>a. Best.stamp > 0 /\ Best.stamp \in Int
      BY <3>0 DEF IInv, TypeOK, DecoderType, ProgressInv, BestIsFresh, Best
    <3>b. ResultLens = {Best.result_len}
      BY <3>a DEF ResultLens
    <3>1. past1' = HistoryOfWindow + (IF IsNoSpeech THEN 0 ELSE Best.result_len)
      BY <2>2, <3>b DEF Output
    <3>2. Best.result_len \in Nat /\ Best.result_len <= NMax
      <4>1. best \in Decoders /\ dec[best] \in DecoderType
        BY DEF IInv, TypeOK
      <4>2. dec[best].result_len \in Nat /\ Len(dec[best].tokens) \in Nat
        BY <4>1, LenType DEF DecoderType
      <4>3. dec[best].result_len <= Len(dec[best].tokens) /\ Len(dec[best].tokens) <= NMax
        BY <4>1 DEF IInv, ResultWithinTokens, TokenCount
      <4>4. QED
        BY <4>2, <4>3, Budgets DEF Best
    <3>3. hist \in Nat /\ hist <= HalfCtx
      BY <2>2 DEF Output, IInv, TypeOK, HistoryFits, InLoop
    <3>4. HistoryOfWindow \in Nat /\ HistoryOfWindow < HalfCtx
      BY <3>3, Budgets DEF HistoryOfWindow
    <3>5. QED
      BY <3>1, <3>2, <3>4, Budgets
  <2>3. CASE UNCHANGED vars
    BY <2>3 DEF vars, HistoryBounded, SeekStart, Temperatures
  <2>4. QED
    BY <2>1, <2>2, <2>3 DEF Next, Work, Call, DetectFails, ReturnEarly, Finish, StopBeforeWindow,
                BeginWindow, PromptThrows, KvInitFails, DecodePrompt, Sample, EndSampling,
                DecodeBatch, Rank, Rest, Return
<1>3. QED
  BY <1>1, <1>2, Invariance, ProgressInvariance, PTL DEF Spec
-----------------------------------------------------------------------------
(* Times.  The timestamps of a sequence do not decrease because the filter *)
(* allows none below the shift, and the shift is never below a timestamp   *)
(* sampled before.  The latter is the strengthening the induction needs,   *)
(* for beam search too, where a decoder continues the sequence of another. *)

Ordered(t) ==
    \A a, b \in 1..Len(t) : (a < b /\ t[a] >= TokenBeg /\ t[b] >= TokenBeg) => t[a] <= t[b]

\* The shift is at least every timestamp of the sequence.
Shifted(d) ==
    \A a \in 1..Len(d.tokens) :
        d.tokens[a] > TokenBeg => d.has_ts /\ Frames(d.tokens[a]) <= d.seek_delta

Timed(d) ==
    /\ Ordered(d.tokens) /\ Shifted(d)
    /\ d.stamp > 0 => d.seek_delta <= Chunk

\* A timestamp of the vocabulary lies in the chunk.
LEMMA FramesInChunk ==
    ASSUME NEW id \in Vocab
    PROVE  id \in Int /\ Frames(id) \in Int /\ Frames(id) <= Chunk
<1>1. /\ TokenBeg \in Nat /\ TokenEot \in Nat /\ TokenEot < TokenBeg /\ Chunk \in Nat
      /\ 2 * NTs <= Chunk /\ NTs \in Nat
  BY VocabAssumption DEF NTs
<1>2. id \in Int /\ id <= TokenBeg + NTs
  BY <1>1 DEF Vocab, Texts, Times
<1>3. QED
  BY <1>1, <1>2 DEF Frames

\* What the update makes of the shift, given the token it was called for.
LEMMA UpdateShift ==
    ASSUME NEW p, NEW w, NEW k \in Nat, NEW d \in DecoderType, Len(d.tokens) > 0
    PROVE  LET e == UpdateDecoder(p, w, d, k)
               t == d.tokens[Len(d.tokens)]
           IN /\ e.tokens = d.tokens /\ e.stamp = d.stamp /\ e.tid0 = d.tid0
              /\ d.has_ts => e.has_ts
              /\ t > TokenBeg => e.has_ts
              /\ \/ e.seek_delta = Chunk
                 \/ t > TokenBeg /\ e.seek_delta = Frames(t)
                 \/ e.seek_delta = d.seek_delta /\ (t > TokenBeg => Frames(t) <= d.seek_delta)
<1> DEFINE tok      == d.tokens[Len(d.tokens)]
           goesBack == /\ MovesWindow(tok) /\ d.has_ts
                       /\ d.seek_delta > Frames(tok) /\ d.result_len < k
           moves    == MovesWindow(tok) /\ ~goesBack
           delta    == IF moves THEN Frames(tok) ELSE d.seek_delta
           len      == IF moves THEN k + 1 ELSE d.result_len
           hasTs    == moves \/ d.has_ts
           atEnd    == w.seek + delta + w.delta_min >= w.seek_end
           ends     == /\ ~goesBack
                       /\ \/ tok = TokenEot
                          \/ p.max_tokens > 0 /\ k >= p.max_tokens
                          \/ hasTs /\ atEnd
           empty    == len = 0 /\ ~p.no_timestamps
           closes   == ends /\ (empty => atEnd)
           whole    == p.single_segment \/ p.no_timestamps
           killed   == ~goesBack /\ ~ends /\ Repeats(d.tokens)
           stuck    == /\ ~ends /\ ~killed
                       /\ k = NMax - 1 /\ (len = 0 \/ delta < Chunk \div 2)
           newLen   == IF closes /\ (whole \/ empty) THEN k + 1 ELSE len
           newDelta == IF closes /\ whole THEN Chunk ELSE delta
           done     == closes \/ killed
           fails    == goesBack \/ (ends /\ ~closes) \/ stuck
<1>0. d.tokens \in Seq(Vocab) /\ d.has_ts \in BOOLEAN /\ d.seek_delta \in Int
  BY DEF DecoderType
<1>1. tok \in Vocab
  BY <1>0
<1> HIDE DEF tok
<1>2. tok \in Int /\ Frames(tok) \in Int
  BY <1>1, FramesInChunk
<1>3. Last(d.tokens) = tok
  BY DEF Last, tok
<1>4. UpdateDecoder(p, w, d, k) =
        [d EXCEPT !.has_ts = hasTs, !.result_len = newLen, !.seek_delta = newDelta,
                  !.completed = done, !.failed = fails]
  BY <1>3, Zenon DEF UpdateDecoder
<1>5. /\ d.has_ts => hasTs
      /\ MovesWindow(tok) => hasTs
      /\ \/ newDelta = Chunk
         \/ MovesWindow(tok) /\ newDelta = Frames(tok)
         \/ newDelta = d.seek_delta /\ (MovesWindow(tok) => d.seek_delta > Frames(tok))
  <2> HIDE DEF closes, whole
  <2>1. QED
    BY Zenon
<1> HIDE DEF hasTs, newLen, newDelta, closes, killed, done, fails
<1> DEFINE e == UpdateDecoder(p, w, d, k)
<1>6. /\ e.tokens = d.tokens /\ e.stamp = d.stamp /\ e.tid0 = d.tid0
      /\ e.has_ts = hasTs /\ e.seek_delta = newDelta
  BY <1>4 DEF DecoderType
<1> HIDE DEF e
<1>7. MovesWindow(tok) <=> tok > TokenBeg
  BY DEF MovesWindow
<1>8. QED
  BY <1>0, <1>2, <1>5, <1>6, <1>7 DEF tok, e

\* A token the filters leave keeps the sequence ordered, and the shift above it.
LEMMA SampledTimed ==
    ASSUME NEW p, NEW w, NEW k \in Nat, NEW d \in DecoderType, Timed(d),
           NEW id \in Vocab, NotBeforeLast(d, id), NEW tid \in Int
    PROVE  Timed(UpdateDecoder(p, w, PushToken(d, id, tid), k))
<1>0. PICK c : c = PushToken(d, id, tid)
  OBVIOUS
<1>1. /\ c \in DecoderType /\ Len(c.tokens) = Len(d.tokens) + 1
      /\ c.stamp = d.stamp /\ c.seek_delta = d.seek_delta
  BY <1>0, PushTokenType
<1>2. d.tokens \in Seq(Vocab) /\ Len(d.tokens) \in Nat /\ d.seek_delta \in Int /\ d.has_ts \in BOOLEAN /\ d.stamp \in Int
  BY LenType DEF DecoderType
<1>3. c.tokens = Append(d.tokens, id) /\ c.has_ts = d.has_ts
  BY <1>0 DEF PushToken, DecoderType
<1>4. PICK n \in Nat : n = Len(d.tokens)
  BY <1>2
<1>5. c.tokens[n + 1] = id /\ \A a \in 1..n : c.tokens[a] = d.tokens[a]
  BY <1>2, <1>3, <1>4
<1>6. PICK e : e = UpdateDecoder(p, w, c, k)
  OBVIOUS
<1>7. /\ e.tokens = c.tokens /\ e.stamp = d.stamp
      /\ d.has_ts => e.has_ts
      /\ id > TokenBeg => e.has_ts
      /\ \/ e.seek_delta = Chunk
         \/ id > TokenBeg /\ e.seek_delta = Frames(id)
         \/ e.seek_delta = d.seek_delta /\ (id > TokenBeg => Frames(id) <= d.seek_delta)
  <2>1. Len(c.tokens) > 0 /\ c.tokens[Len(c.tokens)] = id
    BY <1>1, <1>4, <1>5
  <2>2. QED
    BY <1>1, <1>3, <1>6, <2>1, UpdateShift
<1>8. TokenBeg \in Nat /\ Chunk \in Nat /\ id \in Int /\ Frames(id) \in Int /\ Frames(id) <= Chunk
  BY FramesInChunk, VocabAssumption
<1>9. ASSUME NEW a \in 1..n PROVE d.tokens[a] \in Vocab /\ d.tokens[a] \in Int /\ Frames(d.tokens[a]) \in Int /\ Frames(d.tokens[a]) <= Chunk
  <2>1. d.tokens[a] \in Vocab
    BY <1>2, <1>4
  <2>2. QED
    BY <2>1, FramesInChunk
<1>10. ASSUME NEW a \in 1..n, id >= TokenBeg, d.tokens[a] >= TokenBeg PROVE d.tokens[a] <= id
  <2>1. CASE d.tokens[a] > TokenBeg
    <3>1. d.has_ts /\ Frames(d.tokens[a]) <= d.seek_delta
      BY <2>1, <1>4 DEF Timed, Shifted
    <3>2. id >= TokenBeg + d.seek_delta \div 2
      BY <3>1, <1>10 DEF NotBeforeLast
    <3>3. PICK x \in Int : x = d.tokens[a]
      BY <1>9
    <3>4. x - TokenBeg <= d.seek_delta \div 2 /\ d.seek_delta \div 2 \in Int
      BY <3>1, <3>3, <1>2, <1>8, SMTT(30) DEF Frames
    <3>5. QED
      BY <3>2, <3>3, <3>4, <1>8
  <2>2. CASE ~(d.tokens[a] > TokenBeg)
    BY <2>2, <1>8, <1>9, <1>10
  <2>3. QED
    BY <2>1, <2>2
<1>11. Ordered(e.tokens)
  <2> SUFFICES ASSUME NEW a \in 1..(n + 1), NEW b \in 1..(n + 1), a < b,
                      c.tokens[a] >= TokenBeg, c.tokens[b] >= TokenBeg
               PROVE  c.tokens[a] <= c.tokens[b]
    BY <1>1, <1>4, <1>7 DEF Ordered
  <2>1. a \in 1..n
    OBVIOUS
  <2>2. CASE b = n + 1
    BY <2>1, <2>2, <1>5, <1>10
  <2>3. CASE b \in 1..n
    BY <2>1, <2>3, <1>4, <1>5 DEF Timed, Ordered
  <2>4. QED
    BY <2>2, <2>3
<1>12. Shifted(e)
  <2> SUFFICES ASSUME NEW a \in 1..(n + 1), c.tokens[a] > TokenBeg
               PROVE  e.has_ts /\ Frames(c.tokens[a]) <= e.seek_delta
    BY <1>1, <1>4, <1>7 DEF Shifted
  <2>1. CASE a = n + 1
    BY <2>1, <1>2, <1>5, <1>7, <1>8
  <2>2. CASE a \in 1..n
    <3>1. /\ d.has_ts /\ Frames(d.tokens[a]) <= d.seek_delta /\ d.tokens[a] > TokenBeg
          /\ c.tokens[a] = d.tokens[a]
      BY <2>2, <1>4, <1>5 DEF Timed, Shifted
    <3>2. id > TokenBeg => Frames(d.tokens[a]) <= Frames(id)
      <4>1. PICK x \in Int : x = d.tokens[a]
        BY <2>2, <1>9
      <4>2. id > TokenBeg => x <= id
        BY <2>2, <3>1, <4>1, <1>8, <1>10
      <4>3. QED
        BY <4>1, <4>2, <1>8 DEF Frames
    <3>3. QED
      BY <2>2, <3>1, <3>2, <1>2, <1>7, <1>8, <1>9
  <2>3. QED
    BY <2>1, <2>2
<1>13. e.stamp > 0 => e.seek_delta <= Chunk
  BY <1>2, <1>7, <1>8 DEF Timed
<1>14. QED
  BY <1>0, <1>6, <1>11, <1>12, <1>13 DEF Timed

\* What a candidate adds to its decoder is a token the filters leave.
LEMMA CandidateToken ==
    ASSUME NEW j \in Decoders, NEW c \in Candidates(j)
    PROVE  \E id \in Vocab, tid \in Int :
              /\ c = PushToken(dec[j], id, tid)
              /\ id \in AllowedTokens(params, dec[j]) /\ NotBeforeLast(dec[j], id)
              /\ dec[j].tokens = <<>> => tid \in TidsOf(params, dec[j], id)
<1>1. PICK id \in AllowedTokens(params, dec[j]) :
        c \in {PushToken(dec[j], id, tid) : tid \in IF dec[j].tokens = <<>>
                                                   THEN TidsOf(params, dec[j], id) ELSE {0}}
  BY DEF Candidates
<1>2. PICK tid \in (IF dec[j].tokens = <<>> THEN TidsOf(params, dec[j], id) ELSE {0}) :
        c = PushToken(dec[j], id, tid)
  BY <1>1
<1>3. id \in Vocab /\ NotBeforeLast(dec[j], id)
  BY DEF AllowedTokens
<1>4. TidsOf(params, dec[j], id) \subseteq Int
  <2>1. {id} \subseteq Int /\ {0} \subseteq Int /\ {TokenBeg} \subseteq Int
    BY <1>3, VocabIsInt, VocabAssumption
  <2>2. AllowedTokens(params, dec[j]) \cap Times \subseteq Int
    BY VocabIsInt
  <2>3. QED
    BY <2>1, <2>2, Zenon DEF TidsOf
<1>5. tid \in Int
  BY <1>2, <1>4
<1>6. dec[j].tokens = <<>> => tid \in TidsOf(params, dec[j], id)
  BY <1>2
<1>7. QED
  BY <1>2, <1>3, <1>5, <1>6

\* A running decoder continues, by one token, the sequence of a running one.
LEMMA SampledFrom ==
    ASSUME IInv, Sample, NEW j \in Running
    PROVE  \E s \in Running, id \in Vocab, tid \in Int :
              /\ s \in Decoders
              /\ dec'[j] = UpdateDecoder(params, Window, PushToken(dec[s], id, tid), i)
              /\ id \in AllowedTokens(params, dec[s]) /\ NotBeforeLast(dec[s], id)
              /\ dec[s].tokens = <<>> => tid \in TidsOf(params, dec[s], id)
<1>1. NDecodersCur \in Nat /\ NDecodersCur <= MaxDecoders
  BY DecoderRange DEF Sample, IInv, TypeOK, DecodersFit, InLoop
<1>2. Running \subseteq Decoders
  BY <1>1, LoopAssumption DEF Running, Decoders
<1>3. PICK next \in [Running -> UNION {Candidates(s) : s \in Running}] :
        dec' = [k \in Decoders |-> IF k \in Running THEN UpdateDecoder(params, Window, next[k], i)
                                   ELSE dec[k]]
  BY DEF Sample
<1>4. PICK s \in Running : next[j] \in Candidates(s)
  BY <1>3
<1>5. dec'[j] = UpdateDecoder(params, Window, next[j], i)
  BY <1>2, <1>3
<1>6. PICK id \in Vocab, tid \in Int :
         /\ next[j] = PushToken(dec[s], id, tid)
         /\ id \in AllowedTokens(params, dec[s]) /\ NotBeforeLast(dec[s], id)
         /\ dec[s].tokens = <<>> => tid \in TidsOf(params, dec[s], id)
  BY <1>2, <1>4, CandidateToken
<1>7. QED
  BY <1>2, <1>5, <1>6

\* A decoder without tokens is timed if its shift lies in the chunk.
LEMMA EmptyTimed ==
    ASSUME NEW d, d.tokens = <<>>, d.stamp > 0 => d.seek_delta <= Chunk
    PROVE  Timed(d)
<1>1. 1..Len(d.tokens) = {}
  OBVIOUS
<1>2. QED
  BY <1>1 DEF Timed, Ordered, Shifted

\* The cut to the result keeps the times.
LEMMA RankTimed ==
    ASSUME NEW d \in DecoderType, d.result_len <= Len(d.tokens), Timed(d),
           NEW le \in BOOLEAN, NEW la \in BOOLEAN
    PROVE  Timed(RankDecoder(d, le, la))
<1>0. PICK e : e = RankDecoder(d, le, la)
  OBVIOUS
<1>1. /\ e.has_ts = d.has_ts /\ e.seek_delta = d.seek_delta /\ e.stamp = d.stamp
      /\ e.tokens = IF d.failed THEN d.tokens ELSE SubSeq(d.tokens, 1, d.result_len)
  BY <1>0 DEF RankDecoder, DecoderType
<1>2. /\ d.tokens \in Seq(Vocab) /\ d.result_len \in Nat /\ Len(d.tokens) \in Nat
      /\ d.seek_delta \in Int
  BY LenType DEF DecoderType
<1>3. Len(e.tokens) \in Nat /\ Len(e.tokens) <= Len(d.tokens) /\ \A a \in 1..Len(e.tokens) : e.tokens[a] = d.tokens[a]
  <2>1. CASE d.failed
    BY <1>1, <1>2, <2>1
  <2>2. CASE ~d.failed
    BY <1>1, <1>2, <2>2, SubSeqFacts
  <2>3. QED
    BY <2>1, <2>2
<1>4. \A a \in 1..Len(e.tokens) : a \in 1..Len(d.tokens)
  BY <1>2, <1>3
<1>5. Ordered(e.tokens)
  BY <1>3, <1>4 DEF Timed, Ordered
<1>6. Shifted(e)
  BY <1>1, <1>3, <1>4 DEF Timed, Shifted
<1>7. QED
  BY <1>0, <1>1, <1>5, <1>6 DEF Timed

TimeInv == \A j \in Decoders : Timed(dec[j])

\* A new window keeps the sequences of the one before.
LEMMA TimeWindow == ASSUME IInv, TimeInv, BeginWindow PROVE TimeInv'
<1> SUFFICES ASSUME NEW j \in Decoders PROVE Timed(dec'[j])
  BY DEF TimeInv
<1>1. PICK k : k = Smaller(dec[j].stamp, 0)
  OBVIOUS
<1>2. dec[j] \in DecoderType /\ k \in Int /\ ~(k > 0)
  BY <1>1 DEF IInv, TypeOK, DecoderType, Smaller
<1>3. dec'[j] = [dec[j] EXCEPT !.stamp = k]
  BY <1>1 DEF BeginWindow
<1>4. PICK e : e = dec'[j]
  OBVIOUS
<1>5. /\ e.tokens = dec[j].tokens /\ e.has_ts = dec[j].has_ts
      /\ e.seek_delta = dec[j].seek_delta /\ e.stamp = k
  BY <1>2, <1>3, <1>4 DEF DecoderType
<1>6. Timed(dec[j])
  BY DEF TimeInv
<1>7. Timed(e)
  BY <1>2, <1>5, <1>6 DEF Timed, Ordered, Shifted
<1>8. QED
  BY <1>4, <1>7

\* A temperature begins with empty sequences.
LEMMA TimeReset == ASSUME IInv, TimeInv, ResetDecoders PROVE TimeInv'
<1>1. it \in Int
  BY DEF IInv, TypeOK
<1>2. FreshDecoder(it).seek_delta = Chunk /\ FreshDecoder(it).tokens = <<>> /\ Chunk \in Int
  BY VocabAssumption DEF FreshDecoder
<1>3. Timed(FreshDecoder(it))
  BY <1>2, EmptyTimed
<1>4. QED
  BY <1>3 DEF ResetDecoders, TimeInv

\* Every token sampled for a decoder keeps its sequence timed.
LEMMA TimeSample == ASSUME IInv, TimeInv, Sample PROVE TimeInv'
<1> SUFFICES ASSUME NEW j \in Decoders PROVE Timed(dec'[j])
  BY DEF TimeInv
<1>1. CASE j \in Running
  <2>1. PICK s \in Running, id \in Vocab, tid \in Int :
           /\ s \in Decoders
           /\ dec'[j] = UpdateDecoder(params, Window, PushToken(dec[s], id, tid), i)
           /\ NotBeforeLast(dec[s], id)
    BY <1>1, SampledFrom
  <2>2. i \in Nat /\ dec[s] \in DecoderType /\ Timed(dec[s])
    BY <2>1 DEF IInv, TypeOK, TimeInv
  <2>3. QED
    BY <2>1, <2>2, SampledTimed
<1>2. CASE j \notin Running
  <2>1. dec'[j] = dec[j]
    BY <1>2, SampleFacts
  <2>2. QED
    BY <2>1 DEF TimeInv
<1>3. QED
  BY <1>1, <1>2

\* Ranking cuts the sequences.
LEMMA TimeRank == ASSUME IInv, TimeInv, Rank PROVE TimeInv'
<1> SUFFICES ASSUME NEW j \in Decoders PROVE Timed(dec'[j])
  BY DEF TimeInv
<1>1. NDecodersCur \in Nat /\ NDecodersCur <= MaxDecoders
  BY DecoderRange DEF Rank, IInv, TypeOK, DecodersFit, InLoop
<1>2. PICK le \in [0..(NDecodersCur - 1) -> BOOLEAN], la \in [0..(NDecodersCur - 1) -> BOOLEAN] :
        dec' = [k \in Decoders |->
                  IF k < NDecodersCur THEN RankDecoder(dec[k], le[k], la[k]) ELSE dec[k]]
  BY DEF Rank
<1>3. dec[j] \in DecoderType /\ dec[j].result_len <= Len(dec[j].tokens) /\ Timed(dec[j])
  BY DEF IInv, TypeOK, ResultWithinTokens, TimeInv
<1>4. CASE j < NDecodersCur
  <2>1. j \in 0..(NDecodersCur - 1)
    BY <1>1, <1>4 DEF Decoders
  <2>2. le[j] \in BOOLEAN /\ la[j] \in BOOLEAN
    BY <1>2, <2>1
  <2>3. dec'[j] = RankDecoder(dec[j], le[j], la[j])
    BY <1>2, <1>4
  <2>4. QED
    BY <1>3, <2>2, <2>3, RankTimed
<1>5. CASE ~(j < NDecodersCur)
  BY <1>2, <1>3, <1>5
<1>6. QED
  BY <1>4, <1>5

\* All sequences are timed, in every state.
THEOREM TimeInvariance == Spec => []TimeInv
<1>1. Init => TimeInv
  <2> SUFFICES ASSUME Init, NEW j \in Decoders PROVE Timed(dec[j])
    BY DEF TimeInv
  <2>1. PICK u \in UninitInts :
          dec = [k \in Decoders |-> [FreshDecoder(-1) EXCEPT !.seek_delta = u]]
    BY DEF Init, InitDecoders
  <2>2. dec[j].tokens = <<>> /\ dec[j].stamp = -1
    BY <2>1 DEF FreshDecoder
  <2>3. QED
    BY <2>2, EmptyTimed
<1>2. IInv /\ TimeInv /\ [Next]_vars => TimeInv'
  <2> SUFFICES ASSUME IInv, TimeInv, [Next]_vars PROVE TimeInv'
    OBVIOUS
  <2>1. CASE BeginWindow
    BY <2>1, TimeWindow
  <2>2. CASE PromptThrows \/ KvInitFails \/ DecodePrompt
    BY <2>2, TimeReset DEF PromptThrows, KvInitFails, DecodePrompt
  <2>3. CASE Sample
    BY <2>3, TimeSample
  <2>4. CASE Rank
    BY <2>4, TimeRank
  <2>5. CASE dec' = dec
    BY <2>5 DEF TimeInv
  <2>6. QED
    BY <2>1, <2>2, <2>3, <2>4, <2>5
    DEF Next, Work, Call, DetectFails, ReturnEarly, PreparePrompt, Finish, StopBeforeWindow,
        EndSampling, DecodeBatch, Output, Rest, vars
<1>3. QED
  BY <1>1, <1>2, Invariance, PTL DEF Spec

\* The timestamps of every sequence, of every decoder, greedy or beam, never
\* decrease.
THEOREM TimestampsNeverDecrease == Spec => []TimestampsIncrease
<1>1. TimeInv => TimestampsIncrease
  BY DEF TimeInv, Timed, Ordered, TimestampsIncrease
<1>2. QED
  BY <1>1, TimeInvariance, PTL
-----------------------------------------------------------------------------
(* The order of the segments.  Within a window the ends are timestamps of  *)
(* one timed sequence, or its shift, which is above them all.  Across      *)
(* windows the next seek is at or after the last end, unless the audio is  *)
(* over.  The first segment of a window starts at its seek or later        *)
(* because the first token of a decoder gets its tid from a filter that    *)
(* leaves the timestamp 0.00.                                              *)

Segment == [t0 : Int, t1 : Int]

InOrder(r) == \A k \in 1..(Len(r) - 1) : r[k].t1 <= r[k + 1].t0

\* The timestamps of a sequence, and what their order says of the ends.
LEMMA MarkFacts ==
    ASSUME NEW p, NEW d \in DecoderType
    PROVE  /\ TimeMarks(p, d.tokens) \subseteq 1..Len(d.tokens)
           /\ \A m \in TimeMarks(p, d.tokens) :
                 d.tokens[m] \in Int /\ d.tokens[m] > TokenBeg /\ Frames(d.tokens[m]) \in Int
           /\ Cuts(p, d.tokens) \subseteq TimeMarks(p, d.tokens)
           /\ TextEnds(p, d.tokens) \subseteq Cuts(p, d.tokens) \cup {Len(d.tokens) + 1}
           /\ TextEnds(p, d.tokens) \in SUBSET Nat /\ IsFiniteSet(TextEnds(p, d.tokens))
<1>1. d.tokens \in Seq(Vocab) /\ Len(d.tokens) \in Nat
  BY LenType DEF DecoderType
<1>2. PICK n \in Nat : n = Len(d.tokens)
  BY <1>1
<1>3. TimeMarks(p, d.tokens) \subseteq 1..n /\ \A m \in TimeMarks(p, d.tokens) : d.tokens[m] > TokenBeg
  BY <1>2 DEF TimeMarks
<1>4. \A m \in TimeMarks(p, d.tokens) : d.tokens[m] \in Vocab
  BY <1>1, <1>2, <1>3
<1>5. \A m \in TimeMarks(p, d.tokens) : d.tokens[m] \in Int /\ Frames(d.tokens[m]) \in Int
  BY <1>4, FramesInChunk
<1>6. Cuts(p, d.tokens) \subseteq TimeMarks(p, d.tokens)
  BY DEF Cuts
<1>7. TextEnds(p, d.tokens) \subseteq Cuts(p, d.tokens) \cup {n + 1}
  BY <1>2 DEF TextEnds
<1>8. TextEnds(p, d.tokens) \subseteq 1..(n + 1)
  BY <1>3, <1>6, <1>7
<1>9. IsFiniteSet(1..(n + 1)) /\ 1..(n + 1) \subseteq Nat
  BY FS_Interval
<1>10. IsFiniteSet(TextEnds(p, d.tokens)) /\ TextEnds(p, d.tokens) \in SUBSET Nat
  BY <1>8, <1>9, FS_Subset
<1>11. QED
  BY <1>2, <1>3, <1>5, <1>6, <1>7, <1>10

\* Segment s starts at the first tid or at the last timestamp in front of k, and
\* ends at k, or at the shift.
From(p, d, seek0, k, s) ==
    LET before == {m \in TimeMarks(p, d.tokens) : m < k}
    IN /\ s = [t0 |-> s.t0, t1 |-> s.t1] /\ s.t0 \in Int
       /\ s.t1 = IF k > Len(d.tokens) THEN seek0 + d.seek_delta ELSE seek0 + Frames(d.tokens[k])
       /\ before = {} => s.t0 = seek0 + Frames(d.tid0)
       /\ before # {} => \E m \in before : /\ s.t0 = seek0 + Frames(d.tokens[m])
                                           /\ \A b \in before : b <= m

\* The times of the segment that ends at k.
LEMMA StartFacts ==
    ASSUME NEW p, NEW d \in DecoderType, NEW seek0 \in Int, NEW k \in Nat
    PROVE  From(p, d, seek0, k, SegmentTo(p, d, seek0, k))
<1> DEFINE before == {m \in TimeMarks(p, d.tokens) : m < k}
           start  == IF before = {} THEN d.tid0
                     ELSE d.tokens[CHOOSE m \in before : \A b \in before : b <= m]
           end    == IF k > Len(d.tokens) THEN TrailingEnd(d, seek0) ELSE seek0 + Frames(d.tokens[k])
           s      == SegmentTo(p, d, seek0, k)
<1>1. s = [t0 |-> seek0 + Frames(start), t1 |-> end]
  BY DEF SegmentTo
<1>2. before \in SUBSET Nat /\ \A b \in before : b <= k
  <2>1. TimeMarks(p, d.tokens) \subseteq 1..Len(d.tokens)
    BY MarkFacts, Zenon
  <2>2. QED
    BY <2>1, LenType
<1>3. ASSUME before # {}
      PROVE  \E m \in before : start = d.tokens[m] /\ \A b \in before : b <= m
  <2> HIDE DEF before
  <2>1. \E m \in before : \A b \in before : b <= m
    BY <1>2, <1>3, GreatestNat
  <2>2. QED
    BY <1>3, <2>1
<1>4. d.tid0 \in Int /\ TokenBeg \in Int
  BY VocabAssumption DEF DecoderType
<1>5. start \in Int
  <2>1. CASE before = {}
    BY <1>4, <2>1
  <2>2. CASE before # {}
    <3>1. PICK m \in before : start = d.tokens[m]
      BY <1>3, <2>2
    <3>2. d.tokens[m] \in Int
      BY MarkFacts
    <3>3. QED
      BY <3>1, <3>2
  <2>3. QED
    BY <2>1, <2>2
<1>6. before = {} => start = d.tid0
  OBVIOUS
<1> HIDE DEF start, before
<1>7. seek0 + Frames(start) \in Int
  BY <1>4, <1>5 DEF Frames
<1>8. s.t0 = seek0 + Frames(start) /\ s.t1 = end
  BY <1>1
<1>9. end = IF k > Len(d.tokens) THEN seek0 + d.seek_delta ELSE seek0 + Frames(d.tokens[k])
  BY DEF TrailingEnd
<1>10. s = [t0 |-> s.t0, t1 |-> s.t1] /\ s.t0 \in Int
  BY <1>1, <1>7, <1>8
<1> HIDE DEF s, end
<1>11. QED
  BY <1>3, <1>6, <1>8, <1>9, <1>10 DEF s, before, From

\* A segment, in a timed sequence, lies between the seek of its window and the
\* shift, and after every segment of the window that ends earlier.
LEMMA SegmentBounds ==
    ASSUME NEW p, NEW d \in DecoderType, NEW seek0 \in Int,
           NEW k \in Cuts(p, d.tokens) \cup {Len(d.tokens) + 1}
    PROVE  /\ SegmentTo(p, d, seek0, k) \in Segment
           /\ (Timed(d) /\ d.tid0 >= TokenBeg) =>
                /\ SegmentTo(p, d, seek0, k).t0 >= seek0
                /\ SegmentTo(p, d, seek0, k).t1 <= seek0 + d.seek_delta
                /\ \A e \in Cuts(p, d.tokens) :
                      e < k => SegmentTo(p, d, seek0, e).t1 <= SegmentTo(p, d, seek0, k).t0
<1> DEFINE t      == d.tokens
           marks  == TimeMarks(p, t)
           before == {m \in marks : m < k}
<1>1. Len(t) \in Nat /\ d.seek_delta \in Int /\ d.tid0 \in Int /\ TokenBeg \in Int
  BY LenType, VocabAssumption DEF DecoderType
<1>2. /\ marks \subseteq 1..Len(t)
      /\ \A m \in marks : t[m] \in Int /\ t[m] > TokenBeg /\ Frames(t[m]) \in Int
      /\ Cuts(p, t) \subseteq marks
  BY MarkFacts, Zenon
<1>3. k \in Nat /\ (k > Len(t) \/ k \in marks)
  BY <1>1, <1>2
<1>4. PICK s : s = SegmentTo(p, d, seek0, k)
  OBVIOUS
<1>5. /\ s = [t0 |-> s.t0, t1 |-> s.t1] /\ s.t0 \in Int
      /\ s.t1 = IF k > Len(t) THEN seek0 + d.seek_delta ELSE seek0 + Frames(t[k])
      /\ before = {} => s.t0 = seek0 + Frames(d.tid0)
      /\ before # {} => \E m \in before : /\ s.t0 = seek0 + Frames(t[m])
                                          /\ \A b \in before : b <= m
  <2>1. From(p, d, seek0, k, s)
    BY <1>3, <1>4, StartFacts
  <2>2. QED
    BY <2>1, Zenon DEF From
<1> HIDE DEF t, marks
<1>6. s.t1 \in Int
  BY <1>1, <1>2, <1>3, <1>5
<1>7. s \in Segment
  BY <1>5, <1>6 DEF Segment
<1>8. ASSUME Timed(d), d.tid0 >= TokenBeg
      PROVE  /\ s.t0 >= seek0 /\ s.t1 <= seek0 + d.seek_delta
             /\ \A e \in Cuts(p, t) : e < k => SegmentTo(p, d, seek0, e).t1 <= s.t0
  <2>1. \A m \in marks : Frames(t[m]) > 0 /\ Frames(t[m]) <= d.seek_delta
    <3>1. ASSUME NEW m \in marks PROVE Frames(t[m]) > 0
      <4>1. PICK x \in Int : x = t[m] /\ x > TokenBeg
        BY <1>2
      <4>2. QED
        BY <1>1, <4>1 DEF Frames
    <3>2. ASSUME NEW m \in marks PROVE Frames(t[m]) <= d.seek_delta
      BY <1>2, <1>8 DEF Timed, Shifted, t
    <3>3. QED
      BY <3>1, <3>2
  <2>2. Frames(d.tid0) >= 0 /\ Frames(d.tid0) \in Int
    BY <1>1, <1>8 DEF Frames
  <2>3. s.t0 >= seek0
    <3>1. CASE before = {}
      BY <1>5, <2>2, <3>1
    <3>2. CASE before # {}
      <4>1. PICK m \in before : s.t0 = seek0 + Frames(t[m])
        BY <1>5, <3>2
      <4>2. QED
        BY <1>2, <2>1, <4>1
    <3>3. QED
      BY <3>1, <3>2
  <2>4. s.t1 <= seek0 + d.seek_delta
    <3>1. CASE k > Len(t)
      BY <1>1, <1>5, <3>1
    <3>2. CASE ~(k > Len(t))
      <4>1. k \in marks /\ s.t1 = seek0 + Frames(t[k])
        BY <1>3, <1>5, <3>2
      <4>2. QED
        BY <1>1, <1>2, <2>1, <4>1
    <3>3. QED
      BY <3>1, <3>2
  <2>5. ASSUME NEW e \in Cuts(p, t), e < k
        PROVE  SegmentTo(p, d, seek0, e).t1 <= s.t0
    <3>1. e \in marks /\ e \in Nat /\ e \in 1..Len(t) /\ ~(e > Len(t)) /\ e \in before
      BY <1>1, <1>2, <2>5
    <3>2. SegmentTo(p, d, seek0, e).t1 = seek0 + Frames(t[e])
      <4>1. SegmentTo(p, d, seek0, e).t1
              = IF e > Len(t) THEN seek0 + d.seek_delta ELSE seek0 + Frames(t[e])
        BY <3>1, StartFacts DEF t, From
      <4>2. QED
        BY <3>1, <4>1
    <3>3. PICK m \in before : s.t0 = seek0 + Frames(t[m]) /\ e <= m
      BY <1>5, <3>1
    <3>4. m \in marks /\ m \in 1..Len(t)
      BY <1>2, <3>3
    <3>5. PICK x \in Int, y \in Int : x = t[e] /\ y = t[m] /\ x > TokenBeg /\ y > TokenBeg
      BY <1>2, <3>1, <3>4
    <3>6. x <= y
      <4>1. CASE e = m
        BY <3>5, <4>1
      <4>2. CASE e < m
        BY <1>1, <1>8, <3>1, <3>4, <3>5, <4>2 DEF Timed, Ordered, t
      <4>3. QED
        BY <3>1, <3>3, <3>4, <4>1, <4>2
    <3>7. QED
      BY <1>1, <3>2, <3>3, <3>5, <3>6, SMTT(30) DEF Frames
  <2>6. QED
    BY <2>3, <2>4, <2>5
<1>9. QED
  BY <1>4, <1>7, <1>8 DEF t

\* The segments of a window in the order of their ends.
LEMMA WindowOrder ==
    ASSUME NEW p, NEW d \in DecoderType, NEW seek0 \in Int
    PROVE  /\ WindowSegments(p, d, seek0) \in Seq(Segment)
           /\ (Timed(d) /\ d.tid0 >= TokenBeg) =>
                /\ InOrder(WindowSegments(p, d, seek0))
                /\ \A n \in 1..Len(WindowSegments(p, d, seek0)) :
                      /\ WindowSegments(p, d, seek0)[n].t0 >= seek0
                      /\ WindowSegments(p, d, seek0)[n].t1 <= seek0 + d.seek_delta
<1> DEFINE ends == TextEnds(p, d.tokens)
           N    == Cardinality(ends)
<1>1. PICK w : w = WindowSegments(p, d, seek0)
  OBVIOUS
<1>2. w = [n \in 1..N |-> SegmentTo(p, d, seek0, Nth(ends, n))]
  BY <1>1 DEF WindowSegments
<1>3. /\ ends \in SUBSET Nat /\ IsFiniteSet(ends)
      /\ ends \subseteq Cuts(p, d.tokens) \cup {Len(d.tokens) + 1}
      /\ Len(d.tokens) \in Nat
  BY MarkFacts, LenType, Zenon
<1> HIDE DEF ends
<1>4. N \in Nat
  BY <1>3, FS_CardinalityType
<1>5. /\ \A n \in 1..N : Nth(ends, n) \in ends
      /\ \A m, n \in 1..N : m < n => Nth(ends, m) < Nth(ends, n)
  BY <1>3, NthFacts, Zenon
<1>6. ASSUME NEW n \in 1..(N - 1) PROVE Nth(ends, n) \in Cuts(p, d.tokens) /\ Nth(ends, n) < Nth(ends, n + 1)
  <2>1. n \in 1..N /\ n + 1 \in 1..N /\ n < n + 1
    BY <1>4
  <2>2. PICK x \in ends, y \in ends : x = Nth(ends, n) /\ y = Nth(ends, n + 1) /\ x < y
    BY <1>5, <2>1
  <2>3. x \in Nat /\ y \in Nat
    BY <1>3
  <2>4. y <= Len(d.tokens) + 1
    <3>1. \A z \in Cuts(p, d.tokens) : z <= Len(d.tokens)
      <4>1. Cuts(p, d.tokens) \subseteq 1..Len(d.tokens)
        BY MarkFacts, Zenon
      <4>2. QED
        BY <1>3, <4>1
    <3>2. QED
      BY <1>3, <2>3, <3>1
  <2>5. x \in Cuts(p, d.tokens)
    BY <1>3, <2>2, <2>3, <2>4
  <2>6. QED
    BY <2>2, <2>5
<1>7. ASSUME NEW n \in 1..N
      PROVE  /\ w[n] = SegmentTo(p, d, seek0, Nth(ends, n)) /\ w[n] \in Segment
             /\ (Timed(d) /\ d.tid0 >= TokenBeg) => w[n].t0 >= seek0 /\ w[n].t1 <= seek0 + d.seek_delta
  BY <1>2, <1>3, <1>5, SegmentBounds
<1>8. w \in Seq(Segment) /\ Len(w) = N
  BY <1>2, <1>4, <1>7
<1>9. ASSUME Timed(d), d.tid0 >= TokenBeg, NEW n \in 1..(N - 1) PROVE w[n].t1 <= w[n + 1].t0
  <2>1. n \in 1..N /\ n + 1 \in 1..N
    BY <1>4
  <2>2. Nth(ends, n + 1) \in Cuts(p, d.tokens) \cup {Len(d.tokens) + 1}
    BY <1>3, <1>5, <2>1
  <2>3. SegmentTo(p, d, seek0, Nth(ends, n)).t1 <= SegmentTo(p, d, seek0, Nth(ends, n + 1)).t0
    BY <1>6, <1>9, <2>2, SegmentBounds
  <2>4. QED
    BY <1>7, <2>1, <2>3
<1>10. (Timed(d) /\ d.tid0 >= TokenBeg) => InOrder(w)
  BY <1>8, <1>9 DEF InOrder
<1>11. QED
  BY <1>1, <1>7, <1>8, <1>10

\* The call samples timestamps at some temperature.
Timestamped == ~params.no_timestamps /\ Temperatures # <<>>

\* The first tid of every sequence of this window is a timestamp.
FirstTids ==
    (pc \in InLoop \ {"window"} /\ ~params.no_timestamps) =>
        \A j \in Decoders : (dec[j].stamp > 0 /\ dec[j].tokens # <<>>) => dec[j].tid0 >= TokenBeg

\* No timestamp was sampled for a sequence without tokens.
NoTimeYet == pc = "sample" => \A j \in Running : dec[j].tokens = <<>> => ~dec[j].has_ts

EndsBy(x) == result_all # <<>> => result_all[Len(result_all)].t1 <= x

\* Between windows the result ends at seek, unless the audio is over.
ResultOrder ==
    Timestamped => /\ InOrder(result_all)
                   /\ pc \in InLoop => EndsBy(seek) \/ (pc = "window" /\ seek >= SeekEnd)

ResultType == result_all \in Seq(Segment) /\ (pc = "begin" => result_all = <<>>)

OrderInv == FirstTids /\ NoTimeYet /\ ResultType /\ ResultOrder

\* The filters leave the timestamp 0.00 for the first token, so its tid is a
\* timestamp whatever the token is.
LEMMA FirstTid ==
    ASSUME NEW d \in DecoderType, d.tokens = <<>>, ~d.has_ts,
           params \in ParamSet, ~params.no_timestamps,
           NEW id \in Vocab, NEW tid \in TidsOf(params, d, id)
    PROVE  tid >= TokenBeg
<1> DEFINE allowed == AllowedTokens(params, d)
<1>1. params.max_tokens \in Nat /\ params.max_initial_ts \in Nat
  BY ParamAssumption
<1>2. TokenBeg \in Nat /\ TokenEot \in Nat /\ TokenEot < TokenBeg /\ NTs \in Nat
  BY VocabAssumption DEF NTs
<1>3. TokenBeg \in Times /\ TokenBeg \in Vocab /\ \A x \in Times : x >= TokenBeg
  BY <1>2 DEF Times, Vocab
<1>4. TokenBeg \in allowed
  <2>1. Len(d.tokens) = 0
    OBVIOUS
  <2>2. NotBeforeLast(d, TokenBeg)
    BY DEF NotBeforeLast
  <2>3. QED
    BY <1>1, <1>2, <1>3, <2>1, <2>2 DEF AllowedTokens
<1> HIDE DEF allowed
<1>5. allowed \cap Times # {}
  BY <1>3, <1>4
<1>6. tid \in (IF id >= TokenBeg THEN {id} ELSE allowed \cap Times)
  BY <1>5, Zenon DEF TidsOf, allowed
<1>7. QED
  BY <1>3, <1>6

\* Ranking and resetting leave the first tids.
LEMMA RankTid ==
    ASSUME NEW d \in DecoderType, NEW le, NEW la
    PROVE  RankDecoder(d, le, la).tid0 = d.tid0
BY DEF RankDecoder, DecoderType

\* The first token sampled for a sequence brings a timestamp as tid.
LEMMA TidSample ==
    ASSUME IInv, ProgressInv, FirstTids, NoTimeYet, Sample
    PROVE  FirstTids'
<1> SUFFICES ASSUME ~params.no_timestamps, NEW j \in Decoders, dec'[j].stamp > 0, dec'[j].tokens # <<>>
             PROVE  dec'[j].tid0 >= TokenBeg
  BY DEF FirstTids, Sample
<1>0. pc = "sample" /\ pc \in InLoop \ {"window"} /\ pc \in Decoding /\ i \in Nat /\ params \in ParamSet
  BY DEF Sample, InLoop, Decoding, IInv, TypeOK
<1>1. CASE j \in Running
  <2>1. PICK s \in Running, id \in Vocab, tid \in Int :
           /\ s \in Decoders
           /\ dec'[j] = UpdateDecoder(params, Window, PushToken(dec[s], id, tid), i)
           /\ dec[s].tokens = <<>> => tid \in TidsOf(params, dec[s], id)
    BY <1>1, SampledFrom
  <2>2. PICK c : c = PushToken(dec[s], id, tid)
    OBVIOUS
  <2>3. dec[s] \in DecoderType
    BY <2>1 DEF IInv, TypeOK
  <2>4. c \in DecoderType /\ Len(c.tokens) > 0
    BY <2>2, <2>3, PushTokenType, LenType
  <2>5. c.tid0 = IF dec[s].tokens = <<>> THEN tid ELSE dec[s].tid0
    BY <2>2, <2>3 DEF PushToken, DecoderType
  <2>6. dec'[j].tid0 = c.tid0
    BY <1>0, <2>1, <2>2, <2>4, UpdateShift
  <2>7. CASE dec[s].tokens = <<>>
    <3>1. ~dec[s].has_ts
      BY <1>0, <2>7 DEF NoTimeYet
    <3>2. tid >= TokenBeg
      BY <1>0, <2>1, <2>3, <2>7, <3>1, FirstTid
    <3>3. QED
      BY <2>5, <2>6, <2>7, <3>2
  <2>8. CASE dec[s].tokens # <<>>
    <3>1. s \in 0..(NDecodersCur - 1)
      BY DEF Running
    <3>2. dec[s].stamp > 0
      BY <1>0, <3>1 DEF ProgressInv, BestIsFresh
    <3>3. dec[s].tid0 >= TokenBeg
      BY <1>0, <2>1, <2>8, <3>2 DEF FirstTids
    <3>4. QED
      BY <2>5, <2>6, <2>8, <3>3
  <2>9. QED
    BY <2>7, <2>8
<1>2. CASE j \notin Running
  <2>1. dec'[j] = dec[j]
    BY <1>2, SampleFacts
  <2>2. QED
    BY <1>0, <2>1 DEF FirstTids
<1>3. QED
  BY <1>1, <1>2

\* A ranked sequence that is not empty had its first token before.
LEMMA TidRank == ASSUME IInv, FirstTids, Rank PROVE FirstTids'
<1> SUFFICES ASSUME ~params.no_timestamps, NEW j \in Decoders, dec'[j].stamp > 0, dec'[j].tokens # <<>>
             PROVE  dec'[j].tid0 >= TokenBeg
  BY DEF FirstTids, Rank
<1>0. pc \in InLoop \ {"window"} /\ dec[j] \in DecoderType /\ dec'[j] \in DecoderType
  BY RankFacts DEF Rank, InLoop, IInv, TypeOK
<1>1. PICK le \in [0..(NDecodersCur - 1) -> BOOLEAN], la \in [0..(NDecodersCur - 1) -> BOOLEAN] :
        dec' = [k \in Decoders |->
                  IF k < NDecodersCur THEN RankDecoder(dec[k], le[k], la[k]) ELSE dec[k]]
  BY DEF Rank
<1>2. dec'[j].tid0 = dec[j].tid0
  <2>1. CASE j < NDecodersCur
    BY <1>0, <1>1, <2>1, RankTid
  <2>2. CASE ~(j < NDecodersCur)
    BY <1>1, <2>2
  <2>3. QED
    BY <2>1, <2>2
<1>3. dec'[j].stamp = dec[j].stamp /\ Len(dec'[j].tokens) <= Len(dec[j].tokens)
  BY RankFacts
<1>4. dec[j].tokens # <<>>
  <2>1. dec'[j].tokens \in Seq(Vocab) /\ Len(dec'[j].tokens) > 0
    BY <1>0 DEF DecoderType
  <2>2. QED
    BY <1>3, <2>1
<1>5. QED
  BY <1>0, <1>2, <1>3, <1>4 DEF FirstTids

\* A reset decoder has no tokens.
LEMMA TidReset ==
    ASSUME IInv, FirstTids, pc = "temperature", ResetDecoders, params' = params
    PROVE  FirstTids'
<1>1. \A j \in Decoders : dec'[j] = IF j < NDecodersCur THEN FreshDecoder(it) ELSE dec[j]
  BY DEF ResetDecoders
<1>2. FreshDecoder(it).tokens = <<>>
  BY DEF FreshDecoder
<1>3. \A j \in Decoders : dec'[j].tokens # <<>> => dec'[j] = dec[j]
  BY <1>1, <1>2
<1>4. QED
  BY <1>3 DEF FirstTids, InLoop

\* Appending the segments of a window that starts where the result ends.
LEMMA Appended ==
    ASSUME NEW r \in Seq(Segment), NEW w \in Seq(Segment), NEW x \in Int, NEW y \in Int,
           InOrder(r), InOrder(w), x <= y,
           r # <<>> => r[Len(r)].t1 <= x,
           \A k \in 1..Len(w) : w[k].t0 >= x /\ w[k].t1 <= y
    PROVE  InOrder(r \o w) /\ (r \o w # <<>> => (r \o w)[Len(r \o w)].t1 <= y)
<1>1. PICK c : c = r \o w
  OBVIOUS
<1>2. PICK m \in Nat, n \in Nat : m = Len(r) /\ n = Len(w)
  OBVIOUS
<1>3. /\ c \in Seq(Segment) /\ Len(c) = m + n
      /\ \A k \in 1..m : c[k] = r[k]
      /\ \A k \in 1..n : c[m + k] = w[k]
  <2>1. c \in Seq(Segment) /\ Len(c) = m + n
    BY <1>1, <1>2
  <2>2. \A k \in 1..(m + n) : c[k] = IF k <= m THEN r[k] ELSE w[k - m]
    BY <1>1, <1>2
  <2>3. ASSUME NEW k \in 1..m PROVE c[k] = r[k]
    <3>1. k \in 1..(m + n) /\ k <= m
      OBVIOUS
    <3>2. QED
      BY <2>2, <3>1
  <2>4. ASSUME NEW k \in 1..n PROVE c[m + k] = w[k]
    <3>1. m + k \in 1..(m + n) /\ ~(m + k <= m) /\ (m + k) - m = k
      OBVIOUS
    <3>2. QED
      BY <2>2, <3>1
  <2>5. QED
    BY <2>1, <2>3, <2>4
<1>4. /\ \A k \in 1..m : r[k].t0 \in Int /\ r[k].t1 \in Int
      /\ \A k \in 1..n : w[k].t0 \in Int /\ w[k].t1 \in Int
  <2>1. (\A k \in 1..m : r[k] \in Segment) /\ (\A k \in 1..n : w[k] \in Segment)
    BY <1>2
  <2>2. QED
    BY <2>1 DEF Segment
<1>5. m > 0 => r[m].t1 <= x
  BY <1>2
<1>6. \A k \in 1..n : w[k].t0 >= x /\ w[k].t1 <= y
  BY <1>2
<1>7. ASSUME NEW k \in 1..(m + n - 1) PROVE c[k].t1 <= c[k + 1].t0
  <2>1. CASE k < m
    <3>1. k \in 1..(m - 1) /\ k \in 1..m /\ k + 1 \in 1..m
      BY <1>2, <2>1
    <3>2. QED
      BY <1>2, <1>3, <3>1 DEF InOrder
  <2>2. CASE k = m
    <3>1. m > 0 /\ m \in 1..m /\ 1 \in 1..n
      BY <1>2, <2>2
    <3>2. c[k] = r[m] /\ c[k + 1] = w[1]
      BY <1>3, <2>2, <3>1
    <3>3. QED
      BY <1>4, <1>5, <1>6, <3>1, <3>2
  <2>3. CASE k > m
    <3>1. PICK l \in 1..(n - 1) : k = m + l
      <4>1. k - m \in 1..(n - 1) /\ k = m + (k - m)
        BY <1>2, <2>3
      <4>2. QED
        BY <4>1
    <3>2. l \in 1..n /\ l + 1 \in 1..n /\ k + 1 = m + (l + 1)
      BY <1>2, <3>1
    <3>3. c[k] = w[l] /\ c[k + 1] = w[l + 1]
      BY <1>3, <3>1, <3>2
    <3>4. QED
      BY <1>2, <3>1, <3>3 DEF InOrder
  <2>4. QED
    BY <1>2, <2>1, <2>2, <2>3
<1>8. InOrder(c)
  BY <1>3, <1>7 DEF InOrder
<1>9. ASSUME c # <<>> PROVE c[Len(c)].t1 <= y
  <2>1. m + n > 0
    BY <1>2, <1>3, <1>9
  <2>2. CASE n > 0
    <3>1. n \in 1..n /\ c[Len(c)] = w[n]
      BY <1>2, <1>3, <2>2
    <3>2. QED
      BY <1>6, <3>1
  <2>3. CASE n = 0
    <3>1. m > 0 /\ m \in 1..m /\ c[Len(c)] = r[m]
      BY <1>2, <1>3, <2>1, <2>3
    <3>2. QED
      BY <1>4, <1>5, <3>1
  <2>4. QED
    BY <1>2, <2>2, <2>3
<1>10. QED
  BY <1>1, <1>8, <1>9

\* What a window adds to the result.
LEMMA NewSegmentFacts ==
    ASSUME IInv, ProgressInv, TimeInv, OrderInv, pc = "output"
    PROVE  /\ NewSegments \in Seq(Segment)
           /\ Timestamped => /\ InOrder(NewSegments)
                             /\ \A k \in 1..Len(NewSegments) :
                                   /\ NewSegments[k].t0 >= seek
                                   /\ NewSegments[k].t1 <= seek + Best.seek_delta
<1>1. best \in Decoders /\ Best \in DecoderType /\ seek \in Int /\ Timed(Best)
  BY DEF IInv, TypeOK, TimeInv, Best
<1>2. CASE IsNoSpeech \/ Best.tokens = <<>>
  <2>1. NewSegments = <<>>
    BY <1>2 DEF NewSegments
  <2>2. QED
    BY <2>1 DEF InOrder
<1>3. CASE ~(IsNoSpeech \/ Best.tokens = <<>>)
  <2>1. NewSegments = WindowSegments(params, Best, seek)
    BY <1>3 DEF NewSegments
  <2>2. Timestamped => Best.tid0 >= TokenBeg
    <3>1. Timestamped => Best.stamp > 0
      BY DEF Timestamped, ProgressInv, BestIsFresh, Best
    <3>2. QED
      BY <1>1, <1>3, <3>1 DEF Timestamped, OrderInv, FirstTids, InLoop, Best
  <2>3. QED
    BY <1>1, <2>1, <2>2, WindowOrder
<1>4. QED
  BY <1>2, <1>3

\* A window is appended to the result and seek moves behind it.
LEMMA OrderOutput == ASSUME IInv, ProgressInv, TimeInv, OrderInv, Output PROVE ResultOrder' /\ ResultType'
<1>1. /\ pc = "output" /\ pc' = "window" /\ UNCHANGED <<params, n_len>>
      /\ result_all' = result_all \o NewSegments
      /\ seek' = seek + SeekAdvance(params, Best, seek, SeekEnd)
  BY DEF Output
<1>2. NewSegments \in Seq(Segment) /\ result_all \in Seq(Segment)
  BY <1>1, NewSegmentFacts DEF OrderInv, ResultType
<1>3. ResultType'
  BY <1>1, <1>2 DEF ResultType
<1>4. ASSUME Timestamped' PROVE InOrder(result_all)' /\ (EndsBy(seek)' \/ (seek >= SeekEnd)')
  <2>1. Timestamped /\ SeekEnd' = SeekEnd
    BY <1>1, <1>4 DEF Timestamped, Temperatures, SeekEnd, SeekStart
  <2>2. EndsBy(seek) /\ InOrder(result_all)
    BY <1>1, <2>1 DEF OrderInv, ResultOrder, InLoop
  <2>3. /\ Best.seek_delta \in Int /\ Best.seek_delta > 0 /\ Best.seek_delta <= Chunk
        /\ seek \in Int /\ Chunk \in Int
    <3>1. best \in Decoders /\ Best \in DecoderType /\ Timed(Best)
      BY DEF IInv, TypeOK, TimeInv, Best
    <3>2. Best.stamp > 0
      BY <1>1, <2>1 DEF Timestamped, ProgressInv, BestIsFresh, Best
    <3>3. QED
      BY <3>1, <3>2, VocabAssumption DEF IInv, TypeOK, DecoderType, ProgressInv, ShiftPositive, Timed, Best
  <2>4. SeekEnd \in Int
    BY ParamTypes DEF IInv, TypeOK, SeekEnd, SeekStart
  <2>5. PICK y \in Int : y = seek + Best.seek_delta
    BY <2>3
  <2>6. InOrder(result_all \o NewSegments)
        /\ (result_all \o NewSegments # <<>> =>
              (result_all \o NewSegments)[Len(result_all \o NewSegments)].t1 <= y)
    <3>1. InOrder(NewSegments) /\ \A k \in 1..Len(NewSegments) :
                                   NewSegments[k].t0 >= seek /\ NewSegments[k].t1 <= y
      BY <1>1, <2>1, <2>5, NewSegmentFacts
    <3>2. seek <= y
      BY <2>3, <2>5
    <3>3. result_all # <<>> => result_all[Len(result_all)].t1 <= seek
      BY <2>2 DEF EndsBy
    <3>4. QED
      BY <1>2, <2>2, <2>3, <3>1, <3>2, <3>3, Appended
  <2>7. seek' >= y \/ seek' >= SeekEnd
    <3>1. SeekAdvance(params, Best, seek, SeekEnd) \in {SeekEnd - seek, Chunk, Best.seek_delta}
      BY Zenon DEF SeekAdvance
    <3>2. QED
      BY <1>1, <2>3, <2>4, <2>5, <3>1
  <2>8. result_all' # <<>> => /\ result_all'[Len(result_all')].t1 <= y
                              /\ result_all'[Len(result_all')].t1 \in Int
    <3>1. PICK r : r = result_all'
      OBVIOUS
    <3>2. r \in Seq(Segment)
      BY <1>1, <1>2, <3>1
    <3>3. r # <<>> => r[Len(r)] \in Segment
      BY <3>2
    <3>4. QED
      BY <1>1, <2>6, <3>1, <3>3 DEF Segment
  <2>9. seek' \in Int
    <3>1. SeekAdvance(params, Best, seek, SeekEnd) \in {SeekEnd - seek, Chunk, Best.seek_delta}
      BY Zenon DEF SeekAdvance
    <3>2. QED
      BY <1>1, <2>3, <2>4, <3>1
  <2>10. EndsBy(seek)' \/ seek' >= SeekEnd'
    BY <2>1, <2>5, <2>7, <2>8, <2>9 DEF EndsBy
  <2>11. QED
    BY <1>1, <2>6, <2>10
<1>5. ResultOrder'
  BY <1>1, <1>4 DEF ResultOrder
<1>6. QED
  BY <1>3, <1>5

\* Steps of a call that add nothing to the result and stay in the window.
LEMMA OrderQuiet ==
    ASSUME OrderInv, UNCHANGED <<result_all, params, seek>>,
           pc' # "begin", pc' \in InLoop => pc \in InLoop \ {"window"}
    PROVE  ResultOrder' /\ ResultType'
<1>1. Timestamped' = Timestamped
  BY DEF Timestamped, Temperatures
<1>2. ResultType'
  BY DEF OrderInv, ResultType
<1>3. ResultOrder'
  BY <1>1 DEF OrderInv, ResultOrder, EndsBy, InOrder
<1>4. QED
  BY <1>2, <1>3

\* A window begins: the audio is not over, so the result ends at seek.
LEMMA OrderWindow == ASSUME IInv, OrderInv, BeginWindow PROVE OrderInv'
<1>1. /\ pc = "window" /\ pc' \in {"output", "temperature"}
      /\ UNCHANGED <<result_all, params, seek, n_len>> /\ seek + DeltaMin < SeekEnd
  BY DEF BeginWindow
<1>2. \A j \in Decoders : ~(dec'[j].stamp > 0)
  BY WindowStamps
<1>3. FirstTids' /\ NoTimeYet' /\ ResultType'
  BY <1>1, <1>2 DEF FirstTids, NoTimeYet, OrderInv, ResultType
<1>4. Timestamped' = Timestamped
  BY <1>1 DEF Timestamped, Temperatures
<1>5. DeltaMin \in Nat /\ SeekEnd \in Int /\ seek \in Int
  BY ParamTypes, LoopAssumption DEF DeltaMin, SeekEnd, SeekStart, IInv, TypeOK
<1>6. ~(seek >= SeekEnd)
  BY <1>1, <1>5
<1>7. ResultOrder'
  BY <1>1, <1>4, <1>6 DEF OrderInv, ResultOrder, EndsBy, InOrder, InLoop
<1>8. QED
  BY <1>3, <1>7 DEF OrderInv

\* A call begins with an empty result, and keeps it until the first window.
LEMMA OrderBegin ==
    ASSUME OrderInv, (\E p \in ParamSet, n \in AudioLens : Call(p, n)) \/ PreparePrompt
    PROVE  OrderInv'
<1>1. result_all' = <<>> /\ pc' \in {"begin", "window", "idle"}
  BY DEF Call, PreparePrompt, Return, OrderInv, ResultType
<1>2. FirstTids' /\ NoTimeYet'
  BY <1>1 DEF FirstTids, NoTimeYet, InLoop
<1>3. ResultType' /\ ResultOrder'
  BY <1>1 DEF ResultType, ResultOrder, InOrder, EndsBy
<1>4. QED
  BY <1>2, <1>3 DEF OrderInv

\* A temperature begins with sequences that have no tokens and no timestamp.
LEMMA OrderTemperature ==
    ASSUME IInv, OrderInv, PromptThrows \/ KvInitFails \/ DecodePrompt
    PROVE  OrderInv'
<1>1. /\ pc = "temperature" /\ pc \in InLoop /\ pc' \in {"idle", "sample"} /\ ResetDecoders
      /\ UNCHANGED <<result_all, params, seek, it>>
  BY DEF PromptThrows, KvInitFails, DecodePrompt, Return, InLoop
<1>2. FirstTids'
  BY <1>1, TidReset DEF OrderInv
<1>3. NoTimeYet'
  <2>1. \A j \in 0..(NDecodersCur - 1) : dec'[j] = FreshDecoder(it)
    BY <1>1, ResetFacts
  <2>2. Running' \subseteq 0..(NDecodersCur - 1)
    BY <1>1 DEF Running, NDecodersCur, Temperatures
  <2>3. ~FreshDecoder(it).has_ts
    BY DEF FreshDecoder
  <2>4. \A j \in Running' : ~dec'[j].has_ts
    BY <2>1, <2>2, <2>3
  <2>5. QED
    BY <2>4 DEF NoTimeYet
<1>4. ResultOrder' /\ ResultType'
  BY <1>1, OrderQuiet DEF InLoop
<1>5. QED
  BY <1>2, <1>3, <1>4 DEF OrderInv

\* The token loop.
LEMMA OrderTokens ==
    ASSUME IInv, ProgressInv, OrderInv, Sample \/ EndSampling \/ DecodeBatch
    PROVE  OrderInv'
<1>1. /\ pc \in {"sample", "check"} /\ pc' \in {"idle", "sample", "check", "rank"}
      /\ UNCHANGED <<result_all, params, seek, it>>
  BY DEF Sample, EndSampling, DecodeBatch, Return
<1>2. ResultOrder' /\ ResultType'
  BY <1>1, OrderQuiet DEF InLoop
<1>3. CASE Sample
  BY <1>2, <1>3, TidSample DEF OrderInv, Sample, NoTimeYet
<1>4. CASE EndSampling \/ DecodeBatch
  <2>1. pc = "check" /\ dec' = dec
    BY <1>4 DEF EndSampling, DecodeBatch
  <2>2. FirstTids'
    BY <1>1, <2>1 DEF OrderInv, FirstTids, InLoop
  <2>3. Running' = Running
    BY <1>1, <2>1 DEF Running, NDecodersCur, Temperatures
  <2>4. \A j \in Running : dec[j].tokens # <<>>
    <3>1. i \in Nat /\ \A j \in Running : Len(dec[j].tokens) = i + 1
      BY <2>1 DEF IInv, TypeOK, TokenCount
    <3>2. QED
      BY <3>1
  <2>5. NoTimeYet'
    BY <2>1, <2>3, <2>4 DEF NoTimeYet
  <2>6. QED
    BY <1>2, <2>2, <2>5 DEF OrderInv
<1>5. QED
  BY <1>3, <1>4

\* The order of the segments, and what it needs, in every state.
THEOREM OrderInvariance == Spec => []OrderInv
<1>1. Init => OrderInv
  <2> SUFFICES ASSUME Init PROVE OrderInv
    OBVIOUS
  <2>1. pc = "idle" /\ result_all = <<>>
    BY DEF Init
  <2>2. QED
    BY <2>1 DEF OrderInv, FirstTids, NoTimeYet, ResultType, ResultOrder, InOrder, EndsBy, InLoop
<1>2. IInv /\ ProgressInv /\ TimeInv /\ OrderInv /\ [Next]_vars => OrderInv'
  <2> SUFFICES ASSUME IInv, ProgressInv, TimeInv, OrderInv, [Next]_vars PROVE OrderInv'
    OBVIOUS
  <2>1. CASE (\E p \in ParamSet, n \in AudioLens : Call(p, n)) \/ PreparePrompt
    BY <2>1, OrderBegin
  <2>2. CASE DetectFails \/ ReturnEarly \/ Finish \/ StopBeforeWindow
    <3>1. pc' = "idle" /\ UNCHANGED <<result_all, params, seek>>
      BY <2>2 DEF DetectFails, ReturnEarly, Finish, StopBeforeWindow, Return
    <3>2. ResultOrder' /\ ResultType'
      BY <3>1, OrderQuiet DEF InLoop
    <3>3. QED
      BY <3>1, <3>2 DEF OrderInv, FirstTids, NoTimeYet, InLoop
  <2>3. CASE BeginWindow
    BY <2>3, OrderWindow
  <2>4. CASE PromptThrows \/ KvInitFails \/ DecodePrompt
    BY <2>4, OrderTemperature
  <2>5. CASE Sample \/ EndSampling \/ DecodeBatch
    BY <2>5, OrderTokens
  <2>6. CASE Rank
    <3>1. pc = "rank" /\ pc' \in {"temperature", "output"} /\ UNCHANGED <<result_all, params, seek>>
      BY <2>6 DEF Rank
    <3>2. ResultOrder' /\ ResultType'
      BY <3>1, OrderQuiet DEF InLoop
    <3>3. QED
      BY <2>6, <3>1, <3>2, TidRank DEF OrderInv, NoTimeYet
  <2>7. CASE Output
    <3>1. FirstTids' /\ NoTimeYet'
      BY <2>7 DEF Output, FirstTids, NoTimeYet
    <3>2. QED
      BY <2>7, <3>1, OrderOutput DEF OrderInv
  <2>8. CASE Rest \/ UNCHANGED vars
    <3>1. UNCHANGED vars
      BY <2>8 DEF Rest
    <3>2. Running' = Running /\ Temperatures' = Temperatures /\ SeekEnd' = SeekEnd
      BY <3>1 DEF vars, Running, NDecodersCur, Temperatures, SeekEnd, SeekStart
    <3>3. QED
      BY <3>1, <3>2 DEF vars, OrderInv, FirstTids, NoTimeYet, ResultType, ResultOrder, EndsBy,
                        InOrder, Timestamped
  <2>9. QED
    BY <2>1, <2>2, <2>3, <2>4, <2>5, <2>6, <2>7, <2>8 DEF Next, Work
<1>3. QED
  BY <1>1, <1>2, Invariance, ProgressInvariance, TimeInvariance, PTL DEF Spec

\* The segments of a transcription follow one another in time, within and
\* across windows, whatever is sampled and whichever temperatures fail.
THEOREM SegmentsFollow == Spec => []SegmentsInOrder
<1>1. OrderInv => SegmentsInOrder
  BY DEF OrderInv, ResultOrder, Timestamped, InOrder, SegmentsInOrder
<1>2. QED
  BY <1>1, OrderInvariance, PTL
=============================================================================
