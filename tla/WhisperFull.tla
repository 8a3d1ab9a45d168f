---------------------------- MODULE WhisperFull ----------------------------
(***************************************************************************)
(* whisper_full_with_state: a sequence of transcription calls on one       *)
(* whisper_state.  Each call walks the audio in windows; each window is    *)
(* decoded at one temperature after another until a result is accepted;    *)
(* at each temperature several decoders are extended token by token.       *)
(*                                                                         *)
(* The model and the sampler are abstract: any token the logit filters     *)
(* leave may be sampled, any comparison of scores may come out either way. *)
(* Frames are 10 ms; temperatures are tenths.                              *)
(***************************************************************************)
EXTENDS DecoderStep

CONSTANTS
    ParamSet,      \* the whisper_full_params the host calls with
    AudioLens,     \* frames of audio passed to a call (0: reuse the spectrogram)
    MinFrames,     \* frames of the 1.5 s that short audio is padded to
    MaxDecoders,   \* WHISPER_MAX_DECODERS
    NInitTokens,   \* sot, and language and task for a multilingual model
    ShortTail,     \* frames left under which the past prompt is dropped (500)
    DeltaFull,     \* frames not worth a window (10)
    DeltaRelaxed,  \* the same for a short range (1)
    RelaxBelow,    \* length of a short range (20)
    TempCutoff,    \* WHISPER_HISTORY_CONDITIONING_TEMP_CUTOFF, in tenths
    UninitInts,    \* values an uninitialised field of a decoder may hold
    MaxCalls,      \* bound on the number of calls
    HostCalls(_, _, _, _)  \* the host's calls: how many it has made, the
                           \* parameters of its last, parameters and frames

VARIABLES
    pc,          \* where the call is
    ret,         \* what the last call returned
    calls,       \* number of calls so far
    params,      \* whisper_full_params of the current call
    n_len,       \* frames of the spectrogram in the state
    seek,        \* start of the current window
    it,          \* index of the current temperature, from 1
    i,           \* index of the current token
    dec,         \* state->decoders
    best,        \* best_decoder_id
    noSpeech,    \* no_speech_prob against no_speech_thold: -1, 0 or 1
    past0,       \* length of prompt_past0
    past1,       \* length of prompt_past1
    hist,        \* length of the prompt before the initial tokens
    kvNDec,      \* kv_self_n_dec
    freed,       \* the state was freed by the call itself
    result_all,  \* the segments of the result: [t0, t1]
    notified     \* segments the host was told of by new_segment_callback

vars == <<pc, ret, calls, params, n_len, seek, it, i, dec, best, noSpeech,
          past0, past1, hist, kvNDec, freed, result_all, notified>>

Decoders == 0..(MaxDecoders - 1)

ASSUME LoopAssumption ==
    /\ MinFrames \in Nat /\ AudioLens \subseteq Nat
    /\ MaxDecoders \in Nat \ {0}
    /\ NInitTokens \in {1, 3}
    /\ ShortTail \in Nat /\ TempCutoff \in Nat /\ RelaxBelow \in Nat
    /\ DeltaFull \in Nat /\ DeltaRelaxed \in Nat
    /\ UninitInts \subseteq Int /\ UninitInts # {}
    /\ MaxCalls \in Nat

ASSUME ParamAssumption ==
    ParamSet \subseteq
      [strategy : {"greedy", "beam"}, best_of : Int, beam_size : Int,
       temperature : Nat, temperature_inc : Nat,
       n_max_text_ctx : Nat, n_prompt : Nat, carry_initial_prompt : BOOLEAN,
       no_context : BOOLEAN, no_timestamps : BOOLEAN, single_segment : BOOLEAN,
       suppress_blank : BOOLEAN, max_tokens : Nat, max_initial_ts : Nat,
       offset_ms : Nat, duration_ms : Nat, language : {"given", "auto", "detect_only"},
       audio_ctx_ok : BOOLEAN, dtw : BOOLEAN]

Smaller(a, b) == IF a <= b THEN a ELSE b
Larger(a, b)  == IF a >= b THEN a ELSE b
-----------------------------------------------------------------------------
(* What a call derives from its parameters.                                *)

SeekStart == params.offset_ms \div 10

SeekEnd ==
    IF params.duration_ms = 0 THEN n_len ELSE SeekStart + params.duration_ms \div 10

DeltaMin ==
    IF SeekEnd > 0 /\ SeekEnd < SeekStart + RelaxBelow THEN DeltaRelaxed ELSE DeltaFull

Window == [seek |-> seek, seek_end |-> SeekEnd, delta_min |-> DeltaMin]

Temperatures ==
    LET t0 == params.temperature
        dt == params.temperature_inc
    IN IF dt = 0 THEN <<t0>>
       ELSE IF t0 > 10 THEN <<>>
       ELSE [k \in 1..((10 - t0) \div dt + 1) |-> t0 + (k - 1) * dt]

NDecoders ==
    Larger(1, IF params.strategy = "greedy" THEN params.best_of
              ELSE Larger(params.best_of, params.beam_size))

NDecodersCur ==
    Larger(1, IF Temperatures[it] > 0 THEN params.best_of
              ELSE IF params.strategy = "beam" THEN params.beam_size ELSE 1)

Running == {j \in 0..(NDecodersCur - 1) : Live(dec[j])}

MaxPromptCtx == Smaller(params.n_max_text_ctx, HalfCtx)

\* The tokens that follow the history in the prompt, <|notimestamps|> included.
PromptInitLen == NInitTokens + (IF params.no_timestamps THEN 1 ELSE 0)

PromptLen == hist + PromptInitLen

\* What one temperature takes from the two parts of the prompt history.
TakesHistory ==
    /\ params.n_max_text_ctx > 0
    /\ Temperatures[it] < TempCutoff
    /\ MaxPromptCtx > 0
    /\ (params.carry_initial_prompt /\ past0 > 0) \/ past1 > 0

Take0 == IF params.carry_initial_prompt THEN past0 ELSE 0
Take1 == Smaller(MaxPromptCtx - Take0 - 1, past1)
-----------------------------------------------------------------------------
\* whisper_init_state leaves the shift and the result length of the decoders
\* uninitialised; stamp -1 says that a decoder was never reset.  (The instances have
\* no negative shift: the encoder would read before the spectrogram.)
InitDecoders ==
    \E u \in UninitInts :
        dec = [j \in Decoders |-> [FreshDecoder(-1) EXCEPT !.seek_delta = u]]

Init ==
    /\ pc = "idle" /\ ret = "none" /\ calls = 0
    /\ params \in ParamSet
    /\ n_len = 0 /\ seek = 0 /\ it = 1 /\ i = 0
    /\ InitDecoders
    /\ best = 0 /\ noSpeech = 0
    /\ past0 = 0 /\ past1 = 0 /\ hist = 0
    /\ kvNDec = 1 /\ freed = FALSE
    /\ result_all = <<>> /\ notified = 0

Return(code) == pc' = "idle" /\ ret' = code

(***************************************************************************)
(* The host calls with parameters p and n frames of audio.  The old result *)
(* is dropped; short audio is padded; the spectrogram is recomputed unless *)
(* there is no audio.                                                      *)
(***************************************************************************)
Call(p, n) ==
    /\ pc = "idle" /\ ~freed /\ calls < MaxCalls
    /\ HostCalls(calls, params, p, n)
    /\ calls' = calls + 1
    /\ params' = p
    /\ result_all' = <<>> /\ notified' = 0
    /\ n_len' = IF n > 0 THEN Larger(n, MinFrames) ELSE n_len
    /\ pc' = "begin" /\ ret' = "none"
    /\ UNCHANGED <<seek, it, i, dec, best, noSpeech, past0, past1, hist, kvNDec, freed>>

\* The language detection fails.
DetectFails ==
    /\ pc = "begin"
    /\ params.language # "given"
    /\ Return("-3")
    /\ UNCHANGED <<calls, params, n_len, seek, it, i, dec, best, noSpeech, past0, past1,
                   hist, kvNDec, freed, result_all, notified>>

\* Early returns that leave the prompt history alone.
ReturnEarly ==
    /\ pc = "begin"
    /\ \/ params.language = "detect_only" /\ Return("0")
       \/ /\ params.language # "detect_only"
          /\ SeekEnd < SeekStart + DeltaMin
          /\ Return("0")
       \/ /\ params.language # "detect_only"
          /\ SeekEnd >= SeekStart + DeltaMin
          /\ NDecoders > MaxDecoders
          /\ Return("-4")
    /\ UNCHANGED <<calls, params, n_len, seek, it, i, dec, best, noSpeech, past0, past1,
                   hist, kvNDec, freed, result_all, notified>>

\* The prompt history at the start of a call.
HistoryKept(n) == IF params.no_context THEN 0 ELSE n

CarriedPrompt ==
    IF params.carry_initial_prompt /\ HistoryKept(past0) = 0 /\ params.n_prompt > 0
    THEN Smaller(params.n_prompt, Larger(1, MaxPromptCtx - 1))
    ELSE HistoryKept(past0)

RollingPrompt ==
    HistoryKept(past1) + (IF params.carry_initial_prompt THEN 0 ELSE params.n_prompt)

PreparePrompt ==
    /\ pc = "begin"
    /\ params.language # "detect_only"
    /\ SeekEnd >= SeekStart + DeltaMin
    /\ NDecoders <= MaxDecoders
    /\ past0' = CarriedPrompt
    /\ past1' = RollingPrompt
    /\ IF params.audio_ctx_ok
       THEN /\ pc' = "window" /\ seek' = SeekStart /\ hist' = 0
            /\ UNCHANGED ret
       ELSE /\ Return("-5")
            /\ UNCHANGED <<seek, hist>>
    /\ UNCHANGED <<calls, params, n_len, it, i, dec, best, noSpeech, kvNDec, freed,
                   result_all, notified>>
-----------------------------------------------------------------------------
(* The main loop, one window per turn.                                     *)

Finish ==
    /\ pc = "window"
    /\ seek + DeltaMin >= SeekEnd
    /\ Return("0")
    /\ UNCHANGED <<calls, params, n_len, seek, it, i, dec, best, noSpeech, past0, past1,
                   hist, kvNDec, freed, result_all, notified>>

\* encoder_begin_callback stops the call ("0") or the encoder fails (-6).
StopBeforeWindow ==
    /\ pc = "window"
    /\ seek + DeltaMin < SeekEnd
    /\ Return("aborted") \/ Return("-6")
    /\ UNCHANGED <<calls, params, n_len, seek, it, i, dec, best, noSpeech, past0, past1,
                   hist, kvNDec, freed, result_all, notified>>

BeginWindow ==
    /\ pc = "window"
    /\ seek + DeltaMin < SeekEnd
    /\ IF seek > SeekStart /\ seek + ShortTail >= SeekEnd
       THEN past0' = 0 /\ past1' = 0
       ELSE UNCHANGED <<past0, past1>>
    /\ best' = 0
    /\ it' = 1
    /\ dec' = [j \in Decoders |-> [dec[j] EXCEPT !.stamp = Smaller(@, 0)]]
    /\ pc' = IF Temperatures = <<>> THEN "output" ELSE "temperature"
    /\ UNCHANGED <<ret, calls, params, n_len, seek, i, noSpeech, hist, kvNDec, freed,
                   result_all, notified>>

\* WHISPER_DECODER_INIT: the decoders of this temperature start afresh.
ResetDecoders ==
    dec' = [j \in Decoders |-> IF j < NDecodersCur THEN FreshDecoder(it) ELSE dec[j]]

(***************************************************************************)
(* The prompt is built, the KV cache recreated if it is too small, and the *)
(* prompt decoded.  A negative n_take1 makes vector::insert throw.         *)
(***************************************************************************)
PromptThrows ==
    /\ pc = "temperature"
    /\ TakesHistory /\ Take1 < 0
    /\ ResetDecoders
    /\ Return("exception")
    /\ UNCHANGED <<calls, params, n_len, seek, it, i, best, noSpeech, past0, past1, hist,
                   kvNDec, freed, result_all, notified>>

BuildPrompt == hist' = IF TakesHistory THEN 1 + Take0 + Take1 ELSE 0

KvInitFails ==
    /\ pc = "temperature"
    /\ ~(TakesHistory /\ Take1 < 0)
    /\ kvNDec < NDecodersCur
    /\ ResetDecoders /\ BuildPrompt
    /\ freed' = TRUE
    /\ Return("-7")
    /\ UNCHANGED <<calls, params, n_len, seek, it, i, best, noSpeech, past0, past1, kvNDec,
                   result_all, notified>>

DecodePrompt ==
    /\ pc = "temperature"
    /\ ~(TakesHistory /\ Take1 < 0)
    /\ ResetDecoders /\ BuildPrompt
    /\ kvNDec' = Larger(kvNDec, NDecodersCur)
    /\ i' = 0
    /\ \/ pc' = "sample" /\ UNCHANGED ret
       \/ Return("-8")
    /\ UNCHANGED <<calls, params, n_len, seek, it, best, noSpeech, past0, past1, freed,
                   result_all, notified>>
-----------------------------------------------------------------------------
(* Sampling.  The sampler threads work on disjoint decoders and are joined *)
(* before the results are used, so one step samples for all of them.       *)

\* The candidates of decoder j: what its sampler may append to it.
Candidates(j) ==
    UNION {{PushToken(dec[j], id, tid) : tid \in IF dec[j].tokens = <<>>
                                                 THEN TidsOf(params, dec[j], id)
                                                 ELSE {0}}
           : id \in AllowedTokens(params, dec[j])}

\* Greedy: each decoder keeps its own candidate; beam search: the best
\* candidates of all running decoders are dealt out to them.
Sources(j) == IF params.strategy = "beam" THEN Running ELSE {j}

Sample ==
    /\ pc = "sample"
    /\ \E next \in [Running -> UNION {Candidates(j) : j \in Running}] :
          /\ \A j \in Running : next[j] \in UNION {Candidates(s) : s \in Sources(j)}
          /\ dec' = [j \in Decoders |->
                       IF j \in Running THEN UpdateDecoder(params, Window, next[j], i)
                       ELSE dec[j]]
    /\ pc' = "check"
    /\ UNCHANGED <<ret, calls, params, n_len, seek, it, i, best, noSpeech, past0, past1, hist,
                   kvNDec, freed, result_all, notified>>

\* All decoders are done, or the token budget is used up.
EndSampling ==
    /\ pc = "check"
    /\ Running = {}
    /\ pc' = "rank"
    /\ UNCHANGED <<ret, calls, params, n_len, seek, it, i, dec, best, noSpeech, past0, past1,
                   hist, kvNDec, freed, result_all, notified>>

\* One batch with the last token of each running decoder, at BatchPos.
BatchPos == PromptLen + i

DecodeBatch ==
    /\ pc = "check"
    /\ Running # {}
    /\ \/ /\ i' = i + 1
          /\ pc' = IF i + 1 < NMax THEN "sample" ELSE "rank"
          /\ UNCHANGED ret
       \/ Return("-9") /\ UNCHANGED i
    /\ UNCHANGED <<calls, params, n_len, seek, it, dec, best, noSpeech, past0, past1, hist,
                   kvNDec, freed, result_all, notified>>
-----------------------------------------------------------------------------
(* Ranking, fallback and output.                                           *)

\* Scores are compared with <, so a sequence of score -INFINITY never wins.
Rankable(d) == ~d.failed /\ d.result_len > 0

\* The current temperature is not the last and its result is not accepted.
FallsBack(d, speech) ==
    /\ it # Len(Temperatures)
    /\ d.failed \/ (d.lowAvg /\ speech = -1)

Rank ==
    /\ pc = "rank"
    /\ \E lowEntropy, lowAvg \in [0..(NDecodersCur - 1) -> BOOLEAN], speech \in {-1, 0, 1} :
          LET ranked == [j \in Decoders |->
                           IF j < NDecodersCur
                           THEN RankDecoder(dec[j], lowEntropy[j], lowAvg[j])
                           ELSE dec[j]]
              winners == {j \in 0..(NDecodersCur - 1) : Rankable(ranked[j])}
          IN /\ dec' = ranked
             /\ noSpeech' = speech
             /\ best' \in IF winners = {} THEN {best} ELSE winners
             /\ IF FallsBack(ranked[best'], speech)
                THEN it' = it + 1 /\ pc' = "temperature"
                ELSE it' = it /\ pc' = "output"
    /\ UNCHANGED <<ret, calls, params, n_len, seek, i, past0, past1, hist, kvNDec, freed,
                   result_all, notified>>

Best         == dec[best]
IsNoSpeech   == noSpeech = 1 /\ Best.lowAvg
NewSegments  == IF IsNoSpeech \/ Best.tokens = <<>> THEN <<>>
                ELSE WindowSegments(params, Best, seek)

\* With DTW the host is notified in one loop whose bounds mix two counts.
DtwNotified ==
    LET before == Len(result_all)
        new    == Len(NewSegments)
    IN IF before < new THEN (new * (new - 1) - before * (before - 1)) \div 2 ELSE 0

\* Mutant: the marker token is dropped from a prompt that has none.
MUT_DropsMarker == IF params.carry_initial_prompt THEN 0 ELSE hist - 1

\* Mutant: prompt_past1 is not cleared first.
MUT_KeepsPast == past1 + (IF ~params.carry_initial_prompt /\ hist > 0 THEN hist - 1 ELSE 0)

\* The prompt history of this window is kept, unless it is carried separately.
HistoryOfWindow == IF ~params.carry_initial_prompt /\ hist > 0 THEN hist - 1 ELSE 0

\* The tokens of the result; of a decoder that was never reset, any number.
ResultLens ==
    IF Best.stamp < 0 THEN {Larger(0, u) : u \in UninitInts} ELSE {Best.result_len}

Output ==
    /\ pc = "output"
    /\ \E n \in ResultLens : past1' = HistoryOfWindow + (IF IsNoSpeech THEN 0 ELSE n)
    /\ result_all' = result_all \o NewSegments
    /\ notified' = notified + (IF params.dtw THEN DtwNotified ELSE Len(NewSegments))
    /\ seek' = seek + SeekAdvance(params, Best, seek, SeekEnd)
    /\ pc' = "window"
    /\ UNCHANGED <<ret, calls, params, n_len, it, i, dec, best, noSpeech, past0, hist, kvNDec,
                   freed>>

\* The host makes no further call.
Rest ==
    /\ pc = "idle"
    /\ UNCHANGED vars

Work ==
    \/ DetectFails \/ ReturnEarly \/ PreparePrompt
    \/ Finish \/ StopBeforeWindow \/ BeginWindow
    \/ PromptThrows \/ KvInitFails \/ DecodePrompt
    \/ Sample \/ EndSampling \/ DecodeBatch
    \/ Rank \/ Output

Next ==
    \/ \E p \in ParamSet, n \in AudioLens : Call(p, n)
    \/ Work
    \/ Rest

Spec == Init /\ [][Next]_vars

\* The library's own steps run on the caller's thread until the call returns.
FairSpec == Spec /\ WF_vars(Work)
-----------------------------------------------------------------------------
(* Properties.                                                             *)

Stages == {"idle", "begin", "window", "temperature", "sample", "check", "rank", "output"}

DecoderType ==
    [tokens : Seq(Vocab), tid0 : Int, result_len : Nat, seek_delta : Int,
     failed : BOOLEAN, completed : BOOLEAN, has_ts : BOOLEAN, lowAvg : BOOLEAN, stamp : Int]

\* The type invariant of the transcription loop (what the result holds is
\* the subject of SegmentsInOrder).
TypeOK ==
    /\ pc \in Stages
    /\ ret \in {"none", "0", "aborted", "exception", "-3", "-4", "-5", "-6", "-7", "-8", "-9"}
    /\ calls \in 0..MaxCalls /\ params \in ParamSet
    /\ n_len \in Nat /\ seek \in Int /\ it \in Nat \ {0} /\ i \in Nat
    /\ dec \in [Decoders -> DecoderType]
    /\ best \in Decoders /\ noSpeech \in {-1, 0, 1}
    /\ past0 \in Nat /\ past1 \in Nat /\ hist \in Nat /\ kvNDec \in Nat
    /\ freed \in BOOLEAN

\* Every position handed to the text decoder (the whole prompt at first, then
\* one position per step of the token loop) fits the text context, however the
\* prompt history, the carried prompt and the token budget add up.
PositionsInContext ==
    /\ pc \in {"sample", "check", "rank"} => PromptLen <= NTextCtx
    /\ pc = "check" => BatchPos < NTextCtx

\* A result never claims more tokens than were decoded: the output loop reads
\* tokens_cur[0..result_len) of the winning decoder, whichever it is.
ResultWithinTokens ==
    \A j \in Decoders : dec[j].result_len <= Len(dec[j].tokens)

\* Sampled timestamps never go back in time within a sequence, so the check
\* "do not allow to go back in time" in the update loop can never fire.
TimestampsIncrease ==
    \A j \in Decoders :
        LET t == dec[j].tokens
        IN \A a, b \in 1..Len(t) : (a < b /\ t[a] >= TokenBeg /\ t[b] >= TokenBeg) => t[a] <= t[b]

\* The segments of a transcription follow one another in time: a segment
\* starts no earlier than the one before it ends, within a window, across
\* windows, after fallbacks and after a failed last temperature (given that
\* timestamps are sampled: without them the greedy sampler leaves tid at 0,
\* and the first segment of a window starts far before the window; and given at
\* least one temperature: with none the decoder of an earlier call is output).
SegmentsInOrder ==
    (~params.no_timestamps /\ Temperatures # <<>>) =>
        \A k \in 1..(Len(result_all) - 1) : result_all[k].t1 <= result_all[k + 1].t0

\* The rolling prompt does not grow with the number of windows or calls: once
\* a window was decoded it holds at most one prompt and one window of tokens
\* (given at least one temperature: with none no decoder is reset).
HistoryBounded ==
    (pc = "window" /\ seek > SeekStart /\ Temperatures # <<>>) => past1 < HalfCtx + NMax

\* Every window moves the audio position forward, also when all decoders failed
\* (given at least one temperature: with none no decoder is reset).
SeekAdvances == [][(pc = "output" /\ Temperatures # <<>>) => seek' > seek]_vars

\* Every call returns to the host, whatever fails on the way (given at least one
\* temperature, see EveryCallReturns).
CallReturns == (pc # "idle" /\ Temperatures # <<>>) ~> (pc = "idle")
-----------------------------------------------------------------------------
(* Statements that the code does not keep, most of comments and documents.  *)

\* A call without a temperature moves the window by the shift of a decoder that was
\* never reset, which may be 0 (whisper_decoder.seek_delta has no initialiser): then
\* the same window is output for ever.
EveryCallReturns == (pc # "idle") ~> (pc = "idle")

\* "force end-of-text to break hallucination loops": a decoder the kill switch
\* ends is completed like one that sampled end-of-text, with a result.
KilledHasResult ==
    pc = "check" => \A j \in Decoders :
        (dec[j].completed /\ dec[j].stamp = it) => dec[j].result_len > 0

\* "relax delta_min for the final chunk to prevent tail truncation": a call
\* stops only when the final chunk is no longer than the relaxed minimum.
FinalChunkRelaxed ==
    (pc = "window" /\ seek + DeltaMin >= SeekEnd) => seek + DeltaRelaxed >= SeekEnd

\* "max tokens to use from past text as prompt": the carried prompt and the
\* marker in front of it fit the budget, so n_take1 is not negative.
HistoryWithinBudget ==
    (pc = "temperature" /\ TakesHistory) => Take0 + 1 <= MaxPromptCtx

\* "called for every newly generated text segment".
EverySegmentNotified == pc = "window" => notified = Len(result_all)
=============================================================================
