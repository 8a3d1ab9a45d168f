---------------------------- MODULE VadDetector ----------------------------
(***************************************************************************)
(* whisper_vad_segments_from_probs: speech probabilities, one per window   *)
(* of Window samples, are turned into speech segments.  The loop over the  *)
(* probabilities is the operator DetectWindow on a record of the loop's    *)
(* variables; what follows the loop (merging, filtering, padding) is a     *)
(* function of the speeches it found.                                      *)
(*                                                                         *)
(* Times inside the detector are in samples; the segments it returns are   *)
(* in centiseconds.  Probabilities and thresholds are in percent.          *)
(***************************************************************************)
EXTENDS Integers, Sequences, SequencesExt, SortedSets

CONSTANT Window    \* vctx->n_window, 512 samples in the model files

WHISPER_SAMPLE_RATE == 16000
IntMax              == 2147483647

MsToSamples(ms)   == (WHISPER_SAMPLE_RATE * ms) \div 1000
cs_to_samples(cs) == cs * (WHISPER_SAMPLE_RATE \div 100)

\* Rounded to the nearest centisecond, halves up.
samples_to_cs(s)  == (2 * s + WHISPER_SAMPLE_RATE \div 100) \div (2 * (WHISPER_SAMPLE_RATE \div 100))

\* A window lasts at least a centisecond, so that speech does not round to nothing.
ASSUME WindowAssumption == Window \in Nat /\ Window >= cs_to_samples(1)

NegThreshold(p) == IF p.threshold - 15 < 1 THEN 1 ELSE p.threshold - 15

\* p.max_speech_ms is max_speech_duration_s; the code drops its fraction of a second.
\* A limit the padding uses up is no limit.
MaxSpeech(p) ==
    LET left == WHISPER_SAMPLE_RATE * (p.max_speech_ms \div 1000) - Window - 2 * MsToSamples(p.speech_pad_ms)
    IN IF p.max_speech_ms > 100000000 \/ left > IntMax \/ left < 0 THEN IntMax \div 2 ELSE left

MinSilenceAtMaxSpeech == MsToSamples(98)
MaxMergeGap           == MsToSamples(200)
-----------------------------------------------------------------------------
(* The loop.  is_speech_segment and has_curr_speech are assigned together  *)
(* and always agree; one field stands for both.  0 stands for "none" in    *)
(* temp_end and prev_end, as in the code.                                  *)

NoWindows == [i |-> 0, is_speech |-> FALSE, start |-> 0, temp_end |-> 0,
              prev_end |-> 0, next_start |-> 0, speeches |-> <<>>]

Sample(d) == Window * d.i

Speech(from, to) == [start |-> from, end |-> to]

\* Speech returned: the silence that was being measured is forgotten.
BackToSpeech(d) ==
    [d EXCEPT !.temp_end   = 0,
              !.next_start = IF @ < d.prev_end THEN Sample(d) ELSE @]

\* No segment is open any more.
Close(d) == [d EXCEPT !.is_speech = FALSE, !.prev_end = 0, !.next_start = 0, !.temp_end = 0]

\* A segment that is too long is cut at the silence last seen in it; it goes on at
\* the speech after that silence, if there was any.
SplitAtSilence(d) ==
    LET cut == [d EXCEPT !.speeches = Append(@, Speech(d.start, d.prev_end))]
    IN IF d.next_start < d.prev_end
         THEN Close(cut)
         ELSE [Close(cut) EXCEPT !.is_speech = TRUE, !.start = d.next_start]

\* A silence is measured from its first window, and ends the segment when it is long enough.
Silence(d, p) ==
    LET end    == IF d.temp_end = 0 THEN Sample(d) ELSE d.temp_end
        length == Sample(d) - end
        prev   == IF length > MinSilenceAtMaxSpeech THEN end ELSE d.prev_end
        long   == end - d.start > MsToSamples(p.min_speech_ms)
    IN IF length < MsToSamples(p.min_silence_ms)
         THEN [d EXCEPT !.temp_end = end, !.prev_end = prev]
         ELSE Close(IF long THEN [d EXCEPT !.speeches = Append(@, Speech(d.start, end))] ELSE d)

\* One turn of the loop.
DetectWindow(d0, prob, p) ==
    LET loud == prob >= p.threshold
        d    == IF loud /\ d0.temp_end # 0 THEN BackToSpeech(d0) ELSE d0
        over == d.is_speech /\ Sample(d) - d.start > MaxSpeech(p)
        cut  == IF over THEN SplitAtSilence(d) ELSE d
        next == CASE loud /\ ~d.is_speech    -> [d EXCEPT !.is_speech = TRUE, !.start = Sample(d)]
                  [] over /\ d.prev_end = 0  -> Close([d EXCEPT !.speeches = Append(@, Speech(d.start, Sample(d)))])
                  [] OTHER                   -> IF prob < NegThreshold(p) /\ cut.is_speech THEN Silence(cut, p) ELSE cut
    IN [next EXCEPT !.i = @ + 1]
-----------------------------------------------------------------------------
(* After the loop.                                                         *)

AudioLength(d) == Window * d.i

\* Speech that lasts to the end of the audio.
FinalSpeech(d, p) ==
    IF d.is_speech /\ AudioLength(d) - d.start > MsToSamples(p.min_speech_ms)
      THEN Append(d.speeches, Speech(d.start, AudioLength(d)))
      ELSE d.speeches

\* The speeches that are not close to the one before them.
Heads(speeches) ==
    {k \in DOMAIN speeches : k > 1 => speeches[k].start - speeches[k - 1].end >= MaxMergeGap}

\* Mutant: a merged segment keeps its old end.
MUT_MergeLosesEnd(speeches) == Listed(speeches, Heads(speeches))

\* Neighbours less than 200 ms apart become one: from a head to the last speech
\* before the next head.
MergeAdjacent(speeches) ==
    LET heads     == Heads(speeches)
        LastOf(k) == CHOOSE m \in k..Len(speeches) :
                      /\ \A j \in (k + 1)..m : j \notin heads
                      /\ m < Len(speeches) => m + 1 \in heads
    IN Listed([k \in heads |-> Speech(speeches[k].start, speeches[LastOf(k)].end)], heads)

DropShort(speeches, p) ==
    Listed(speeches, {k \in DOMAIN speeches : speeches[k].end - speeches[k].start >= MsToSamples(p.min_speech_ms)})

\* Mutant: neighbours that are close get the whole padding.
MUT_PadOverlaps(speeches, len, p) ==
    [k \in DOMAIN speeches |->
       [start |-> samples_to_cs(Max({0, speeches[k].start - MsToSamples(p.speech_pad_ms)})),
        end   |-> samples_to_cs(Min({len, speeches[k].end + MsToSamples(p.speech_pad_ms)}))]]

\* Mutant: the start of the audio is not a limit.
MUT_PadBeforeStart(speeches, len, p) ==
    [k \in DOMAIN speeches |-> [start |-> samples_to_cs(speeches[k].start - MsToSamples(p.speech_pad_ms)),
                                end   |-> samples_to_cs(speeches[k].end)]]

\* Padding on both sides of every segment; two that are closer than that share the
\* silence between them.
Pad(speeches, len, p) ==
    LET pad     == MsToSamples(p.speech_pad_ms)
        Gap(k)  == speeches[k + 1].start - speeches[k].end
        Half(k) == Gap(k) \div 2
        Near(k) == k \in 1..(Len(speeches) - 1) /\ Gap(k) < 2 * pad
        PadStart(k) == Max({0, speeches[k].start - (IF Near(k - 1) THEN Half(k - 1) ELSE pad)})
        PadEnd(k)   == IF Near(k) THEN speeches[k].end + Half(k) ELSE Min({len, speeches[k].end + pad})
    IN [k \in DOMAIN speeches |-> [start |-> samples_to_cs(PadStart(k)), end |-> samples_to_cs(PadEnd(k))]]

\* What whisper_vad_segments_from_probs returns.
Segments(d, p) == Pad(DropShort(MergeAdjacent(FinalSpeech(d, p)), p), AudioLength(d), p)
=============================================================================
