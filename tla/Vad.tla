-------------------------------- MODULE Vad --------------------------------
(***************************************************************************)
(* Transcription with voice activity detection: whisper_full, whisper_vad  *)
(* and the functions that map times of the results back to the audio.      *)
(* whisper_vad cuts the speech out of the audio and joins it with short    *)
(* silences; the results are in the time of the joined audio, and a table  *)
(* of corresponding times is kept in the state for the getters.            *)
(*                                                                         *)
(* The speech probability of a window is any member of Probs.  Of the      *)
(* transcription only what the getters need is kept: that it produced      *)
(* results, and for which audio.                                           *)
(***************************************************************************)
EXTENDS VadDetector, FiniteSets, TLC

CONSTANTS
    Probs,         \* probabilities the network may return, in percent
    AudioLens,     \* n_samples of a call
    VadParams,     \* parameters of a call with VAD
    MaxVadCalls,   \* bound on the calls with VAD
    MaxCalls       \* bound on all calls

VARIABLES
    pc,          \* where the call is; "transcribe" when whisper_vad has returned
    calls,       \* how many calls of either kind were made
    p,           \* params.vad_params
    n_samples,
    loaded,      \* is state->vad_context set?
    det,         \* the variables of whisper_vad_segments_from_probs
    data,        \* vad_segments->data
    has_vad_segments,
    vad_mapping_table,
    vad_segments,   \* ctx->state->vad_segments
    seg,         \* the segment the loops of whisper_vad are at
    spliced,     \* [size, offset]: of filtered_samples, and how much of it was written
    result,      \* result_all: [kind, len], the audio it is the transcription of
    heard        \* history: a stretch of windows, and whether all of them were speech

vars == <<pc, calls, p, n_samples, loaded, det, data, has_vad_segments, vad_mapping_table,
          vad_segments, seg, spliced, result, heard>>

vadState == <<has_vad_segments, vad_mapping_table, vad_segments>>

ASSUME VadAssumption ==
    /\ Probs \subseteq 0..100 /\ AudioLens \subseteq Nat /\ MaxVadCalls \in Nat /\ MaxCalls \in Nat
    /\ VadParams \subseteq [threshold : 0..100, min_speech_ms : Nat, min_silence_ms : Nat,
                            max_speech_ms : Nat, speech_pad_ms : Nat, overlap_ms : Nat]
    /\ VadParams # {}
-----------------------------------------------------------------------------
(* Cutting and joining the audio.                                          *)

SilenceSamples == MsToSamples(100)

\* Mutant: the overlap is not counted when the buffer is sized.
MUT_SizeWithoutOverlap(segs, n, par, k) ==
    Min({cs_to_samples(segs[k].end), n - 1}) - cs_to_samples(segs[k].start)

\* What the first loop counts for segment k.
SizeOf(segs, n, par, k) ==
    LET end == cs_to_samples(segs[k].end) + (IF k < Len(segs) THEN MsToSamples(par.overlap_ms) ELSE 0)
    IN Min({end, n - 1}) - cs_to_samples(segs[k].start)

CutStart(segs, n, k) == Min({cs_to_samples(segs[k].start), n - 1})
CutEnd(segs, n, k)   == Min({cs_to_samples(segs[k].end), n - 1})

\* What the second loop copies of segment k: all of it, and the overlap after it
\* unless it is the last.
CutLength(segs, n, par, k) ==
    (IF k < Len(segs) THEN Min({CutEnd(segs, n, k) + MsToSamples(par.overlap_ms), n - 1}) ELSE CutEnd(segs, n, k))
    - CutStart(segs, n, k)

SilenceAfter(segs, k) == IF k < Len(segs) THEN SilenceSamples ELSE 0

\* vad_segment_info of segment k, copied to offset.
SegmentInfo(segs, n, k, offset) ==
    [orig_start |-> segs[k].start,
     orig_end   |-> segs[k].end,
     vad_start  |-> samples_to_cs(offset),
     vad_end    |-> samples_to_cs(offset + CutEnd(segs, n, k) - CutStart(segs, n, k))]

Point(processed, original) == [processed_time |-> processed, original_time |-> original]

\* Mutant: the end of a silence is mapped to the end of the segment before it.
MUT_SilenceMapsBack(segs, n, par, k, offset) ==
    LET info  == SegmentInfo(segs, n, k, offset)
        after == offset + CutLength(segs, n, par, k)
    IN <<Point(info.vad_start, info.orig_start), Point(info.vad_end, info.orig_end)>>
       \o IF k = Len(segs) THEN <<>>
          ELSE <<Point(samples_to_cs(after), info.orig_end),
                 Point(samples_to_cs(after + SilenceSamples), info.orig_end)>>

\* The mapping points of segment k and of the silence after it.
Points(segs, n, par, k, offset) ==
    LET info  == SegmentInfo(segs, n, k, offset)
        after == offset + CutLength(segs, n, par, k)
    IN <<Point(info.vad_start, info.orig_start), Point(info.vad_end, info.orig_end)>>
       \o IF k = Len(segs) THEN <<>>
          ELSE <<Point(samples_to_cs(after), info.orig_end),
                 Point(samples_to_cs(after + SilenceSamples), segs[k + 1].start)>>

\* Sorted by processed time, one point for each processed time (std::sort, std::unique).
MappingTable(points) ==
    LET times == {points[k].processed_time : k \in DOMAIN points}
    IN Listed([t \in times |-> points[CHOOSE k \in DOMAIN points : points[k].processed_time = t]], times)
-----------------------------------------------------------------------------
(* From the time of the joined audio back to the audio.                    *)

\* Linear between the two points around t.
map_processed_to_original_time(t, table) ==
    IF table = <<>> THEN t
    ELSE IF t <= Head(table).processed_time THEN Head(table).original_time
    ELSE IF t >= Last(table).processed_time THEN Last(table).original_time
    ELSE LET k     == Min({j \in DOMAIN table : table[j].processed_time >= t})
             upper == table[k]
             lower == table[k - 1]
         IN IF upper.processed_time = t THEN upper.original_time
            ELSE lower.original_time + ((t - lower.processed_time) * (upper.original_time - lower.original_time))
                                       \div (upper.processed_time - lower.processed_time)

Mapped == has_vad_segments /\ vad_mapping_table # <<>>

\* A segment of the results that is [t0, t1] in the time of the transcribed audio.
whisper_full_get_segment_t0(t0) == IF Mapped THEN map_processed_to_original_time(t0, vad_mapping_table) ELSE t0

MinDuration == 10

\* Mutant: no minimum duration.
MUT_NoMinDuration(t0, t1) == IF Mapped THEN map_processed_to_original_time(t1, vad_mapping_table) ELSE t1

whisper_full_get_segment_t1(t0, t1) ==
    IF Mapped
      THEN Max({map_processed_to_original_time(t1, vad_mapping_table), whisper_full_get_segment_t0(t0) + MinDuration})
      ELSE t1

\* Mutant: a token in a silence is interpolated over the gap that was cut out.
MUT_GlobalInterpolation(t, segs) ==
    IF segs = <<>> THEN t
    ELSE map_processed_to_original_time(t,
           FlattenSeq([k \in DOMAIN segs |-> <<Point(segs[k].vad_start, segs[k].orig_start),
                                               Point(segs[k].vad_end, segs[k].orig_end)>>]))

\* Inside a segment t is interpolated; between two it snaps to the nearer one.
whisper_map_token_time_segment_aware(t, segs) ==
    LET In(k)      == segs[k].vad_start <= t /\ t <= segs[k].vad_end
        Between(k) == k < Len(segs) /\ segs[k].vad_end < t /\ t < segs[k + 1].vad_start
        found      == {k \in DOMAIN segs : In(k) \/ Between(k)}
    IN IF segs = <<>> THEN t
       ELSE IF t <= Head(segs).vad_start THEN Head(segs).orig_start
       ELSE IF t >= Last(segs).vad_end THEN Last(segs).orig_end
       ELSE IF found = {} THEN t
       ELSE LET k == Min(found)
                s == segs[k]
            IN IF Between(k)
                 THEN IF t <= (s.vad_end + segs[k + 1].vad_start) \div 2 THEN s.orig_end ELSE segs[k + 1].orig_start
                 ELSE IF s.vad_end <= s.vad_start THEN s.orig_start
                 ELSE s.orig_start + ((t - s.vad_start) * (s.orig_end - s.orig_start)) \div (s.vad_end - s.vad_start)

TokensMapped == has_vad_segments /\ vad_segments # <<>>

whisper_full_get_token_t0(t0) ==
    IF TokensMapped THEN whisper_map_token_time_segment_aware(t0, vad_segments) ELSE t0

whisper_full_get_token_t1(t0, t1) ==
    IF TokensMapped
      THEN Max({whisper_map_token_time_segment_aware(t1, vad_segments), whisper_full_get_token_t0(t0) + 1})
      ELSE t1
-----------------------------------------------------------------------------
(* The calls.                                                              *)

NoResult       == [kind |-> "none", len |-> 0]
NothingSpliced == [size |-> 0, offset |-> 0]

\* Windows par.min_speech_ms takes, rounded up to more than that.
WatchLength(par) == MsToSamples(par.min_speech_ms) \div Window + 1

NChunks(n) == n \div Window + (IF n % Window # 0 THEN 1 ELSE 0)

Init ==
    /\ pc = "idle" /\ calls = [vad |-> 0, all |-> 0] /\ loaded = FALSE
    /\ p = (CHOOSE par \in VadParams : TRUE) /\ n_samples = 0 /\ det = NoWindows /\ data = <<>>
    /\ has_vad_segments = FALSE /\ vad_mapping_table = <<>> /\ vad_segments = <<>>
    /\ seg = 1 /\ spliced = NothingSpliced /\ result = NoResult
    /\ heard = [from |-> 0, all |-> FALSE]

\* whisper_full without VAD: the audio is transcribed as it is.
CallPlain(n) ==
    /\ pc = "idle" /\ calls.all < MaxCalls
    /\ calls' = [calls EXCEPT !.all = @ + 1]
    /\ n_samples' = n
    /\ result' = [kind |-> "plain", len |-> samples_to_cs(n)]
    /\ UNCHANGED <<pc, p, loaded, det, data, vadState, seg, spliced, heard>>

\* whisper_full with VAD: whisper_vad forgets the last mapping, but not vad_segments.
CallVad(n, par, from) ==
    /\ pc = "idle" /\ calls.all < MaxCalls /\ calls.vad < MaxVadCalls
    /\ calls' = [vad |-> calls.vad + 1, all |-> calls.all + 1]
    /\ n_samples' = n /\ p' = par
    /\ vad_mapping_table' = <<>> /\ has_vad_segments' = FALSE
    /\ det' = NoWindows /\ data' = <<>> /\ spliced' = NothingSpliced
    /\ heard' = [from |-> from, all |-> from + WatchLength(par) <= NChunks(n)]
    /\ pc' = IF loaded THEN "detect" ELSE "load"
    /\ UNCHANGED <<loaded, vad_segments, seg, result>>

\* The VAD model is loaded by the first call that needs it and kept.
LoadModel ==
    /\ pc = "load"
    /\ loaded' = TRUE /\ pc' = "detect"
    /\ UNCHANGED <<calls, p, n_samples, det, data, vadState, seg, spliced, result, heard>>

\* whisper_vad returns false: the model cannot be loaded, or the graph not allocated.
\* The results of the call before stay.
VadFails ==
    /\ pc = "load" \/ (pc = "detect" /\ det.i = 0)
    /\ pc' = "idle"
    /\ UNCHANGED <<calls, p, n_samples, loaded, det, data, vadState, seg, spliced, result, heard>>

\* One window: its probability, and its turn of the loop.
Detect(prob) ==
    /\ pc = "detect" /\ det.i < NChunks(n_samples)
    /\ det' = DetectWindow(det, prob, p)
    /\ heard' = [heard EXCEPT !.all = @ /\ (det.i \in heard.from..(heard.from + WatchLength(p) - 1)
                                              => prob >= p.threshold)]
    /\ UNCHANGED <<pc, calls, p, n_samples, loaded, data, vadState, seg, spliced, result>>

\* The segments are found.  If there are any, what an earlier call left is cleared.
FindSegments ==
    /\ pc = "detect" /\ det.i = NChunks(n_samples)
    /\ LET found == Segments(det, p)
       IN /\ data' = found
          /\ IF found = <<>>
             THEN pc' = "transcribe" /\ UNCHANGED <<has_vad_segments, vad_segments>>
             ELSE pc' = "size" /\ has_vad_segments' = TRUE /\ vad_segments' = <<>>
    /\ seg' = 1
    /\ UNCHANGED <<calls, p, n_samples, loaded, det, vad_mapping_table, spliced, result, heard>>

\* One turn of the loop that sizes filtered_samples.
SizeSegment ==
    /\ pc = "size" /\ seg <= Len(data)
    /\ spliced' = [spliced EXCEPT !.size = @ + SizeOf(data, n_samples, p, seg)]
    /\ seg' = seg + 1
    /\ UNCHANGED <<pc, calls, p, n_samples, loaded, det, data, vadState, result, heard>>

\* What the first loop counted, and the silences between the segments.
TotalSamples == spliced.size + (Len(data) - 1) * SilenceSamples

\* filtered_samples gets its size.  For a negative one resize throws what whisper_vad
\* does not catch, and the call never returns.
Resize ==
    /\ pc = "size" /\ seg > Len(data) /\ TotalSamples >= 0
    /\ spliced' = [size |-> TotalSamples, offset |-> 0]
    /\ seg' = 1 /\ pc' = "copy"
    /\ UNCHANGED <<calls, p, n_samples, loaded, det, data, vadState, result, heard>>

\* There is no memory for filtered_samples: whisper_vad returns false.
ResizeFails ==
    /\ pc = "size" /\ seg > Len(data) /\ TotalSamples >= 0
    /\ pc' = "idle"
    /\ UNCHANGED <<calls, p, n_samples, loaded, det, data, vadState, seg, spliced, result, heard>>

\* One turn of the loop that fills it: the segment is copied, with a silence after it,
\* and its times are noted.
CopySegment ==
    /\ pc = "copy" /\ seg <= Len(data)
    /\ IF CutLength(data, n_samples, p, seg) > 0
       THEN /\ vad_segments' = Append(vad_segments, SegmentInfo(data, n_samples, seg, spliced.offset))
            /\ vad_mapping_table' = vad_mapping_table \o Points(data, n_samples, p, seg, spliced.offset)
            /\ spliced' = [spliced EXCEPT !.offset = @ + CutLength(data, n_samples, p, seg) + SilenceAfter(data, seg)]
       ELSE UNCHANGED <<vad_segments, vad_mapping_table, spliced>>
    /\ seg' = seg + 1
    /\ UNCHANGED <<pc, calls, p, n_samples, loaded, det, data, has_vad_segments, result, heard>>

SortTable ==
    /\ pc = "copy" /\ seg > Len(data)
    /\ vad_mapping_table' = MappingTable(vad_mapping_table)
    /\ pc' = "transcribe"
    /\ UNCHANGED <<calls, p, n_samples, loaded, det, data, has_vad_segments, vad_segments, seg, spliced, result, heard>>

\* Nothing was cut out: whisper_full has no samples to transcribe and clears the results.
NoSpeech ==
    /\ pc = "transcribe" /\ spliced.size = 0
    /\ result' = NoResult /\ pc' = "idle"
    /\ UNCHANGED <<calls, p, n_samples, loaded, det, data, vadState, seg, spliced, heard>>

\* whisper_full_with_state on the joined audio.
Transcribe ==
    /\ pc = "transcribe" /\ spliced.size # 0
    /\ result' = [kind |-> "vad", len |-> samples_to_cs(spliced.size)]
    /\ pc' = "idle"
    /\ UNCHANGED <<calls, p, n_samples, loaded, det, data, vadState, seg, spliced, heard>>

Next ==
    \/ \E n \in AudioLens : CallPlain(n)
    \/ \E n \in AudioLens, par \in VadParams :
         \E from \in 0..Max({0, NChunks(n) - WatchLength(par)}) : CallVad(n, par, from)
    \/ LoadModel
    \/ VadFails
    \/ \E prob \in Probs : Detect(prob)
    \/ FindSegments
    \/ SizeSegment \/ Resize \/ ResizeFails
    \/ CopySegment \/ SortTable
    \/ NoSpeech \/ Transcribe

Spec == Init /\ [][Next]_vars
-----------------------------------------------------------------------------
(* Properties.                                                             *)

\* The segments of the call have been found.
Found == pc \in {"size", "copy", "transcribe"}

\* The type invariant.
VadTypeOK ==
    /\ pc \in {"idle", "load", "detect", "size", "copy", "transcribe"}
    /\ calls.vad \in 0..MaxVadCalls /\ calls.all \in 0..MaxCalls
    /\ p \in VadParams /\ n_samples \in AudioLens \cup {0}
    /\ loaded \in BOOLEAN /\ has_vad_segments \in BOOLEAN
    /\ det.i \in Nat /\ det.is_speech \in BOOLEAN
    /\ pc # "idle" => det.i <= NChunks(n_samples)
    /\ {det.start, det.temp_end, det.prev_end, det.next_start} \subseteq 0..AudioLength(det)
    /\ \A k \in DOMAIN det.speeches : det.speeches[k].start \in Nat /\ det.speeches[k].end \in Nat
    /\ \A k \in DOMAIN data : data[k].start \in Nat /\ data[k].end \in Nat
    /\ result.kind \in {"none", "plain", "vad"} /\ result.len \in Nat

\* What test-vad-full asserts of the speech segments, for every sequence of
\* probabilities: each has a positive duration, they are in order and do not overlap,
\* and none ends after the last window of the audio.
SegmentsInOrder ==
    Found =>
        /\ \A k \in DOMAIN data : data[k].start < data[k].end /\ data[k].end <= samples_to_cs(AudioLength(det))
        /\ \A k \in 1..(Len(data) - 1) : data[k].end <= data[k + 1].start

\* Speech is not lost: a stretch of speech longer than the minimum lies in a segment,
\* when no maximal duration is set and no probability counts as both speech and silence.
SpeechKept ==
    (Found /\ heard.all /\ MaxSpeech(p) >= n_samples /\ NegThreshold(p) <= p.threshold) =>
        \E k \in DOMAIN data :
            /\ data[k].start <= samples_to_cs(Window * heard.from)
            /\ samples_to_cs(Window * (heard.from + WatchLength(p))) <= data[k].end

\* The first loop of whisper_vad sizes the buffer, the second fills it: the size is one,
\* every sample is written, and none after the last.
SpliceFillsBuffer ==
    /\ pc = "size" /\ seg > Len(data) => TotalSamples >= 0
    /\ pc = "copy" => spliced.offset <= spliced.size
    /\ pc = "transcribe" => spliced.offset = spliced.size

\* Points with the same processed time agree, so that neither the order in which
\* std::sort leaves them nor the choice of std::unique matters, and in the end both
\* times grow along the table, which the binary search and the interpolation need.
TableMonotone ==
    /\ pc = "copy" =>
        \A a, b \in DOMAIN vad_mapping_table :
            vad_mapping_table[a].processed_time = vad_mapping_table[b].processed_time
                => vad_mapping_table[a] = vad_mapping_table[b]
    /\ pc = "transcribe" =>
        \A k \in 1..(Len(vad_mapping_table) - 1) :
            /\ vad_mapping_table[k].processed_time < vad_mapping_table[k + 1].processed_time
            /\ vad_mapping_table[k].original_time <= vad_mapping_table[k + 1].original_time

\* Times of the results, whatever they are in the joined audio, come back in order and
\* with a positive duration, and start within the speech that was found.
SegmentTimesInOrder ==
    pc = "idle" /\ result.kind = "vad" /\ Mapped =>
        \A t0 \in 0..result.len :
            /\ whisper_full_get_segment_t0(t0) \in Head(vad_segments).orig_start..Last(vad_segments).orig_end
            /\ t0 > 0 => whisper_full_get_segment_t0(t0 - 1) <= whisper_full_get_segment_t0(t0)
            /\ \A t1 \in {t0, result.len} : whisper_full_get_segment_t0(t0) < whisper_full_get_segment_t1(t0, t1)

\* "never ends up in the middle of a cut-out gap": a token starts in a segment of
\* speech, and tokens stay in order with a positive duration.
TokenTimesInSpeech ==
    pc = "idle" /\ result.kind = "vad" /\ TokensMapped =>
        \A t0 \in 0..result.len :
            /\ \E k \in DOMAIN vad_segments :
                 whisper_full_get_token_t0(t0) \in vad_segments[k].orig_start..vad_segments[k].orig_end
            /\ t0 > 0 => whisper_full_get_token_t0(t0 - 1) <= whisper_full_get_token_t0(t0)
            /\ whisper_full_get_token_t0(t0) < whisper_full_get_token_t1(t0, t0)

\* "If VAD wasn't used, return the original timestamp": times of a transcription made
\* without VAD are returned as they are.
UnmappedWithoutVad ==
    result.kind = "plain" =>
        \A t0 \in 0..result.len : whisper_full_get_segment_t0(t0) = t0
=============================================================================
