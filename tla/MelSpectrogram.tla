--------------------------- MODULE MelSpectrogram ---------------------------
(***************************************************************************)
(* The log-mel spectrogram of a whisper_state over a sequence of calls.    *)
(* The padded copy of the audio lives in mel_pad_buf, a buffer of the      *)
(* state that is reused and only grows, and n_threads threads fill the     *)
(* frames of mel.data, which keeps what earlier calls left in it.          *)
(*                                                                         *)
(* A sample is named by its call and its index, Quiet is zero.  The        *)
(* transform is a function of the samples of a frame, so the value of a    *)
(* frame is those samples; the normalisation that follows depends on the   *)
(* loudest frame, so a finished frame carries the set of all frames.       *)
(***************************************************************************)
EXTENDS Integers, Sequences, FiniteSets

CONSTANTS
    FrameSize,    \* WHISPER_N_FFT, 400
    FrameStep,    \* WHISPER_HOP_LENGTH, 160
    LongPad,      \* samples of the 30 s of silence behind the audio
    MinSamples,   \* samples of the 1.5 s whisper_full pads short audio to
    AudioLens,    \* samples of a call
    ThreadCounts, \* n_threads of a call
    MelLens,      \* frames of a spectrogram the host provides itself
    MaxCalls      \* bound on the number of calls

VARIABLES
    buf,          \* mel_pad_buf
    mel,          \* state->mel: n_len, n_len_org and data by frame
    call,         \* number of the current call
    n,            \* n_samples as passed to log_mel_spectrogram
    real,         \* of these, the samples that are not padding of short audio
    at            \* the next frame of each thread, <<>> between calls

vars == <<buf, mel, call, n, real, at>>

ASSUME MelAssumption ==
    /\ FrameSize \in Nat \ {0} /\ FrameStep \in 1..(FrameSize \div 2)
    /\ LongPad \in Nat /\ LongPad % FrameStep = 0
    /\ LongPad >= FrameSize /\ LongPad >= FrameSize \div 2 + 2 * FrameStep
    /\ MinSamples \in Nat /\ MinSamples > FrameSize \div 2
    /\ AudioLens \subseteq Nat \ {0} /\ ThreadCounts \subseteq Nat \ {0}
    /\ MelLens \subseteq Nat /\ MaxCalls \in Nat

ShortPad  == FrameSize \div 2
Window    == LongPad \div FrameStep
Busy      == at # <<>>

\* Integer division of C.
Quotient(a, b) == IF a >= 0 THEN a \div b ELSE -((-a) \div b)

\* The audio of a call: its samples, then the zeros short audio is padded with.
Quiet == <<0, 0>>
Sample(c, r, j) == IF j < r THEN <<c, j>> ELSE Quiet

(***************************************************************************)
(* The padded audio, from index 0, over the old content of the buffer: the *)
(* reflected head, the samples, and silence.  A buffer that is too short   *)
(* grows, with zeros; one that is too long keeps its length and its tail.  *)
(***************************************************************************)
\* The number of reflected samples, clamped to the audio there is.
ReflectCount(len) ==
    LET available == IF len > 1 THEN len - 1 ELSE 0
    IN IF ShortPad < available THEN ShortPad ELSE available

\* Mutant: no silence behind the audio.
MUT_NoLongPad(len) == len + 2 * ShortPad

\* The length of the padded audio.
Needed(len) == len + LongPad + 2 * ShortPad

Padded(old, c, len, r) ==
    LET size == IF Len(old) < Needed(len) THEN Needed(len) ELSE Len(old)
        kept(k) == IF k < Len(old) THEN old[k + 1] ELSE Quiet
        head    == ShortPad - ReflectCount(len)
    IN [p \in 1..size |->
          LET k == p - 1
          IN IF k < head THEN kept(k)
             ELSE IF k < ShortPad THEN Sample(c, r, ShortPad - k)
             ELSE IF k < len + ShortPad THEN Sample(c, r, k - ShortPad)
             ELSE IF k < Needed(len) THEN Quiet
             ELSE kept(k)]

NLen(size)   == (size - FrameSize) \div FrameStep
NLenOrg(len) == 1 + Quotient(len + ShortPad - FrameSize, FrameStep)

Lower(a, b) == IF a < b THEN a ELSE b

\* Frame i of a buffer that holds the audio up to index valid: what lies behind
\* is taken as zero.
FrameOf(b, valid, i) ==
    [j \in 0..(FrameSize - 1) |->
        IF i * FrameStep + j < valid THEN b[i * FrameStep + j + 1] ELSE Quiet]

Silence == [j \in 0..(FrameSize - 1) |-> Quiet]

\* A frame of mel.data; among is {} until it is normalised.
Raw(v) == [frame |-> v, among |-> {}]

\* Mutant: the frames after the audio are left as they are.
MUT_AudioOnly(len, m) == Lower((len + ShortPad) \div FrameStep + 1, m)

\* One past the last frame a thread writes.
WrittenEnd(len, m) == m

\* The value the worker computes for frame i of m frames.
FrameValue(b, len, m, i) ==
    IF i < Lower((len + ShortPad) \div FrameStep + 1, m)
    THEN FrameOf(b, len + ShortPad, i)
    ELSE Silence
-----------------------------------------------------------------------------
Init ==
    /\ buf = <<>> /\ at = <<>>
    /\ mel = [n_len |-> 0, n_len_org |-> 0, data |-> <<>>]
    /\ call = 0 /\ n = 0 /\ real = 0

\* mel.data.resize: the old values stay in front, the new ones are zero (the
\* layout by band changes with n_len, so an old value may be any old frame).
Resized(data, m) == [i \in 1..m |-> IF i <= Len(data) THEN data[i] ELSE Raw(Silence)]

\* log_mel_spectrogram up to the start of its threads.
Begin(len, r, threads) ==
    /\ ~Busy /\ call < MaxCalls
    /\ call' = call + 1 /\ n' = len /\ real' = r
    /\ buf' = Padded(buf, call + 1, len, r)
    /\ mel' = [n_len     |-> NLen(Len(buf')),
               n_len_org |-> NLenOrg(len),
               data      |-> Resized(mel.data, NLen(Len(buf')))]
    /\ at' = [t \in 1..threads |-> t - 1]

\* whisper_pcm_to_mel: the audio as it is.
PcmToMel == \E len \in AudioLens, threads \in ThreadCounts : Begin(len, len, threads)

\* whisper_full_with_state pads short audio to 1.5 s first.
Full ==
    \E len \in AudioLens, threads \in ThreadCounts :
        Begin(IF len < MinSamples THEN MinSamples ELSE len, len, threads)

\* log_mel_spectrogram_worker_thread: thread t writes its next frame.
WriteFrame(t) ==
    /\ Busy
    /\ at[t] < WrittenEnd(n, mel.n_len)
    /\ mel' = [mel EXCEPT !.data[at[t] + 1] = Raw(FrameValue(buf, n, mel.n_len, at[t]))]
    /\ at' = [at EXCEPT ![t] = @ + Len(at)]
    /\ UNCHANGED <<buf, call, n, real>>

\* What clamping and normalisation make of frame v among all the frames.
Normalised(v, data) == [frame |-> v.frame, among |-> {data[i].frame : i \in 1..Len(data)}]

\* The threads are joined and the frames normalised.
Finish ==
    /\ Busy
    /\ \A t \in 1..Len(at) : at[t] >= WrittenEnd(n, mel.n_len)
    /\ mel' = [mel EXCEPT !.data = [i \in 1..mel.n_len |-> Normalised(mel.data[i], mel.data)]]
    /\ at' = <<>>
    /\ UNCHANGED <<buf, call, n, real>>

\* whisper_set_mel: the host's own spectrogram.
SetMel ==
    \E len \in MelLens :
        /\ ~Busy /\ call < MaxCalls
        /\ call' = call + 1
        /\ mel' = [n_len |-> len, n_len_org |-> len,
                   data  |-> [i \in 1..len |-> Raw([j \in 0..(FrameSize - 1) |-> <<call + 1, i>>])]]
        /\ n' = 0 /\ real' = 0
        /\ UNCHANGED <<buf, at>>

\* The host makes no further call.
Rest == ~Busy /\ UNCHANGED vars

Next == PcmToMel \/ Full \/ (\E t \in DOMAIN at : WriteFrame(t)) \/ Finish \/ SetMel \/ Rest

Spec == Init /\ [][Next]_vars
-----------------------------------------------------------------------------
(* Properties.                                                             *)

\* Frame k of the encoder's input window at frame seek: whisper_encode_internal
\* copies what there is of the spectrogram and leaves the rest zero.
EncoderInput(m, seek, k) == IF seek + k < m.n_len THEN m.data[seek + k + 1] ELSE Raw(<<>>)

\* The spectrogram of the same audio in a state that was never used.
Fresh ==
    LET b    == Padded(<<>>, call, n, real)
        m    == NLen(Len(b))
        data == [i \in 1..m |-> Raw(FrameValue(b, n, m, i - 1))]
    IN [n_len |-> m, data |-> [i \in 1..m |-> Normalised(data[i], data)]]

\* Reusing the buffers is invisible: for every window that starts inside the
\* audio the encoder gets what it would get from a fresh state, whatever longer
\* or shorter audio the state has seen, for every number of threads (given audio
\* longer than the reflected head: below that the head of the buffer keeps
\* samples of an earlier call).
SameAsFresh ==
    (~Busy /\ n > ShortPad) =>
        \A seek \in 0..(mel.n_len_org - 1), k \in 0..(Window - 1) :
            EncoderInput(mel, seek, k) = EncoderInput(Fresh, seek, k)

\* Every window that starts inside the audio lies inside the spectrogram, so the
\* encoder never gets the raw zeros behind it in place of normalised silence.
WindowInside ==
    (~Busy /\ n > 0) => \A seek \in 0..(mel.n_len_org - 1) : seek + Window <= mel.n_len
=============================================================================
