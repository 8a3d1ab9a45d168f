--------------------------- MODULE WhisperParallel ---------------------------
(***************************************************************************)
(* whisper_full_parallel with n_processors > 1: the audio is cut into      *)
(* chunks, the calling thread transcribes the first with the context's own *)
(* state and one thread each transcribes the others with a new state; the  *)
(* results are then joined, shifted in time and merged.                    *)
(*                                                                         *)
(* The transcription of a chunk is the component WhisperFull: it may fail, *)
(* leaving the segments it has, and its segments follow one another.  They *)
(* may reach past the end of the chunk (a window without timestamps lasts  *)
(* 30 s).  Times are in hundredths of a second; ints have IntMax.          *)
(***************************************************************************)
EXTENDS Integers, Sequences

CONSTANTS
    SampleRate,   \* samples per second, 16000
    Centis,       \* 100
    Millis,       \* 1000
    IntMax,       \* largest int, 2^31 - 1
    AudioLens,    \* samples of a call, and of what VAD leaves of them
    Offsets,      \* offset_ms of a call
    Processors,   \* n_processors of a call
    LocalTimes,   \* possible sequences of segments of a chunk, in its own time
    MaxCalls      \* bound on the number of calls

VARIABLES
    pc,           \* where the calling thread is
    ret,          \* what the call returned
    calls,
    audio,        \* [n, offset_ms, processors] of the call
    worker,       \* by chunk from 1: "none", "running", "done", "freed"
    segs,         \* by chunk from 1: the segments of its state
    result_all,   \* the segments of the context's state
    notified,     \* segments announced by new_segment_callback
    next          \* the next chunk to start, join or merge

vars == <<pc, ret, calls, audio, worker, segs, result_all, notified, next>>

MaxChunk == (CHOOSE p \in Processors : \A q \in Processors : q <= p) - 1

ASSUME ParallelAssumption ==
    /\ SampleRate \in Nat \ {0} /\ Centis \in Nat \ {0} /\ Millis \in Nat \ {0}
    /\ IntMax \in Nat \ {0} /\ MaxCalls \in Nat
    /\ AudioLens \subseteq Nat \ {0} /\ Offsets \subseteq Nat
    /\ Processors \subseteq Nat \ {0, 1} /\ \E p \in Processors : \A q \in Processors : q <= p
    /\ LocalTimes \subseteq Seq([t0 : Nat, t1 : Nat])
    /\ \A s \in LocalTimes : \A k \in 1..Len(s) :
          /\ s[k].t0 <= s[k].t1
          /\ k > 1 => s[k - 1].t1 <= s[k].t0

\* Integer division of C, and a product as an int has it.
Quotient(a, b) == IF a >= 0 THEN a \div b ELSE -((-a) \div b)
AsInt(a)       == ((a + IntMax + 1) % (2 * (IntMax + 1))) - (IntMax + 1)
-----------------------------------------------------------------------------
(* How the audio is cut.                                                   *)

OffsetSamples == Quotient(AsInt(SampleRate * audio.offset_ms), Millis)
PerProcessor  == Quotient(audio.n - OffsetSamples, audio.processors)
LastChunk     == audio.processors - 1

Start(c) == OffsetSamples + c * PerProcessor

\* Mutant: the last chunk is as long as the others.
MUT_NoRemainder(c) == PerProcessor

\* The samples of chunk c; the last takes what the division leaves.
Count(c) == IF c = LastChunk THEN audio.n - Start(c) ELSE PerProcessor

\* The first chunk starts at the beginning of the audio and skips the offset itself.
FirstCount == OffsetSamples + PerProcessor

\* Mutant: the chunk before is counted.
MUT_OneChunkLess(c) ==
    Quotient(AsInt(Centis * AsInt((c - 1) * PerProcessor)), SampleRate)
    + (audio.offset_ms * Centis) \div Millis

\* What the merge adds to the times of chunk c.
Shift(c) ==
    Quotient(AsInt(Centis * AsInt(c * PerProcessor)), SampleRate)
    + (audio.offset_ms * Centis) \div Millis
-----------------------------------------------------------------------------
Init ==
    /\ pc = "idle" /\ ret = "none" /\ calls = 0
    /\ audio = [n |-> 0, offset_ms |-> 0, processors |-> 2]
    /\ worker = [c \in 1..MaxChunk |-> "none"]
    /\ segs = [c \in 1..MaxChunk |-> <<>>]
    /\ result_all = <<>> /\ notified = 0 /\ next = 1

Return(code) == pc' = "idle" /\ ret' = code

Call ==
    /\ pc = "idle" /\ calls < MaxCalls
    /\ calls' = calls + 1
    /\ \E n \in AudioLens, o \in Offsets, p \in Processors :
          audio' = [n |-> n, offset_ms |-> o, processors |-> p]
    /\ pc' \in {"vad", "spawn"} /\ ret' = "none"
    /\ notified' = 0 /\ next' = 1
    /\ worker' = [c \in 1..MaxChunk |-> "none"]
    /\ segs' = [c \in 1..MaxChunk |-> <<>>]
    /\ UNCHANGED result_all

\* whisper_vad fails; without speech the call succeeds and the results of the
\* call before stay; with speech the speech is what is transcribed.
Vad ==
    /\ pc = "vad"
    /\ \/ Return("-1") /\ UNCHANGED audio
       \/ Return("no speech") /\ UNCHANGED audio
       \/ /\ \E n \in AudioLens : audio' = [audio EXCEPT !.n = n]
          /\ pc' = "spawn" /\ UNCHANGED ret
    /\ UNCHANGED <<calls, worker, segs, result_all, notified, next>>

\* A new state and a thread for it.  A state that cannot be created is a null
\* pointer in the new thread.
Spawn ==
    /\ pc = "spawn"
    /\ \/ /\ worker' = [worker EXCEPT ![next] = "running"]
          /\ next' = IF next = LastChunk THEN 1 ELSE next + 1
          /\ pc' = IF next = LastChunk THEN "first" ELSE "spawn"
       \/ pc' = "undefined" /\ UNCHANGED <<worker, next>>
    /\ UNCHANGED <<ret, calls, audio, segs, result_all, notified>>

Tag(c, s) == [k \in 1..Len(s) |-> [call |-> calls, chunk |-> c, k |-> k, t0 |-> s[k].t0,
                                   t1 |-> s[k].t1]]

\* A thread ends; its result code is lost.  On -7 the call has freed the state
\* that the merge is going to read and free.
Finish(c) ==
    /\ worker[c] = "running" /\ pc # "undefined"
    /\ \/ /\ \E s \in LocalTimes : segs' = [segs EXCEPT ![c] = Tag(c, s)]
          /\ worker' = [worker EXCEPT ![c] = "done"]
       \/ worker' = [worker EXCEPT ![c] = "freed"] /\ UNCHANGED segs
    /\ UNCHANGED <<pc, ret, calls, audio, result_all, notified, next>>

\* The first chunk, on the calling thread, with the host's own callbacks; its
\* times start at the beginning of the audio.
First ==
    /\ pc = "first"
    /\ \/ /\ \E s \in LocalTimes :
                result_all' = Tag(0, [k \in 1..Len(s) |->
                                        [t0 |-> s[k].t0 + (audio.offset_ms * Centis) \div Millis,
                                         t1 |-> s[k].t1 + (audio.offset_ms * Centis) \div Millis]])
          /\ notified' = Len(result_all')
          /\ ret' \in {"0", "-6"}
          /\ pc' = "join"
       \/ pc' = "undefined" /\ UNCHANGED <<result_all, notified, ret>>
    /\ UNCHANGED <<calls, audio, worker, segs, next>>

Join ==
    /\ pc = "join"
    /\ worker[next] \in {"done", "freed"}
    /\ next' = IF next = LastChunk THEN 1 ELSE next + 1
    /\ pc' = IF next = LastChunk THEN "merge" ELSE "join"
    /\ UNCHANGED <<ret, calls, audio, worker, segs, result_all, notified>>

Later(a, b) == IF a >= b THEN a ELSE b

\* A segment starts no earlier than the last one of the results ends.
ClampStart(t0, c, k) ==
    IF k > 1 THEN Later(t0, segs[c][k - 1].t1 + Shift(c))
    ELSE IF result_all = <<>> THEN t0 ELSE Later(t0, result_all[Len(result_all)].t1)

\* Segment k of chunk c as it goes to the end of the results.
PushResult(c, k) ==
    [segs[c][k] EXCEPT !.t0 = ClampStart(@ + Shift(c), c, k),
                       !.t1 = @ + Shift(c)]

Merged(c) == result_all \o [k \in 1..Len(segs[c]) |-> PushResult(c, k)]

\* Mutant: one notification per chunk.
MUT_PerChunk(c) == notified' = notified + 1

\* The host is told of each segment that is merged.
NotifyEach(c) == notified' = notified + Len(segs[c])

\* The results of chunk c are appended and its state is freed.
Merge ==
    /\ pc = "merge"
    /\ IF worker[next] = "freed"
       THEN pc' = "undefined" /\ UNCHANGED <<worker, result_all, notified, next>>
       ELSE /\ result_all' = Merged(next)
            /\ NotifyEach(next)
            /\ worker' = [worker EXCEPT ![next] = "none"]
            /\ next' = IF next = LastChunk THEN 1 ELSE next + 1
            /\ pc' = IF next = LastChunk THEN "idle" ELSE "merge"
    /\ UNCHANGED <<ret, calls, audio, segs>>

\* The host makes no further call, or the process has gone astray.
Rest == pc \in {"idle", "undefined"} /\ UNCHANGED vars

Next ==
    \/ Call \/ Vad \/ Spawn \/ First \/ Join \/ Merge \/ Rest
    \/ \E c \in 1..MaxChunk : Finish(c)

Spec == Init /\ [][Next]_vars
-----------------------------------------------------------------------------
(* Properties.                                                             *)

\* The products of the call fit an int, and the offset lies inside the audio.
Fits ==
    /\ SampleRate * audio.offset_ms <= IntMax
    /\ OffsetSamples <= audio.n
    /\ Centis * LastChunk * PerProcessor <= IntMax

\* The chunks tile the audio: the first begins at sample 0, each begins where
\* the one before it ends, none has a negative length, and the last ends with
\* the audio, so no sample is lost to rounding and none is read behind the end
\* (given that the products fit an int and the offset lies inside the audio).
ChunksTile ==
    (pc = "spawn" /\ Fits) =>
        /\ FirstCount = Start(1)
        /\ \A c \in 1..LastChunk : Count(c) >= 0
        /\ \A c \in 1..(LastChunk - 1) : Start(c) + Count(c) = Start(c + 1)
        /\ Start(LastChunk) + Count(LastChunk) = audio.n

\* A transcription of this call was returned.
Returned == pc = "idle" /\ ret \in {"0", "-6"}

\* Every segment of every chunk is in the result once, in the order of the
\* chunks, none is left of an earlier call, and the host was told of each, in
\* whatever order the threads ended and whether or not they failed.
AllMerged ==
    Returned =>
        /\ notified = Len(result_all)
        /\ \A i \in 1..Len(result_all) : result_all[i].call = calls
        /\ \A i, j \in 1..Len(result_all) :
              i < j => \/ result_all[i].chunk < result_all[j].chunk
                       \/ result_all[i].chunk = result_all[j].chunk /\ result_all[i].k < result_all[j].k
        /\ \A c \in 1..LastChunk : \A k \in 1..Len(segs[c]) :
              \E i \in 1..Len(result_all) : result_all[i].chunk = c /\ result_all[i].k = k

\* The time at which chunk c starts.
BeginsAt(c) ==
    (Centis * c * PerProcessor) \div SampleRate + (audio.offset_ms * Centis) \div Millis

\* The segment ends before the next chunk begins.
StaysInside(s) ==
    \/ s.chunk = LastChunk
    \/ IF s.chunk = 0 THEN s.t1 <= BeginsAt(1)
       ELSE segs[s.chunk][s.k].t1 + BeginsAt(s.chunk) <= BeginsAt(s.chunk + 1)

\* "make sure that segments are not overlapping": the merged segments follow
\* one another, given that none reached past the end of its own chunk.
MergedInOrder ==
    (Returned /\ Fits /\ \A i \in 1..Len(result_all) : StaysInside(result_all[i])) =>
        \A i \in 1..(Len(result_all) - 1) :
            /\ result_all[i].t0 <= result_all[i].t1
            /\ result_all[i].t1 <= result_all[i + 1].t0
-----------------------------------------------------------------------------
(* A statement of a comment that the code does not keep.                   *)

\* "correct the segment timestamp taking into account the offset": the end of a
\* merged segment is its time in the chunk plus the time at which it starts.
TimesCorrected ==
    Returned => \A i \in 1..Len(result_all) :
        LET s == result_all[i]
        IN s.chunk > 0 => s.t1 = segs[s.chunk][s.k].t1 + BeginsAt(s.chunk)
=============================================================================
