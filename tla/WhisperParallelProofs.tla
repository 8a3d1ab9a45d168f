------------------------ MODULE WhisperParallelProofs ------------------------
(***************************************************************************)
(* The parallel transcription for any audio, any number of processors and  *)
(* any results of the chunks.  The inductive invariant says of the results *)
(* that they are Filled up to the chunk that is merged next, and where a   *)
(* thread may still run.                                                   *)
(***************************************************************************)
EXTENDS WhisperParallel, SequenceTheorems, TLAPS

\* A segment of a chunk, in its own time, and one of the results.
Segment       == [call : Nat, chunk : Nat, k : Nat, t0 : Nat, t1 : Nat]
ResultSegment == [call : Nat, chunk : Nat, k : Nat, t0 : Int, t1 : Int]

ParallelTypeOK ==
    /\ calls \in Nat /\ notified \in Nat
    /\ audio \in [n : Nat, offset_ms : Nat, processors : Nat \ {0, 1}]
    /\ LastChunk <= MaxChunk /\ next \in 1..LastChunk
    /\ worker \in [1..MaxChunk -> {"none", "running", "done", "freed"}]
    /\ segs \in [1..MaxChunk -> Seq(Segment)]
    /\ result_all \in Seq(ResultSegment)

\* A thread runs for a chunk of this call that was started and not yet joined.
RunsBeforeJoin ==
    \A c \in 1..MaxChunk : worker[c] = "running" =>
        /\ c <= LastChunk
        /\ pc \in {"spawn", "first", "join", "undefined"}
        /\ pc = "spawn" => c < next
        /\ pc = "join" => next <= c

\* The segments of a chunk are those of this call, and follow one another.
SegsTagged ==
    \A c \in 1..MaxChunk : \A k \in 1..Len(segs[c]) :
        /\ segs[c][k].call = calls /\ segs[c][k].chunk = c /\ segs[c][k].k = k
        /\ segs[c][k].t0 <= segs[c][k].t1
        /\ k > 1 => segs[c][k - 1].t1 <= segs[c][k].t0

Before(r, s) == r.chunk < s.chunk \/ (r.chunk = s.chunk /\ r.k < s.k)

\* The results hold nothing but segments of this call, of chunks before m ...
OnlyBefore(m) ==
    \A i \in 1..Len(result_all) :
        /\ result_all[i].call = calls
        /\ result_all[i].chunk < m
        /\ result_all[i].chunk > 0 =>
              /\ result_all[i].k \in 1..Len(segs[result_all[i].chunk])
              /\ result_all[i].t1 = segs[result_all[i].chunk][result_all[i].k].t1 + Shift(result_all[i].chunk)

\* ... in the order of the chunks, ...
Ordered == \A i, j \in 1..Len(result_all) : i < j => Before(result_all[i], result_all[j])

\* ... all the segments of the chunks from 1 up to m ...
AllBefore(m) ==
    \A c \in 1..(m - 1) : \A k \in 1..Len(segs[c]) :
        \E i \in 1..Len(result_all) : result_all[i].chunk = c /\ result_all[i].k = k

\* ... and none starts before the one before it has ended.
NoOverlap == \A i \in 1..(Len(result_all) - 1) : result_all[i].t1 <= result_all[i + 1].t0

\* A start moved by the merge stays before the end while no segment leaves its chunk.
StartsBeforeEnds ==
    (Fits /\ \A i \in 1..Len(result_all) : StaysInside(result_all[i])) =>
        \A i \in 1..Len(result_all) : result_all[i].t0 <= result_all[i].t1

Filled(m) ==
    /\ notified = Len(result_all)
    /\ OnlyBefore(m) /\ Ordered /\ AllBefore(m) /\ NoOverlap /\ StartsBeforeEnds

IInv ==
    /\ ParallelTypeOK
    /\ RunsBeforeJoin
    /\ pc = "first" => next = 1
    /\ SegsTagged
    /\ pc = "join" => Filled(1)
    /\ pc = "merge" => Filled(next)
    /\ Returned => Filled(LastChunk + 1)
-----------------------------------------------------------------------------
(* Arithmetic.                                                             *)

\* What integer division gives.
LEMMA DivFacts ==
    ASSUME NEW a \in Nat, NEW b \in Nat \ {0}
    PROVE  /\ a \div b \in Nat
           /\ b * (a \div b) <= a /\ a < b * (a \div b) + b
  BY SMT

\* Multiplication keeps the order of the naturals.
LEMMA MulMono ==
    ASSUME NEW a \in Nat, NEW b \in Nat, NEW k \in Nat, a <= b
    PROVE  /\ a * k \in Nat /\ b * k \in Nat /\ k * a \in Nat /\ k * b \in Nat
           /\ a * k <= b * k /\ k * a <= k * b
  BY SMT

\* So does division.
LEMMA DivMono ==
    ASSUME NEW a \in Nat, NEW b \in Nat, NEW k \in Nat \ {0}, a <= b
    PROVE  a \div k <= b \div k
  <1> DEFINE x == a \div k
             y == b \div k
  <1>1. /\ x \in Nat /\ k * x <= a
        /\ y \in Nat /\ b < k * y + k
    BY DivFacts
  <1> HIDE DEF x, y
  <1>2. SUFFICES ASSUME y + 1 <= x PROVE FALSE
    BY <1>1 DEF x, y
  <1>3. k * (y + 1) <= k * x
    BY <1>1, <1>2, MulMono
  <1>4. k * (y + 1) = k * y + k
    BY <1>1
  <1> QED
    BY <1>1, <1>3, <1>4

\* An int holds what fits it.
LEMMA AsIntFits ==
    ASSUME NEW a \in Nat, a <= IntMax
    PROVE  AsInt(a) = a
  <1> DEFINE m == IntMax + 1
  <1>1. m \in Nat \ {0} /\ a < m
    BY ParallelAssumption
  <1>2. AsInt(a) = ((a + m) % (2 * m)) - m
    BY ParallelAssumption DEF AsInt
  <1> HIDE DEF m
  <1>3. (a + m) % (2 * m) = a + m
    BY <1>1
  <1> QED
    BY <1>1, <1>2, <1>3

\* The largest chunk is that of the largest number of processors.
LEMMA MaxChunkFacts ==
    /\ MaxChunk \in Nat \ {0}
    /\ \A p \in Processors : p - 1 <= MaxChunk
  <1> DEFINE m == CHOOSE p \in Processors : \A q \in Processors : q <= p
  <1>1. m \in Processors /\ \A q \in Processors : q <= m
    BY ParallelAssumption
  <1>2. MaxChunk = m - 1
    BY DEF MaxChunk
  <1> HIDE DEF m
  <1> QED
    BY <1>1, <1>2, ParallelAssumption

\* The types of the cut.
LEMMA CutTypes ==
    ASSUME ParallelTypeOK
    PROVE  /\ LastChunk \in Nat \ {0} /\ OffsetSamples \in Int /\ PerProcessor \in Int
           /\ \A c \in Nat : Shift(c) \in Int
  <1> USE ParallelAssumption
  <1>1. \A a \in Int, b \in Nat \ {0} : Quotient(a, b) \in Int
    BY DEF Quotient
  <1>2. \A a \in Int : AsInt(a) \in Int
    BY DEF AsInt
  <1>3. audio.n \in Nat /\ audio.offset_ms \in Nat /\ audio.processors \in Nat \ {0, 1}
    BY DEF ParallelTypeOK
  <1>4. OffsetSamples \in Int
    <2>1. SampleRate * audio.offset_ms \in Int
      BY <1>3
    <2> QED
      BY <2>1, <1>1, <1>2 DEF OffsetSamples
  <1>5. PerProcessor \in Int
    <2>1. audio.n - OffsetSamples \in Int
      BY <1>3, <1>4
    <2> QED
      BY <2>1, <1>1, <1>3 DEF PerProcessor
  <1>6. ASSUME NEW c \in Nat PROVE Shift(c) \in Int
    <2>1. c * PerProcessor \in Int
      BY <1>5
    <2>2. Centis * AsInt(c * PerProcessor) \in Int
      BY <2>1, <1>2
    <2>3. Quotient(AsInt(Centis * AsInt(c * PerProcessor)), SampleRate) \in Int
      BY <2>2, <1>1, <1>2
    <2>4. (audio.offset_ms * Centis) \div Millis \in Int
      BY <1>3
    <2> QED
      BY <2>3, <2>4 DEF Shift
  <1> QED
    BY <1>3, <1>4, <1>5, <1>6 DEF LastChunk

\* When the products fit, the cut is the division it stands for, and a chunk
\* is shifted to where it begins.
LEMMA FitsFacts ==
    ASSUME ParallelTypeOK, Fits
    PROVE  /\ OffsetSamples \in Nat /\ PerProcessor \in Nat
           /\ OffsetSamples <= audio.n
           /\ audio.processors * PerProcessor <= audio.n - OffsetSamples
           /\ \A c \in 0..LastChunk : Shift(c) = BeginsAt(c)
           /\ \A c, d \in 0..LastChunk : c <= d => BeginsAt(c) <= BeginsAt(d)
           /\ \A c \in 0..LastChunk : BeginsAt(c) \in Int
  <1> USE ParallelAssumption
  <1>1. audio.n \in Nat /\ audio.offset_ms \in Nat /\ audio.processors \in Nat \ {0, 1}
    BY DEF ParallelTypeOK
  <1>2. OffsetSamples \in Nat /\ OffsetSamples <= audio.n
    <2>1. SampleRate * audio.offset_ms \in Nat
      BY <1>1
    <2>2. AsInt(SampleRate * audio.offset_ms) = SampleRate * audio.offset_ms
      BY <2>1, AsIntFits DEF Fits
    <2>3. OffsetSamples = (SampleRate * audio.offset_ms) \div Millis
      BY <2>1, <2>2 DEF OffsetSamples, Quotient
    <2> QED
      BY <2>1, <2>3, DivFacts DEF Fits
  <1>3. PerProcessor \in Nat /\ audio.processors * PerProcessor <= audio.n - OffsetSamples
    <2>1. audio.n - OffsetSamples \in Nat
      BY <1>1, <1>2
    <2>2. PerProcessor = (audio.n - OffsetSamples) \div audio.processors
      BY <2>1 DEF PerProcessor, Quotient
    <2> QED
      BY <2>1, <2>2, <1>1, DivFacts
  <1>4. LastChunk \in Nat
    BY <1>1 DEF LastChunk
  <1>5. ASSUME NEW c \in 0..LastChunk
        PROVE  /\ c \in Nat /\ c * PerProcessor \in Nat /\ Centis * (c * PerProcessor) \in Nat
               /\ Centis * (c * PerProcessor) <= IntMax /\ c * PerProcessor <= IntMax
               /\ Centis * c * PerProcessor = Centis * (c * PerProcessor)
    <2> DEFINE p == PerProcessor
    <2>0. c \in Nat /\ c <= LastChunk /\ p \in Nat
      BY <1>3, <1>4
    <2> HIDE DEF p
    <2>1. c * p \in Nat /\ LastChunk * p \in Nat /\ c * p <= LastChunk * p
      BY <2>0, <1>4, MulMono
    <2>2. Centis * (c * p) \in Nat /\ Centis * (c * p) <= Centis * (LastChunk * p)
      BY <2>1, MulMono
    <2>3. Centis * LastChunk * p = Centis * (LastChunk * p) /\ Centis * c * p = Centis * (c * p)
      BY <2>0, <1>4
    <2>4. 1 * (c * p) <= Centis * (c * p)
      BY <2>1, MulMono
    <2>5. Centis * LastChunk * p <= IntMax
      BY DEF Fits, p
    <2>6. c * p <= IntMax /\ Centis * (c * p) <= IntMax
      BY <2>1, <2>2, <2>3, <2>4, <2>5
    <2> QED
      BY <2>0, <2>1, <2>2, <2>3, <2>6 DEF p
  <1>6. ASSUME NEW c \in 0..LastChunk PROVE Shift(c) = BeginsAt(c)
    <2>1. AsInt(c * PerProcessor) = c * PerProcessor
      BY <1>5, AsIntFits
    <2>2. AsInt(Centis * AsInt(c * PerProcessor)) = Centis * (c * PerProcessor)
      BY <2>1, <1>5, AsIntFits
    <2>3. Quotient(Centis * (c * PerProcessor), SampleRate) = (Centis * (c * PerProcessor)) \div SampleRate
      BY <1>5 DEF Quotient
    <2> QED
      BY <2>2, <2>3, <1>5 DEF Shift, BeginsAt
  <1>7. (audio.offset_ms * Centis) \div Millis \in Nat
    <2>1. audio.offset_ms * Centis \in Nat
      BY <1>1
    <2> QED
      BY <2>1, DivFacts
  <1>8. ASSUME NEW c \in 0..LastChunk PROVE BeginsAt(c) \in Int
    <2>1. (Centis * c * PerProcessor) \div SampleRate \in Nat
      BY <1>5, DivFacts
    <2> QED
      BY <2>1, <1>7 DEF BeginsAt
  <1>9. ASSUME NEW c \in 0..LastChunk, NEW d \in 0..LastChunk, c <= d PROVE BeginsAt(c) <= BeginsAt(d)
    <2>1. c * PerProcessor <= d * PerProcessor
      BY <1>9, <1>5, <1>3, MulMono
    <2>2. Centis * (c * PerProcessor) <= Centis * (d * PerProcessor)
      BY <2>1, <1>5, MulMono
    <2>3. (Centis * (c * PerProcessor)) \div SampleRate <= (Centis * (d * PerProcessor)) \div SampleRate
      BY <2>2, <1>5, DivMono
    <2>4. (Centis * (c * PerProcessor)) \div SampleRate \in Nat /\ (Centis * (d * PerProcessor)) \div SampleRate \in Nat
      BY <1>5, DivFacts
    <2> QED
      BY <2>3, <2>4, <1>5, <1>7 DEF BeginsAt
  <1> QED
    BY <1>2, <1>3, <1>6, <1>8, <1>9

\* The cut tiles the audio, whatever the offset and the number of processors.
LEMMA Tiles == ParallelTypeOK => ChunksTile
  <1> SUFFICES ASSUME ParallelTypeOK, Fits
               PROVE  /\ FirstCount = Start(1)
                      /\ \A c \in 1..LastChunk : Count(c) >= 0
                      /\ \A c \in 1..(LastChunk - 1) : Start(c) + Count(c) = Start(c + 1)
                      /\ Start(LastChunk) + Count(LastChunk) = audio.n
    BY DEF ChunksTile
  <1> DEFINE p == PerProcessor
             o == OffsetSamples
             n == audio.n
             l == LastChunk
  <1>1. p \in Nat /\ o \in Nat /\ n \in Nat /\ l \in Nat /\ l >= 1 /\ o <= n /\ (l + 1) * p <= n - o
    <2>1. audio.n \in Nat /\ audio.processors \in Nat \ {0, 1} /\ LastChunk + 1 = audio.processors
      BY DEF ParallelTypeOK, LastChunk
    <2>2. /\ OffsetSamples \in Nat /\ PerProcessor \in Nat /\ OffsetSamples <= audio.n
          /\ audio.processors * PerProcessor <= audio.n - OffsetSamples
      BY FitsFacts
    <2>3. LastChunk \in Nat /\ LastChunk >= 1
      BY <2>1 DEF LastChunk
    <2>4. (LastChunk + 1) * PerProcessor <= audio.n - OffsetSamples
      BY <2>1, <2>2, Zenon
    <2> QED
      BY <2>1, <2>2, <2>3, <2>4
  <1>2. /\ \A c \in Nat : Start(c) = o + c * p
        /\ \A c \in Nat : Count(c) = IF c = l THEN n - Start(c) ELSE p
        /\ FirstCount = o + p
    BY DEF Start, Count, FirstCount
  <1> HIDE DEF p, o, n, l
  <1>3. (l + 1) * p = l * p + p /\ l * p \in Nat
    BY <1>1
  <1>4. \A c \in Nat : c * p \in Nat /\ (c + 1) * p = c * p + p
    BY <1>1
  <1>5. FirstCount = Start(1)
    BY <1>1, <1>2
  <1>6. Start(l) + Count(l) = n /\ Count(l) >= 0
    BY <1>1, <1>2, <1>3
  <1>7. ASSUME NEW c \in 1..l PROVE Count(c) >= 0
    BY <1>1, <1>2, <1>6
  <1>8. ASSUME NEW c \in 1..(l - 1) PROVE Start(c) + Count(c) = Start(c + 1)
    <2>1. c \in Nat /\ c + 1 \in Nat /\ c # l
      BY <1>1
    <2>2. Start(c) = o + c * p /\ Count(c) = p /\ Start(c + 1) = o + (c + 1) * p
      BY <2>1, <1>2
    <2> QED
      BY <2>1, <2>2, <1>1, <1>4
  <1> QED
    BY <1>5, <1>6, <1>7, <1>8 DEF l, n
-----------------------------------------------------------------------------
(* The steps.                                                              *)

\* The host starts in the invariant.
LEMMA InitIInv == Init => IInv
  <1> SUFFICES ASSUME Init PROVE IInv
    OBVIOUS
  <1> USE DEF Init
  <1>1. ParallelTypeOK
    <2>1. LastChunk = 1
      BY DEF LastChunk
    <2>2. segs \in [1..MaxChunk -> Seq(Segment)]
      OBVIOUS
    <2> QED
      BY <2>1, <2>2, MaxChunkFacts DEF ParallelTypeOK
  <1>2. RunsBeforeJoin
    BY DEF RunsBeforeJoin
  <1>3. SegsTagged
    BY DEF SegsTagged
  <1> QED
    BY <1>1, <1>2, <1>3 DEF IInv, Returned

\* What the invariant says of the results depends on nothing else.
LEMMA FilledFrame ==
    ASSUME NEW m, Filled(m), UNCHANGED <<notified, result_all, segs, calls, audio>>
    PROVE  Filled(m)'
  <1>1. Fits' = Fits /\ LastChunk' = LastChunk
    BY DEF Fits, OffsetSamples, PerProcessor, LastChunk
  <1>2. \A c : Shift(c)' = Shift(c)
    BY DEF Shift, PerProcessor, OffsetSamples
  <1>3. \A s : StaysInside(s)' = StaysInside(s)
    BY DEF StaysInside, BeginsAt, PerProcessor, OffsetSamples, LastChunk
  <1>4. OnlyBefore(m)'
    BY <1>2 DEF Filled, OnlyBefore
  <1>5. StartsBeforeEnds'
    BY <1>1, <1>3 DEF Filled, StartsBeforeEnds
  <1>6. Ordered' /\ AllBefore(m)' /\ NoOverlap'
    BY DEF Filled, Ordered, AllBefore, NoOverlap
  <1> QED
    BY <1>4, <1>5, <1>6 DEF Filled

\* A call starts with no results of its own.
LEMMA CallStep == ASSUME IInv, Call PROVE IInv'
  <1> USE DEF Call, IInv
  <1>1. PICK n \in AudioLens, o \in Offsets, p \in Processors :
            audio' = [n |-> n, offset_ms |-> o, processors |-> p]
    OBVIOUS
  <1>2. ParallelTypeOK'
    <2>1. LastChunk' = p - 1 /\ p \in Nat \ {0, 1} /\ LastChunk' <= MaxChunk
      BY <1>1, MaxChunkFacts, ParallelAssumption DEF LastChunk
    <2>2. segs' \in [1..MaxChunk -> Seq(Segment)]
      OBVIOUS
    <2>3. audio' \in [n : Nat, offset_ms : Nat, processors : Nat \ {0, 1}]
      BY <1>1, ParallelAssumption
    <2>4. worker' \in [1..MaxChunk -> {"none", "running", "done", "freed"}] /\ next' \in 1..LastChunk'
      BY <2>1
    <2> QED
      BY <2>1, <2>2, <2>3, <2>4 DEF ParallelTypeOK
  <1>3. RunsBeforeJoin'
    BY DEF RunsBeforeJoin
  <1>4. SegsTagged'
    BY DEF SegsTagged
  <1>5. pc' \notin {"join", "merge", "idle"}
    OBVIOUS
  <1> QED
    BY <1>2, <1>3, <1>4, <1>5 DEF Returned

\* VAD leaves a shorter audio, or ends the call.
LEMMA VadStep == ASSUME IInv, Vad PROVE IInv'
  <1> USE DEF Vad, IInv, Return
  <1>1. ParallelTypeOK'
    <2>0. AudioLens \subseteq Nat
      BY ParallelAssumption
    <2>1. audio' \in [n : Nat, offset_ms : Nat, processors : Nat \ {0, 1}] /\ audio'.processors = audio.processors
      BY <2>0 DEF ParallelTypeOK
    <2>2. LastChunk' = LastChunk
      BY <2>1 DEF LastChunk
    <2> QED
      BY <2>1, <2>2 DEF ParallelTypeOK
  <1>2. RunsBeforeJoin'
    BY DEF RunsBeforeJoin
  <1>3. SegsTagged'
    BY ZenonT(40) DEF SegsTagged
  <1>4. pc' \notin {"join", "merge"} /\ ~Returned'
    BY DEF Returned
  <1> QED
    BY <1>1, <1>2, <1>3, <1>4

\* The threads are started in the order of the chunks.
LEMMA SpawnStep == ASSUME IInv, Spawn PROVE IInv'
  <1> USE DEF Spawn, IInv
  <1>0. LastChunk' = LastChunk /\ LastChunk \in Nat \ {0}
    BY CutTypes DEF LastChunk
  <1>1. ParallelTypeOK'
    BY <1>0 DEF ParallelTypeOK
  <1>2. RunsBeforeJoin'
    BY <1>0, MaxChunkFacts DEF RunsBeforeJoin, ParallelTypeOK
  <1>3. SegsTagged'
    BY DEF SegsTagged
  <1>4. pc' \notin {"join", "merge", "idle"}
    OBVIOUS
  <1> QED
    BY <1>1, <1>2, <1>3, <1>4 DEF Returned

\* The tagged segments of a chunk.
LEMMA TagFacts ==
    ASSUME NEW c \in Nat, NEW s \in LocalTimes, calls \in Nat
    PROVE  /\ Tag(c, s) \in Seq(Segment) /\ Len(Tag(c, s)) = Len(s) /\ Len(s) \in Nat
           /\ \A k \in 1..Len(s) :
                 /\ Tag(c, s)[k].call = calls /\ Tag(c, s)[k].chunk = c /\ Tag(c, s)[k].k = k
                 /\ Tag(c, s)[k].t0 <= Tag(c, s)[k].t1
                 /\ k > 1 => Tag(c, s)[k - 1].t1 <= Tag(c, s)[k].t0
  <1>1. s \in Seq([t0 : Nat, t1 : Nat])
    BY ParallelAssumption
  <1>2. Len(s) \in Nat /\ \A k \in 1..Len(s) : s[k] \in [t0 : Nat, t1 : Nat]
    BY <1>1, ElementOfSeq, LenProperties
  <1>3. \A k \in 1..Len(s) :
           /\ s[k].t0 <= s[k].t1
           /\ k > 1 => s[k - 1].t1 <= s[k].t0
    BY ParallelAssumption
  <1>4. \A k \in 1..Len(s) :
           /\ Tag(c, s)[k].call = calls /\ Tag(c, s)[k].chunk = c /\ Tag(c, s)[k].k = k
           /\ Tag(c, s)[k].t0 = s[k].t0 /\ Tag(c, s)[k].t1 = s[k].t1
    BY DEF Tag
  <1>5. Tag(c, s) \in Seq(Segment) /\ Len(Tag(c, s)) = Len(s)
    BY <1>2 DEF Tag, Segment
  <1>6. ASSUME NEW k \in 1..Len(s)
        PROVE  /\ Tag(c, s)[k].t0 <= Tag(c, s)[k].t1
               /\ k > 1 => Tag(c, s)[k - 1].t1 <= Tag(c, s)[k].t0
    <2>1. /\ Tag(c, s)[k].t0 = s[k].t0
          /\ Tag(c, s)[k].t1 = s[k].t1
      BY <1>4
    <2>2. ASSUME k > 1 PROVE Tag(c, s)[k - 1].t1 = s[k - 1].t1
      <3>1. k - 1 \in 1..Len(s)
        BY <1>2, <2>2
      <3> QED
        BY <3>1, <1>4
    <2> QED
      BY <2>1, <2>2, <1>3
  <1> QED
    BY <1>2, <1>4, <1>5, <1>6

\* A thread writes the segments of its own chunk, which is not merged yet.
LEMMA FinishStep == ASSUME IInv, NEW c \in 1..MaxChunk, Finish(c) PROVE IInv'
  <1> USE DEF IInv
  <1>0. LastChunk' = LastChunk /\ LastChunk \in Nat \ {0} /\ c \in Nat
    BY CutTypes DEF LastChunk, Finish
  <1>1. /\ worker' \in [1..MaxChunk -> {"none", "running", "done", "freed"}]
        /\ \A d \in 1..MaxChunk : worker'[d] = "running" => worker[d] = "running"
    BY DEF Finish, ParallelTypeOK
  <1>2. /\ segs' \in [1..MaxChunk -> Seq(Segment)]
        /\ \A d \in 1..MaxChunk : d # c => segs'[d] = segs[d]
        /\ \/ segs'[c] = segs[c]
           \/ \E s \in LocalTimes : segs'[c] = Tag(c, s)
    <2>1. CASE UNCHANGED segs
      BY <2>1 DEF ParallelTypeOK
    <2>2. ASSUME NEW s \in LocalTimes, segs' = [segs EXCEPT ![c] = Tag(c, s)]
          PROVE  /\ segs' \in [1..MaxChunk -> Seq(Segment)]
                 /\ \A d \in 1..MaxChunk : d # c => segs'[d] = segs[d]
                 /\ segs'[c] = Tag(c, s)
      <3>1. Tag(c, s) \in Seq(Segment)
        BY <1>0, TagFacts DEF ParallelTypeOK
      <3> QED
        BY <2>2, <3>1 DEF ParallelTypeOK
    <2> QED
      BY <2>1, <2>2 DEF Finish
  <1>3. ParallelTypeOK'
    BY <1>0, <1>1, <1>2 DEF ParallelTypeOK, Finish
  <1>4. RunsBeforeJoin'
    BY <1>0, <1>1 DEF RunsBeforeJoin, Finish
  <1>5. SegsTagged'
    <2> SUFFICES ASSUME NEW d \in 1..MaxChunk, NEW k \in 1..Len(segs'[d])
                 PROVE  /\ segs'[d][k].call = calls /\ segs'[d][k].chunk = d /\ segs'[d][k].k = k
                        /\ segs'[d][k].t0 <= segs'[d][k].t1
                        /\ k > 1 => segs'[d][k - 1].t1 <= segs'[d][k].t0
      BY DEF SegsTagged, Finish
    <2>1. CASE segs'[d] = segs[d]
      BY <2>1 DEF SegsTagged
    <2>2. CASE d = c /\ \E s \in LocalTimes : segs'[c] = Tag(c, s)
      <3>1. PICK s \in LocalTimes : segs'[c] = Tag(c, s)
        BY <2>2
      <3>2. calls \in Nat
        BY DEF ParallelTypeOK
      <3> QED
        BY <2>2, <3>1, <3>2, <1>0, TagFacts
    <2> QED
      BY <2>1, <2>2, <1>2
  <1>6. pc \in {"spawn", "first", "join"} /\ pc' = pc /\ next' = next
    BY DEF Finish, RunsBeforeJoin
  <1>7. ASSUME pc = "join" PROVE Filled(1)'
    <2>1. Filled(1) /\ result_all \in Seq(ResultSegment)
      BY <1>7 DEF ParallelTypeOK
    <2>2. UNCHANGED <<notified, result_all, calls, audio>>
      BY DEF Finish
    <2>3. \A i \in 1..Len(result_all) : result_all[i].chunk = 0
      <3>1. \A i \in 1..Len(result_all) : result_all[i] \in ResultSegment
        BY <2>1
      <3> QED
        BY <2>1, <3>1 DEF Filled, OnlyBefore, ResultSegment
    <2>4. OnlyBefore(1)'
      BY <2>1, <2>2, <2>3 DEF Filled, OnlyBefore
    <2>5. Ordered' /\ AllBefore(1)' /\ NoOverlap'
      BY <2>1, <2>2 DEF Filled, Ordered, AllBefore, NoOverlap
    <2>6. Fits' = Fits
      BY <2>2 DEF Fits, OffsetSamples, PerProcessor, LastChunk
    <2>7. \A i \in 1..Len(result_all) : StaysInside(result_all[i])' = StaysInside(result_all[i])
      BY <2>2, <2>3 DEF StaysInside, BeginsAt, PerProcessor, OffsetSamples, LastChunk
    <2>8. StartsBeforeEnds'
      BY <2>1, <2>2, <2>6, <2>7 DEF Filled, StartsBeforeEnds
    <2> QED
      BY <2>1, <2>2, <2>4, <2>5, <2>8 DEF Filled
  <1> QED
    BY <1>3, <1>4, <1>5, <1>6, <1>7 DEF Returned

FirstResults(s, d) == Tag(0, [k \in 1..Len(s) |-> [t0 |-> s[k].t0 + d, t1 |-> s[k].t1 + d]])

\* R is what the first chunk gives for the local segments s.
OfFirstChunk(R, s) ==
    /\ R \in Seq(ResultSegment) /\ Len(R) = Len(s) /\ Len(s) \in Nat
    /\ \A k \in 1..Len(s) :
          /\ R[k].call = calls /\ R[k].chunk = 0 /\ R[k].k = k
          /\ R[k].t0 <= R[k].t1
          /\ k > 1 => R[k - 1].t1 <= R[k].t0

\* The segments of the first chunk, in the time of the audio.
LEMMA FirstFacts ==
    ASSUME NEW s \in LocalTimes, NEW d \in Nat, calls \in Nat,
           NEW R, R = FirstResults(s, d)
    PROVE  OfFirstChunk(R, s)
  <1>1. s \in Seq([t0 : Nat, t1 : Nat])
    BY ParallelAssumption
  <1>2. Len(s) \in Nat /\ \A k \in 1..Len(s) : s[k] \in [t0 : Nat, t1 : Nat]
    BY <1>1, ElementOfSeq, LenProperties
  <1>3. \A k \in 1..Len(s) :
           /\ s[k].t0 <= s[k].t1
           /\ k > 1 => s[k - 1].t1 <= s[k].t0
    BY ParallelAssumption
  <1>4. \A k \in 1..Len(s) : s[k].t0 \in Nat /\ s[k].t1 \in Nat
    BY <1>2
  <1> DEFINE f == [k \in 1..Len(s) |-> [t0 |-> s[k].t0 + d, t1 |-> s[k].t1 + d]]
  <1>5. Len(f) = Len(s)
    BY <1>2
  <1>6. \A k \in 1..Len(s) : f[k].t0 = s[k].t0 + d /\ f[k].t1 = s[k].t1 + d
    OBVIOUS
  <1> HIDE DEF f
  <1>7. R = [k \in 1..Len(s) |-> [call |-> calls, chunk |-> 0, k |-> k, t0 |-> f[k].t0, t1 |-> f[k].t1]]
    BY <1>5 DEF FirstResults, Tag, f
  <1>8. \A k \in 1..Len(s) :
           /\ R[k].call = calls /\ R[k].chunk = 0 /\ R[k].k = k
           /\ R[k].t0 = f[k].t0 /\ R[k].t1 = f[k].t1
    BY <1>7
  <1>9. ASSUME NEW k \in 1..Len(s) PROVE f[k].t0 \in Int /\ f[k].t1 \in Int
    <2>1. s[k].t0 \in Nat /\ s[k].t1 \in Nat
      BY <1>4
    <2>2. f[k].t0 = s[k].t0 + d /\ f[k].t1 = s[k].t1 + d
      BY <1>6
    <2> QED
      BY <2>1, <2>2
  <1>10. R \in Seq(ResultSegment) /\ Len(R) = Len(s)
    <2>1. ASSUME NEW k \in 1..Len(s)
          PROVE  [call |-> calls, chunk |-> 0, k |-> k, t0 |-> f[k].t0, t1 |-> f[k].t1] \in ResultSegment
      <3>1. f[k].t0 \in Int /\ f[k].t1 \in Int /\ k \in Nat
        BY <1>2, <1>9
      <3> QED
        BY <3>1 DEF ResultSegment
    <2>2. R \in [1..Len(s) -> ResultSegment]
      BY <1>7, <2>1, Zenon
    <2> QED
      BY <2>2, <1>2
  <1>11. ASSUME NEW k \in 1..Len(s)
         PROVE  /\ R[k].t0 <= R[k].t1
                /\ k > 1 => R[k - 1].t1 <= R[k].t0
    <2>1. R[k].t0 = s[k].t0 + d /\ R[k].t1 = s[k].t1 + d
      BY <1>6, <1>8
    <2>2. ASSUME k > 1 PROVE R[k - 1].t1 = s[k - 1].t1 + d /\ s[k - 1].t1 \in Nat
      <3>1. k - 1 \in 1..Len(s)
        BY <1>2, <2>2
      <3> QED
        BY <3>1, <1>4, <1>6, <1>8
    <2> QED
      BY <2>1, <2>2, <1>3, <1>4
  <1> QED
    BY <1>2, <1>8, <1>10, <1>11 DEF OfFirstChunk

\* The results of the call begin with those of the first chunk.
LEMMA FirstStep == ASSUME IInv, First PROVE IInv'
  <1> USE DEF IInv
  <1>0. LastChunk' = LastChunk /\ LastChunk \in Nat \ {0}
    BY CutTypes DEF LastChunk, First
  <1>1. RunsBeforeJoin'
    <2>1. pc = "first" /\ pc' \in {"join", "undefined"} /\ UNCHANGED <<worker, next>>
      BY DEF First
    <2> QED
      BY <2>1, <1>0, MaxChunkFacts DEF RunsBeforeJoin, ParallelTypeOK
  <1>2. SegsTagged'
    BY DEF SegsTagged, First
  <1>3. CASE pc' = "undefined" /\ UNCHANGED <<result_all, notified, ret>>
    <2>1. ParallelTypeOK'
      BY <1>0, <1>3 DEF ParallelTypeOK, First
    <2> QED
      BY <2>1, <1>1, <1>2, <1>3 DEF Returned
  <1>4. CASE pc' = "join" /\ notified' = Len(result_all')
             /\ \E s \in LocalTimes :
                   result_all' = Tag(0, [k \in 1..Len(s) |->
                                        [t0 |-> s[k].t0 + (audio.offset_ms * Centis) \div Millis,
                                         t1 |-> s[k].t1 + (audio.offset_ms * Centis) \div Millis]])
    <2>1. PICK s \in LocalTimes :
             result_all' = Tag(0, [k \in 1..Len(s) |->
                                  [t0 |-> s[k].t0 + (audio.offset_ms * Centis) \div Millis,
                                   t1 |-> s[k].t1 + (audio.offset_ms * Centis) \div Millis]])
      BY <1>4
    <2>2. (audio.offset_ms * Centis) \div Millis \in Nat
      <3>1. audio.offset_ms * Centis \in Nat /\ Millis \in Nat \ {0}
        BY ParallelAssumption DEF ParallelTypeOK
      <3> QED
        BY <3>1, DivFacts
    <2>3. calls \in Nat
      BY DEF ParallelTypeOK
    <2>4. /\ result_all' \in Seq(ResultSegment) /\ Len(result_all') = Len(s) /\ Len(s) \in Nat
          /\ \A k \in 1..Len(s) :
                /\ result_all'[k].call = calls /\ result_all'[k].chunk = 0 /\ result_all'[k].k = k
                /\ result_all'[k].t0 <= result_all'[k].t1
                /\ k > 1 => result_all'[k - 1].t1 <= result_all'[k].t0
      <3>1. PICK d \in Nat : d = (audio.offset_ms * Centis) \div Millis
        BY <2>2
      <3>2. PICK R : R = result_all'
        OBVIOUS
      <3>3. R = FirstResults(s, d)
        BY <2>1, <3>1, <3>2, Zenon DEF FirstResults
      <3>4. OfFirstChunk(R, s)
        BY <2>3, <3>3, FirstFacts
      <3> QED
        BY <3>2, <3>4, Zenon DEF OfFirstChunk
    <2>5. UNCHANGED <<calls, audio, worker, segs, next>>
      BY DEF First
    <2>6. ParallelTypeOK'
      BY <1>0, <1>4, <2>4, <2>5 DEF ParallelTypeOK
    <2>7. OnlyBefore(1)'
      BY <2>4, <2>5 DEF OnlyBefore
    <2>8. Ordered'
      BY <2>4 DEF Ordered, Before
    <2>9. AllBefore(1)'
      BY DEF AllBefore
    <2>10. NoOverlap'
      <3> SUFFICES ASSUME NEW i \in 1..(Len(result_all') - 1)
                   PROVE  result_all'[i].t1 <= result_all'[i + 1].t0
        BY DEF NoOverlap
      <3>1. i + 1 \in 1..Len(s) /\ i + 1 > 1 /\ (i + 1) - 1 = i
        BY <2>4
      <3> QED
        BY <3>1, <2>4
    <2>11. StartsBeforeEnds'
      BY <2>4 DEF StartsBeforeEnds
    <2>12. Filled(1)'
      BY <1>4, <2>7, <2>8, <2>9, <2>10, <2>11 DEF Filled
    <2> QED
      BY <2>6, <2>12, <1>1, <1>2, <1>4 DEF Returned
  <1> QED
    BY <1>3, <1>4 DEF First

\* The threads are joined in the order of the chunks.
LEMMA JoinStep == ASSUME IInv, Join PROVE IInv'
  <1> USE DEF IInv
  <1>0. LastChunk' = LastChunk /\ LastChunk \in Nat \ {0}
    BY CutTypes DEF LastChunk, Join
  <1>1. ParallelTypeOK'
    BY <1>0 DEF ParallelTypeOK, Join
  <1>2. RunsBeforeJoin'
    BY <1>0, MaxChunkFacts DEF RunsBeforeJoin, Join, ParallelTypeOK
  <1>3. SegsTagged'
    BY DEF SegsTagged, Join
  <1>4. Filled(1)'
    BY FilledFrame DEF Join
  <1>5. (pc' = "join" \/ (pc' = "merge" /\ next' = 1))
    BY DEF Join
  <1> QED
    BY <1>1, <1>2, <1>3, <1>4, <1>5 DEF Returned

\* What the merge of chunk c leaves: the results as they were, then each segment
\* of c, shifted and not started before the last result ends.
LEMMA MergedFacts ==
    ASSUME ParallelTypeOK, SegsTagged, NEW c \in 1..LastChunk, NEW M, M = Merged(c)
    PROVE  /\ M \in Seq(ResultSegment) /\ Len(M) = Len(result_all) + Len(segs[c])
           /\ Len(segs[c]) \in Nat /\ Len(result_all) \in Nat
           /\ \A i \in 1..Len(result_all) : M[i] = result_all[i]
           /\ \A i \in (Len(result_all) + 1)..(Len(result_all) + Len(segs[c])) :
                 /\ i - Len(result_all) \in 1..Len(segs[c])
                 /\ M[i].call = calls /\ M[i].chunk = c /\ M[i].k = i - Len(result_all)
                 /\ M[i].t1 = segs[c][i - Len(result_all)].t1 + Shift(c)
                 /\ M[i].t0 = ClampStart(segs[c][i - Len(result_all)].t0 + Shift(c), c, i - Len(result_all))
  <1> DEFINE N == Len(segs[c])
             L == Len(result_all)
             P == [k \in 1..N |-> PushResult(c, k)]
  <1>1. c \in 1..MaxChunk /\ segs[c] \in Seq(Segment) /\ result_all \in Seq(ResultSegment)
    <2>1. LastChunk \in Nat /\ MaxChunk \in Nat
      BY CutTypes, MaxChunkFacts
    <2> QED
      BY <2>1 DEF ParallelTypeOK
  <1>2. N \in Nat /\ L \in Nat
    BY <1>1
  <1>3. Shift(c) \in Int
    BY CutTypes
  <1>4. \A k \in 1..N :
           /\ segs[c][k] \in Segment
           /\ segs[c][k].call = calls /\ segs[c][k].chunk = c /\ segs[c][k].k = k
           /\ segs[c][k].t0 \in Nat /\ segs[c][k].t1 \in Nat
    <2>1. \A k \in 1..N : segs[c][k] \in Segment
      BY <1>1, ElementOfSeq
    <2> QED
      BY <2>1, <1>1 DEF SegsTagged, Segment
  <1>5. result_all # <<>> => result_all[L] \in ResultSegment
    BY <1>1, <1>2
  <1>6. ASSUME NEW k \in 1..N PROVE ClampStart(segs[c][k].t0 + Shift(c), c, k) \in Int
    <2>1. segs[c][k].t0 + Shift(c) \in Int
      BY <1>3, <1>4
    <2>2. ASSUME k > 1 PROVE segs[c][k - 1].t1 + Shift(c) \in Int
      <3>1. k - 1 \in 1..N
        BY <1>2, <2>2
      <3> QED
        BY <3>1, <1>3, <1>4
    <2>3. result_all # <<>> => result_all[Len(result_all)].t1 \in Int
      BY <1>5 DEF ResultSegment
    <2> QED
      BY <2>1, <2>2, <2>3 DEF ClampStart, Later
  <1>7. ASSUME NEW k \in 1..N
        PROVE  /\ PushResult(c, k) \in ResultSegment
               /\ PushResult(c, k).call = calls /\ PushResult(c, k).chunk = c /\ PushResult(c, k).k = k
               /\ PushResult(c, k).t1 = segs[c][k].t1 + Shift(c)
               /\ PushResult(c, k).t0 = ClampStart(segs[c][k].t0 + Shift(c), c, k)
    <2>1. ClampStart(segs[c][k].t0 + Shift(c), c, k) \in Int
      BY <1>6
    <2>2. segs[c][k].t1 + Shift(c) \in Int
      BY <1>3, <1>4
    <2> QED
      BY <2>1, <2>2, <1>4 DEF PushResult, Segment, ResultSegment
  <1>8. P \in Seq(ResultSegment) /\ Len(P) = N
    BY <1>2, <1>7
  <1>9. \A k \in 1..N : P[k] = PushResult(c, k)
    OBVIOUS
  <1>10. M = result_all \o P
    BY DEF Merged
  <1> HIDE DEF P
  <1>11. M \in Seq(ResultSegment) /\ Len(M) = L + N
    <2>1. result_all \o P \in Seq(ResultSegment) /\ Len(result_all \o P) = Len(result_all) + Len(P)
      BY <1>1, <1>8, ConcatProperties, Zenon
    <2> QED
      BY <2>1, <1>8, <1>10, Zenon
  <1>12. \A i \in 1..L : M[i] = result_all[i]
    BY <1>1, <1>2, <1>8, <1>10, ConcatProperties
  <1>13. ASSUME NEW i \in (L + 1)..(L + N)
         PROVE  i - L \in 1..N /\ M[i] = PushResult(c, i - L)
    BY <1>1, <1>2, <1>8, <1>9, <1>10, <1>11, ConcatProperties
  <1>14. ASSUME NEW i \in (L + 1)..(L + N)
         PROVE  /\ i - L \in 1..N
                /\ M[i].call = calls /\ M[i].chunk = c /\ M[i].k = i - L
                /\ M[i].t1 = segs[c][i - L].t1 + Shift(c)
                /\ M[i].t0 = ClampStart(segs[c][i - L].t0 + Shift(c), c, i - L)
    BY <1>7, <1>13, SMTT(30)
  <1> QED
    BY <1>2, <1>11, <1>12, <1>14, Zenon

\* The maximum of two times.
LEMMA LaterFacts ==
    ASSUME NEW a \in Int, NEW b \in Int
    PROVE  Later(a, b) \in Int /\ Later(a, b) >= a /\ Later(a, b) >= b /\ (Later(a, b) = a \/ Later(a, b) = b)
  BY DEF Later

\* After the merge of chunk c the results hold all up to c, in order.
LEMMA MergeFills ==
    ASSUME IInv, NEW c \in 1..LastChunk, Filled(c), NEW M, M = Merged(c), result_all' = M,
           notified' = notified + Len(segs[c]), UNCHANGED <<calls, audio, segs>>
    PROVE  Filled(c + 1)'
  <1> USE DEF IInv
  <1> DEFINE L == Len(result_all)
             N == Len(segs[c])
  <1>1. /\ M \in Seq(ResultSegment) /\ Len(M) = L + N /\ N \in Nat /\ L \in Nat
        /\ \A i \in 1..L : M[i] = result_all[i]
    BY MergedFacts, SMTT(30)
  <1>2. \A i \in (L + 1)..(L + N) :
            /\ i - L \in 1..N
            /\ M[i].call = calls /\ M[i].chunk = c /\ M[i].k = i - L
            /\ M[i].t1 = segs[c][i - L].t1 + Shift(c)
            /\ M[i].t0 = ClampStart(segs[c][i - L].t0 + Shift(c), c, i - L)
    BY MergedFacts, SMTT(60)
  <1>3. c \in Nat /\ c >= 1 /\ c <= LastChunk /\ LastChunk \in Nat /\ Shift(c) \in Int /\ c \in 1..MaxChunk
    <2>1. LastChunk \in Nat \ {0} /\ \A d \in Nat : Shift(d) \in Int
      BY CutTypes
    <2>2. MaxChunk \in Nat /\ LastChunk <= MaxChunk
      BY MaxChunkFacts DEF ParallelTypeOK
    <2> QED
      BY <2>1, <2>2
  <1>4. \A d \in Nat : Shift(d)' = Shift(d)
    BY DEF Shift, PerProcessor, OffsetSamples
  <1>5. \A k \in 1..N : segs[c][k].t0 \in Nat /\ segs[c][k].t1 \in Nat
    <2>1. segs[c] \in Seq(Segment)
      BY <1>3 DEF ParallelTypeOK
    <2>2. \A k \in 1..N : segs[c][k] \in Segment
      BY <2>1, ElementOfSeq
    <2> QED
      BY <2>2 DEF Segment
  <1>6. \A i \in 1..L :
           /\ result_all[i].chunk \in Nat /\ result_all[i].k \in Nat
           /\ result_all[i].t0 \in Int /\ result_all[i].t1 \in Int
    <2>1. result_all \in Seq(ResultSegment)
      BY DEF ParallelTypeOK
    <2>2. \A i \in 1..L : result_all[i] \in ResultSegment
      BY <2>1, ElementOfSeq
    <2> QED
      BY <2>2 DEF ResultSegment
  <1>7. ASSUME NEW i \in 1..(L + N) PROVE i \in 1..L \/ i \in (L + 1)..(L + N)
    BY <1>1
  <1>8. \A i \in 1..L :
           /\ result_all[i].call = calls /\ result_all[i].chunk < c
           /\ result_all[i].chunk > 0 =>
                 /\ result_all[i].k \in 1..Len(segs[result_all[i].chunk])
                 /\ result_all[i].t1 = segs[result_all[i].chunk][result_all[i].k].t1 + Shift(result_all[i].chunk)
    BY DEF Filled, OnlyBefore
  <1>9. OnlyBefore(c + 1)'
    <2> SUFFICES ASSUME NEW i \in 1..(L + N)
                 PROVE  /\ M[i].call = calls
                        /\ M[i].chunk < c + 1
                        /\ M[i].chunk > 0 =>
                              /\ M[i].k \in 1..Len(segs[M[i].chunk])
                              /\ M[i].t1 = segs[M[i].chunk][M[i].k].t1 + Shift(M[i].chunk)'
      BY <1>1 DEF OnlyBefore
    <2>1. CASE i \in 1..L
      <3>1. M[i] = result_all[i] /\ result_all[i].chunk \in Nat
        BY <2>1, <1>1, <1>6
      <3>2. Shift(result_all[i].chunk)' = Shift(result_all[i].chunk)
        BY <3>1, <1>4
      <3> QED
        BY <2>1, <3>1, <3>2, <1>3, <1>8
    <2>2. CASE i \in (L + 1)..(L + N)
      <3>1. M[i].call = calls /\ M[i].chunk = c /\ M[i].k = i - L /\ i - L \in 1..N
            /\ M[i].t1 = segs[c][i - L].t1 + Shift(c)
        BY <2>2, <1>2
      <3>2. Shift(c)' = Shift(c)
        BY <1>3, <1>4
      <3> QED
        BY <3>1, <3>2, <1>3
    <2> QED
      BY <2>1, <2>2, <1>7
  <1>10. Ordered'
    <2> SUFFICES ASSUME NEW i \in 1..(L + N), NEW j \in 1..(L + N), i < j
                 PROVE  Before(M[i], M[j])
      BY <1>1 DEF Ordered
    <2>1. CASE j \in 1..L
      <3>1. i \in 1..L
        BY <2>1, <1>1
      <3> QED
        BY <2>1, <3>1, <1>1 DEF Filled, Ordered
    <2>2. CASE i \in 1..L /\ j \in (L + 1)..(L + N)
      <3>1. M[i].chunk < c /\ M[j].chunk = c
        BY <2>2, <1>1, <1>2, <1>8
      <3> QED
        BY <3>1 DEF Before
    <2>3. CASE i \in (L + 1)..(L + N) /\ j \in (L + 1)..(L + N)
      <3>1. M[i].chunk = c /\ M[j].chunk = c /\ M[i].k = i - L /\ M[j].k = j - L
        BY <2>3, <1>2
      <3>2. M[i].k < M[j].k
        BY <3>1, <1>1
      <3> QED
        BY <3>1, <3>2 DEF Before
    <2>4. i \in (L + 1)..(L + N) => j \in (L + 1)..(L + N)
      BY <1>1
    <2> QED
      BY <2>1, <2>2, <2>3, <2>4, <1>7
  <1>11. AllBefore(c + 1)'
    <2> SUFFICES ASSUME NEW d \in 1..c, NEW k \in 1..Len(segs[d])
                 PROVE  \E i \in 1..(L + N) : M[i].chunk = d /\ M[i].k = k
      BY <1>1, <1>3 DEF AllBefore
    <2>1. CASE d = c
      <3>1. L + k \in (L + 1)..(L + N) /\ L + k \in 1..(L + N) /\ (L + k) - L = k
        BY <2>1, <1>1
      <3>2. M[L + k].chunk = d /\ M[L + k].k = k
        BY <2>1, <3>1, <1>2
      <3> QED
        BY <3>1, <3>2
    <2>2. CASE d # c
      <3>1. d \in 1..(c - 1)
        BY <2>2, <1>3
      <3>2. PICK i \in 1..L : result_all[i].chunk = d /\ result_all[i].k = k
        BY <3>1 DEF Filled, AllBefore
      <3>3. i \in 1..(L + N) /\ M[i] = result_all[i]
        BY <1>1
      <3> QED
        BY <3>2, <3>3
    <2> QED
      BY <2>1, <2>2
  <1>12. NoOverlap'
    <2> SUFFICES ASSUME NEW i \in 1..(L + N - 1) PROVE M[i].t1 <= M[i + 1].t0
      BY <1>1 DEF NoOverlap
    <2>0. /\ i \in Nat /\ i + 1 \in 1..(L + N) /\ i \in 1..(L + N)
          /\ i < L \/ i = L \/ i > L
      BY <1>1
    <2>1. CASE i < L
      <3>1. i \in 1..(L - 1) /\ i \in 1..L /\ i + 1 \in 1..L
        BY <2>0, <2>1, <1>1
      <3> QED
        BY <3>1, <1>1 DEF Filled, NoOverlap
    <2>2. CASE i = L
      <3>1. i + 1 \in (L + 1)..(L + N) /\ (i + 1) - L = 1 /\ i \in 1..L /\ 1 \in 1..N
        BY <2>0, <2>2, <1>1
      <3>2. M[i + 1].t0 = ClampStart(segs[c][1].t0 + Shift(c), c, 1)
        BY <3>1, <1>2
      <3>3. result_all # <<>>
        BY <2>2, <2>0
      <3>4. M[i + 1].t0 = Later(segs[c][1].t0 + Shift(c), result_all[L].t1)
        BY <3>2, <3>3 DEF ClampStart
      <3>5. segs[c][1].t0 + Shift(c) \in Int /\ result_all[L].t1 \in Int
        BY <2>2, <3>1, <1>3, <1>5, <1>6
      <3>6. M[i].t1 = result_all[L].t1
        BY <2>2, <3>1, <1>1
      <3> QED
        BY <3>4, <3>5, <3>6, LaterFacts
    <2>3. CASE i > L
      <3>1. /\ i + 1 \in (L + 1)..(L + N) /\ i \in (L + 1)..(L + N)
            /\ (i + 1) - L > 1 /\ ((i + 1) - L) - 1 = i - L
        BY <2>0, <2>3, <1>1
      <3>2. M[i + 1].t0 = ClampStart(segs[c][(i + 1) - L].t0 + Shift(c), c, (i + 1) - L)
        BY <3>1, <1>2
      <3>3. M[i + 1].t0 = Later(segs[c][(i + 1) - L].t0 + Shift(c), segs[c][i - L].t1 + Shift(c))
        BY <3>1, <3>2 DEF ClampStart
      <3>4. M[i].t1 = segs[c][i - L].t1 + Shift(c) /\ i - L \in 1..N /\ (i + 1) - L \in 1..N
        BY <3>1, <1>2
      <3>5. segs[c][(i + 1) - L].t0 + Shift(c) \in Int /\ segs[c][i - L].t1 + Shift(c) \in Int
        <4>1. segs[c][(i + 1) - L].t0 \in Nat /\ segs[c][i - L].t1 \in Nat
          BY <3>4, <1>5, Zenon
        <4>2. \A a \in Nat, b \in Int : a + b \in Int
          OBVIOUS
        <4> QED
          BY <4>1, <4>2, <1>3, Zenon
      <3> QED
        BY <3>3, <3>4, <3>5, LaterFacts
    <2> QED
      BY <2>0, <2>1, <2>2, <2>3
  <1>13. StartsBeforeEnds'
    <2>1. Fits' = Fits /\ \A s : StaysInside(s)' = StaysInside(s)
      BY DEF Fits, StaysInside, BeginsAt, PerProcessor, OffsetSamples, LastChunk
    <2> SUFFICES ASSUME Fits, \A i \in 1..(L + N) : StaysInside(M[i]), NEW i \in 1..(L + N)
                 PROVE  M[i].t0 <= M[i].t1
      BY <2>1, <1>1 DEF StartsBeforeEnds
    <2>2. \A j \in 1..L : StaysInside(result_all[j])
      <3> TAKE j \in 1..L
      <3>1. j \in 1..(L + N) /\ M[j] = result_all[j]
        BY <1>1
      <3> QED
        BY <3>1
    <2>3. CASE i \in 1..L
      BY <2>2, <2>3, <1>1 DEF Filled, StartsBeforeEnds
    <2>4. CASE i \in (L + 1)..(L + N)
      <3> DEFINE k == i - L
      <3>1. k \in 1..N /\ M[i].t1 = segs[c][k].t1 + Shift(c)
            /\ M[i].t0 = ClampStart(segs[c][k].t0 + Shift(c), c, k)
        BY <2>4, <1>2
      <3> HIDE DEF k
      <3>2. segs[c][k].t0 <= segs[c][k].t1 /\ (k > 1 => segs[c][k - 1].t1 <= segs[c][k].t0)
        BY <3>1, <1>3 DEF SegsTagged
      <3>3. segs[c][k].t0 \in Nat /\ segs[c][k].t1 \in Nat
        BY <3>1, <1>5
      <3>4. CASE k > 1
        <4>1. k - 1 \in 1..N
          BY <3>1, <3>4, <1>1
        <4>2. segs[c][k - 1].t1 \in Nat
          BY <4>1, <1>5
        <4>3. M[i].t0 = Later(segs[c][k].t0 + Shift(c), segs[c][k - 1].t1 + Shift(c))
          BY <3>1, <3>4 DEF ClampStart
        <4>4. \A x, y, z \in Nat, h \in Int : (x <= y /\ y <= z) => Later(y + h, x + h) <= z + h
          BY DEF Later
        <4> QED
          BY <4>2, <4>3, <4>4, <3>1, <3>2, <3>3, <3>4, <1>3, Zenon
      <3>5. CASE k = 1 /\ result_all = <<>>
        <4>1. M[i].t0 = segs[c][k].t0 + Shift(c)
          BY <3>1, <3>5 DEF ClampStart
        <4> QED
          BY <4>1, <3>1, <3>2, <3>3, <1>3
      <3>6. CASE k = 1 /\ result_all # <<>>
        <4> DEFINE r == result_all[L]
        <4>1. L \in 1..L
          <5>1. result_all \in Seq(ResultSegment)
            BY DEF ParallelTypeOK
          <5> QED
            BY <5>1, <3>6, EmptySeq
        <4>2. M[i].t0 = Later(segs[c][k].t0 + Shift(c), r.t1)
          BY <3>1, <3>6 DEF ClampStart
        <4>3. /\ r.chunk \in Nat /\ r.chunk < c /\ StaysInside(r) /\ r.t1 \in Int
              /\ r.chunk > 0 => r.t1 = segs[r.chunk][r.k].t1 + Shift(r.chunk)
          BY <4>1, <2>2, <1>6, <1>8
        <4> HIDE DEF r
        <4>4. r.chunk # LastChunk /\ r.chunk \in 0..LastChunk /\ r.chunk + 1 \in 0..LastChunk /\ r.chunk + 1 <= c
              /\ c \in 0..LastChunk
          BY <4>3, <1>3
        <4>5. /\ Shift(c) = BeginsAt(c) /\ Shift(r.chunk) = BeginsAt(r.chunk)
              /\ BeginsAt(r.chunk + 1) <= BeginsAt(c) /\ BeginsAt(r.chunk + 1) \in Int /\ BeginsAt(c) \in Int
          BY <4>4, FitsFacts
        <4>6. r.t1 <= BeginsAt(r.chunk + 1)
          <5>1. CASE r.chunk = 0
            BY <5>1, <4>3, <4>4 DEF StaysInside
          <5>2. CASE r.chunk # 0
            <6>1. r.chunk > 0
              BY <5>2, <4>3
            <6> QED
              BY <6>1, <5>2, <4>3, <4>4, <4>5 DEF StaysInside
          <5> QED
            BY <5>1, <5>2
        <4>7. r.t1 <= Shift(c)
          BY <4>3, <4>5, <4>6
        <4> QED
          <5>1. segs[c][k].t0 + Shift(c) <= M[i].t1 /\ r.t1 <= M[i].t1
            <6>1. \A a, b \in Nat, h, t \in Int : (a <= b /\ t <= h) => (a + h <= b + h /\ t <= b + h)
              OBVIOUS
            <6> QED
              BY <6>1, <4>3, <4>7, <3>1, <3>2, <3>3, <1>3, Zenon
          <5> QED
            BY <5>1, <4>2 DEF Later
      <3>7. k > 1 \/ k = 1
        BY <3>1, <1>1
      <3> QED
        BY <3>4, <3>5, <3>6, <3>7
    <2> QED
      BY <2>3, <2>4, <1>7
  <1>14. notified' = Len(result_all')
    BY <1>1 DEF Filled
  <1> QED
    BY <1>9, <1>10, <1>11, <1>12, <1>13, <1>14 DEF Filled

\* The merge of a chunk.
LEMMA MergeStep == ASSUME IInv, Merge PROVE IInv'
  <1> USE DEF IInv
  <1>0. LastChunk' = LastChunk /\ LastChunk \in Nat \ {0} /\ UNCHANGED <<ret, calls, audio, segs>> /\ pc = "merge"
    BY CutTypes DEF LastChunk, Merge
  <1>1. SegsTagged'
    BY <1>0 DEF SegsTagged
  <1>2. CASE pc' = "undefined" /\ UNCHANGED <<worker, result_all, notified, next>>
    <2>1. ParallelTypeOK'
      BY <1>0, <1>2 DEF ParallelTypeOK
    <2>2. RunsBeforeJoin'
      BY <1>0, <1>2 DEF RunsBeforeJoin
    <2> QED
      BY <2>1, <2>2, <1>1, <1>2 DEF Returned
  <1>3. CASE /\ result_all' = Merged(next)
             /\ NotifyEach(next)
             /\ worker' = [worker EXCEPT ![next] = "none"]
             /\ next' = IF next = LastChunk THEN 1 ELSE next + 1
             /\ pc' = IF next = LastChunk THEN "idle" ELSE "merge"
    <2>1. PICK c \in 1..LastChunk : c = next
      BY DEF ParallelTypeOK
    <2>2. PICK M : M = Merged(c)
      OBVIOUS
    <2>3. result_all' = M /\ notified' = notified + Len(segs[c])
      BY <1>3, <2>1, <2>2 DEF NotifyEach
    <2>4. Filled(c)
      BY <1>0, <2>1
    <2>5. Filled(c + 1)'
      BY <1>0, <2>2, <2>3, <2>4, MergeFills
    <2>6. M \in Seq(ResultSegment) /\ Len(segs[c]) \in Nat
      BY <2>2, MergedFacts
    <2>7. notified' \in Nat
      BY <2>3, <2>6 DEF ParallelTypeOK
    <2>8. ParallelTypeOK'
      <3>1. next' \in 1..LastChunk
        BY <1>0, <1>3 DEF ParallelTypeOK
      <3>2. worker' \in [1..MaxChunk -> {"none", "running", "done", "freed"}]
        BY <1>3 DEF ParallelTypeOK
      <3> QED
        BY <1>0, <2>3, <2>6, <2>7, <3>1, <3>2 DEF ParallelTypeOK
    <2>9. RunsBeforeJoin'
      BY <1>0, <1>3 DEF RunsBeforeJoin, ParallelTypeOK
    <2>10. pc' = "merge" => Filled(next)'
      <3> SUFFICES ASSUME pc' = "merge" PROVE Filled(next)'
        OBVIOUS
      <3>1. next' = c + 1
        BY <1>3, <2>1
      <3> QED
        BY <3>1, <2>5 DEF Filled, OnlyBefore, AllBefore
    <2>11. Returned' => Filled(LastChunk + 1)'
      <3> SUFFICES ASSUME Returned' PROVE Filled(LastChunk + 1)'
        OBVIOUS
      <3>1. c = LastChunk /\ LastChunk' = c
        BY <1>0, <1>3, <2>1 DEF Returned
      <3> QED
        BY <3>1, <2>5 DEF Filled, OnlyBefore, AllBefore
    <2> QED
      BY <2>8, <2>9, <2>10, <2>11, <1>1, <1>3
  <1> QED
    BY <1>2, <1>3 DEF Merge

\* Nothing changes when nothing is called.
LEMMA RestStep == ASSUME IInv, UNCHANGED vars PROVE IInv'
  <1> USE DEF IInv, vars
  <1>1. LastChunk' = LastChunk
    BY DEF LastChunk
  <1>2. ParallelTypeOK' /\ RunsBeforeJoin' /\ SegsTagged'
    BY <1>1 DEF ParallelTypeOK, RunsBeforeJoin, SegsTagged
  <1>3. pc = "join" => Filled(1)'
    BY FilledFrame
  <1>4. pc = "merge" => Filled(next)'
    <2> SUFFICES ASSUME pc = "merge" PROVE Filled(next)'
      OBVIOUS
    <2>1. PICK m : m = next
      OBVIOUS
    <2>2. Filled(m)'
      BY <2>1, FilledFrame
    <2> QED
      BY <2>1, <2>2 DEF Filled, OnlyBefore, AllBefore
  <1>5. Returned => Filled(LastChunk + 1)'
    <2> SUFFICES ASSUME Returned PROVE Filled(LastChunk + 1)'
      OBVIOUS
    <2>1. PICK m : m = LastChunk + 1
      OBVIOUS
    <2>2. Filled(m)'
      BY <2>1, FilledFrame
    <2> QED
      BY <2>1, <2>2, <1>1 DEF Filled, OnlyBefore, AllBefore
  <1> QED
    BY <1>2, <1>3, <1>4, <1>5 DEF Returned
-----------------------------------------------------------------------------
(* The theorems.                                                           *)

\* The invariant holds in every run of whisper_full_parallel.
THEOREM ParallelInvariant == Spec => []IInv
  <1>1. IInv /\ [Next]_vars => IInv'
    <2> SUFFICES ASSUME IInv, [Next]_vars PROVE IInv'
      OBVIOUS
    <2> QED
      BY CallStep, VadStep, SpawnStep, FinishStep, FirstStep, JoinStep, MergeStep, RestStep DEF Next, Rest
  <1> QED
    BY <1>1, InitIInv, PTL DEF Spec

\* The chunks handed to the threads tile the audio, for every length, offset and
\* number of processors whose products fit an int.
THEOREM ChunksTileTheAudio == Spec => []ChunksTile
  <1>1. IInv => ChunksTile
    BY Tiles DEF IInv
  <1> QED
    BY <1>1, ParallelInvariant, PTL

\* A call that returns has merged every segment of every chunk once and told the
\* host of each, in whatever order the threads ended.
THEOREM EverySegmentMerged == Spec => []AllMerged
  <1>1. IInv => AllMerged
    <2> SUFFICES ASSUME IInv, Returned
                 PROVE  /\ notified = Len(result_all)
                        /\ \A i \in 1..Len(result_all) : result_all[i].call = calls
                        /\ \A i, j \in 1..Len(result_all) :
                              i < j => Before(result_all[i], result_all[j])
                        /\ \A c \in 1..LastChunk : \A k \in 1..Len(segs[c]) :
                              \E i \in 1..Len(result_all) : result_all[i].chunk = c /\ result_all[i].k = k
      BY DEF AllMerged, Before
    <2>1. Filled(LastChunk + 1) /\ ParallelTypeOK
      BY DEF IInv
    <2>2. (LastChunk + 1) - 1 = LastChunk
      BY <2>1, CutTypes
    <2> QED
      BY <2>1, <2>2 DEF Filled, OnlyBefore, Ordered, AllBefore
  <1> QED
    BY <1>1, ParallelInvariant, PTL

\* "make sure that segments are not overlapping": no merged segment starts before
\* the one before it ends, and none ends before it starts while every segment
\* stays in its chunk and the products fit an int.
THEOREM MergedWithoutOverlap == Spec => []MergedInOrder
  <1>1. IInv => MergedInOrder
    <2> SUFFICES ASSUME IInv, Returned, Fits, \A i \in 1..Len(result_all) : StaysInside(result_all[i]),
                        NEW i \in 1..(Len(result_all) - 1)
                 PROVE  result_all[i].t0 <= result_all[i].t1 /\ result_all[i].t1 <= result_all[i + 1].t0
      BY DEF MergedInOrder
    <2>1. Filled(LastChunk + 1) /\ Len(result_all) \in Nat
      BY DEF IInv, ParallelTypeOK
    <2>2. i \in 1..Len(result_all)
      BY <2>1
    <2> QED
      BY <2>1, <2>2 DEF Filled, NoOverlap, StartsBeforeEnds
  <1> QED
    BY <1>1, ParallelInvariant, PTL
=============================================================================
