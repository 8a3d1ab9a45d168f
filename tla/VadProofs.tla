----------------------------- MODULE VadProofs -----------------------------
(***************************************************************************)
(* What voice activity detection returns, for every audio, every sequence  *)
(* of probabilities and every setting of the parameters.                   *)
(*                                                                         *)
(* SegmentsAreInOrder.  The inductive invariant is one of the detector's   *)
(* loop (DetectorOK): an open segment began at least a window ago, each of *)
(* the times remembered of a silence is none or at least a window after    *)
(* the start of the open segment, and the speeches found so far are at     *)
(* least a window long, in order, and before the open segment.  What       *)
(* follows the loop keeps speeches apart (WellApart): merging because a    *)
(* merged speech ends before the next head, dropping because it picks some *)
(* in order, padding because two neighbours share the gap between them.    *)
(*                                                                         *)
(* SpeechIsKept.  While the loop runs, the part of the watched stretch     *)
(* behind it lies in the open segment, and when the silence after it has   *)
(* closed that segment, in a speech (HeldBy, StretchHeld).                 *)
(*                                                                         *)
(* BufferIsFilled, TableIsMonotone, SegmentTimesAreInOrder and             *)
(* TokenTimesAreInSpeech.  The inductive invariant is JoinInv.  What the   *)
(* first loop of whisper_vad has counted is the sum of the lengths the     *)
(* second will copy (Sizing, IsTally), which takes both loops to clamp     *)
(* every segment alike, hence PaddedCalls.  While the second loop runs,    *)
(* every time noted is at most the time it has reached in the joined       *)
(* audio, and in the audio (Copying, PointsBefore, InfosBefore), points    *)
(* with the same processed time agree, and segments lie apart in both      *)
(* times.  What is left for the getters is in order (Joined, Usable), and  *)
(* linear interpolation between ordered points keeps the order: LineFacts  *)
(* and MapMono for the segments, TokenMono for the tokens.                 *)
(***************************************************************************)
EXTENDS Vad, FiniteSetTheorems, WellFoundedInduction, TLAPS

SpeechType == [start : Nat, end : Nat]

\* Speeches that last at least a window, the later after the earlier, all before len.
WellApart(s, len) ==
    /\ s \in Seq(SpeechType)
    /\ \A k \in DOMAIN s : s[k].start + Window <= s[k].end /\ s[k].end <= len
    /\ \A j, k \in DOMAIN s : j < k => s[j].end <= s[k].start

DetectorType ==
    [i : Nat, is_speech : BOOLEAN, start : Nat, temp_end : Nat, prev_end : Nat, next_start : Nat,
     speeches : Seq(SpeechType)]

\* Nothing is remembered of a silence when no segment is open.
Forgotten(d) == d.temp_end = 0 /\ d.prev_end = 0 /\ d.next_start = 0

\* A time within the open segment: none, or a window at least after its start and
\* before the sample now.
Inside(d, t, now) == t # 0 => d.start + Window <= t /\ t + Window <= now

\* The loop before the window that begins at now.  With threshold 0 every window is
\* loud, and no silence gets long enough for prev_end to be set.
DetectorOK(d, now, par) ==
    /\ d \in DetectorType
    /\ d.is_speech => d.start + Window <= now
    /\ ~d.is_speech => Forgotten(d)
    /\ d.start <= now
    /\ Inside(d, d.temp_end, now) /\ Inside(d, d.prev_end, now)
    /\ d.next_start # 0 => d.next_start + Window <= now
    /\ par.threshold = 0 => d.prev_end = 0
    /\ WellApart(d.speeches, now)
    /\ d.is_speech => \A k \in DOMAIN d.speeches : d.speeches[k].end <= d.start

Holding(s, from, to) == \E k \in DOMAIN s : s[k].start <= from /\ to <= s[k].end

\* The stretch of the windows from..(to - 1), of which one at least is behind, lies in
\* the open segment, or has been closed with it after the last of them.
HeldBy(d, from, to) ==
    \/ /\ d.is_speech /\ d.start <= Window * from
       /\ d.temp_end # 0 => d.i > to /\ Window * to <= d.temp_end
    \/ d.i > to /\ Holding(d.speeches, Window * from, Window * to)

\* No segment is too long, and no window counts as both speech and silence.
Watched(par, n) == MaxSpeech(par) >= n /\ NegThreshold(par) <= par.threshold

StretchHeld ==
    ((pc = "detect" \/ Found) /\ heard.all /\ Watched(p, n_samples) /\ det.i > heard.from) =>
        HeldBy(det, heard.from, heard.from + WatchLength(p))

VadInv ==
    /\ pc \in {"idle", "load", "detect", "size", "copy", "transcribe"}
    /\ p \in VadParams /\ n_samples \in Nat
    /\ DetectorOK(det, Sample(det), p)
    /\ pc # "idle" => det.i <= NChunks(n_samples)
    /\ Found => det.i = NChunks(n_samples)
    /\ pc = "load" => det.i = 0
    /\ heard \in [from : Nat, all : BOOLEAN]
    /\ (pc # "idle" /\ heard.all) => heard.from + WatchLength(p) <= NChunks(n_samples)
    /\ StretchHeld
    /\ Found => data = Segments(det, p)
-----------------------------------------------------------------------------
(* Finite sets of naturals in increasing order.                            *)

\* A set of naturals that is not empty has a least element.
LEMMA LeastNat ==
    ASSUME NEW S \in SUBSET Nat, S # {}
    PROVE  \E m \in S : \A k \in S : m <= k
  <1>1. IsWellFoundedOn(OpToRel(<, Nat), Nat)
    BY NatLessThanWellFounded
  <1>2. PICK m \in S : \A k \in S : ~(<<k, m>> \in OpToRel(<, Nat))
    BY <1>1, WFMin
  <1>3. \A k \in S : ~(k < m)
    BY <1>2 DEF OpToRel
  <1> QED
    BY <1>3

\* A bounded one has a greatest.
LEMMA GreatestNat ==
    ASSUME NEW S \in SUBSET Nat, S # {}, NEW b \in Nat, \A s \in S : s <= b
    PROVE  \E m \in S : \A k \in S : k <= m
  <1> DEFINE T == {b - s : s \in S}
  <1>1. T \in SUBSET Nat /\ T # {}
    <2>1. \A s \in S : b - s \in Nat
      OBVIOUS
    <2> QED
      BY <2>1, Zenon
  <1>2. PICK t \in T : \A u \in T : t <= u
    BY <1>1, LeastNat
  <1>3. PICK m \in S : t = b - m
    BY <1>2
  <1>4. \A k \in S : b - m <= b - k
    BY <1>2, <1>3
  <1> QED
    BY <1>4

\* Numbering a finite set: different elements have different ranks, all below the size of
\* the set, so every rank is taken; and ranks grow with the elements.
LEMMA NthFacts ==
    ASSUME NEW S \in SUBSET Nat, IsFiniteSet(S)
    PROVE  /\ Cardinality(S) \in Nat
           /\ \A z \in 1..Cardinality(S) : Nth(S, z) \in S
           /\ \A m, z \in 1..Cardinality(S) : m < z => Nth(S, m) < Nth(S, z)
           /\ \A k \in S : \E z \in 1..Cardinality(S) : Nth(S, z) = k
  <1> DEFINE A(d) == {e \in S : e < d}
             f    == [d \in S |-> Below(S, d)]
  <1>1. PICK N \in Nat : N = Cardinality(S)
    BY FS_CardinalityType
  <1>2. ASSUME NEW d, NEW T \in SUBSET S, A(d) \subseteq T, A(d) # T
        PROVE  /\ Below(S, d) \in Nat /\ Cardinality(T) \in Nat
               /\ Below(S, d) < Cardinality(T)
    <2>1. IsFiniteSet(T)
      BY FS_Subset
    <2>2. A(d) \in SUBSET T /\ Below(S, d) = Cardinality(A(d))
      BY <1>2 DEF Below
    <2> HIDE DEF A
    <2>3. /\ IsFiniteSet(A(d)) /\ Cardinality(A(d)) <= Cardinality(T)
          /\ Cardinality(A(d)) # Cardinality(T)
      BY <1>2, <2>1, <2>2, FS_Subset
    <2>4. Cardinality(A(d)) \in Nat /\ Cardinality(T) \in Nat
      BY <2>1, <2>3, FS_CardinalityType
    <2> QED
      BY <2>2, <2>3, <2>4
  <1>3. ASSUME NEW d \in S PROVE Below(S, d) \in 0..(N - 1)
    <2>1. A(d) # S
      OBVIOUS
    <2>2. Below(S, d) \in Nat /\ Below(S, d) < N
      BY <1>1, <1>2, <2>1
    <2> QED
      BY <1>1, <2>2
  <1>4. ASSUME NEW d \in S, NEW e \in S, d < e PROVE Below(S, d) < Below(S, e)
    <2>1. \A x \in S : x < d => x < e
      BY <1>4
    <2>2. A(d) \subseteq A(e) /\ A(e) \in SUBSET S
      BY <2>1
    <2>3. d \in A(e) /\ d \notin A(d)
      BY <1>4
    <2> HIDE DEF A
    <2>4. Below(S, d) < Cardinality(A(e))
      BY <1>2, <2>2, <2>3
    <2> QED
      BY <2>4 DEF A, Below
  <1>5. ASSUME NEW d \in S, NEW e \in S, Below(S, d) = Below(S, e) PROVE d = e
    <2>1. Below(S, d) \in Nat /\ ~(d < e) /\ ~(e < d)
      BY <1>1, <1>3, <1>4, <1>5
    <2> QED
      BY <2>1
  <1>6. ASSUME NEW r \in 0..(N - 1) PROVE \E d \in S : Below(S, d) = r
    <2>1. f \in Injection(S, 0..(N - 1))
      BY <1>3, <1>5 DEF Injection, IsInjective
    <2>2. IsFiniteSet(0..(N - 1)) /\ Cardinality(0..(N - 1)) = N
      BY <1>1, FS_Interval
    <2>3. f \in Surjection(S, 0..(N - 1))
      BY <1>1, <2>1, <2>2, FS_Injection, Zenon
    <2> QED
      BY <2>3 DEF Surjection
  <1> HIDE DEF f
  <1>7. ASSUME NEW z \in 1..N PROVE Nth(S, z) \in S /\ Below(S, Nth(S, z)) = z - 1
    <2>1. z - 1 \in 0..(N - 1)
      BY <1>1
    <2>2. \E d \in S : Below(S, d) = z - 1
      BY <1>6, <2>1
    <2> QED
      BY <2>2, Zenon DEF Nth
  <1>8. ASSUME NEW m \in 1..N, NEW z \in 1..N, m < z PROVE Nth(S, m) < Nth(S, z)
    <2>1. PICK a \in S : a = Nth(S, m) /\ Below(S, a) = m - 1
      BY <1>7
    <2>2. PICK b \in S : b = Nth(S, z) /\ Below(S, b) = z - 1
      BY <1>7
    <2>3. m - 1 < z - 1 /\ m - 1 \in Nat /\ z - 1 \in Nat
      BY <1>1, <1>8
    <2>4. ~(b < a) /\ a # b
      BY <1>4, <2>1, <2>2, <2>3
    <2> QED
      BY <2>1, <2>2, <2>4
  <1>9. ASSUME NEW k \in S PROVE \E z \in 1..N : Nth(S, z) = k
    <2>1. PICK z : z = Below(S, k) + 1
      OBVIOUS
    <2>2. z \in 1..N /\ Below(S, k) = z - 1
      BY <1>1, <1>3, <2>1
    <2>3. Nth(S, z) \in S /\ Below(S, Nth(S, z)) = z - 1
      BY <1>7, <2>2
    <2> QED
      BY <1>5, <2>2, <2>3
  <1> QED
    BY <1>1, <1>7, <1>8, <1>9
-----------------------------------------------------------------------------
(* The loop.                                                               *)

LEMMA WindowFacts == Window \in Nat /\ Window >= 160
  BY WindowAssumption DEF cs_to_samples, WHISPER_SAMPLE_RATE

LEMMA SampleFacts ==
    ASSUME NEW d \in DetectorType
    PROVE  Sample(d) \in Nat /\ Window * (d.i + 1) = Sample(d) + Window
  BY WindowFacts DEF DetectorType, Sample

LEMMA ApartType ==
    ASSUME NEW s, NEW len, WellApart(s, len), NEW k \in DOMAIN s
    PROVE  s[k] \in SpeechType /\ s[k].start \in Nat /\ s[k].end \in Nat
  <1>1. s \in Seq(SpeechType)
    BY DEF WellApart
  <1>2. s[k] \in SpeechType
    BY <1>1
  <1> QED
    BY <1>2 DEF SpeechType

\* A speech after all others.
LEMMA AppendApart ==
    ASSUME NEW s, NEW len \in Nat, NEW len2 \in Nat, WellApart(s, len), len <= len2,
           NEW a \in Nat, NEW b \in Nat, a + Window <= b, b <= len2,
           \A k \in DOMAIN s : s[k].end <= a
    PROVE  /\ WellApart(Append(s, Speech(a, b)), len2)
           /\ \A k \in DOMAIN Append(s, Speech(a, b)) : Append(s, Speech(a, b))[k].end <= b
  <1> USE WindowFacts
  <1>0. Speech(a, b) \in SpeechType /\ Speech(a, b).start = a /\ Speech(a, b).end = b
    BY DEF Speech, SpeechType
  <1>1. PICK x \in SpeechType : x = Speech(a, b) /\ x.start = a /\ x.end = b
    BY <1>0
  <1>2. PICK t : t = Append(s, x)
    OBVIOUS
  <1>3. s \in Seq(SpeechType) /\ Len(s) \in Nat /\ DOMAIN s = 1..Len(s)
    BY DEF WellApart
  <1>4. /\ t \in Seq(SpeechType) /\ DOMAIN t = 1..(Len(s) + 1)
        /\ t[Len(s) + 1] = x /\ \A k \in 1..Len(s) : t[k] = s[k]
    BY <1>2, <1>3
  <1>5. ASSUME NEW k \in DOMAIN t
        PROVE  t[k].start + Window <= t[k].end /\ t[k].end <= len2 /\ t[k].end <= b
    <2>1. CASE k = Len(s) + 1
      BY <1>1, <1>4, <2>1
    <2>2. CASE k \in 1..Len(s)
      <3>1. t[k] = s[k] /\ s[k] \in SpeechType /\ k \in DOMAIN s
        BY <1>3, <1>4, <2>2
      <3>2. s[k].start + Window <= s[k].end /\ s[k].end <= len /\ s[k].end <= a
        BY <3>1 DEF WellApart
      <3> QED
        BY <3>1, <3>2 DEF SpeechType
    <2> QED
      BY <1>3, <1>4, <2>1, <2>2
  <1>6. ASSUME NEW j \in DOMAIN t, NEW k \in DOMAIN t, j < k PROVE t[j].end <= t[k].start
    <2>1. j \in 1..Len(s) /\ j \in DOMAIN s /\ t[j] = s[j]
      BY <1>3, <1>4, <1>6
    <2>2. CASE k = Len(s) + 1
      BY <1>1, <1>4, <2>1, <2>2
    <2>3. CASE k \in 1..Len(s)
      BY <1>3, <1>4, <1>6, <2>1, <2>3 DEF WellApart
    <2> QED
      BY <1>3, <1>4, <2>2, <2>3
  <1>7. WellApart(t, len2)
    BY <1>4, <1>5, <1>6 DEF WellApart
  <1> QED
    BY <1>1, <1>2, <1>5, <1>7

\* Time goes on.
LEMMA LaterApart ==
    ASSUME NEW s, NEW len \in Nat, NEW len2 \in Nat, WellApart(s, len), len <= len2
    PROVE  WellApart(s, len2)
  <1>1. \A k \in DOMAIN s : s[k].end \in Nat
    BY ApartType
  <1> QED
    BY <1>1 DEF WellApart

\* The detector with another speech and no segment open.
LEMMA ClosedOK ==
    ASSUME NEW d \in DetectorType, NEW now \in Nat, NEW later \in Nat, now <= later, NEW par,
           d.start <= now, WellApart(d.speeches, now)
    PROVE  DetectorOK(Close(d), later, par)
  <1>1. PICK e : e = Close(d)
    OBVIOUS
  <1>2. /\ e \in DetectorType /\ e.is_speech = FALSE /\ Forgotten(e)
        /\ e.start = d.start /\ e.speeches = d.speeches
    BY <1>1 DEF Close, DetectorType, Forgotten
  <1>3. WellApart(e.speeches, later)
    BY <1>2, LaterApart
  <1>4. d.start \in Nat /\ e.start <= later
    BY <1>2 DEF DetectorType
  <1>5. DetectorOK(e, later, par)
    BY <1>2, <1>3, <1>4 DEF DetectorOK, Forgotten, Inside
  <1> QED
    BY <1>1, <1>5

\* The fields of a detector that got another speech.
LEMMA AppendType ==
    ASSUME NEW d \in DetectorType, NEW x \in SpeechType
    PROVE  LET e == [d EXCEPT !.speeches = Append(@, x)]
           IN /\ e \in DetectorType /\ e.speeches = Append(d.speeches, x)
              /\ e.i = d.i /\ e.start = d.start /\ e.is_speech = d.is_speech /\ e.temp_end = d.temp_end
              /\ e.prev_end = d.prev_end /\ e.next_start = d.next_start
  BY SMTT(30) DEF DetectorType

\* The open segment recorded as a speech up to b.
WithSpeech(d, b) == [d EXCEPT !.speeches = Append(@, Speech(d.start, b))]

\* The open segment is closed with a speech up to b.
LEMMA CloseWithSpeech ==
    ASSUME NEW d \in DetectorType, NEW now \in Nat, NEW later \in Nat, now <= later, NEW par,
           WellApart(d.speeches, now), \A k \in DOMAIN d.speeches : d.speeches[k].end <= d.start,
           NEW b \in Nat, d.start + Window <= b, b <= now,
           NEW c, c = Close(WithSpeech(d, b))
    PROVE  /\ DetectorOK(c, later, par) /\ c.speeches = Append(d.speeches, Speech(d.start, b))
           /\ c \in DetectorType /\ ~c.is_speech
           /\ \A k \in DOMAIN c.speeches : c.speeches[k].end <= b
           /\ WellApart(c.speeches, now)
  <1>1. d.start \in Nat /\ d.start <= now
    BY WindowFacts DEF DetectorType
  <1>2. PICK x \in SpeechType : x = Speech(d.start, b)
    BY <1>1 DEF Speech, SpeechType
  <1>3. PICK e : e = [d EXCEPT !.speeches = Append(@, x)] /\ c = Close(e)
    BY <1>2 DEF WithSpeech
  <1>4. e \in DetectorType /\ e.speeches = Append(d.speeches, x) /\ e.start = d.start
    BY <1>3, AppendType
  <1>5. WellApart(e.speeches, now) /\ \A k \in DOMAIN e.speeches : e.speeches[k].end <= b
    <2>0. now <= now
      OBVIOUS
    <2>1. PICK s, a : s = d.speeches /\ a = d.start /\ a \in Nat
      BY <1>1, Zenon
    <2>2. WellApart(s, now) /\ a + Window <= b /\ \A k \in DOMAIN s : s[k].end <= a
      BY <2>1
    <2>3. WellApart(Append(s, Speech(a, b)), now)
          /\ \A k \in DOMAIN Append(s, Speech(a, b)) : Append(s, Speech(a, b))[k].end <= b
      BY <2>0, <2>1, <2>2, AppendApart, Zenon
    <2> QED
      BY <1>2, <1>4, <2>1, <2>3, Zenon
  <1>6. DetectorOK(Close(e), later, par)
    BY <1>1, <1>4, <1>5, ClosedOK
  <1>7. Close(e) \in DetectorType /\ ~Close(e).is_speech /\ Close(e).speeches = e.speeches
    BY <1>4 DEF Close, DetectorType
  <1> QED
    BY <1>2, <1>3, <1>4, <1>5, <1>6, <1>7

\* A segment is cut, and goes on at the speech after the silence or is closed; where it
\* goes on, a window of silence can still be measured.
LEMMA SplitOK ==
    ASSUME NEW d, NEW now \in Nat, NEW par, NEW quiet \in BOOLEAN, d.is_speech, d.prev_end # 0,
           d \in DetectorType, WellApart(d.speeches, now), \A k \in DOMAIN d.speeches : d.speeches[k].end <= d.start,
           Inside(d, d.prev_end, now), d.next_start <= now, quiet => d.next_start = 0 \/ d.next_start + Window <= now
    PROVE  LET e == SplitAtSilence(d)
           IN /\ DetectorOK(e, now + Window, par) /\ WellApart(e.speeches, now)
              /\ Forgotten(e) /\ e.start <= now
              /\ quiet /\ e.is_speech => e.start + Window <= now
  <1> USE WindowFacts
  <1>1. d.start \in Nat /\ d.prev_end \in Nat /\ d.next_start \in Nat /\ d.start + Window <= d.prev_end /\ d.prev_end <= now
    BY DEF DetectorType, Inside
  <1>2. PICK cut : cut = [d EXCEPT !.speeches = Append(@, Speech(d.start, d.prev_end))]
    OBVIOUS
  <1>3. PICK c : c = Close(cut)
    OBVIOUS
  <1>4. /\ DetectorOK(c, now + Window, par) /\ c \in DetectorType /\ ~c.is_speech
        /\ \A k \in DOMAIN c.speeches : c.speeches[k].end <= d.prev_end
        /\ WellApart(c.speeches, now)
    <2>1. c = Close(WithSpeech(d, d.prev_end))
      BY <1>2, <1>3 DEF WithSpeech
    <2>2. now <= now + Window /\ now + Window \in Nat
      OBVIOUS
    <2> QED
      BY <1>1, <2>1, <2>2, CloseWithSpeech
  <1>5. Forgotten(c)
    BY <1>4 DEF DetectorOK
  <1>6. CASE d.next_start < d.prev_end
    <2>1. SplitAtSilence(d) = c
      BY <1>2, <1>3, <1>6 DEF SplitAtSilence
    <2>2. cut.start = d.start /\ c.start = d.start
      BY <1>2, <1>3 DEF Close, DetectorType
    <2> QED
      BY <1>1, <1>4, <1>5, <2>1, <2>2
  <1>7. CASE d.next_start >= d.prev_end
    <2>1. PICK e : e = [c EXCEPT !.is_speech = TRUE, !.start = d.next_start]
      OBVIOUS
    <2>2. SplitAtSilence(d) = e
      BY <1>1, <1>2, <1>3, <1>7, <2>1 DEF SplitAtSilence
    <2>3. /\ e \in DetectorType /\ e.is_speech = TRUE /\ e.start = d.next_start /\ Forgotten(e)
          /\ e.speeches = c.speeches
      BY <1>1, <1>4, <1>5, <2>1 DEF DetectorType, Forgotten
    <2>4. WellApart(e.speeches, now) /\ WellApart(e.speeches, now + Window)
      BY <1>4, <2>3, LaterApart
    <2>5. \A k \in DOMAIN e.speeches : e.speeches[k].end <= e.start
      <3> SUFFICES ASSUME NEW k \in DOMAIN e.speeches PROVE e.speeches[k].end <= e.start
        OBVIOUS
      <3>1. e.speeches[k].end \in Nat /\ e.speeches[k].end <= d.prev_end
        BY <1>4, <2>3, <2>4, ApartType
      <3> QED
        BY <1>1, <1>7, <2>3, <3>1
    <2>6. DetectorOK(e, now + Window, par)
      BY <1>1, <2>3, <2>4, <2>5 DEF DetectorOK, Inside, Forgotten
    <2>7. quiet => e.start + Window <= now
      BY <1>1, <1>7, <2>3
    <2> QED
      BY <1>1, <2>2, <2>3, <2>4, <2>6, <2>7
  <1> QED
    BY <1>1, <1>6, <1>7

\* A window of silence in an open segment.
LEMMA SilenceOK ==
    ASSUME NEW d, NEW par, d \in DetectorType, d.is_speech,
           DetectorOK(d, Sample(d) + Window, par), d.start + Window <= Sample(d), WellApart(d.speeches, Sample(d)),
           Inside(d, d.temp_end, Sample(d)), par.threshold = 0 => d.temp_end = 0
    PROVE  DetectorOK(Silence(d, par), Sample(d) + Window, par)
  <1> USE WindowFacts
  <1>1. PICK now \in Nat : now = Sample(d)
    BY SampleFacts
  <1>2. PICK end : end = IF d.temp_end = 0 THEN Sample(d) ELSE d.temp_end
    OBVIOUS
  <1>3. /\ d.start \in Nat /\ d.temp_end \in Nat /\ d.prev_end \in Nat /\ d.next_start \in Nat
        /\ end \in Nat /\ d.start + Window <= end /\ end <= now
    BY <1>1, <1>2 DEF DetectorType, Inside
  <1>4. PICK prev : prev = IF now - end > MinSilenceAtMaxSpeech THEN end ELSE d.prev_end
    OBVIOUS
  <1>5. prev \in Nat /\ Inside(d, prev, now + Window) /\ (par.threshold = 0 => prev = 0)
    <2>1. MinSilenceAtMaxSpeech = 1568
      BY DEF MinSilenceAtMaxSpeech, MsToSamples, WHISPER_SAMPLE_RATE
    <2> QED
      BY <1>1, <1>2, <1>3, <1>4, <2>1 DEF DetectorOK, Inside
  <1>6. \A k \in DOMAIN d.speeches : d.speeches[k].end <= d.start
    BY DEF DetectorOK
  <1>7. CASE now - end < MsToSamples(par.min_silence_ms)
    <2>1. PICK e : e = [d EXCEPT !.temp_end = end, !.prev_end = prev]
      OBVIOUS
    <2>2. Silence(d, par) = e
      BY <1>1, <1>2, <1>4, <1>7, <2>1, Zenon DEF Silence
    <2>3. /\ e \in DetectorType /\ e.is_speech = d.is_speech /\ e.start = d.start /\ e.speeches = d.speeches
          /\ e.temp_end = end /\ e.prev_end = prev /\ e.next_start = d.next_start
      BY <1>3, <1>5, <2>1 DEF DetectorType
    <2>4. DetectorOK(e, now + Window, par)
      BY <1>1, <1>3, <1>5, <1>6, <2>3 DEF DetectorOK, Inside
    <2> QED
      BY <1>1, <2>2, <2>4
  <1>8. CASE ~(now - end < MsToSamples(par.min_silence_ms))
    <2>1. PICK e : e = IF end - d.start > MsToSamples(par.min_speech_ms)
                         THEN [d EXCEPT !.speeches = Append(@, Speech(d.start, end))] ELSE d
      OBVIOUS
    <2>2. Silence(d, par) = Close(e)
      BY <1>1, <1>2, <1>8, <2>1, Zenon DEF Silence
    <2>3. CASE e = d
      BY <1>1, <1>3, <2>2, <2>3, ClosedOK
    <2>4. CASE e = [d EXCEPT !.speeches = Append(@, Speech(d.start, end))]
      <3>1. PICK c : c = Close(WithSpeech(d, end))
        OBVIOUS
      <3>2. now <= now + Window /\ now + Window \in Nat /\ WellApart(d.speeches, now)
        BY <1>1
      <3>3. DetectorOK(c, now + Window, par)
        BY <1>3, <1>6, <3>1, <3>2, CloseWithSpeech
      <3> QED
        BY <1>1, <2>2, <2>4, <3>1, <3>3 DEF WithSpeech
    <2> QED
      BY <2>1, <2>3, <2>4
  <1> QED
    BY <1>7, <1>8

\* A turn of the loop in its parts: the segment after a loud window, and whether it is too long.
Woken(d, prob, par) == IF prob >= par.threshold /\ d.temp_end # 0 THEN BackToSpeech(d) ELSE d

Over(d, par) == d.is_speech /\ Sample(d) - d.start > MaxSpeech(par)

Opened(d) == [d EXCEPT !.is_speech = TRUE, !.start = Sample(d)]

CutOff(d) == Close([d EXCEPT !.speeches = Append(@, Speech(d.start, Sample(d)))])

\* What a turn does to the segment d: open one, cut one off, or look at the silence.
Turn(d, prob, par, next) ==
    \/ /\ prob >= par.threshold /\ ~d.is_speech /\ next = Opened(d)
    \/ /\ Over(d, par) /\ d.prev_end = 0 /\ next = CutOff(d)
    \/ /\ prob >= par.threshold => d.is_speech
       /\ Over(d, par) => d.prev_end # 0
       /\ \E cut : /\ cut = IF Over(d, par) THEN SplitAtSilence(d) ELSE d
                   /\ next = IF prob < NegThreshold(par) /\ cut.is_speech THEN Silence(cut, par) ELSE cut

LEMMA TurnForm ==
    ASSUME NEW d0, NEW prob, NEW par
    PROVE  \E next : /\ Turn(Woken(d0, prob, par), prob, par, next)
                     /\ DetectWindow(d0, prob, par) = [next EXCEPT !.i = @ + 1]
  <1>1. PICK d : d = IF prob >= par.threshold /\ d0.temp_end # 0 THEN BackToSpeech(d0) ELSE d0
    OBVIOUS
  <1>2. PICK cut : cut = IF Over(d, par) THEN SplitAtSilence(d) ELSE d
    OBVIOUS
  <1>3. PICK quiet : quiet = IF prob < NegThreshold(par) /\ cut.is_speech THEN Silence(cut, par) ELSE cut
    OBVIOUS
  <1>4. PICK next : next = CASE prob >= par.threshold /\ ~d.is_speech -> Opened(d)
                             [] Over(d, par) /\ d.prev_end = 0 -> CutOff(d)
                             [] OTHER -> quiet
    OBVIOUS
  <1>5. DetectWindow(d0, prob, par) = [next EXCEPT !.i = @ + 1]
    BY <1>1, <1>2, <1>3, <1>4, Zenon DEF DetectWindow, Over, Opened, CutOff
  <1>6. Turn(d, prob, par, next)
    <2>1. CASE prob >= par.threshold /\ ~d.is_speech
      <3>1. ~(Over(d, par) /\ d.prev_end = 0)
        BY <2>1 DEF Over
      <3>2. next = Opened(d)
        BY <1>4, <2>1, <3>1
      <3> QED
        BY <2>1, <3>2 DEF Turn
    <2>2. CASE ~(prob >= par.threshold /\ ~d.is_speech) /\ Over(d, par) /\ d.prev_end = 0
      BY <1>4, <2>2 DEF Turn
    <2>3. CASE ~(prob >= par.threshold /\ ~d.is_speech) /\ ~(Over(d, par) /\ d.prev_end = 0)
      <3>1. next = quiet
        BY <1>4, <2>3
      <3> QED
        BY <1>2, <1>3, <2>3, <3>1, Zenon DEF Turn
    <2> QED
      BY <2>1, <2>2, <2>3
  <1> QED
    BY <1>1, <1>5, <1>6 DEF Woken

\* The segment after a loud window: only the silence is forgotten, and where speech
\* goes on is remembered.
LEMMA WokenFacts ==
    ASSUME NEW d0, NEW prob \in Nat, NEW par, par.threshold \in Nat, DetectorOK(d0, Sample(d0), par),
           NEW d, d = Woken(d0, prob, par)
    PROVE  /\ d \in DetectorType /\ Sample(d) = Sample(d0) /\ d.i = d0.i
           /\ d.is_speech = d0.is_speech /\ d.start = d0.start /\ d.prev_end = d0.prev_end
           /\ d.speeches = d0.speeches
           /\ Inside(d, d.temp_end, Sample(d)) /\ Inside(d, d.prev_end, Sample(d))
           /\ d.next_start <= Sample(d)
           /\ prob < par.threshold => d = d0
           /\ prob >= par.threshold => d.temp_end = 0
           /\ ~d.is_speech => d = d0
  <1> USE WindowFacts
  <1>1. d0 \in DetectorType /\ Sample(d0) \in Nat
    BY SampleFacts DEF DetectorOK
  <1>2. d0.next_start \in Nat /\ d0.temp_end \in Nat /\ d0.next_start <= Sample(d0)
    BY <1>1 DEF DetectorOK, DetectorType
  <1>3. CASE d = d0 /\ ~(prob >= par.threshold /\ d0.temp_end # 0)
    BY <1>1, <1>2, <1>3 DEF DetectorOK
  <1>4. CASE prob >= par.threshold /\ d0.temp_end # 0 /\ d = BackToSpeech(d0)
    <2>1. PICK x : x = IF d0.next_start < d0.prev_end THEN Sample(d0) ELSE d0.next_start
      OBVIOUS
    <2>2. d = [d0 EXCEPT !.temp_end = 0, !.next_start = x]
      BY <1>4, <2>1 DEF BackToSpeech
    <2>2x. x \in Nat /\ x <= Sample(d0)
      BY <1>1, <1>2, <2>1
    <2>3. /\ d \in DetectorType /\ d.i = d0.i /\ d.temp_end = 0 /\ d.next_start = x
          /\ d.is_speech = d0.is_speech /\ d.start = d0.start /\ d.prev_end = d0.prev_end
          /\ d.speeches = d0.speeches
      <3>1. d \in DetectorType
        <4>1. PICK c : c = [d0 EXCEPT !.temp_end = 0]
          OBVIOUS
        <4>2. c \in DetectorType
          BY <1>1, <4>1 DEF DetectorType
        <4>3. d = [c EXCEPT !.next_start = x]
          BY <2>2, <4>1
        <4> QED
          BY <2>2x, <4>2, <4>3 DEF DetectorType
      <3>2. d.is_speech = d0.is_speech
        BY <1>1, <2>2 DEF DetectorType
      <3>3. /\ d.i = d0.i /\ d.temp_end = 0 /\ d.next_start = x /\ d.start = d0.start
            /\ d.prev_end = d0.prev_end /\ d.speeches = d0.speeches
        BY <1>1, <2>2 DEF DetectorType
      <3> QED
        BY <3>1, <3>2, <3>3
    <2>4. Sample(d) = Sample(d0)
      BY <2>3 DEF Sample
    <2>5. d.is_speech
      BY <1>4, <2>3 DEF DetectorOK, Forgotten
    <2> QED
      BY <1>1, <1>4, <2>2x, <2>3, <2>4, <2>5 DEF DetectorOK, Inside
  <1> QED
    BY <1>3, <1>4 DEF Woken

\* The invariant of the loop.
LEMMA DetectOK ==
    ASSUME NEW d0, NEW prob \in Nat, NEW par, par.threshold \in Nat, DetectorOK(d0, Sample(d0), par)
    PROVE  /\ DetectorOK(DetectWindow(d0, prob, par), Sample(DetectWindow(d0, prob, par)), par)
           /\ DetectWindow(d0, prob, par).i = d0.i + 1
  <1> USE WindowFacts
  <1>1. PICK d : d = Woken(d0, prob, par)
    OBVIOUS
  <1>2. PICK next : Turn(d, prob, par, next) /\ DetectWindow(d0, prob, par) = [next EXCEPT !.i = @ + 1]
    BY <1>1, TurnForm
  <1>3. /\ d \in DetectorType /\ Sample(d) = Sample(d0) /\ d.i = d0.i
        /\ d.is_speech = d0.is_speech /\ d.start = d0.start /\ d.prev_end = d0.prev_end
        /\ d.speeches = d0.speeches
        /\ Inside(d, d.temp_end, Sample(d)) /\ Inside(d, d.prev_end, Sample(d))
        /\ d.next_start <= Sample(d)
        /\ prob < par.threshold => d = d0
        /\ prob >= par.threshold => d.temp_end = 0
        /\ ~d.is_speech => d = d0
    BY <1>1, WokenFacts
  <1>4. PICK now \in Nat : now = Sample(d)
    BY <1>3, SampleFacts
  <1>5. /\ d.start \in Nat /\ d.temp_end \in Nat /\ d.prev_end \in Nat /\ d.next_start \in Nat /\ d.i \in Nat
        /\ d.is_speech \in BOOLEAN /\ d.start <= now /\ WellApart(d.speeches, now)
        /\ d.is_speech => d.start + Window <= now /\ \A k \in DOMAIN d.speeches : d.speeches[k].end <= d.start
        /\ ~d.is_speech => Forgotten(d)
        /\ par.threshold = 0 => d.prev_end = 0
    BY <1>3, <1>4 DEF DetectorOK, DetectorType
  <1>6. WellApart(d.speeches, now + Window)
    BY <1>5, LaterApart
  <1>7. DetectorOK(next, now + Window, par) /\ next.i = d.i
    <2>1. CASE prob >= par.threshold /\ ~d.is_speech /\ next = Opened(d)
      <3>1. /\ next \in DetectorType /\ next.is_speech = TRUE /\ next.start = now /\ Forgotten(next)
            /\ next.speeches = d.speeches /\ next.i = d.i
        BY <1>3, <1>4, <1>5, <2>1 DEF Opened, DetectorType, Forgotten
      <3>2. \A k \in DOMAIN next.speeches : next.speeches[k].end <= now
        BY <1>5, <3>1 DEF WellApart
      <3> QED
        BY <1>4, <1>6, <3>1, <3>2 DEF DetectorOK, Forgotten, Inside
    <2>2. CASE Over(d, par) /\ d.prev_end = 0 /\ next = CutOff(d)
      <3>1. d.is_speech /\ now <= now + Window /\ now <= now /\ now + Window \in Nat
        BY <2>2 DEF Over
      <3>2. next = Close(WithSpeech(d, now))
        BY <1>4, <2>2 DEF CutOff, WithSpeech
      <3>3. DetectorOK(next, now + Window, par)
        BY <1>3, <1>4, <1>5, <3>1, <3>2, CloseWithSpeech, ZenonT(40)
      <3>4. next.i = d.i
        BY <1>3, <3>2 DEF Close, WithSpeech, DetectorType
      <3> QED
        BY <3>3, <3>4
    <2>3. ASSUME prob >= par.threshold => d.is_speech, Over(d, par) => d.prev_end # 0,
                 NEW cut, cut = IF Over(d, par) THEN SplitAtSilence(d) ELSE d,
                 next = IF prob < NegThreshold(par) /\ cut.is_speech THEN Silence(cut, par) ELSE cut
          PROVE  DetectorOK(next, now + Window, par) /\ next.i = d.i
      <3>1. prob < NegThreshold(par) /\ prob >= par.threshold => par.threshold = 0
        BY DEF NegThreshold
      <3>2. /\ DetectorOK(cut, now + Window, par) /\ cut \in DetectorType /\ cut.i = d.i
            /\ WellApart(cut.speeches, now) /\ Inside(cut, cut.temp_end, now)
            /\ par.threshold = 0 => cut.temp_end = 0
            /\ prob < NegThreshold(par) /\ cut.is_speech => cut.start + Window <= now
        <4>1. CASE Over(d, par)
          <5>1. d.is_speech /\ d.prev_end # 0 /\ par.threshold # 0
            BY <1>5, <2>3, <4>1 DEF Over
          <5>2. /\ DetectorOK(cut, now + Window, par) /\ WellApart(cut.speeches, now)
                /\ Forgotten(cut) /\ cut.start <= now
                /\ prob < NegThreshold(par) /\ cut.is_speech => cut.start + Window <= now
            <6>1. CASE prob < NegThreshold(par)
              <7>1. d = d0
                BY <1>3, <3>1, <5>1, <6>1
              <7>2. d.next_start = 0 \/ d.next_start + Window <= now
                BY <1>4, <7>1 DEF DetectorOK
              <7> QED
                BY <1>3, <1>4, <1>5, <2>3, <4>1, <5>1, <6>1, <7>2, SplitOK
            <6>2. CASE ~(prob < NegThreshold(par))
              <7>1. DetectorOK(cut, now + Window, par) /\ WellApart(cut.speeches, now)
                    /\ Forgotten(cut) /\ cut.start <= now
                BY <1>3, <1>4, <1>5, <2>3, <4>1, <5>1, SplitOK
              <7> QED
                BY <6>2, <7>1
            <6> QED
              BY <6>1, <6>2
          <5>3. cut.i = d.i
            BY <1>3, <2>3, <4>1 DEF SplitAtSilence, Close, DetectorType
          <5> QED
            BY <5>1, <5>2, <5>3 DEF DetectorOK, Forgotten, Inside
        <4>2. CASE ~Over(d, par)
          <5>1. cut = d
            BY <2>3, <4>2
          <5>2. DetectorOK(d, now + Window, par)
            BY <1>3, <1>4, <1>5, <1>6 DEF DetectorOK, Inside, Forgotten
          <5>3. par.threshold = 0 => d.temp_end = 0
            BY <1>3
          <5> QED
            BY <1>3, <1>4, <1>5, <5>1, <5>2, <5>3
        <4> QED
          BY <4>1, <4>2
      <3>3. CASE prob < NegThreshold(par) /\ cut.is_speech
        <4>1. next = Silence(cut, par) /\ Sample(cut) = now
          BY <1>4, <2>3, <3>2, <3>3 DEF Sample
        <4>2. DetectorOK(next, now + Window, par)
          BY <3>2, <3>3, <4>1, SilenceOK
        <4>3. next.i = cut.i
          BY <3>2, <4>1 DEF Silence, Close, DetectorType
        <4> QED
          BY <3>2, <4>2, <4>3
      <3>4. CASE ~(prob < NegThreshold(par) /\ cut.is_speech)
        BY <2>3, <3>2, <3>4
      <3> QED
        BY <3>3, <3>4
    <2> QED
      BY <1>2, <2>1, <2>2, <2>3 DEF Turn
  <1>8. PICK e : e = [next EXCEPT !.i = @ + 1]
    OBVIOUS
  <1>9. /\ e \in DetectorType /\ e.i = d.i + 1 /\ e.is_speech = next.is_speech /\ e.start = next.start
        /\ e.temp_end = next.temp_end /\ e.prev_end = next.prev_end /\ e.next_start = next.next_start
        /\ e.speeches = next.speeches
    <2>1. next \in DetectorType /\ next.i = d.i
      BY <1>7 DEF DetectorOK
    <2>2. e \in DetectorType
      BY <1>8, <2>1, SMTT(30) DEF DetectorType
    <2>3. e.is_speech = next.is_speech
      BY <1>8, <2>1 DEF DetectorType
    <2>4. /\ e.i = d.i + 1 /\ e.start = next.start /\ e.temp_end = next.temp_end
          /\ e.prev_end = next.prev_end /\ e.next_start = next.next_start /\ e.speeches = next.speeches
      BY <1>8, <2>1 DEF DetectorType
    <2> QED
      BY <2>2, <2>3, <2>4
  <1>10. Sample(e) = now + Window
    BY <1>3, <1>4, <1>9, SampleFacts DEF Sample
  <1>11. DetectorOK(e, now + Window, par)
    BY <1>7, <1>9 DEF DetectorOK, Inside, Forgotten
  <1> QED
    BY <1>2, <1>3, <1>8, <1>9, <1>10, <1>11
-----------------------------------------------------------------------------
(* After the loop.                                                         *)

LEMMA FinalApart ==
    ASSUME NEW d, NEW par, DetectorOK(d, Sample(d), par)
    PROVE  WellApart(FinalSpeech(d, par), Sample(d))
  <1> USE WindowFacts
  <1>1. d \in DetectorType /\ Sample(d) \in Nat
    BY SampleFacts DEF DetectorOK
  <1>2. PICK now \in Nat : now = Sample(d) /\ now = AudioLength(d) /\ now <= now
    BY <1>1 DEF Sample, AudioLength
  <1>3. d.start \in Nat /\ WellApart(d.speeches, now)
    BY <1>1, <1>2 DEF DetectorOK, DetectorType
  <1>4. CASE d.is_speech /\ now - d.start > MsToSamples(par.min_speech_ms)
    <2>1. d.start + Window <= now /\ \A k \in DOMAIN d.speeches : d.speeches[k].end <= d.start
      BY <1>2, <1>4 DEF DetectorOK
    <2>2. FinalSpeech(d, par) = Append(d.speeches, Speech(d.start, now))
      BY <1>2, <1>4 DEF FinalSpeech
    <2>3. PICK s, a : s = d.speeches /\ a = d.start
      OBVIOUS
    <2>4. WellApart(s, now) /\ a \in Nat /\ a + Window <= now /\ \A k \in DOMAIN s : s[k].end <= a
      BY <1>3, <2>1, <2>3
    <2>5. WellApart(Append(s, Speech(a, now)), now)
      BY <1>2, <2>4, AppendApart, Zenon
    <2> QED
      BY <1>2, <2>2, <2>3, <2>5
  <1>5. CASE ~(d.is_speech /\ now - d.start > MsToSamples(par.min_speech_ms))
    <2>1. FinalSpeech(d, par) = d.speeches
      BY <1>2, <1>5 DEF FinalSpeech
    <2> QED
      BY <1>2, <1>3, <2>1
  <1> QED
    BY <1>4, <1>5

\* The speeches of f, by the numbers of S: each long enough and in time, in order.
LongEnough(f, S, len) ==
    \A k \in S : f[k] \in SpeechType /\ f[k].start + Window <= f[k].end /\ f[k].end <= len

Ordered(f, S) == \A j, k \in S : j < k => f[j].end <= f[k].start

AllIn(f, S, r) == \A k \in S : \E n \in DOMAIN r : r[n] = f[k]

\* Some speeches, or what became of them, in the order of their numbers.
LEMMA ListedApart ==
    ASSUME NEW S \in SUBSET Nat, IsFiniteSet(S), NEW f, NEW len \in Nat,
           LongEnough(f, S, len), Ordered(f, S), NEW r, r = Listed(f, S)
    PROVE  WellApart(r, len) /\ AllIn(f, S, r)
  <1>1. PICK N : N = Cardinality(S)
    OBVIOUS
  <1>2. /\ N \in Nat
        /\ \A n \in 1..N : Nth(S, n) \in S
        /\ \A m, n \in 1..N : m < n => Nth(S, m) < Nth(S, n)
        /\ \A k \in S : \E n \in 1..N : Nth(S, n) = k
    BY <1>1, NthFacts, Zenon
  <1>3. r = [n \in 1..N |-> f[Nth(S, n)]]
    BY <1>1 DEF Listed
  <1>4. DOMAIN r = 1..N /\ \A n \in 1..N : r[n] = f[Nth(S, n)]
    BY <1>3, Zenon
  <1>5. r \in Seq(SpeechType)
    <2>1. \A n \in 1..N : f[Nth(S, n)] \in SpeechType
      BY <1>2 DEF LongEnough
    <2>2. r \in [1..N -> SpeechType]
      BY <1>3, <2>1, Zenon
    <2> QED
      BY <1>2, <2>2
  <1>6. \A n \in DOMAIN r : r[n].start + Window <= r[n].end /\ r[n].end <= len
    BY <1>2, <1>4, Zenon DEF LongEnough
  <1>7. ASSUME NEW m \in DOMAIN r, NEW n \in DOMAIN r, m < n PROVE r[m].end <= r[n].start
    <2>1. Nth(S, m) \in S /\ Nth(S, n) \in S /\ Nth(S, m) < Nth(S, n)
      BY <1>2, <1>4, <1>7
    <2>2. f[Nth(S, m)].end <= f[Nth(S, n)].start
      BY <2>1, Zenon DEF Ordered
    <2> QED
      BY <1>4, <2>2
  <1>8. AllIn(f, S, r)
    BY <1>2, <1>4, Zenon DEF AllIn
  <1> QED
    BY <1>5, <1>6, <1>7, <1>8 DEF WellApart

\* What is long enough is not dropped.
LEMMA DropApart ==
    ASSUME NEW s, NEW len \in Nat, WellApart(s, len), NEW par, NEW r, r = DropShort(s, par)
    PROVE  /\ WellApart(r, len)
           /\ \A k \in DOMAIN s : s[k].end - s[k].start >= MsToSamples(par.min_speech_ms)
                                    => \E n \in DOMAIN r : r[n] = s[k]
  <1>1. PICK S : S = {k \in DOMAIN s : s[k].end - s[k].start >= MsToSamples(par.min_speech_ms)}
    OBVIOUS
  <1>2. S \in SUBSET Nat /\ IsFiniteSet(S) /\ S \subseteq DOMAIN s
    <2>1. s \in Seq(SpeechType) /\ Len(s) \in Nat /\ DOMAIN s = 1..Len(s)
      BY DEF WellApart
    <2>2. IsFiniteSet(1..Len(s))
      BY <2>1, FS_Interval
    <2>3. S \subseteq 1..Len(s)
      BY <1>1, <2>1
    <2>4. IsFiniteSet(S)
      BY <2>2, <2>3, FS_Subset
    <2> QED
      BY <2>1, <2>3, <2>4
  <1>3. r = Listed(s, S)
    BY <1>1 DEF DropShort
  <1>4. LongEnough(s, S, len)
    BY <1>2, ApartType DEF WellApart, LongEnough
  <1>5. Ordered(s, S)
    BY <1>2 DEF WellApart, Ordered
  <1>6. WellApart(r, len) /\ AllIn(s, S, r)
    BY <1>2, <1>3, <1>4, <1>5, ListedApart
  <1> QED
    BY <1>1, <1>6, Zenon DEF AllIn

\* The last of the speeches that become one with the speech k.
IsLastOf(s, k, m) ==
    /\ \A j \in (k + 1)..m : j \notin Heads(s)
    /\ m < Len(s) => m + 1 \in Heads(s)

Merged(s) ==
    [k \in Heads(s) |-> Speech(s[k].start, s[CHOOSE m \in k..Len(s) : IsLastOf(s, k, m)].end)]

LEMMA MergedForm ==
    ASSUME NEW s
    PROVE  MergeAdjacent(s) = Listed(Merged(s), Heads(s))
  BY Zenon DEF MergeAdjacent, Merged, IsLastOf

\* There is one.
LEMMA LastOfExists ==
    ASSUME NEW s \in Seq(SpeechType), NEW k \in Heads(s)
    PROVE  \E m \in k..Len(s) : IsLastOf(s, k, m)
  <1>1. Len(s) \in Nat /\ DOMAIN s = 1..Len(s) /\ k \in 1..Len(s)
    BY DEF Heads
  <1>2. PICK T : T = {m \in k..Len(s) : m < Len(s) => m + 1 \in Heads(s)}
    OBVIOUS
  <1>3. T \in SUBSET Nat /\ T # {}
    <2>1. Len(s) \in T
      BY <1>1, <1>2
    <2> QED
      BY <1>1, <1>2, <2>1
  <1>4. PICK m \in T : \A j \in T : m <= j
    BY <1>3, LeastNat
  <1>5. m \in k..Len(s) /\ m \in Nat /\ (m < Len(s) => m + 1 \in Heads(s))
    BY <1>1, <1>2, <1>4
  <1>6. ASSUME NEW j \in (k + 1)..m, j \in Heads(s) PROVE FALSE
    <2>1. j - 1 \in k..Len(s) /\ (j - 1) + 1 = j /\ j - 1 < m
      BY <1>1, <1>5
    <2>2. j - 1 \in T
      BY <1>2, <1>6, <2>1
    <2> QED
      BY <1>4, <1>5, <2>1, <2>2
  <1> QED
    BY <1>5, <1>6 DEF IsLastOf

\* A merged speech reaches from a head to the last speech before the next head.
LEMMA MergedFacts ==
    ASSUME NEW s \in Seq(SpeechType), NEW k \in Heads(s)
    PROVE  \E m \in k..Len(s) : /\ IsLastOf(s, k, m)
                                /\ Merged(s)[k] = Speech(s[k].start, s[m].end)
  <1>1. PICK m : m = CHOOSE x \in k..Len(s) : IsLastOf(s, k, x)
    OBVIOUS
  <1>2. m \in k..Len(s) /\ IsLastOf(s, k, m)
    BY <1>1, LastOfExists, Zenon
  <1>3. Merged(s)[k] = Speech(s[k].start, s[m].end)
    BY <1>1, Zenon DEF Merged
  <1> QED
    BY <1>2, <1>3

\* Merging keeps speeches apart, and each of them in a merged one.
LEMMA MergeApart ==
    ASSUME NEW s, NEW len \in Nat, WellApart(s, len), NEW r, r = MergeAdjacent(s)
    PROVE  /\ WellApart(r, len)
           /\ \A k \in DOMAIN s : \E n \in DOMAIN r : r[n].start <= s[k].start /\ s[k].end <= r[n].end
  <1> USE WindowFacts
  <1>1. s \in Seq(SpeechType) /\ Len(s) \in Nat /\ DOMAIN s = 1..Len(s)
    BY DEF WellApart
  <1>2. PICK S, f : S = Heads(s) /\ f = Merged(s)
    OBVIOUS
  <1>3. S \in SUBSET Nat /\ IsFiniteSet(S) /\ S \subseteq 1..Len(s)
    <2>1. IsFiniteSet(1..Len(s))
      BY <1>1, FS_Interval
    <2>2. S \subseteq 1..Len(s)
      BY <1>1, <1>2 DEF Heads
    <2>3. IsFiniteSet(S)
      BY <2>1, <2>2, FS_Subset
    <2> QED
      BY <1>1, <2>2, <2>3
  <1>4. \A k \in 1..Len(s) : /\ s[k].start \in Nat /\ s[k].end \in Nat
                             /\ s[k].start + Window <= s[k].end /\ s[k].end <= len
    BY <1>1, ApartType DEF WellApart
  <1>5. \A j, k \in 1..Len(s) : j < k => s[j].end <= s[k].start
    BY <1>1 DEF WellApart
  <1>6. ASSUME NEW k \in S
        PROVE  \E m \in k..Len(s) : /\ IsLastOf(s, k, m) /\ f[k].start = s[k].start /\ f[k].end = s[m].end
                                    /\ f[k] \in SpeechType
                                    /\ s[k].end <= s[m].end
    <2>1. PICK m \in k..Len(s) : IsLastOf(s, k, m) /\ f[k] = Speech(s[k].start, s[m].end)
      BY <1>1, <1>2, MergedFacts
    <2>2. k \in 1..Len(s) /\ m \in 1..Len(s) /\ k <= m
      BY <1>1, <1>3, <2>1
    <2>3. f[k].start = s[k].start /\ f[k].end = s[m].end /\ f[k] \in SpeechType
      BY <1>4, <2>1, <2>2 DEF Speech, SpeechType
    <2>4. s[k].end <= s[m].end
      <3>1. CASE k = m
        BY <1>4, <2>2, <3>1
      <3>2. CASE k < m
        <4>1. s[k].end <= s[m].start /\ s[m].start + Window <= s[m].end
          BY <1>4, <1>5, <2>2, <3>2
        <4> QED
          BY <1>4, <2>2, <4>1
      <3> QED
        BY <1>1, <2>2, <3>1, <3>2
    <2> QED
      BY <2>1, <2>3, <2>4
  <1>7. ASSUME NEW k \in S
        PROVE  f[k] \in SpeechType /\ f[k].start + Window <= f[k].end /\ f[k].end <= len
    <2>1. PICK m \in k..Len(s) : /\ IsLastOf(s, k, m) /\ f[k].start = s[k].start /\ f[k].end = s[m].end
                                 /\ f[k] \in SpeechType
                                 /\ s[k].end <= s[m].end
      BY <1>6
    <2>2. k \in 1..Len(s) /\ m \in 1..Len(s)
      BY <1>1, <1>3, <2>1
    <2> QED
      BY <1>4, <2>1, <2>2
  <1>8. ASSUME NEW j \in S, NEW k \in S, j < k PROVE f[j].end <= f[k].start
    <2>1. PICK m \in j..Len(s) : IsLastOf(s, j, m) /\ f[j].end = s[m].end
      BY <1>6
    <2>2. f[k].start = s[k].start
      BY <1>6
    <2>3. j \in 1..Len(s) /\ k \in 1..Len(s) /\ m \in 1..Len(s)
      BY <1>1, <1>3, <2>1
    <2>4. m < k
      <3> SUFFICES ASSUME k <= m PROVE FALSE
        BY <1>1, <2>3
      <3>1. k \in (j + 1)..m
        BY <1>1, <1>8, <2>3
      <3> QED
        BY <1>2, <2>1, <3>1 DEF IsLastOf
    <2> QED
      BY <1>5, <2>1, <2>2, <2>3, <2>4
  <1>9. r = Listed(f, S)
    BY <1>2, MergedForm
  <1>10. WellApart(r, len) /\ AllIn(f, S, r)
    <2>1. LongEnough(f, S, len) /\ Ordered(f, S)
      BY <1>7, <1>8 DEF LongEnough, Ordered
    <2> QED
      BY <1>3, <1>9, <2>1, ListedApart
  <1>11. ASSUME NEW k \in DOMAIN s
         PROVE  \E n \in DOMAIN r : r[n].start <= s[k].start /\ s[k].end <= r[n].end
    <2>1. k \in 1..Len(s) /\ 1 \in S
      BY <1>1, <1>2 DEF Heads
    <2>2. PICK T : T = {h \in S : h <= k}
      OBVIOUS
    <2>3. PICK h \in T : \A x \in T : x <= h
      <3>1. 1 <= k /\ k \in Nat
        BY <1>1, <2>1
      <3>2. T \in SUBSET Nat /\ T # {} /\ \A x \in T : x <= k
        BY <1>3, <2>1, <2>2, <3>1
      <3> QED
        BY <3>1, <3>2, GreatestNat
    <2>4. h \in S /\ h <= k /\ h \in 1..Len(s)
      BY <1>3, <2>2, <2>3
    <2>5. PICK m \in h..Len(s) : /\ IsLastOf(s, h, m) /\ f[h].start = s[h].start /\ f[h].end = s[m].end
      BY <1>6, <2>4
    <2>6. m \in 1..Len(s)
      BY <1>1, <2>4, <2>5
    <2>7. k <= m
      <3> SUFFICES ASSUME m < k PROVE FALSE
        BY <1>1, <2>1, <2>6
      <3>1. m < Len(s) /\ m + 1 <= k /\ h < m + 1
        BY <1>1, <2>1, <2>4, <2>5, <2>6
      <3>2. m + 1 \in S
        BY <1>2, <2>5, <3>1 DEF IsLastOf
      <3>3. m + 1 \in T
        BY <2>2, <3>1, <3>2
      <3> QED
        BY <1>1, <2>3, <2>4, <2>6, <3>1, <3>3
    <2>8. s[h].start <= s[k].start
      <3>1. CASE h = k
        BY <1>4, <2>1, <3>1
      <3>2. CASE h < k
        <4>1. s[h].end <= s[k].start /\ s[h].start + Window <= s[h].end
          BY <1>4, <1>5, <2>1, <2>4, <3>2
        <4>2. s[h].start \in Nat /\ s[h].end \in Nat /\ s[k].start \in Nat
          BY <1>4, <2>1, <2>4
        <4> QED
          BY <4>1, <4>2
      <3> QED
        BY <1>1, <2>1, <2>4, <3>1, <3>2
    <2>9. s[k].end <= s[m].end
      <3>1. CASE k = m
        BY <1>4, <2>1, <3>1
      <3>2. CASE k < m
        BY <1>4, <1>5, <2>1, <2>6, <3>2, SMTT(30)
      <3> QED
        BY <1>1, <2>1, <2>6, <2>7, <3>1, <3>2
    <2>10. PICK n \in DOMAIN r : r[n] = f[h]
      BY <1>10, <2>4, Zenon DEF AllIn
    <2> QED
      BY <2>5, <2>8, <2>9, <2>10
  <1> QED
    BY <1>10, <1>11

LEMMA LargerOfTwo ==
    ASSUME NEW a \in Int, NEW b \in Int
    PROVE  /\ Max({a, b}) \in {a, b} /\ Max({a, b}) >= a /\ Max({a, b}) >= b
           /\ Min({a, b}) \in {a, b} /\ Min({a, b}) <= a /\ Min({a, b}) <= b
  <1>1. \E x \in {a, b} : \A y \in {a, b} : x >= y
    OBVIOUS
  <1>2. \E x \in {a, b} : \A y \in {a, b} : x <= y
    OBVIOUS
  <1>3. Max({a, b}) \in {a, b} /\ \A y \in {a, b} : Max({a, b}) >= y
    BY <1>1, Zenon DEF Max
  <1>4. Min({a, b}) \in {a, b} /\ \A y \in {a, b} : Min({a, b}) <= y
    BY <1>2, Zenon DEF Min
  <1> QED
    BY <1>3, <1>4

LEMMA SamplesNat ==
    ASSUME NEW ms \in Nat
    PROVE  MsToSamples(ms) \in Nat
  BY DEF MsToSamples, WHISPER_SAMPLE_RATE

\* Rounding keeps the order, and a centisecond is not lost.
LEMMA RoundingMono ==
    ASSUME NEW a \in Nat, NEW b \in Nat, a <= b
    PROVE  /\ samples_to_cs(a) \in Nat /\ samples_to_cs(b) \in Nat
           /\ samples_to_cs(a) <= samples_to_cs(b)
           /\ a + 160 <= b => samples_to_cs(a) < samples_to_cs(b)
  <1>1. samples_to_cs(a) = (2 * a + 160) \div 320 /\ samples_to_cs(b) = (2 * b + 160) \div 320
    BY DEF samples_to_cs, WHISPER_SAMPLE_RATE
  <1> QED
    BY <1>1

\* Padding in samples, before the rounding.
GapAfter(s, k)  == s[k + 1].start - s[k].end
NearNext(s, pad, k) == k \in 1..(Len(s) - 1) /\ GapAfter(s, k) < 2 * pad
PaddedStart(s, pad, k) ==
    Max({0, s[k].start - (IF NearNext(s, pad, k - 1) THEN GapAfter(s, k - 1) \div 2 ELSE pad)})
PaddedEnd(s, len, pad, k) ==
    IF NearNext(s, pad, k) THEN s[k].end + GapAfter(s, k) \div 2 ELSE Min({len, s[k].end + pad})

LEMMA PadForm ==
    ASSUME NEW s, NEW len, NEW par, NEW pad, pad = MsToSamples(par.speech_pad_ms)
    PROVE  Pad(s, len, par) = [k \in DOMAIN s |-> [start |-> samples_to_cs(PaddedStart(s, pad, k)),
                                                   end   |-> samples_to_cs(PaddedEnd(s, len, pad, k))]]
  <1>1. \A k : NearNext(s, pad, k) <=> (k \in 1..(Len(s) - 1) /\ s[k + 1].start - s[k].end < 2 * pad)
    BY Zenon DEF NearNext, GapAfter
  <1> QED
    BY Zenon DEF Pad, PaddedStart, PaddedEnd, NearNext, GapAfter

\* A padded speech holds the speech, stays in the audio and before the padded next one.
LEMMA PaddedFacts ==
    ASSUME NEW s, NEW len \in Nat, WellApart(s, len), NEW pad \in Nat, NEW k \in DOMAIN s
    PROVE  /\ PaddedStart(s, pad, k) \in Nat /\ PaddedEnd(s, len, pad, k) \in Nat
           /\ PaddedStart(s, pad, k) <= s[k].start /\ s[k].end <= PaddedEnd(s, len, pad, k)
           /\ PaddedEnd(s, len, pad, k) <= len
           /\ k + 1 \in DOMAIN s => PaddedEnd(s, len, pad, k) <= PaddedStart(s, pad, k + 1)
  <1> USE WindowFacts
  <1>1. s \in Seq(SpeechType) /\ Len(s) \in Nat /\ DOMAIN s = 1..Len(s)
    BY DEF WellApart
  <1>2. \A j \in 1..Len(s) : /\ s[j].start \in Nat /\ s[j].end \in Nat
                             /\ s[j].start + Window <= s[j].end /\ s[j].end <= len
    BY <1>1, ApartType DEF WellApart
  <1>3. ASSUME NEW j \in 1..(Len(s) - 1)
        PROVE  /\ GapAfter(s, j) \in Nat /\ GapAfter(s, j) = s[j + 1].start - s[j].end
               /\ GapAfter(s, j) \div 2 \in Nat /\ 2 * (GapAfter(s, j) \div 2) <= GapAfter(s, j)
    <2>1. j \in 1..Len(s) /\ j + 1 \in 1..Len(s) /\ j < j + 1
      BY <1>1
    <2>2. s[j].end <= s[j + 1].start
      BY <1>1, <2>1 DEF WellApart
    <2>3. PICK g \in Nat : g = GapAfter(s, j) /\ g = s[j + 1].start - s[j].end
      BY <1>2, <2>1, <2>2 DEF GapAfter
    <2>4. g \div 2 \in Nat /\ 2 * (g \div 2) <= g
      OBVIOUS
    <2> QED
      BY <2>3, <2>4
  <1>4. ASSUME NEW j \in 1..Len(s)
        PROVE  \E b \in Nat :
                 /\ b = IF NearNext(s, pad, j - 1) THEN GapAfter(s, j - 1) \div 2 ELSE pad
                 /\ PaddedStart(s, pad, j) \in Nat /\ PaddedStart(s, pad, j) <= s[j].start
                 /\ s[j].start - b <= PaddedStart(s, pad, j)
    <2>1. PICK b : b = IF NearNext(s, pad, j - 1) THEN GapAfter(s, j - 1) \div 2 ELSE pad
      OBVIOUS
    <2>2. b \in Nat
      BY <1>3, <2>1 DEF NearNext
    <2>2x. PICK x : x = s[j].start - b
      OBVIOUS
    <2>3. x = s[j].start - b /\ x \in Int /\ 0 \in Int /\ x <= s[j].start
      BY <1>2, <2>2, <2>2x
    <2>4. PaddedStart(s, pad, j) = Max({0, x})
      BY <2>1, <2>3 DEF PaddedStart
    <2>5. Max({0, x}) \in {0, x} /\ Max({0, x}) >= 0 /\ Max({0, x}) >= x
      BY <2>3, LargerOfTwo, Zenon
    <2> QED
      BY <1>2, <2>1, <2>2, <2>3, <2>4, <2>5
  <1>5. k \in 1..Len(s)
    BY <1>1
  <1>6. CASE NearNext(s, pad, k)
    <2>1. k \in 1..(Len(s) - 1) /\ k \in 1..Len(s) /\ k + 1 \in 1..Len(s) /\ k + 1 - 1 = k
      BY <1>1, <1>6 DEF NearNext
    <2>2. PICK h \in Nat : h = GapAfter(s, k) \div 2 /\ 2 * h <= s[k + 1].start - s[k].end
      BY <1>3, <2>1
    <2>3. PaddedEnd(s, len, pad, k) = s[k].end + h
      BY <1>6, <2>2 DEF PaddedEnd
    <2>4. s[k + 1].start - h <= PaddedStart(s, pad, k + 1) /\ PaddedStart(s, pad, k + 1) \in Nat
      BY <1>4, <1>6, <2>1, <2>2, SMTT(30)
    <2>5. /\ s[k].end \in Nat /\ s[k + 1].start \in Nat /\ s[k + 1].start + Window <= len
          /\ PaddedStart(s, pad, k) \in Nat /\ PaddedStart(s, pad, k) <= s[k].start
      <3>1. s[k + 1].start + Window <= s[k + 1].end /\ s[k + 1].end <= len /\ s[k + 1].end \in Nat /\ s[k + 1].start \in Nat
        BY <1>2, <2>1
      <3> QED
        <4>1. PaddedStart(s, pad, k) \in Nat /\ PaddedStart(s, pad, k) <= s[k].start
          BY <1>4, <2>1
        <4>2. s[k].end \in Nat /\ s[k + 1].start + Window <= len
          BY <1>2, <2>1, <3>1
        <4> QED
          BY <3>1, <4>1, <4>2
    <2> QED
      BY <2>2, <2>3, <2>4, <2>5
  <1>7. CASE ~NearNext(s, pad, k)
    <2>1. PICK y : y = s[k].end + pad
      OBVIOUS
    <2>1y. y \in Nat /\ y \in Int /\ len \in Int /\ s[k].end <= y
      BY <1>2, <1>5, <2>1
    <2>2. PaddedEnd(s, len, pad, k) = Min({len, y})
      BY <1>7, <2>1 DEF PaddedEnd
    <2>3. Min({len, y}) \in {len, y} /\ Min({len, y}) <= len /\ Min({len, y}) <= y
      BY <2>1y, LargerOfTwo, Zenon
    <2>4. k + 1 \in DOMAIN s => PaddedEnd(s, len, pad, k) <= PaddedStart(s, pad, k + 1)
      <3> SUFFICES ASSUME k + 1 \in DOMAIN s PROVE PaddedEnd(s, len, pad, k) <= PaddedStart(s, pad, k + 1)
        OBVIOUS
      <3>1. k \in 1..(Len(s) - 1) /\ k + 1 \in 1..Len(s) /\ k + 1 - 1 = k
        BY <1>1, <1>5
      <3>2. s[k + 1].start - s[k].end >= 2 * pad
        <4>1. ~(GapAfter(s, k) < 2 * pad)
          BY <1>7, <3>1 DEF NearNext
        <4> QED
          BY <1>3, <3>1, <4>1
      <3>3. s[k + 1].start - pad <= PaddedStart(s, pad, k + 1) /\ PaddedStart(s, pad, k + 1) \in Nat
        BY <1>4, <1>7, <3>1
      <3> QED
        <4>1. s[k].end \in Nat /\ s[k + 1].start \in Nat
          BY <1>2, <1>5, <3>1
        <4> QED
          BY <2>1, <2>1y, <2>2, <2>3, <3>2, <3>3, <4>1
    <2> QED
      BY <1>2, <1>4, <1>5, <2>1, <2>1y, <2>2, <2>3, <2>4
  <1> QED
    BY <1>6, <1>7

\* The segments a call returns.
LEMMA SegmentsFacts ==
    ASSUME NEW d, NEW par, par.speech_pad_ms \in Nat, DetectorOK(d, Sample(d), par)
    PROVE  LET r == Segments(d, par)
           IN /\ Len(r) \in Nat /\ DOMAIN r = 1..Len(r)
              /\ \A k \in 1..Len(r) : /\ r[k].start \in Nat /\ r[k].end \in Nat /\ r[k].start < r[k].end
                                      /\ r[k].end <= samples_to_cs(AudioLength(d))
              /\ \A k \in 1..(Len(r) - 1) : r[k].end <= r[k + 1].start
  <1> USE WindowFacts
  <1>1. PICK len \in Nat : len = Sample(d) /\ len = AudioLength(d)
    BY SampleFacts DEF DetectorOK, Sample, AudioLength
  <1>2. PICK s : s = DropShort(MergeAdjacent(FinalSpeech(d, par)), par)
    OBVIOUS
  <1>3. WellApart(s, len)
    <2>1. WellApart(FinalSpeech(d, par), len)
      BY <1>1, FinalApart
    <2>2. WellApart(MergeAdjacent(FinalSpeech(d, par)), len)
      BY <2>1, MergeApart
    <2> QED
      BY <1>2, <2>2, DropApart
  <1>4. PICK pad \in Nat : pad = MsToSamples(par.speech_pad_ms)
    BY SamplesNat
  <1>5. PICK r : r = Segments(d, par)
    OBVIOUS
  <1>6. r = [k \in DOMAIN s |-> [start |-> samples_to_cs(PaddedStart(s, pad, k)),
                                 end   |-> samples_to_cs(PaddedEnd(s, len, pad, k))]]
    BY <1>1, <1>2, <1>4, <1>5, PadForm DEF Segments
  <1>7. Len(s) \in Nat /\ DOMAIN s = 1..Len(s)
    BY <1>3 DEF WellApart
  <1>8. DOMAIN r = 1..Len(s) /\ Len(r) = Len(s)
    BY <1>6, <1>7
  <1>9. ASSUME NEW k \in 1..Len(s)
        PROVE  /\ r[k].start = samples_to_cs(PaddedStart(s, pad, k))
               /\ r[k].end = samples_to_cs(PaddedEnd(s, len, pad, k))
    BY <1>6, <1>7
  <1>10. ASSUME NEW k \in 1..Len(s)
         PROVE  /\ r[k].start \in Nat /\ r[k].end \in Nat /\ r[k].start < r[k].end
                /\ r[k].end <= samples_to_cs(len)
                /\ k + 1 \in 1..Len(s) => r[k].end <= r[k + 1].start
    <2>1. PICK a, b : a = PaddedStart(s, pad, k) /\ b = PaddedEnd(s, len, pad, k)
      OBVIOUS
    <2>2. /\ a \in Nat /\ b \in Nat /\ a <= s[k].start /\ s[k].end <= b /\ b <= len
          /\ k + 1 \in 1..Len(s) => b <= PaddedStart(s, pad, k + 1)
      BY <1>3, <1>7, <2>1, PaddedFacts
    <2>3. s[k].start + Window <= s[k].end /\ s[k].start \in Nat /\ s[k].end \in Nat
      BY <1>3, <1>7, ApartType DEF WellApart
    <2>4. a + 160 <= b /\ a <= b
      BY <2>2, <2>3, SMTT(30)
    <2>5. /\ samples_to_cs(a) \in Nat /\ samples_to_cs(b) \in Nat /\ samples_to_cs(a) < samples_to_cs(b)
          /\ samples_to_cs(b) <= samples_to_cs(len)
      BY <2>2, <2>4, RoundingMono
    <2>6. ASSUME k + 1 \in 1..Len(s) PROVE r[k].end <= r[k + 1].start
      <3>1. PICK c : c = PaddedStart(s, pad, k + 1)
        OBVIOUS
      <3>2. c \in Nat /\ b <= c
        BY <1>3, <1>7, <2>2, <2>6, <3>1, PaddedFacts
      <3> QED
        BY <1>9, <2>1, <2>2, <2>6, <3>1, <3>2, RoundingMono
    <2> QED
      BY <1>9, <2>1, <2>5, <2>6
  <1>11. \A k \in 1..(Len(r) - 1) : r[k].end <= r[k + 1].start
    BY <1>7, <1>8, <1>10
  <1> QED
    BY <1>1, <1>5, <1>7, <1>8, <1>10, <1>11
-----------------------------------------------------------------------------
(* The watched stretch.                                                    *)

\* Every window begins inside the audio.
LEMMA ChunkFacts ==
    ASSUME NEW n \in Nat
    PROVE  NChunks(n) \in Nat /\ \A i \in Nat : i < NChunks(n) => Window * i < n
  <1> USE WindowFacts
  <1>1. PICK q, r : q = n \div Window /\ r = n % Window
    OBVIOUS
  <1>2. q \in Nat /\ r \in Nat /\ n = Window * q + r
    BY <1>1
  <1>3. NChunks(n) = q + (IF r # 0 THEN 1 ELSE 0)
    BY <1>1 DEF NChunks
  <1>4. ASSUME NEW i \in Nat, i < NChunks(n) PROVE Window * i < n
    <2>1. CASE i < q
      <3>1. Window * i + Window <= Window * q
        <4>1. PICK c \in Nat : q = i + 1 + c
          <5>1. q - i - 1 \in Nat /\ q = i + 1 + (q - i - 1)
            BY <1>2, <2>1
          <5> QED
            BY <5>1
        <4>2. Window * q = Window * i + Window + Window * c /\ Window * c \in Nat /\ Window * i \in Nat
          BY <4>1
        <4> QED
          BY <4>2
      <3>2. Window * i \in Nat /\ Window * q \in Nat
        BY <1>2
      <3> QED
        BY <1>2, <3>1, <3>2
    <2>2. CASE ~(i < q)
      <3>1. i = q /\ r # 0
        BY <1>2, <1>3, <1>4, <2>2
      <3>2. Window * q \in Nat
        BY <1>2
      <3> QED
        BY <1>2, <3>1, <3>2
    <2> QED
      BY <2>1, <2>2
  <1> QED
    BY <1>2, <1>3, <1>4

\* The stretch is longer than the minimal speech.
LEMMA WatchFacts ==
    ASSUME NEW par, par.min_speech_ms \in Nat, NEW from \in Nat
    PROVE  /\ WatchLength(par) \in Nat /\ WatchLength(par) >= 1
           /\ Window * from \in Nat /\ Window * (from + WatchLength(par)) \in Nat
           /\ MsToSamples(par.min_speech_ms) \in Nat
           /\ Window * (from + WatchLength(par)) - Window * from > MsToSamples(par.min_speech_ms)
  <1> USE WindowFacts
  <1>1. PICK m \in Nat : m = MsToSamples(par.min_speech_ms)
    BY SamplesNat
  <1>2. PICK q : q = m \div Window
    OBVIOUS
  <1>3. q \in Nat /\ m < Window * q + Window
    BY <1>2
  <1>4. WatchLength(par) = q + 1
    BY <1>1, <1>2 DEF WatchLength
  <1>5. Window * (from + (q + 1)) = Window * from + (Window * q + Window)
    BY <1>3
  <1>6. Window * from \in Nat /\ Window * q \in Nat
    BY <1>3
  <1> QED
    BY <1>1, <1>3, <1>4, <1>5, <1>6

\* The windows before another begin before it.
LEMMA WindowMono ==
    ASSUME NEW i \in Nat, NEW j \in Nat, i <= j
    PROVE  Window * i \in Nat /\ Window * j \in Nat /\ Window * i <= Window * j
  <1> USE WindowFacts
  <1>1. PICK c \in Nat : j = i + c
    <2>1. j - i \in Nat /\ j = i + (j - i)
      OBVIOUS
    <2> QED
      BY <2>1
  <1>2. Window * j = Window * i + Window * c /\ Window * c \in Nat /\ Window * i \in Nat
    BY <1>1
  <1> QED
    BY <1>2

\* A maximal duration of the whole audio is never exceeded.
LEMMA NeverOver ==
    ASSUME NEW d \in DetectorType, NEW n \in Nat, NEW par, MaxSpeech(par) >= n, Sample(d) < n,
           par.max_speech_ms \in Nat, par.speech_pad_ms \in Nat
    PROVE  ~Over(d, par)
  <1>1. Sample(d) \in Nat /\ d.start \in Nat
    BY SampleFacts DEF DetectorType
  <1>2. MaxSpeech(par) \in Int
    <2>1. MsToSamples(par.speech_pad_ms) \in Nat
      BY SamplesNat
    <2>2. PICK left : left = WHISPER_SAMPLE_RATE * (par.max_speech_ms \div 1000) - Window - 2 * MsToSamples(par.speech_pad_ms)
      OBVIOUS
    <2>3. left \in Int
      BY WindowFacts, <2>1, <2>2, SMT DEF WHISPER_SAMPLE_RATE
    <2>4. MaxSpeech(par) = left \/ MaxSpeech(par) = IntMax \div 2
      BY <2>2, SMT DEF MaxSpeech
    <2>5. IntMax \div 2 \in Int
      BY SMT DEF IntMax
    <2> QED
      BY <2>3, <2>4, <2>5
  <1> QED
    BY <1>1, <1>2 DEF Over

\* What was found is kept.
LEMMA AppendHolding ==
    ASSUME NEW s \in Seq(SpeechType), NEW x \in SpeechType, NEW a, NEW b
    PROVE  /\ Holding(s, a, b) => Holding(Append(s, x), a, b)
           /\ x.start <= a /\ b <= x.end => Holding(Append(s, x), a, b)
  <1>1. PICK t : t = Append(s, x)
    OBVIOUS
  <1>2. /\ Len(s) \in Nat /\ DOMAIN s = 1..Len(s) /\ DOMAIN t = 1..(Len(s) + 1)
        /\ t[Len(s) + 1] = x /\ \A k \in 1..Len(s) : t[k] = s[k]
    BY <1>1
  <1>3. ASSUME Holding(s, a, b) PROVE Holding(t, a, b)
    <2>1. PICK k \in DOMAIN s : s[k].start <= a /\ b <= s[k].end
      BY <1>3 DEF Holding
    <2>2. k \in DOMAIN t /\ t[k] = s[k]
      BY <1>2
    <2> QED
      BY <2>1, <2>2 DEF Holding
  <1>4. ASSUME x.start <= a, b <= x.end PROVE Holding(t, a, b)
    <2>1. Len(s) + 1 \in DOMAIN t /\ t[Len(s) + 1] = x
      BY <1>2
    <2> QED
      BY <1>4, <2>1 DEF Holding
  <1> QED
    BY <1>1, <1>3, <1>4

\* A silence after the stretch leaves it in the open segment or closes it into a speech.
LEMMA SilenceHolds ==
    ASSUME NEW d \in DetectorType, d.is_speech, NEW par, NEW a \in Nat, NEW b \in Nat,
           MsToSamples(par.min_speech_ms) \in Nat, b - a > MsToSamples(par.min_speech_ms),
           d.start <= a, b <= Sample(d), d.temp_end # 0 => b <= d.temp_end,
           NEW e, e = Silence(d, par)
    PROVE  \/ e.is_speech /\ e.start = d.start /\ b <= e.temp_end
           \/ Holding(e.speeches, a, b)
  <1>1. PICK now \in Nat : now = Sample(d)
    BY SampleFacts
  <1>2. PICK end : end = IF d.temp_end = 0 THEN Sample(d) ELSE d.temp_end
    OBVIOUS
  <1>3. d.start \in Nat /\ d.temp_end \in Nat /\ end \in Nat /\ b <= end
    BY <1>1, <1>2 DEF DetectorType
  <1>4. PICK prev : prev = IF now - end > MinSilenceAtMaxSpeech THEN end ELSE d.prev_end
    OBVIOUS
  <1>5. CASE now - end < MsToSamples(par.min_silence_ms)
    <2>1. e = [d EXCEPT !.temp_end = end, !.prev_end = prev]
      BY <1>1, <1>2, <1>4, <1>5, Zenon DEF Silence
    <2>2. e.is_speech /\ e.start = d.start /\ e.temp_end = end
      BY <2>1 DEF DetectorType
    <2> QED
      BY <1>3, <2>2
  <1>6. CASE ~(now - end < MsToSamples(par.min_silence_ms))
    <2>1. end - d.start > MsToSamples(par.min_speech_ms)
      BY <1>3
    <2>2. PICK x : x = Speech(d.start, end)
      OBVIOUS
    <2>3. x \in SpeechType /\ x.start = d.start /\ x.end = end
      BY <1>3, <2>2 DEF Speech, SpeechType
    <2>4. PICK c : c = [d EXCEPT !.speeches = Append(@, x)]
      OBVIOUS
    <2>5. e = Close(c)
      BY <1>1, <1>2, <1>6, <2>1, <2>2, <2>4, Zenon DEF Silence
    <2>6. c \in DetectorType /\ c.speeches = Append(d.speeches, x)
      BY <2>3, <2>4, AppendType
    <2>7. e.speeches = Append(d.speeches, x)
      BY <2>5, <2>6 DEF Close, DetectorType
    <2>8. d.speeches \in Seq(SpeechType)
      BY DEF DetectorType
    <2> QED
      BY <1>3, <2>3, <2>7, <2>8, AppendHolding
  <1> QED
    BY <1>5, <1>6

\* No turn forgets a speech.
LEMMA SilenceKeeps ==
    ASSUME NEW d \in DetectorType, NEW par, NEW a, NEW b, Holding(d.speeches, a, b), NEW e, e = Silence(d, par)
    PROVE  Holding(e.speeches, a, b)
  <1>1. PICK end : end = IF d.temp_end = 0 THEN Sample(d) ELSE d.temp_end
    OBVIOUS
  <1>2. d.start \in Nat /\ end \in Nat /\ d.speeches \in Seq(SpeechType)
    BY <1>1, SampleFacts DEF DetectorType
  <1>3. PICK x : x = Speech(d.start, end)
    OBVIOUS
  <1>4. x \in SpeechType
    BY <1>2, <1>3 DEF Speech, SpeechType
  <1>5. e.speeches = d.speeches \/ e.speeches = Append(d.speeches, x)
    BY <1>1, <1>2, <1>3 DEF Silence, Close, DetectorType
  <1> QED
    BY <1>2, <1>4, <1>5, AppendHolding

\* The fields the proof needs of a call's parameters.
ParOK(par) ==
    /\ par.threshold \in Nat /\ par.min_speech_ms \in Nat
    /\ par.max_speech_ms \in Nat /\ par.speech_pad_ms \in Nat

\* A turn of the loop in the stretch or after it.
LEMMA DetectHolds ==
    ASSUME NEW d0, NEW prob \in Nat, NEW par, ParOK(par), DetectorOK(d0, Sample(d0), par),
           NEW n \in Nat, Watched(par, n), d0.i < NChunks(n),
           NEW from \in Nat, NEW to, to = from + WatchLength(par), d0.i >= from,
           d0.i > from => HeldBy(d0, from, to),
           d0.i \in from..(to - 1) => prob >= par.threshold,
           NEW e, e = DetectWindow(d0, prob, par)
    PROVE  HeldBy(e, from, to)
  <1> USE WindowFacts
  <1>1. PICK d : d = Woken(d0, prob, par)
    OBVIOUS
  <1>2. PICK next : Turn(d, prob, par, next) /\ e = [next EXCEPT !.i = @ + 1]
    BY <1>1, TurnForm
  <1>3. /\ d \in DetectorType /\ Sample(d) = Sample(d0) /\ d.i = d0.i
        /\ d.is_speech = d0.is_speech /\ d.start = d0.start /\ d.prev_end = d0.prev_end
        /\ d.speeches = d0.speeches
        /\ prob < par.threshold => d = d0
        /\ prob >= par.threshold => d.temp_end = 0
        /\ ~d.is_speech => d = d0
    BY <1>1, WokenFacts DEF ParOK
  <1>4. PICK a \in Nat, b \in Nat :
            /\ a = Window * from /\ b = Window * to /\ MsToSamples(par.min_speech_ms) \in Nat
            /\ b - a > MsToSamples(par.min_speech_ms)
    <2>1. /\ Window * from \in Nat /\ Window * to \in Nat /\ MsToSamples(par.min_speech_ms) \in Nat
          /\ Window * to - Window * from > MsToSamples(par.min_speech_ms)
      BY WatchFacts DEF ParOK
    <2> QED
      BY <2>1
  <1>5. to \in Nat /\ from < to
    <2>1. WatchLength(par) \in Nat /\ WatchLength(par) >= 1
      BY WatchFacts DEF ParOK
    <2> QED
      BY <2>1
  <1>6. PICK now \in Nat : now = Sample(d)
    BY <1>3, SampleFacts
  <1>7. d0.i \in Nat /\ d.start \in Nat /\ d.is_speech \in BOOLEAN /\ d.temp_end \in Nat /\ d.start <= now
    BY <1>3, <1>6 DEF DetectorType, DetectorOK
  <1>8. /\ d0.i >= from => a <= now
        /\ d0.i >= to => b <= now
    <2>1. Sample(d) = Window * d0.i
      BY <1>3 DEF Sample
    <2> QED
      BY <1>4, <1>5, <1>6, <1>7, <2>1, WindowMono
  <1>9. ~Over(d, par)
    <2>1. Sample(d) < n
      BY <1>3, <1>7, ChunkFacts DEF Sample
    <2> QED
      BY <1>3, <2>1, NeverOver DEF Watched, ParOK
  <1>10. NegThreshold(par) \in Int /\ NegThreshold(par) <= par.threshold
    BY DEF Watched, NegThreshold, ParOK
  <1>11. \/ prob >= par.threshold /\ ~d.is_speech /\ next = Opened(d)
         \/ /\ prob >= par.threshold => d.is_speech
            /\ next = IF prob < NegThreshold(par) /\ d.is_speech THEN Silence(d, par) ELSE d
    BY <1>2, <1>9 DEF Turn
  <1>12. ASSUME prob >= par.threshold
         PROVE  /\ next.is_speech /\ next.temp_end = 0 /\ next.speeches = d.speeches
                /\ next.start = IF d.is_speech THEN d.start ELSE now
                /\ next \in DetectorType /\ next.i = d0.i
    <2>1. CASE ~d.is_speech /\ next = Opened(d)
      BY <1>3, <1>6, <1>12, <2>1 DEF Opened, DetectorType
    <2>2. CASE d.is_speech /\ next = d
      BY <1>3, <1>12, <2>2
    <2>3. ~(prob < NegThreshold(par))
      BY <1>10, <1>12 DEF ParOK
    <2> QED
      BY <1>11, <1>12, <2>1, <2>2, <2>3
  <1>13. ASSUME prob < par.threshold
         PROVE  d = d0 /\ next = IF prob < NegThreshold(par) /\ d.is_speech THEN Silence(d, par) ELSE d
    BY <1>3, <1>11, <1>13 DEF ParOK
  <1>14. next \in DetectorType /\ next.i = d0.i
    <2>1. CASE prob >= par.threshold
      BY <1>12, <2>1
    <2>2. CASE prob < par.threshold
      <3>1. CASE next = d
        BY <1>3, <3>1
      <3>2. CASE next = Silence(d, par) /\ d.is_speech
        <4>1. /\ DetectorOK(d, Sample(d) + Window, par) /\ d.start + Window <= Sample(d)
              /\ WellApart(d.speeches, Sample(d)) /\ Inside(d, d.temp_end, Sample(d))
              /\ par.threshold # 0
          <5>1. d = d0 /\ par.threshold # 0
            BY <1>13, <2>2 DEF ParOK
          <5>2. WellApart(d.speeches, now + Window)
            BY <1>6, <5>1, LaterApart DEF DetectorOK
          <5> QED
            BY <1>6, <1>7, <3>2, <5>1, <5>2, SMTT(30) DEF DetectorOK, Inside, Forgotten, DetectorType
        <4>2. DetectorOK(next, Sample(d) + Window, par)
          BY <1>3, <3>2, <4>1, SilenceOK
        <4>3. next.i = d.i
          BY <1>3, <3>2 DEF Silence, Close, DetectorType
        <4> QED
          BY <1>3, <4>2, <4>3 DEF DetectorOK
      <3> QED
        BY <1>13, <2>2, <3>1, <3>2
    <2> QED
      BY <1>7, <2>1, <2>2 DEF ParOK
  <1>15. /\ e.i = d0.i + 1 /\ e.start = next.start /\ e.temp_end = next.temp_end
         /\ e.speeches = next.speeches
    BY <1>2, <1>14 DEF DetectorType
  <1>16. e.is_speech = next.is_speech
    BY <1>2, <1>14 DEF DetectorType
  <1>17. CASE d0.i < to
    <2>1. d0.i \in from..(to - 1) /\ prob >= par.threshold
      BY <1>5, <1>7, <1>17
    <2>2. next.start <= a
      <3>1. CASE d0.i = from
        <4>1. Sample(d) = Window * d0.i
          BY <1>3 DEF Sample
        <4> QED
          BY <1>4, <1>6, <1>7, <1>12, <2>1, <3>1, <4>1
      <3>2. CASE d0.i > from
        <4>1. d0.is_speech /\ d0.start <= a
          BY <1>4, <1>5, <1>7, <1>17, <3>2 DEF HeldBy
        <4> QED
          BY <1>3, <1>12, <2>1, <4>1
      <3> QED
        BY <1>7, <3>1, <3>2
    <2> QED
      BY <1>4, <1>12, <1>15, <1>16, <2>1, <2>2 DEF HeldBy
  <1>18. CASE d0.i >= to
    <2>1. d0.i > from /\ e.i > to /\ b <= now
      BY <1>5, <1>7, <1>8, <1>15, <1>18
    <2>2. CASE Holding(d0.speeches, a, b)
      <3>1. Holding(next.speeches, a, b)
        <4>1. CASE prob >= par.threshold
          BY <1>3, <1>12, <2>2, <4>1
        <4>2. CASE prob < par.threshold
          BY <1>3, <1>13, <2>2, <4>2, SilenceKeeps
        <4> QED
          BY <4>1, <4>2 DEF ParOK
      <3> QED
        BY <1>4, <1>15, <2>1, <3>1 DEF HeldBy
    <2>3. CASE d0.is_speech /\ d0.start <= a /\ (d0.temp_end # 0 => b <= d0.temp_end)
      <3>1. CASE prob >= par.threshold
        BY <1>3, <1>4, <1>12, <1>15, <1>16, <2>3, <3>1 DEF HeldBy
      <3>2. CASE prob < par.threshold /\ next = d
        BY <1>3, <1>4, <1>13, <1>15, <1>16, <2>1, <2>3, <3>2 DEF HeldBy
      <3>3. CASE prob < par.threshold /\ next = Silence(d, par)
        <4>1. d = d0 /\ d.is_speech
          BY <1>13, <2>3, <3>3
        <4>2. \/ next.is_speech /\ next.start = d.start /\ b <= next.temp_end
              \/ Holding(next.speeches, a, b)
          BY <1>3, <1>4, <1>6, <2>1, <2>3, <3>3, <4>1, SilenceHolds
        <4> QED
          BY <1>4, <1>15, <1>16, <2>1, <2>3, <4>1, <4>2 DEF HeldBy
      <3> QED
        BY <1>13, <3>1, <3>2, <3>3 DEF ParOK
    <2> QED
      BY <1>4, <2>1, <2>2, <2>3 DEF HeldBy
  <1> QED
    BY <1>5, <1>7, <1>17, <1>18

\* After the loop the stretch is in a speech, whether the audio ended in it or not.
LEMMA FinalHolds ==
    ASSUME NEW d, NEW par, ParOK(par), DetectorOK(d, Sample(d), par), NEW from \in Nat,
           NEW to, to = from + WatchLength(par), to <= d.i, HeldBy(d, from, to)
    PROVE  Holding(FinalSpeech(d, par), Window * from, Window * to)
  <1> USE WindowFacts
  <1>1. PICK a \in Nat, b \in Nat :
            /\ a = Window * from /\ b = Window * to /\ MsToSamples(par.min_speech_ms) \in Nat
            /\ b - a > MsToSamples(par.min_speech_ms)
    <2>1. /\ Window * from \in Nat /\ Window * to \in Nat /\ MsToSamples(par.min_speech_ms) \in Nat
          /\ Window * to - Window * from > MsToSamples(par.min_speech_ms)
      BY WatchFacts DEF ParOK
    <2> QED
      BY <2>1
  <1>2. d \in DetectorType /\ d.start \in Nat /\ d.i \in Nat /\ to \in Nat /\ d.speeches \in Seq(SpeechType)
    <2>1. WatchLength(par) \in Nat
      BY WatchFacts DEF ParOK
    <2> QED
      BY <2>1 DEF DetectorOK, DetectorType
  <1>3. PICK now \in Nat : now = Sample(d) /\ now = AudioLength(d) /\ b <= now
    BY <1>1, <1>2, SampleFacts, WindowMono DEF Sample, AudioLength
  <1>4. PICK x : x = Speech(d.start, now)
    OBVIOUS
  <1>5. x \in SpeechType /\ x.start = d.start /\ x.end = now
    BY <1>2, <1>4 DEF Speech, SpeechType
  <1>6. FinalSpeech(d, par) = IF d.is_speech /\ now - d.start > MsToSamples(par.min_speech_ms)
                                THEN Append(d.speeches, x) ELSE d.speeches
    BY <1>3, <1>4 DEF FinalSpeech
  <1>7. CASE d.is_speech /\ d.start <= a
    <2>1. FinalSpeech(d, par) = Append(d.speeches, x)
      <3>1. now - d.start >= b - a
        BY <1>2, <1>3, <1>7
      <3>2. now - d.start > MsToSamples(par.min_speech_ms)
        BY <1>1, <1>2, <1>3, <3>1, SMTT(30)
      <3> QED
        BY <1>6, <1>7, <3>2
    <2> QED
      BY <1>1, <1>2, <1>3, <1>5, <1>7, <2>1, AppendHolding
  <1>8. CASE Holding(d.speeches, a, b)
    BY <1>1, <1>2, <1>5, <1>6, <1>8, AppendHolding
  <1> QED
    BY <1>1, <1>7, <1>8 DEF HeldBy

\* What lies in a speech lies in a segment.
LEMMA SegmentsHold ==
    ASSUME NEW d, NEW par, ParOK(par), DetectorOK(d, Sample(d), par), NEW a \in Nat, NEW b \in Nat,
           b - a > MsToSamples(par.min_speech_ms), Holding(FinalSpeech(d, par), a, b)
    PROVE  Holding(Segments(d, par), samples_to_cs(a), samples_to_cs(b))
  <1>1. PICK len \in Nat : len = Sample(d) /\ len = AudioLength(d)
    BY SampleFacts DEF DetectorOK, Sample, AudioLength
  <1>2. PICK u, v, s : u = FinalSpeech(d, par) /\ v = MergeAdjacent(u) /\ s = DropShort(v, par)
    OBVIOUS
  <1>3. WellApart(u, len)
    BY <1>1, <1>2, FinalApart
  <1>4. /\ WellApart(v, len)
        /\ \A k \in DOMAIN u : \E j \in DOMAIN v : v[j].start <= u[k].start /\ u[k].end <= v[j].end
    BY <1>2, <1>3, MergeApart
  <1>5. PICK k \in DOMAIN u : u[k].start <= a /\ b <= u[k].end
    BY <1>2 DEF Holding
  <1>6. PICK j \in DOMAIN v : v[j].start <= u[k].start /\ u[k].end <= v[j].end
    BY <1>4
  <1>7. /\ u[k].start \in Nat /\ u[k].end \in Nat /\ v[j].start \in Nat /\ v[j].end \in Nat
        /\ MsToSamples(par.min_speech_ms) \in Nat
    BY <1>3, <1>4, ApartType, SamplesNat DEF ParOK
  <1>8. v[j].start <= a /\ b <= v[j].end /\ v[j].end - v[j].start >= MsToSamples(par.min_speech_ms)
    BY <1>5, <1>6, <1>7
  <1>9. /\ WellApart(s, len)
        /\ \A k1 \in DOMAIN v : v[k1].end - v[k1].start >= MsToSamples(par.min_speech_ms)
                                 => \E m \in DOMAIN s : s[m] = v[k1]
    BY <1>2, <1>4, DropApart, SMTT(30)
  <1>10. PICK m \in DOMAIN s : s[m] = v[j]
    BY <1>8, <1>9
  <1>11. PICK pad \in Nat : pad = MsToSamples(par.speech_pad_ms)
    BY SamplesNat DEF ParOK
  <1>12. PICK r : r = Segments(d, par)
    OBVIOUS
  <1>13. r = [k1 \in DOMAIN s |-> [start |-> samples_to_cs(PaddedStart(s, pad, k1)),
                                   end   |-> samples_to_cs(PaddedEnd(s, len, pad, k1))]]
    BY <1>1, <1>2, <1>11, <1>12, PadForm DEF Segments
  <1>14. /\ m \in DOMAIN r /\ r[m].start = samples_to_cs(PaddedStart(s, pad, m))
         /\ r[m].end = samples_to_cs(PaddedEnd(s, len, pad, m))
    BY <1>13
  <1>15. PICK x, y : x = PaddedStart(s, pad, m) /\ y = PaddedEnd(s, len, pad, m)
    OBVIOUS
  <1>16. x \in Nat /\ y \in Nat /\ x <= s[m].start /\ s[m].end <= y
    BY <1>9, <1>15, PaddedFacts
  <1>17. x <= a /\ b <= y
    BY <1>7, <1>8, <1>10, <1>16
  <1>18. samples_to_cs(x) <= samples_to_cs(a) /\ samples_to_cs(b) <= samples_to_cs(y)
    BY <1>16, <1>17, RoundingMono
  <1> QED
    BY <1>12, <1>14, <1>15, <1>18 DEF Holding
-----------------------------------------------------------------------------
(* The calls.                                                              *)

LEMMA ParFacts ==
    ASSUME NEW par \in VadParams
    PROVE  ParOK(par) /\ WatchLength(par) \in Nat
  <1>1. ParOK(par)
    BY VadAssumption DEF ParOK
  <1> QED
    BY <1>1, WatchFacts DEF ParOK

\* No window was looked at.
LEMMA NoWindowsOK ==
    ASSUME NEW par
    PROVE  DetectorOK(NoWindows, Sample(NoWindows), par) /\ NoWindows.i = 0
  <1> USE WindowFacts
  <1>1. PICK d : d = NoWindows
    OBVIOUS
  <1>2. /\ d \in DetectorType /\ d.i = 0 /\ d.is_speech = FALSE /\ d.start = 0 /\ Forgotten(d) /\ d.speeches = <<>>
    BY <1>1 DEF NoWindows, DetectorType, Forgotten
  <1>3. Sample(d) = 0
    BY <1>2 DEF Sample
  <1>4. WellApart(d.speeches, 0)
    BY <1>2 DEF WellApart
  <1>5. DetectorOK(d, Sample(d), par)
    BY <1>2, <1>3, <1>4 DEF DetectorOK, Forgotten, Inside
  <1> QED
    BY <1>1, <1>2, <1>5

LEMMA InitVad == Init => VadInv
  <1> SUFFICES ASSUME Init PROVE VadInv
    OBVIOUS
  <1>1. p \in VadParams
    <2>1. VadParams # {}
      BY VadAssumption
    <2>2. p = CHOOSE par \in VadParams : TRUE
      BY DEF Init
    <2> QED
      BY <2>1, <2>2
  <1>2. DetectorOK(det, Sample(det), p)
    BY NoWindowsOK DEF Init
  <1> QED
    BY <1>1, <1>2 DEF Init, VadInv, StretchHeld, Found

\* The parts of the invariant a step leaves alone when the variables of the call stay.
LEMMA SameCall ==
    ASSUME VadInv, det' = det, p' = p, n_samples' = n_samples, heard' = heard
    PROVE  /\ p' \in VadParams /\ n_samples' \in Nat /\ DetectorOK(det, Sample(det), p)'
           /\ (heard \in [from : Nat, all : BOOLEAN])'
  <1>1. DetectorOK(det, Sample(det), p)
    BY DEF VadInv
  <1>2. DetectorOK(det', Sample(det'), p')
    BY <1>1
  <1> QED
    BY <1>2 DEF VadInv

\* The invariant without the stretch, for a step that leaves the loop and p alone.
LEMMA QuietStep ==
    ASSUME VadInv, det' = det, p' = p, n_samples' = n_samples, heard' = heard,
           pc' \in {"idle", "load", "detect", "size", "copy", "transcribe"},
           pc' # "idle" => pc # "idle",
           pc' = "load" => det.i = 0,
           Found' => det.i = NChunks(n_samples) /\ (pc = "detect" \/ Found) /\ data' = Segments(det, p),
           pc' = "detect" => pc = "detect" \/ det.i = 0
    PROVE  VadInv'
  <1>1. /\ p' \in VadParams /\ n_samples' \in Nat /\ DetectorOK(det, Sample(det), p)'
        /\ (heard \in [from : Nat, all : BOOLEAN])'
    BY SameCall
  <1>2. StretchHeld'
    <2> SUFFICES ASSUME pc' = "detect" \/ Found', heard.all, Watched(p, n_samples), det.i > heard.from
                 PROVE  HeldBy(det, heard.from, heard.from + WatchLength(p))
      BY DEF StretchHeld, Found
    <2>1. det.i # 0
      BY DEF VadInv
    <2>2. pc = "detect" \/ Found
      BY <2>1
    <2> QED
      BY <2>2 DEF VadInv, StretchHeld
  <1>3. (pc # "idle" => det.i <= NChunks(n_samples))'
    BY DEF VadInv
  <1>4. ((pc # "idle" /\ heard.all) => heard.from + WatchLength(p) <= NChunks(n_samples))'
    BY DEF VadInv
  <1>5. (Found => data = Segments(det, p) /\ det.i = NChunks(n_samples))'
    OBVIOUS
  <1> QED
    BY <1>1, <1>2, <1>3, <1>4, <1>5 DEF VadInv

LEMMA VadStep == VadInv /\ [Next]_vars => VadInv'
  <1> SUFFICES ASSUME VadInv, [Next]_vars PROVE VadInv'
    OBVIOUS
  <1>0. /\ pc \in {"idle", "load", "detect", "size", "copy", "transcribe"}
        /\ pc = "load" => det.i = 0
        /\ Found => det.i = NChunks(n_samples) /\ data = Segments(det, p)
    BY DEF VadInv
  <1>1. ASSUME NEW n \in AudioLens, CallPlain(n) PROVE VadInv'
    <2>1. pc = "idle" /\ pc' = "idle" /\ det' = det /\ p' = p /\ heard' = heard /\ n_samples' = n
      BY <1>1 DEF CallPlain
    <2>2. DetectorOK(det, Sample(det), p)' /\ n \in Nat
      <3>1. DetectorOK(det, Sample(det), p)
        BY DEF VadInv
      <3>2. DetectorOK(det', Sample(det'), p')
        BY <2>1, <3>1
      <3> QED
        BY <3>2, VadAssumption
    <2> QED
      BY <2>1, <2>2 DEF VadInv, StretchHeld, Found
  <1>2. ASSUME NEW n \in AudioLens, NEW par \in VadParams,
               NEW from \in 0..Max({0, NChunks(n) - WatchLength(par)}), CallVad(n, par, from)
        PROVE  VadInv'
    <2>1. /\ p' = par /\ n_samples' = n /\ det' = NoWindows /\ pc' \in {"load", "detect"}
          /\ heard' = [from |-> from, all |-> from + WatchLength(par) <= NChunks(n)]
      BY <1>2 DEF CallVad
    <2>2. n \in Nat /\ NChunks(n) \in Nat
      BY VadAssumption, ChunkFacts
    <2>3. DetectorOK(det, Sample(det), p)' /\ det'.i = 0
      <3>1. DetectorOK(NoWindows, Sample(NoWindows), par) /\ NoWindows.i = 0
        BY NoWindowsOK
      <3>2. DetectorOK(det', Sample(det'), p')
        BY <2>1, <3>1
      <3> QED
        BY <2>1, <3>1, <3>2
    <2>4. from \in Nat
      <3>1. WatchLength(par) \in Nat
        BY ParFacts
      <3>2. 0 \in Int /\ NChunks(n) - WatchLength(par) \in Int
        BY <2>2, <3>1
      <3>3. Max({0, NChunks(n) - WatchLength(par)}) \in {0, NChunks(n) - WatchLength(par)}
        BY <3>2, LargerOfTwo, Zenon
      <3> QED
        BY <3>2, <3>3
    <2>5. /\ heard' \in [from : Nat, all : BOOLEAN] /\ heard'.from = from
          /\ heard'.all => from + WatchLength(par) <= NChunks(n)
      <3>1. PICK ok \in BOOLEAN : ok <=> from + WatchLength(par) <= NChunks(n)
        OBVIOUS
      <3>2. heard' = [from |-> from, all |-> ok]
        BY <2>1, <3>1
      <3> QED
        BY <2>4, <3>1, <3>2
    <2>6. StretchHeld'
      BY <2>3, <2>4, <2>5 DEF StretchHeld
    <2> QED
      BY <2>1, <2>2, <2>3, <2>5, <2>6 DEF VadInv, Found
  <1>3. ASSUME LoadModel PROVE VadInv'
    BY <1>0, <1>3, QuietStep DEF LoadModel, Found
  <1>4. ASSUME VadFails PROVE VadInv'
    BY <1>0, <1>4, QuietStep DEF VadFails, Found
  <1>5. ASSUME NEW prob \in Probs, Detect(prob) PROVE VadInv'
    <2>1. /\ pc = "detect" /\ pc' = "detect" /\ det.i < NChunks(n_samples) /\ p' = p /\ n_samples' = n_samples
          /\ det' = DetectWindow(det, prob, p)
          /\ heard' = [heard EXCEPT !.all = @ /\ (det.i \in heard.from..(heard.from + WatchLength(p) - 1)
                                                    => prob >= p.threshold)]
      BY <1>5 DEF Detect
    <2>2. /\ p \in VadParams /\ n_samples \in Nat /\ prob \in Nat /\ heard \in [from : Nat, all : BOOLEAN]
          /\ DetectorOK(det, Sample(det), p) /\ ParOK(p) /\ NChunks(n_samples) \in Nat
      BY VadAssumption, ParFacts, ChunkFacts DEF VadInv
    <2>3. DetectorOK(det, Sample(det), p)'
      <3>1. PICK e : e = DetectWindow(det, prob, p)
        OBVIOUS
      <3>2. DetectorOK(e, Sample(e), p)
        BY <2>2, <3>1, DetectOK DEF ParOK
      <3>3. DetectorOK(det', Sample(det'), p')
        BY <2>1, <3>1, <3>2
      <3> QED
        BY <3>3
    <2>4. det.i \in Nat /\ det'.i = det.i + 1
      <3>1. det \in DetectorType /\ det' \in DetectorType
        BY <2>2, <2>3 DEF DetectorOK
      <3>2. det'.i = det.i + 1
        BY <2>1, <2>2, DetectOK DEF ParOK
      <3> QED
        BY <3>1, <3>2 DEF DetectorType
    <2>5. /\ heard' \in [from : Nat, all : BOOLEAN] /\ heard'.from = heard.from
          /\ heard'.all => heard.all /\ (det.i \in heard.from..(heard.from + WatchLength(p) - 1)
                                           => prob >= p.threshold)
      <3>1. PICK ok \in BOOLEAN : ok <=> (heard.all /\ (det.i \in heard.from..(heard.from + WatchLength(p) - 1)
                                                           => prob >= p.threshold))
        OBVIOUS
      <3>2. heard' = [heard EXCEPT !.all = ok]
        BY <2>1, <2>2, <3>1
      <3>3. heard' \in [from : Nat, all : BOOLEAN] /\ heard'.from = heard.from /\ (heard'.all <=> ok)
        BY <2>2, <3>2
      <3> QED
        BY <3>1, <3>3
    <2>6. StretchHeld'
      <3> SUFFICES ASSUME heard'.all, Watched(p, n_samples), det'.i > heard.from
                   PROVE  HeldBy(det', heard.from, heard.from + WatchLength(p))
        BY <2>1, <2>5 DEF StretchHeld
      <3>1. heard.from \in Nat /\ det.i >= heard.from
        BY <2>2, <2>4
      <3>2. det.i > heard.from => HeldBy(det, heard.from, heard.from + WatchLength(p))
        BY <2>1, <2>5 DEF VadInv, StretchHeld
      <3>3. PICK from, to, e :
                from \in Nat /\ from = heard.from /\ to = from + WatchLength(p) /\ e = DetectWindow(det, prob, p)
        BY <3>1
      <3>4. HeldBy(e, from, to)
        <4>1. det.i \in from..(to - 1) => prob >= p.threshold
          <5>1. det.i \in heard.from..(heard.from + WatchLength(p) - 1) => prob >= p.threshold
            BY <2>5, Zenon
          <5>2. WatchLength(p) \in Nat
            BY <2>2, ParFacts
          <5> QED
            BY <3>1, <3>3, <5>1, <5>2
        <4>2. det.i >= from /\ (det.i > from => HeldBy(det, from, to))
          BY <3>1, <3>2, <3>3
        <4>3. /\ from \in Nat /\ ParOK(p) /\ DetectorOK(det, Sample(det), p) /\ prob \in Nat /\ n_samples \in Nat
              /\ det.i < NChunks(n_samples) /\ to = from + WatchLength(p) /\ e = DetectWindow(det, prob, p)
          BY <2>1, <2>2, <3>3
        <4> QED
          BY <4>1, <4>2, <4>3, DetectHolds, Zenon
      <3> QED
        BY <2>1, <3>3, <3>4
    <2>7. det'.i <= NChunks(n_samples)
      BY <2>1, <2>2, <2>4
    <2>8. heard'.all => heard.from + WatchLength(p) <= NChunks(n_samples)
      BY <2>1, <2>5 DEF VadInv
    <2> QED
      BY <2>1, <2>2, <2>3, <2>5, <2>6, <2>7, <2>8 DEF VadInv, Found
  <1>6. ASSUME FindSegments PROVE VadInv'
    <2>1. /\ pc = "detect" /\ det.i = NChunks(n_samples) /\ data' = Segments(det, p)
          /\ pc' \in {"transcribe", "size"}
          /\ det' = det /\ p' = p /\ n_samples' = n_samples /\ heard' = heard
      BY <1>6 DEF FindSegments
    <2> QED
      BY <1>0, <2>1, QuietStep DEF Found
  <1>7. ASSUME SizeSegment \/ Resize \/ ResizeFails PROVE VadInv'
    <2>1. /\ pc = "size" /\ pc' \in {"idle", "size", "copy"} /\ data' = data
          /\ det' = det /\ p' = p /\ n_samples' = n_samples /\ heard' = heard
      BY <1>7 DEF SizeSegment, Resize, ResizeFails
    <2> QED
      BY <1>0, <2>1, QuietStep DEF Found
  <1>8. ASSUME CopySegment \/ SortTable PROVE VadInv'
    <2>1. /\ pc = "copy" /\ pc' \in {"copy", "transcribe"} /\ data' = data
          /\ det' = det /\ p' = p /\ n_samples' = n_samples /\ heard' = heard
      BY <1>8 DEF CopySegment, SortTable
    <2> QED
      BY <1>0, <2>1, QuietStep DEF Found
  <1>9. ASSUME NoSpeech \/ Transcribe PROVE VadInv'
    BY <1>0, <1>9, QuietStep DEF NoSpeech, Transcribe, Found
  <1>10. ASSUME UNCHANGED vars PROVE VadInv'
    <2>1. /\ pc' = pc /\ det' = det /\ p' = p /\ n_samples' = n_samples /\ heard' = heard /\ data' = data
      BY <1>10 DEF vars
    <2> QED
      BY <1>0, <2>1, QuietStep DEF Found
  <1> QED
    BY <1>1, <1>2, <1>3, <1>4, <1>5, <1>6, <1>7, <1>8, <1>9, <1>10, Zenon DEF Next

\* The invariant of the detector and of the call around it.
THEOREM DetectorInvariant == Spec => []VadInv
  BY InitVad, VadStep, PTL DEF Spec

\* What test-vad-full asserts: the segments whisper_vad_segments_from_probs returns have
\* a positive duration, are in order, do not overlap and end in the audio, whatever the
\* probabilities and the parameters.
THEOREM SegmentsAreInOrder == Spec => []SegmentsInOrder
  <1>1. VadInv => SegmentsInOrder
    <2> SUFFICES ASSUME VadInv, Found
                 PROVE  /\ \A k \in DOMAIN data : data[k].start < data[k].end
                                                    /\ data[k].end <= samples_to_cs(AudioLength(det))
                        /\ \A k \in 1..(Len(data) - 1) : data[k].end <= data[k + 1].start
      BY DEF SegmentsInOrder
    <2>1. data = Segments(det, p) /\ DetectorOK(det, Sample(det), p) /\ p.speech_pad_ms \in Nat
      BY ParFacts DEF VadInv, ParOK
    <2> QED
      BY <2>1, SegmentsFacts
  <1> QED
    BY <1>1, DetectorInvariant, PTL

\* Speech longer than the minimum is not lost: it lies in one of the segments, when no
\* maximal duration cuts it and no probability counts as both speech and silence.
THEOREM SpeechIsKept == Spec => []SpeechKept
  <1>1. VadInv => SpeechKept
    <2> SUFFICES ASSUME VadInv, Found, heard.all, MaxSpeech(p) >= n_samples,
                        NegThreshold(p) <= p.threshold
                 PROVE  \E k \in DOMAIN data :
                          /\ data[k].start <= samples_to_cs(Window * heard.from)
                          /\ samples_to_cs(Window * (heard.from + WatchLength(p))) <= data[k].end
      BY DEF SpeechKept
    <2>1. /\ data = Segments(det, p) /\ DetectorOK(det, Sample(det), p) /\ ParOK(p)
          /\ heard \in [from : Nat, all : BOOLEAN] /\ det.i = NChunks(n_samples)
          /\ heard.from + WatchLength(p) <= NChunks(n_samples)
      BY ParFacts DEF VadInv, Found
    <2>2. PICK from, to : from \in Nat /\ from = heard.from /\ to = from + WatchLength(p)
      BY <2>1
    <2>3. /\ WatchLength(p) \in Nat /\ WatchLength(p) >= 1
          /\ Window * from \in Nat /\ Window * (from + WatchLength(p)) \in Nat
          /\ Window * (from + WatchLength(p)) - Window * from > MsToSamples(p.min_speech_ms)
      BY <2>1, <2>2, WatchFacts DEF ParOK
    <2>4. to <= det.i /\ det.i > from
      BY <2>1, <2>2, <2>3 DEF DetectorOK, DetectorType
    <2>5. HeldBy(det, from, to)
      BY <2>2, <2>4 DEF VadInv, StretchHeld, Watched
    <2>6. Holding(FinalSpeech(det, p), Window * from, Window * to)
      BY <2>1, <2>2, <2>4, <2>5, FinalHolds
    <2>7. Holding(Segments(det, p), samples_to_cs(Window * from), samples_to_cs(Window * to))
      BY <2>1, <2>2, <2>3, <2>6, SegmentsHold
    <2> QED
      BY <2>1, <2>2, <2>7 DEF Holding
  <1> QED
    BY <1>1, DetectorInvariant, PTL
-----------------------------------------------------------------------------
(* The gaps between speeches: at least MaxMergeGap once neighbours that are *)
(* closer have become one.                                                 *)

Gapped(s) == \A j, k \in DOMAIN s : j < k => s[j].end + MaxMergeGap <= s[k].start

GappedIn(f, S) == \A j, k \in S : j < k => f[j].end + MaxMergeGap <= f[k].start

LEMMA ListedGaps ==
    ASSUME NEW S \in SUBSET Nat, IsFiniteSet(S), NEW f, GappedIn(f, S), NEW r, r = Listed(f, S)
    PROVE  Gapped(r)
  <1>1. PICK N : N = Cardinality(S)
    OBVIOUS
  <1>2. /\ N \in Nat
        /\ \A n \in 1..N : Nth(S, n) \in S
        /\ \A m, n \in 1..N : m < n => Nth(S, m) < Nth(S, n)
    BY <1>1, NthFacts, Zenon
  <1>3. DOMAIN r = 1..N /\ \A n \in 1..N : r[n] = f[Nth(S, n)]
    BY <1>1, Zenon DEF Listed
  <1>4. ASSUME NEW m \in DOMAIN r, NEW n \in DOMAIN r, m < n
        PROVE  r[m].end + MaxMergeGap <= r[n].start
    <2>1. Nth(S, m) \in S /\ Nth(S, n) \in S /\ Nth(S, m) < Nth(S, n)
      BY <1>2, <1>3, <1>4
    <2>2. f[Nth(S, m)].end + MaxMergeGap <= f[Nth(S, n)].start
      BY <2>1, Zenon DEF GappedIn
    <2> QED
      BY <1>3, <2>2
  <1> QED
    BY <1>4 DEF Gapped

\* A merged speech ends before the last speech before the next head does.
LEMMA MergeGaps ==
    ASSUME NEW s, NEW len \in Nat, WellApart(s, len)
    PROVE  Gapped(MergeAdjacent(s))
  <1> USE WindowFacts
  <1>1. s \in Seq(SpeechType) /\ Len(s) \in Nat /\ DOMAIN s = 1..Len(s)
    BY DEF WellApart
  <1>2. PICK S, f : S = Heads(s) /\ f = Merged(s)
    OBVIOUS
  <1>3. S \in SUBSET Nat /\ IsFiniteSet(S) /\ S \subseteq 1..Len(s)
    <2>1. IsFiniteSet(1..Len(s))
      BY <1>1, FS_Interval
    <2>2. S \subseteq 1..Len(s)
      BY <1>1, <1>2 DEF Heads
    <2>3. IsFiniteSet(S)
      BY <2>1, <2>2, FS_Subset
    <2> QED
      BY <1>1, <2>2, <2>3
  <1>4. \A k \in 1..Len(s) : /\ s[k].start \in Nat /\ s[k].end \in Nat
                             /\ s[k].start + Window <= s[k].end
    BY <1>1, ApartType DEF WellApart
  <1>5. \A j, k \in 1..Len(s) : j < k => s[j].end <= s[k].start
    BY <1>1 DEF WellApart
  <1>6. MaxMergeGap \in Nat
    BY DEF MaxMergeGap, MsToSamples, WHISPER_SAMPLE_RATE
  <1>7. ASSUME NEW j \in S, NEW k \in S, j < k
        PROVE  f[j].end + MaxMergeGap <= f[k].start
    <2>1. PICK m \in j..Len(s) : IsLastOf(s, j, m) /\ f[j] = Speech(s[j].start, s[m].end)
      BY <1>1, <1>2, MergedFacts
    <2>2. PICK q \in k..Len(s) : f[k] = Speech(s[k].start, s[q].end)
      BY <1>1, <1>2, MergedFacts
    <2>3. f[j].end = s[m].end /\ f[k].start = s[k].start
      BY <2>1, <2>2 DEF Speech
    <2>4. j \in 1..Len(s) /\ k \in 1..Len(s) /\ m \in 1..Len(s) /\ k - 1 \in 1..Len(s)
      BY <1>1, <1>3, <1>7, <2>1
    <2>5. m <= k - 1
      <3> SUFFICES ASSUME k <= m PROVE FALSE
        BY <1>1, <2>4
      <3>1. k \in (j + 1)..m
        BY <1>1, <1>7, <2>4
      <3> QED
        BY <1>2, <2>1, <3>1 DEF IsLastOf
    <2>6. s[k].start - s[k - 1].end >= MaxMergeGap
      <3>1. k > 1 /\ k \in Heads(s)
        BY <1>1, <1>2, <2>4
      <3> QED
        BY <3>1 DEF Heads
    <2>7. s[m].end <= s[k - 1].end
      <3>1. CASE m = k - 1
        BY <1>4, <2>4, <3>1
      <3>2. CASE m < k - 1
        <4>1. s[m].end <= s[k - 1].start /\ s[k - 1].start + Window <= s[k - 1].end
          BY <1>4, <1>5, <2>4, <3>2
        <4>2. s[m].end \in Nat /\ s[k - 1].start \in Nat /\ s[k - 1].end \in Nat
          BY <1>4, <2>4
        <4> QED
          BY <4>1, <4>2
      <3> QED
        BY <1>1, <2>4, <2>5, <3>1, <3>2
    <2>8. s[m].end \in Nat /\ s[k - 1].end \in Nat /\ s[k].start \in Nat
      BY <1>4, <2>4
    <2>9. s[m].end + MaxMergeGap <= s[k].start
      BY <1>6, <2>6, <2>7, <2>8
    <2> QED
      BY <2>3, <2>9
  <1>8. GappedIn(f, S)
    BY <1>7, Zenon DEF GappedIn
  <1>9. MergeAdjacent(s) = Listed(f, S)
    BY <1>2, MergedForm
  <1> QED
    BY <1>3, <1>8, <1>9, ListedGaps

LEMMA DropGaps ==
    ASSUME NEW s, NEW len \in Nat, WellApart(s, len), Gapped(s), NEW par
    PROVE  Gapped(DropShort(s, par))
  <1>1. PICK S : S = {k \in DOMAIN s : s[k].end - s[k].start >= MsToSamples(par.min_speech_ms)}
    OBVIOUS
  <1>2. S \in SUBSET Nat /\ IsFiniteSet(S) /\ S \subseteq DOMAIN s
    <2>1. s \in Seq(SpeechType) /\ Len(s) \in Nat /\ DOMAIN s = 1..Len(s)
      BY DEF WellApart
    <2>2. IsFiniteSet(1..Len(s))
      BY <2>1, FS_Interval
    <2>3. S \subseteq 1..Len(s)
      BY <1>1, <2>1
    <2>4. IsFiniteSet(S)
      BY <2>2, <2>3, FS_Subset
    <2> QED
      BY <2>1, <2>3, <2>4
  <1>3. DropShort(s, par) = Listed(s, S)
    BY <1>1 DEF DropShort
  <1>4. GappedIn(s, S)
    BY <1>2, Zenon DEF Gapped, GappedIn
  <1> QED
    BY <1>2, <1>3, <1>4, ListedGaps
-----------------------------------------------------------------------------
(* Cutting and joining the audio, for calls whose padding and audio are    *)
(* not too short: without padding, a speech that begins in the last window *)
(* can be rounded past the end of the audio, and the two loops of          *)
(* whisper_vad no longer agree (README, section 4).                        *)

PaddedCalls ==
    /\ \A par \in VadParams : par.speech_pad_ms >= 15
    /\ \A n \in AudioLens : n = 0 \/ n > 160

\* Segments in centiseconds, in order, each beginning before the end of an audio of n samples.
GoodSegments(segs, n) ==
    /\ Len(segs) \in Nat /\ DOMAIN segs = 1..Len(segs)
    /\ \A k \in 1..Len(segs) : /\ segs[k].start \in Nat /\ segs[k].end \in Nat
                               /\ segs[k].start < segs[k].end
                               /\ 160 * segs[k].start + 160 <= n - 1
    /\ \A k \in 1..(Len(segs) - 1) : segs[k].end <= segs[k + 1].start

LEMMA RoundedBack ==
    ASSUME NEW a \in Nat
    PROVE  samples_to_cs(a) \in Nat /\ 160 * samples_to_cs(a) <= a + 80
  BY DEF samples_to_cs, WHISPER_SAMPLE_RATE

\* The last window begins inside the audio.
LEMMA LastWindow ==
    ASSUME NEW n \in Nat, n > 0, NEW d \in DetectorType, d.i = NChunks(n)
    PROVE  Sample(d) - Window <= n - 1
  <1> USE WindowFacts
  <1>1. PICK c \in Nat : c = NChunks(n) /\ \A i \in Nat : i < c => Window * i < n
    BY ChunkFacts
  <1>2. CASE c = 0
    BY <1>1, <1>2 DEF Sample
  <1>3. CASE c > 0
    <2>1. c - 1 \in Nat /\ Window * (c - 1) < n
      BY <1>1, <1>3
    <2>2. Window * (c - 1) = Window * c - Window /\ Window * c \in Nat
      BY <1>1
    <2>3. Sample(d) = Window * c
      BY <1>1 DEF Sample
    <2> QED
      BY <2>1, <2>2, <2>3
  <1> QED
    BY <1>1, <1>2, <1>3

\* A padded speech begins at the start of the audio or 15 ms before the speech.
LEMMA PaddedEarly ==
    ASSUME NEW s, NEW len \in Nat, WellApart(s, len), Gapped(s), NEW pad \in Nat, pad >= 240,
           NEW k \in DOMAIN s
    PROVE  PaddedStart(s, pad, k) = 0 \/ PaddedStart(s, pad, k) + 240 <= s[k].start
  <1> USE WindowFacts
  <1>1. s \in Seq(SpeechType) /\ Len(s) \in Nat /\ DOMAIN s = 1..Len(s)
    BY DEF WellApart
  <1>2. s[k].start \in Nat
    BY ApartType
  <1>3. PICK b : b = IF NearNext(s, pad, k - 1) THEN GapAfter(s, k - 1) \div 2 ELSE pad
    OBVIOUS
  <1>4. b \in Nat /\ b >= 240
    <2>1. CASE NearNext(s, pad, k - 1)
      <3>1. k - 1 \in DOMAIN s /\ k - 1 < k /\ k - 1 + 1 = k
        BY <1>1, <2>1 DEF NearNext
      <3>2. s[k - 1].end + 3200 <= s[k].start /\ s[k - 1].end \in Nat
        <4>1. MaxMergeGap = 3200
          BY DEF MaxMergeGap, MsToSamples, WHISPER_SAMPLE_RATE
        <4> QED
          BY <3>1, <4>1, ApartType DEF Gapped
      <3>3. PICK g \in Nat : g = GapAfter(s, k - 1) /\ g >= 3200
        BY <1>2, <3>1, <3>2 DEF GapAfter
      <3> QED
        BY <1>3, <2>1, <3>3
    <2>2. CASE ~NearNext(s, pad, k - 1)
      BY <1>3, <2>2
    <2> QED
      BY <2>1, <2>2
  <1>5. PICK x \in Int : x = s[k].start - b
    BY <1>2, <1>4
  <1>6. PaddedStart(s, pad, k) = Max({0, x})
    BY <1>3, <1>5 DEF PaddedStart
  <1>7. Max({0, x}) \in {0, x}
    <2>1. 0 \in Int /\ x \in Int
      BY <1>5
    <2> QED
      BY <2>1, LargerOfTwo, Zenon
  <1> QED
    BY <1>2, <1>4, <1>5, <1>6, <1>7

LEMMA SegmentsGood ==
    ASSUME NEW n \in Nat, n = 0 \/ n > 160, NEW d, NEW par, par.speech_pad_ms \in Nat,
           par.speech_pad_ms >= 15, DetectorOK(d, Sample(d), par), d.i = NChunks(n)
    PROVE  GoodSegments(Segments(d, par), n)
  <1> USE WindowFacts
  <1>1. PICK len \in Nat : len = Sample(d) /\ len = AudioLength(d)
    BY SampleFacts DEF DetectorOK, Sample, AudioLength
  <1>2. PICK s : s = DropShort(MergeAdjacent(FinalSpeech(d, par)), par)
    OBVIOUS
  <1>3. WellApart(s, len) /\ Gapped(s)
    <2>1. WellApart(FinalSpeech(d, par), len)
      BY <1>1, FinalApart
    <2>2. WellApart(MergeAdjacent(FinalSpeech(d, par)), len) /\ Gapped(MergeAdjacent(FinalSpeech(d, par)))
      BY <2>1, MergeApart, MergeGaps
    <2> QED
      BY <1>2, <2>2, DropApart, DropGaps
  <1>4. PICK pad \in Nat : pad = MsToSamples(par.speech_pad_ms) /\ pad >= 240
    <2>1. MsToSamples(par.speech_pad_ms) >= 240
      BY DEF MsToSamples, WHISPER_SAMPLE_RATE
    <2> QED
      BY <2>1, SamplesNat
  <1>5. PICK r : r = Segments(d, par)
    OBVIOUS
  <1>6. r = [k \in DOMAIN s |-> [start |-> samples_to_cs(PaddedStart(s, pad, k)),
                                 end   |-> samples_to_cs(PaddedEnd(s, len, pad, k))]]
    BY <1>1, <1>2, <1>4, <1>5, PadForm DEF Segments
  <1>7. /\ Len(r) \in Nat /\ DOMAIN r = 1..Len(r)
        /\ \A k \in 1..Len(r) : r[k].start \in Nat /\ r[k].end \in Nat /\ r[k].start < r[k].end
        /\ \A k \in 1..(Len(r) - 1) : r[k].end <= r[k + 1].start
    BY <1>5, SegmentsFacts
  <1>8. ASSUME NEW k \in 1..Len(r) PROVE 160 * r[k].start + 160 <= n - 1
    <2>1. k \in DOMAIN s /\ r[k].start = samples_to_cs(PaddedStart(s, pad, k))
      BY <1>6, <1>7
    <2>2. /\ s[k].start \in Nat /\ s[k].end \in Nat
          /\ s[k].start + Window <= s[k].end /\ s[k].end <= len
      BY <1>3, <2>1, ApartType DEF WellApart
    <2>3. n > 160
      <3>1. CASE n = 0
        <4>1. d.i = 0
          BY <3>1 DEF NChunks
        <4>2. len = 0
          BY <1>1, <4>1 DEF Sample
        <4> QED
          BY <2>2, <4>2
      <3> QED
        BY <3>1
    <2>4. len - Window <= n - 1
      <3>1. d \in DetectorType /\ n > 0
        BY <2>3 DEF DetectorOK
      <3> QED
        BY <1>1, <3>1, LastWindow
    <2>5. PICK a \in Nat : a = PaddedStart(s, pad, k) /\ (a = 0 \/ a + 240 <= s[k].start)
      <3>1. PaddedStart(s, pad, k) \in Nat
        BY <1>3, <2>1, PaddedFacts
      <3>2. PaddedStart(s, pad, k) = 0 \/ PaddedStart(s, pad, k) + 240 <= s[k].start
        BY <1>3, <1>4, <2>1, PaddedEarly
      <3> QED
        BY <3>1, <3>2
    <2>6. PICK x \in Nat : x = samples_to_cs(a) /\ 160 * x <= a + 80 /\ (a = 0 => x = 0)
      <3>1. samples_to_cs(0) = 0
        BY DEF samples_to_cs, WHISPER_SAMPLE_RATE
      <3> QED
        BY <3>1, RoundedBack
    <2>7. CASE a = 0
      BY <2>1, <2>3, <2>5, <2>6, <2>7
    <2>8. CASE a + 240 <= s[k].start
      <3>1. 160 * x + 160 <= n - 1
        <4>1. PICK u \in Nat, v \in Nat : u = s[k].start /\ v = s[k].end
          BY <2>2
        <4>2. u + Window <= v /\ v <= len /\ a + 240 <= u /\ 160 * x <= a + 80 /\ len - Window <= n - 1
          BY <2>2, <2>4, <2>6, <2>8, <4>1
        <4> QED
          BY <4>2
      <3> QED
        BY <2>1, <2>5, <2>6, <3>1
    <2> QED
      BY <2>5, <2>7, <2>8
  <1> QED
    BY <1>5, <1>7, <1>8 DEF GoodSegments

LEMMA SmallerOfTwo ==
    ASSUME NEW a \in Int, NEW b \in Int
    PROVE  Min({a, b}) = (IF a <= b THEN a ELSE b)
  BY LargerOfTwo

\* The two loops agree on the length of a segment, and no segment is shorter than a centisecond.
LEMMA LengthFacts ==
    ASSUME NEW segs, NEW n \in Nat, GoodSegments(segs, n), NEW par, par.overlap_ms \in Nat,
           NEW k \in 1..Len(segs)
    PROVE  /\ CutLength(segs, n, par, k) \in Nat
           /\ SizeOf(segs, n, par, k) = CutLength(segs, n, par, k)
           /\ CutStart(segs, n, k) \in Nat /\ CutEnd(segs, n, k) \in Nat
           /\ CutStart(segs, n, k) + 160 <= CutEnd(segs, n, k)
           /\ CutEnd(segs, n, k) - CutStart(segs, n, k) <= CutLength(segs, n, par, k)
  <1>1. PICK st \in Nat, e \in Nat, m \in Int, o \in Nat :
            /\ st = 160 * segs[k].start /\ e = 160 * segs[k].end /\ m = n - 1
            /\ o = MsToSamples(par.overlap_ms) /\ st + 160 <= m /\ st + 160 <= e
    <2>1. segs[k].start \in Nat /\ segs[k].end \in Nat /\ segs[k].start < segs[k].end
          /\ 160 * segs[k].start + 160 <= n - 1
      BY DEF GoodSegments
    <2>2. MsToSamples(par.overlap_ms) \in Nat
      BY SamplesNat
    <2>3. 160 * segs[k].start \in Nat /\ 160 * segs[k].end \in Nat /\ n - 1 \in Int
          /\ 160 * segs[k].start + 160 <= 160 * segs[k].end
      BY <2>1
    <2> QED
      BY <2>1, <2>2, <2>3, Zenon
  <1>2. cs_to_samples(segs[k].start) = st /\ cs_to_samples(segs[k].end) = e
    <2>1. segs[k].start \in Nat /\ segs[k].end \in Nat
      BY DEF GoodSegments
    <2> QED
      BY <1>1, <2>1 DEF cs_to_samples, WHISPER_SAMPLE_RATE
  <1>3. CutStart(segs, n, k) = st
    <2>1. Min({st, m}) = st
      BY <1>1, SmallerOfTwo
    <2> QED
      BY <1>1, <1>2, <2>1 DEF CutStart
  <1>4. PICK c \in Nat : c = CutEnd(segs, n, k) /\ c = (IF e <= m THEN e ELSE m)
    <2>1. Min({e, m}) = (IF e <= m THEN e ELSE m)
      BY SmallerOfTwo
    <2>2. CutEnd(segs, n, k) = Min({e, m})
      BY <1>1, <1>2 DEF CutEnd
    <2> QED
      BY <1>1, <2>1, <2>2
  <1>5. CASE k < Len(segs)
    <2>1. Min({e + o, m}) = (IF e + o <= m THEN e + o ELSE m)
      BY SmallerOfTwo
    <2>2. Min({c + o, m}) = (IF c + o <= m THEN c + o ELSE m)
      BY SmallerOfTwo
    <2>3. SizeOf(segs, n, par, k) = Min({e + o, m}) - st
      BY <1>1, <1>2, <1>5 DEF SizeOf
    <2>4. CutLength(segs, n, par, k) = Min({c + o, m}) - st
      BY <1>1, <1>3, <1>4, <1>5, Zenon DEF CutLength
    <2>5. Min({e + o, m}) - st = Min({c + o, m}) - st
      BY <1>1, <1>4, <2>1, <2>2
    <2>7. st + 160 <= c /\ c <= m
      BY <1>1, <1>4
    <2>6. Min({c + o, m}) - st \in Nat /\ c - st <= Min({c + o, m}) - st
      <3>1. PICK y \in Int : y = Min({c + o, m}) /\ y = (IF c + o <= m THEN c + o ELSE m)
        BY <2>2
      <3>2. c <= y /\ y - st \in Nat /\ c - st <= y - st
        BY <2>7, <3>1
      <3> QED
        BY <3>1, <3>2
    <2> QED
      BY <1>1, <1>3, <1>4, <2>3, <2>4, <2>5, <2>6, <2>7
  <1>6. CASE ~(k < Len(segs))
    <2>1. Min({e, m}) = (IF e <= m THEN e ELSE m)
      BY SmallerOfTwo
    <2>2. SizeOf(segs, n, par, k) = Min({e + 0, m}) - st /\ e + 0 = e
      BY <1>1, <1>2, <1>6 DEF SizeOf
    <2>2a. SizeOf(segs, n, par, k) = c - st
      BY <1>4, <2>1, <2>2, Zenon
    <2>3. CutLength(segs, n, par, k) = c - st
      BY <1>3, <1>4, <1>6, Zenon DEF CutLength
    <2>4. c - st \in Nat /\ st + 160 <= c
      BY <1>1, <1>4
    <2> QED
      BY <1>1, <1>3, <1>4, <2>2a, <2>3, <2>4
  <1> QED
    BY <1>5, <1>6

\* f[j] is the length of the first j segments, for the first k.
IsTally(f, k, segs, n, par) ==
    /\ f \in [0..k -> Nat] /\ f[0] = 0
    /\ \A j \in 1..k : f[j] = f[j - 1] + SizeOf(segs, n, par, j)
    /\ \A i, j \in 0..k : i <= j => f[i] <= f[j]

\* A tally of one segment more.
LEMMA TallyGrows ==
    ASSUME NEW segs, NEW n, NEW par, NEW k \in Nat, NEW f, IsTally(f, k, segs, n, par), SizeOf(segs, n, par, k + 1) \in Nat
    PROVE  \E h : IsTally(h, k + 1, segs, n, par) /\ h[k + 1] = f[k] + SizeOf(segs, n, par, k + 1)
  <1>1. PICK c \in Nat : c = SizeOf(segs, n, par, k + 1)
    OBVIOUS
  <1>2. PICK h : h = [j \in 0..(k + 1) |-> IF j = k + 1 THEN f[k] + c ELSE f[j]]
    OBVIOUS
  <1>3. f \in [0..k -> Nat] /\ f[0] = 0 /\ \A i, j \in 0..k : i <= j => f[i] <= f[j]
    BY DEF IsTally
  <1>4. h[k + 1] = f[k] + c /\ \A j \in 0..k : h[j] = f[j]
    BY <1>2
  <1>5. h \in [0..(k + 1) -> Nat]
    BY <1>2, <1>3
  <1>6. ASSUME NEW j \in 1..(k + 1) PROVE h[j] = h[j - 1] + SizeOf(segs, n, par, j)
    <2>1. CASE j = k + 1
      BY <1>1, <1>4, <2>1
    <2>2. CASE j # k + 1
      <3>1. j \in 1..k /\ j \in 0..k /\ j - 1 \in 0..k
        BY <2>2
      <3> QED
        BY <1>4, <3>1 DEF IsTally
    <2> QED
      BY <2>1, <2>2
  <1>7. ASSUME NEW i \in 0..(k + 1), NEW j \in 0..(k + 1), i <= j PROVE h[i] <= h[j]
    <2>1. CASE j = k + 1
      <3>1. CASE i = k + 1
        BY <1>3, <1>4, <2>1, <3>1
      <3>2. CASE i # k + 1
        <4>1. i \in 0..k /\ k \in 0..k /\ i <= k
          BY <3>2
        <4>2. f[i] <= f[k] /\ f[i] \in Nat /\ f[k] \in Nat
          BY <1>3, <4>1
        <4> QED
          BY <1>4, <2>1, <4>1, <4>2
      <3> QED
        BY <3>1, <3>2
    <2>2. CASE j # k + 1
      <3>1. i \in 0..k /\ j \in 0..k
        BY <1>7, <2>2
      <3> QED
        BY <1>3, <1>4, <1>7, <3>1
    <2> QED
      BY <2>1, <2>2
  <1>8. IsTally(h, k + 1, segs, n, par)
    BY <1>3, <1>4, <1>5, <1>6, <1>7 DEF IsTally
  <1>9. h[k + 1] = f[k] + SizeOf(segs, n, par, k + 1)
    BY <1>1, <1>4, Zenon
  <1> QED
    BY <1>8, <1>9, Zenon
-----------------------------------------------------------------------------
(* The mapping points.                                                     *)

PointType == [processed_time : Nat, original_time : Nat]
InfoType  == [orig_start : Nat, orig_end : Nat, vad_start : Nat, vad_end : Nat]

\* The original times follow the processed times.
Agree(t) ==
    \A a, b \in DOMAIN t : t[a].processed_time <= t[b].processed_time => t[a].original_time <= t[b].original_time

\* No point is beyond (processed, original), and one with that processed time is that point.
Upto(t, processed, original) ==
    \A a \in DOMAIN t :
        /\ t[a].processed_time <= processed /\ t[a].original_time <= original
        /\ t[a].processed_time = processed => t[a].original_time = original

Behind(t, processed, original) == t \in Seq(PointType) /\ Agree(t) /\ Upto(t, processed, original)

\* A point at the frontier or beyond it is added.
LEMMA AddPoint ==
    ASSUME NEW t, NEW p0 \in Nat, NEW o0 \in Nat, Behind(t, p0, o0),
           NEW p1 \in Nat, NEW o1 \in Nat, (p1 = p0 /\ o1 = o0) \/ (p0 < p1 /\ o0 <= o1)
    PROVE  Behind(Append(t, Point(p1, o1)), p1, o1)
  <1>0. Point(p1, o1) \in PointType /\ Point(p1, o1).processed_time = p1 /\ Point(p1, o1).original_time = o1
    BY DEF Point, PointType
  <1>1. PICK x \in PointType : x = Point(p1, o1) /\ x.processed_time = p1 /\ x.original_time = o1
    BY <1>0
  <1>2. PICK u : u = Append(t, x)
    OBVIOUS
  <1>3. t \in Seq(PointType) /\ Len(t) \in Nat /\ DOMAIN t = 1..Len(t)
    BY DEF Behind
  <1>4. /\ u \in Seq(PointType) /\ DOMAIN u = 1..(Len(t) + 1) /\ u[Len(t) + 1] = x
        /\ \A a \in 1..Len(t) : u[a] = t[a]
    BY <1>2, <1>3
  <1>5. \A a \in DOMAIN t : /\ t[a].processed_time \in Nat /\ t[a].original_time \in Nat
                            /\ t[a].processed_time <= p0 /\ t[a].original_time <= o0
                            /\ t[a].processed_time = p0 => t[a].original_time = o0
    <2> TAKE a \in DOMAIN t
    <2>1. t[a] \in PointType
      BY <1>3
    <2> QED
      BY <2>1 DEF PointType, Behind, Upto
  <1>6. Upto(u, p1, o1)
    <2> SUFFICES ASSUME NEW a \in DOMAIN u
                 PROVE  /\ u[a].processed_time <= p1 /\ u[a].original_time <= o1
                        /\ u[a].processed_time = p1 => u[a].original_time = o1
      BY DEF Upto
    <2>1. CASE a = Len(t) + 1
      BY <1>1, <1>4, <2>1
    <2>2. CASE a # Len(t) + 1
      <3>1. a \in DOMAIN t /\ u[a] = t[a]
        BY <1>3, <1>4, <2>2
      <3> QED
        BY <1>5, <3>1
    <2> QED
      BY <2>1, <2>2
  <1>7. Agree(u)
    <2> SUFFICES ASSUME NEW a \in DOMAIN u, NEW b \in DOMAIN u, u[a].processed_time <= u[b].processed_time
                 PROVE  u[a].original_time <= u[b].original_time
      BY DEF Agree
    <2>1. CASE b = Len(t) + 1
      BY <1>1, <1>4, <1>6, <2>1 DEF Upto
    <2>2. CASE b # Len(t) + 1
      <3>1. b \in DOMAIN t /\ u[b] = t[b]
        BY <1>3, <1>4, <2>2
      <3>2. CASE a = Len(t) + 1
        <4>1. u[a].processed_time = p1 /\ u[a].original_time = o1
          BY <1>1, <1>4, <3>2
        <4> QED
          BY <1>5, <3>1, <4>1
      <3>3. CASE a # Len(t) + 1
        <4>1. a \in DOMAIN t /\ u[a] = t[a]
          BY <1>3, <1>4, <3>3
        <4> QED
          BY <3>1, <4>1 DEF Behind, Agree
      <3> QED
        BY <3>2, <3>3
    <2> QED
      BY <2>1, <2>2
  <1> QED
    BY <1>1, <1>2, <1>4, <1>6, <1>7 DEF Behind

\* Where segment k is copied to, and for k = Len(segs) + 1 where the joined audio ends.
Place(f, k, segs) == f[k - 1] + (IF k <= Len(segs) THEN k - 1 ELSE Len(segs) - 1) * SilenceSamples

\* The time in the audio of that place.
Reached(segs, k) == IF k <= Len(segs) THEN segs[k].start ELSE segs[Len(segs)].end

\* No original time before lo, and no point beyond (processed, original).
BehindFrom(t, lo, processed, original) ==
    Behind(t, processed, original) /\ \A a \in DOMAIN t : lo <= t[a].original_time

\* The table when k - 1 segments have been copied, up to the processed time to.
PointsBefore(t, segs, k, to) ==
    BehindFrom(t, segs[1].start, to, Reached(segs, k)) /\ (k > 1 => t # <<>>)

\* One segment after another, in both times.
Apart(a, b) == a.vad_end <= b.vad_start /\ a.orig_end <= b.orig_start

\* The infos of the first k - 1 segments, up to the processed time to.
InfosBefore(infos, segs, k, to) ==
    /\ infos \in Seq(InfoType) /\ Len(infos) = k - 1
    /\ \A j \in 1..(k - 1) : /\ infos[j].orig_start = segs[j].start /\ infos[j].orig_end = segs[j].end
                             /\ infos[j].vad_start < infos[j].vad_end
                             /\ infos[j].vad_end <= to /\ infos[j].orig_end <= Reached(segs, k)
    /\ \A i, j \in 1..(k - 1) : i < j => Apart(infos[i], infos[j])

\* Segments of positive duration, in order and apart, in both times.
SegsInOrder(infos) ==
    /\ infos \in Seq(InfoType) /\ infos # <<>>
    /\ \A k \in 1..Len(infos) : /\ infos[k].orig_start < infos[k].orig_end
                                /\ infos[k].vad_start < infos[k].vad_end
    /\ \A j, k \in 1..Len(infos) : j < k => Apart(infos[j], infos[k])

\* A table the getters can use, with the original times lo..hi.
TableInOrder(t, lo, hi) ==
    /\ t \in Seq(PointType) /\ t # <<>>
    /\ \A a, b \in DOMAIN t : a < b => /\ t[a].processed_time < t[b].processed_time
                                       /\ t[a].original_time <= t[b].original_time
    /\ \A a \in DOMAIN t : lo <= t[a].original_time /\ t[a].original_time <= hi

Joined ==
    /\ SegsInOrder(vad_segments)
    /\ TableInOrder(vad_mapping_table, vad_segments[1].orig_start, vad_segments[Len(vad_segments)].orig_end)

\* The types VadInv does not state.
CallTypes ==
    /\ calls \in [vad : 0..MaxVadCalls, all : 0..MaxCalls]
    /\ n_samples \in AudioLens \cup {0} /\ loaded \in BOOLEAN /\ has_vad_segments \in BOOLEAN
    /\ result \in [kind : {"none", "plain", "vad"}, len : Nat]
    /\ \A k \in DOMAIN data : data[k].start \in Nat /\ data[k].end \in Nat

\* Nothing is joined before the segments are found.
NotJoined ==
    pc \in {"load", "detect"} => ~has_vad_segments /\ vad_mapping_table = <<>> /\ spliced = NothingSpliced

Sizing ==
    pc = "size" =>
        /\ has_vad_segments /\ vad_mapping_table = <<>> /\ vad_segments = <<>>
        /\ Len(data) > 0 /\ seg \in 1..(Len(data) + 1)
        /\ \E f : /\ IsTally(f, seg - 1, data, n_samples, p)
                  /\ spliced = [size |-> f[seg - 1], offset |-> 0]

Copying ==
    pc = "copy" =>
        /\ has_vad_segments /\ Len(data) > 0 /\ seg \in 1..(Len(data) + 1)
        /\ \E f : /\ IsTally(f, Len(data), data, n_samples, p)
                  /\ spliced = [size |-> Place(f, Len(data) + 1, data), offset |-> Place(f, seg, data)]
        /\ PointsBefore(vad_mapping_table, data, seg, samples_to_cs(spliced.offset))
        /\ InfosBefore(vad_segments, data, seg, samples_to_cs(spliced.offset))

Copied ==
    pc = "transcribe" => /\ spliced.size \in Nat /\ spliced.offset = spliced.size
                         /\ ~has_vad_segments => vad_mapping_table = <<>>

\* What the getters find: no table, or the times of a joined audio.
Usable ==
    pc \in {"transcribe", "idle"} /\ has_vad_segments =>
        Joined \/ (vad_mapping_table = <<>> /\ vad_segments = <<>>)

JoinInv == CallTypes /\ NotJoined /\ Sizing /\ Copying /\ Copied /\ Usable

LEMMA SilenceValue == SilenceSamples = 1600
  BY DEF SilenceSamples, MsToSamples, WHISPER_SAMPLE_RATE

\* Rounding a sample to a centisecond.
LEMMA RoundingFacts ==
    /\ \A a \in Nat : samples_to_cs(a) \in Nat
    /\ \A a, b \in Nat : a <= b => samples_to_cs(a) <= samples_to_cs(b)
    /\ \A a, b \in Nat : a + 160 <= b => samples_to_cs(a) < samples_to_cs(b)
    /\ samples_to_cs(0) = 0
  BY DEF samples_to_cs, WHISPER_SAMPLE_RATE

\* The places in the joined audio where segment k begins and ends, where the silence after it
\* begins, and where the next segment is put.
LEMMA PlacesOf ==
    ASSUME NEW segs, NEW n \in Nat, GoodSegments(segs, n), NEW par, par.overlap_ms \in Nat,
           NEW k \in 1..Len(segs), NEW offset \in Nat
    PROVE  \E a \in Nat, b \in Nat, c \in Nat, d \in Nat :
             /\ a = samples_to_cs(offset)
             /\ b = samples_to_cs(offset + CutEnd(segs, n, k) - CutStart(segs, n, k))
             /\ c = samples_to_cs(offset + CutLength(segs, n, par, k))
             /\ d = samples_to_cs(offset + CutLength(segs, n, par, k) + SilenceSamples)
             /\ a < b /\ b <= c /\ c < d
             /\ k = Len(segs) => c = b
             /\ offset + CutLength(segs, n, par, k) \in Nat
  <1>1. PICK st \in Nat, en \in Nat, len \in Nat :
            /\ st = CutStart(segs, n, k) /\ en = CutEnd(segs, n, k) /\ len = CutLength(segs, n, par, k)
            /\ st + 160 <= en /\ en - st <= len /\ (k = Len(segs) => len = en - st)
    <2>1. ~(k < Len(segs)) => CutLength(segs, n, par, k) = CutEnd(segs, n, k) - CutStart(segs, n, k)
      BY Zenon DEF CutLength
    <2>2. k = Len(segs) => ~(k < Len(segs))
      BY DEF GoodSegments
    <2> QED
      BY <2>1, <2>2, LengthFacts
  <1>2. PICK x \in Nat, y \in Nat, z \in Nat :
            x = offset + en - st /\ y = offset + len /\ z = offset + len + 1600
    <2>1. offset + en - st \in Nat /\ offset + len \in Nat /\ offset + len + 1600 \in Nat
      BY <1>1
    <2> QED
      BY <2>1
  <1>3. offset + 160 <= x /\ x <= y /\ y + 160 <= z
    <2>1. st + 160 <= en /\ en - st <= len
      BY <1>1, Zenon
    <2> QED
      BY <2>1, <1>2
  <1>3a. ASSUME k = Len(segs) PROVE y = x
    <2>1. len = en - st
      BY <1>1, <1>3a
    <2> QED
      BY <1>2, <2>1
  <1>4. PICK a \in Nat, b \in Nat, c \in Nat, d \in Nat :
            a = samples_to_cs(offset) /\ b = samples_to_cs(x) /\ c = samples_to_cs(y) /\ d = samples_to_cs(z)
    BY RoundingFacts
  <1>5. a < b /\ b <= c /\ c < d
    BY <1>3, <1>4, RoundingFacts
  <1>6. k = Len(segs) => c = b
    BY <1>3a, <1>4, Zenon
  <1>7. /\ offset + CutEnd(segs, n, k) - CutStart(segs, n, k) = x
        /\ offset + CutLength(segs, n, par, k) = y
        /\ offset + CutLength(segs, n, par, k) + SilenceSamples = z
    <2>1. CutEnd(segs, n, k) = en /\ CutStart(segs, n, k) = st /\ CutLength(segs, n, par, k) = len
      BY <1>1, Zenon
    <2> QED
      BY <2>1, <1>2, SilenceValue
  <1> QED
    BY <1>4, <1>5, <1>6, <1>7, Zenon

\* What is added to a sequence is added point by point.
LEMMA TwoPoints ==
    ASSUME NEW t \in Seq(PointType), NEW x \in PointType, NEW y \in PointType
    PROVE  t \o <<x, y>> = Append(Append(t, x), y)
  OBVIOUS

LEMMA FourPoints ==
    ASSUME NEW t \in Seq(PointType), NEW x \in PointType, NEW y \in PointType,
           NEW z \in PointType, NEW w \in PointType
    PROVE  t \o (<<x, y>> \o <<z, w>>) = Append(Append(Append(Append(t, x), y), z), w)
  <1>1. PICK r \in Seq(PointType), s \in Seq(PointType) :
            /\ r = <<x, y>> /\ Len(r) = 2 /\ r[1] = x /\ r[2] = y
            /\ s = <<z, w>> /\ Len(s) = 2 /\ s[1] = z /\ s[2] = w
    <2>1. <<x, y>> \in Seq(PointType) /\ <<z, w>> \in Seq(PointType)
      OBVIOUS
    <2> QED
      BY <2>1
  <1>2. t \o (r \o s) = (t \o r) \o s
    OBVIOUS
  <1>3. PICK v \in Seq(PointType) : v = t \o r /\ v = Append(Append(t, x), y)
    <2>1. t \o r \in Seq(PointType)
      OBVIOUS
    <2> QED
      BY <1>1, <2>1, TwoPoints
  <1>4. v \o s = Append(Append(v, z), w)
    BY <1>1, TwoPoints
  <1> QED
    BY <1>1, <1>2, <1>3, <1>4

\* Originals of an extended table stay after lo.
LEMMA AddFrom ==
    ASSUME NEW t \in Seq(PointType), NEW lo \in Nat, NEW x \in PointType, lo <= x.original_time,
           \A a \in DOMAIN t : lo <= t[a].original_time
    PROVE  /\ Append(t, x) \in Seq(PointType) /\ Append(t, x) # <<>>
           /\ \A a \in DOMAIN Append(t, x) : lo <= Append(t, x)[a].original_time
  OBVIOUS

LEMMA AddBehindFrom ==
    ASSUME NEW t, NEW lo \in Nat, NEW p0 \in Nat, NEW o0 \in Nat, BehindFrom(t, lo, p0, o0),
           NEW p1 \in Nat, NEW o1 \in Nat, (p1 = p0 /\ o1 = o0) \/ (p0 < p1 /\ o0 <= o1), lo <= o1
    PROVE  BehindFrom(Append(t, Point(p1, o1)), lo, p1, o1) /\ Append(t, Point(p1, o1)) # <<>>
  <1>1. PICK u : u = Append(t, Point(p1, o1)) /\ Behind(u, p1, o1)
    BY AddPoint, Zenon DEF BehindFrom
  <1>2. t \in Seq(PointType) /\ \A a \in DOMAIN t : lo <= t[a].original_time
    BY DEF BehindFrom, Behind
  <1>3. PICK x \in PointType : x = Point(p1, o1) /\ x.original_time = o1
    <2>1. Point(p1, o1) \in PointType /\ Point(p1, o1).original_time = o1
      BY DEF Point, PointType
    <2> QED
      BY <2>1
  <1>4. u # <<>> /\ \A a \in DOMAIN u : lo <= u[a].original_time
    <2>1. u = Append(t, x) /\ lo <= x.original_time
      BY <1>1, <1>3
    <2> QED
      BY <1>2, <2>1, AddFrom
  <1> QED
    BY <1>1, <1>4, Zenon DEF BehindFrom

\* A copied segment, and the silence after it, take the table to the place of the next.
LEMMA CopyPoints ==
    ASSUME NEW segs, NEW n \in Nat, GoodSegments(segs, n), NEW par, par.overlap_ms \in Nat,
           NEW k \in 1..Len(segs), NEW offset \in Nat, NEW t,
           PointsBefore(t, segs, k, samples_to_cs(offset))
    PROVE  PointsBefore(t \o Points(segs, n, par, k, offset), segs, k + 1,
                        samples_to_cs(offset + CutLength(segs, n, par, k) + SilenceAfter(segs, k)))
  <1>1. PICK a \in Nat, b \in Nat, c \in Nat, d \in Nat :
             /\ a = samples_to_cs(offset)
             /\ b = samples_to_cs(offset + CutEnd(segs, n, k) - CutStart(segs, n, k))
             /\ c = samples_to_cs(offset + CutLength(segs, n, par, k))
             /\ d = samples_to_cs(offset + CutLength(segs, n, par, k) + SilenceSamples)
             /\ a < b /\ b <= c /\ c < d
             /\ k = Len(segs) => c = b
             /\ offset + CutLength(segs, n, par, k) \in Nat
    BY PlacesOf
  <1>2. PICK s \in Nat, e \in Nat, lo \in Nat :
            s = segs[k].start /\ e = segs[k].end /\ s < e /\ lo = segs[1].start
    <2>1. 1 \in 1..Len(segs)
      BY DEF GoodSegments
    <2> QED
      BY <2>1 DEF GoodSegments
  <1>3. Len(segs) \in Nat /\ k \in Nat /\ k <= Len(segs)
    BY DEF GoodSegments
  <1>4. BehindFrom(t, lo, a, s) /\ (k > 1 => t # <<>>)
    <2>1. Reached(segs, k) = s
      BY <1>2, <1>3 DEF Reached
    <2> QED
      BY <1>1, <1>2, <2>1, Zenon DEF PointsBefore
  <1>5. lo <= s
    <2>1. CASE k = 1
      BY <1>2, <2>1
    <2>2. CASE k > 1
      <3>1. t \in Seq(PointType) /\ t # <<>>
        BY <1>4, <2>2 DEF BehindFrom, Behind
      <3>2. 1 \in DOMAIN t
        BY <3>1
      <3>3. t[1] \in PointType
        BY <3>1, <3>2
      <3>4. lo <= t[1].original_time /\ t[1].original_time <= s /\ t[1].original_time \in Nat
        BY <1>4, <3>2, <3>3 DEF BehindFrom, Behind, Upto, PointType
      <3> QED
        BY <1>2, <3>4
    <2> QED
      BY <1>3, <2>1, <2>2
  <1>6. PICK u : u = Append(t, Point(a, s)) /\ BehindFrom(u, lo, a, s)
    <2>1. (a = a /\ s = s) \/ (a < a /\ s <= s)
      OBVIOUS
    <2> QED
      BY <1>4, <1>5, <2>1, AddBehindFrom, Zenon
  <1>7. PICK v : v = Append(u, Point(b, e)) /\ BehindFrom(v, lo, b, e) /\ v # <<>>
    <2>1. lo <= e /\ ((b = a /\ e = s) \/ (a < b /\ s <= e))
      <3>1. a < b
        BY <1>1, Zenon
      <3>2. s < e
        BY <1>2, Zenon
      <3>3. lo <= e /\ s <= e
        BY <1>5, <3>2
      <3> QED
        BY <3>1, <3>3
    <2> QED
      BY <1>6, <2>1, AddBehindFrom, Zenon
  <1>8. t \in Seq(PointType) /\ Point(a, s) \in PointType /\ Point(b, e) \in PointType /\ Point(c, e) \in PointType
    BY <1>4 DEF BehindFrom, Behind, Point, PointType
  <1>9. CASE k = Len(segs)
    <2>1. Points(segs, n, par, k, offset) = <<Point(a, s), Point(b, e)>>
      <3>1. Points(segs, n, par, k, offset) = <<Point(a, s), Point(b, e)>> \o <<>>
        BY <1>1, <1>2, <1>9 DEF Points, SegmentInfo
      <3> QED
        BY <1>8, <3>1
    <2>2. t \o Points(segs, n, par, k, offset) = v
      BY <1>6, <1>7, <1>8, <2>1, TwoPoints
    <2>3. Reached(segs, k + 1) = e
      BY <1>2, <1>3, <1>9 DEF Reached
    <2>4. samples_to_cs(offset + CutLength(segs, n, par, k) + SilenceAfter(segs, k)) = b
      <3>1. SilenceAfter(segs, k) = 0
        BY <1>3, <1>9 DEF SilenceAfter
      <3>2. offset + CutLength(segs, n, par, k) + 0 = offset + CutLength(segs, n, par, k)
        BY <1>1
      <3> QED
        BY <1>1, <1>9, <3>1, <3>2
    <2> QED
      BY <1>2, <1>7, <2>2, <2>3, <2>4 DEF PointsBefore
  <1>10. CASE k < Len(segs)
    <2>1. PICK s2 \in Nat : s2 = segs[k + 1].start /\ e <= s2
      <3>1. k \in 1..(Len(segs) - 1) /\ k + 1 \in 1..Len(segs)
        BY <1>3, <1>10
      <3> QED
        BY <1>2, <3>1 DEF GoodSegments
    <2>2. PICK w : w = Append(v, Point(c, e)) /\ BehindFrom(w, lo, c, e)
      <3>1. lo <= e /\ ((c = b /\ e = e) \/ (b < c /\ e <= e))
        <4>1. b <= c
          BY <1>1, Zenon
        <4>2. s < e
          BY <1>2, Zenon
        <4>3. lo <= e
          BY <1>5, <4>2
        <4> QED
          BY <4>1, <4>3
      <3> QED
        BY <1>7, <3>1, AddBehindFrom, Zenon
    <2>3. PICK z : z = Append(w, Point(d, s2)) /\ BehindFrom(z, lo, d, s2) /\ z # <<>>
      <3>1. lo <= s2 /\ ((d = c /\ s2 = e) \/ (c < d /\ e <= s2))
        <4>1. c < d
          BY <1>1, Zenon
        <4> QED
          BY <1>2, <1>5, <2>1, <4>1
      <3> QED
        BY <2>2, <3>1, AddBehindFrom, Zenon
    <2>4. Points(segs, n, par, k, offset) = <<Point(a, s), Point(b, e)>> \o <<Point(c, e), Point(d, s2)>>
      <3>1. k # Len(segs)
        BY <1>3, <1>10
      <3> QED
        BY <1>1, <1>2, <2>1, <3>1 DEF Points, SegmentInfo
    <2>5. t \o Points(segs, n, par, k, offset) = z
      <3>1. Point(d, s2) \in PointType
        BY DEF Point, PointType
      <3>2. z = Append(Append(Append(Append(t, Point(a, s)), Point(b, e)), Point(c, e)), Point(d, s2))
        BY <1>6, <1>7, <2>2, <2>3, Zenon
      <3>3. t \o Points(segs, n, par, k, offset)
              = Append(Append(Append(Append(t, Point(a, s)), Point(b, e)), Point(c, e)), Point(d, s2))
        <4>1. PICK x1 \in PointType, x2 \in PointType, x3 \in PointType, x4 \in PointType :
                  x1 = Point(a, s) /\ x2 = Point(b, e) /\ x3 = Point(c, e) /\ x4 = Point(d, s2)
          BY <1>8, <3>1
        <4>2. t \o (<<x1, x2>> \o <<x3, x4>>) = Append(Append(Append(Append(t, x1), x2), x3), x4)
          BY <1>8, FourPoints
        <4> QED
          BY <2>4, <4>1, <4>2
      <3> QED
        BY <3>2, <3>3
    <2>6. Reached(segs, k + 1) = s2
      BY <1>3, <1>10, <2>1 DEF Reached
    <2>7. samples_to_cs(offset + CutLength(segs, n, par, k) + SilenceAfter(segs, k)) = d
      BY <1>1, <1>10 DEF SilenceAfter
    <2> QED
      BY <1>2, <2>3, <2>5, <2>6, <2>7 DEF PointsBefore
  <1> QED
    BY <1>3, <1>9, <1>10

LEMMA CopyInfos ==
    ASSUME NEW segs, NEW n \in Nat, GoodSegments(segs, n), NEW par, par.overlap_ms \in Nat,
           NEW k \in 1..Len(segs), NEW offset \in Nat, NEW infos,
           InfosBefore(infos, segs, k, samples_to_cs(offset))
    PROVE  InfosBefore(Append(infos, SegmentInfo(segs, n, k, offset)), segs, k + 1,
                       samples_to_cs(offset + CutLength(segs, n, par, k) + SilenceAfter(segs, k)))
  <1>1. PICK a \in Nat, b \in Nat, c \in Nat, d \in Nat :
             /\ a = samples_to_cs(offset)
             /\ b = samples_to_cs(offset + CutEnd(segs, n, k) - CutStart(segs, n, k))
             /\ c = samples_to_cs(offset + CutLength(segs, n, par, k))
             /\ d = samples_to_cs(offset + CutLength(segs, n, par, k) + SilenceSamples)
             /\ a < b /\ b <= c /\ c < d
             /\ k = Len(segs) => c = b
             /\ offset + CutLength(segs, n, par, k) \in Nat
    BY PlacesOf
  <1>2. a < b /\ b <= c /\ c < d
    BY <1>1, Zenon
  <1>3. Len(segs) \in Nat /\ k \in Nat /\ k <= Len(segs)
    BY DEF GoodSegments
  <1>4. PICK to \in Nat :
            /\ to = samples_to_cs(offset + CutLength(segs, n, par, k) + SilenceAfter(segs, k))
            /\ b <= to
    <2>1. CASE k < Len(segs)
      <3>1. SilenceAfter(segs, k) = SilenceSamples
        BY <2>1 DEF SilenceAfter
      <3>2. b <= d
        BY <1>2
      <3> QED
        BY <1>1, <3>1, <3>2, Zenon
    <2>2. CASE ~(k < Len(segs))
      <3>1. SilenceAfter(segs, k) = 0
        BY <2>2 DEF SilenceAfter
      <3>2. PICK x \in Nat : x = offset + CutLength(segs, n, par, k)
        BY <1>1, Zenon
      <3>3. x + 0 = x
        BY <3>2
      <3> QED
        BY <1>1, <1>2, <3>1, <3>2, <3>3, Zenon
    <2> QED
      BY <2>1, <2>2
  <1>5. PICK s \in Nat, e \in Nat : s = segs[k].start /\ e = segs[k].end /\ s < e
    BY DEF GoodSegments
  <1>5a. PICK r \in Nat : r = Reached(segs, k + 1) /\ e <= r
    <2>1. CASE k < Len(segs)
      <3>1. k + 1 \in 1..Len(segs) /\ k \in 1..(Len(segs) - 1) /\ k + 1 <= Len(segs)
        BY <1>3, <2>1
      <3>2. segs[k + 1].start \in Nat /\ e <= segs[k + 1].start
        BY <1>5, <3>1 DEF GoodSegments
      <3> QED
        BY <3>1, <3>2 DEF Reached
    <2>2. CASE k = Len(segs)
      <3>1. ~(k + 1 <= Len(segs))
        BY <1>3, <2>2
      <3> QED
        BY <1>5, <2>2, <3>1 DEF Reached
    <2> QED
      BY <1>3, <2>1, <2>2
  <1>6. PICK x \in InfoType : /\ x = SegmentInfo(segs, n, k, offset)
                              /\ x.orig_start = s /\ x.orig_end = e /\ x.vad_start = a /\ x.vad_end = b
    <2>1. SegmentInfo(segs, n, k, offset) = [orig_start |-> s, orig_end |-> e, vad_start |-> a, vad_end |-> b]
      BY <1>1, <1>5, Zenon DEF SegmentInfo
    <2> QED
      BY <2>1 DEF InfoType
  <1>7. /\ infos \in Seq(InfoType) /\ Len(infos) = k - 1
        /\ \A j \in 1..(k - 1) : /\ infos[j].orig_start = segs[j].start /\ infos[j].orig_end = segs[j].end
                                 /\ infos[j].vad_start < infos[j].vad_end
                                 /\ infos[j].vad_end <= a /\ infos[j].orig_end <= s
        /\ \A i, j \in 1..(k - 1) : i < j => Apart(infos[i], infos[j])
    <2>1. Reached(segs, k) = s
      BY <1>3, <1>5 DEF Reached
    <2> QED
      BY <1>1, <2>1, Zenon DEF InfosBefore
  <1>8. PICK u : u = Append(infos, x)
    OBVIOUS
  <1>9. /\ u \in Seq(InfoType) /\ Len(u) = k /\ u[k] = x /\ \A j \in 1..(k - 1) : u[j] = infos[j]
    BY <1>3, <1>7, <1>8
  <1>10. ASSUME NEW j \in 1..k
         PROVE  /\ u[j].orig_start = segs[j].start /\ u[j].orig_end = segs[j].end
                /\ u[j].vad_start < u[j].vad_end /\ u[j].vad_end <= to /\ u[j].orig_end <= r
    <2>1. CASE j = k
      BY <1>2, <1>4, <1>5, <1>5a, <1>6, <1>9, <2>1
    <2>2. CASE j # k
      <3>1. j \in 1..(k - 1) /\ u[j] = infos[j]
        BY <1>3, <1>9, <2>2
      <3>2. PICK y \in InfoType : y = infos[j]
        BY <1>7, <3>1
      <3>3. PICK yv \in Nat, yo \in Nat : yv = y.vad_end /\ yo = y.orig_end
        <4>1. y.vad_end \in Nat /\ y.orig_end \in Nat
          BY <3>2 DEF InfoType
        <4> QED
          BY <4>1
      <3>4. /\ y.orig_start = segs[j].start /\ y.orig_end = segs[j].end
            /\ y.vad_start < y.vad_end /\ y.vad_end <= a /\ y.orig_end <= s
        BY <1>7, <3>1, <3>2
      <3>5. y.vad_end <= to /\ y.orig_end <= r
        <4>1. yv <= a /\ yo <= s
          BY <3>3, <3>4
        <4>2. a < b /\ b <= to /\ s < e /\ e <= r
          BY <1>2, <1>4, <1>5, <1>5a
        <4>3. yv <= to /\ yo <= r
          BY <4>1, <4>2
        <4> QED
          BY <3>3, <4>3
      <3> QED
        BY <3>1, <3>2, <3>4, <3>5
    <2> QED
      BY <2>1, <2>2
  <1>11. ASSUME NEW i \in 1..k, NEW j \in 1..k, i < j PROVE Apart(u[i], u[j])
    <2>1. i \in 1..(k - 1) /\ u[i] = infos[i]
      BY <1>3, <1>9, <1>11
    <2>2. CASE j = k
      <3>1. infos[i].vad_end <= a /\ infos[i].orig_end <= s
        BY <1>7, <2>1
      <3>2. Apart(infos[i], x)
        BY <1>6, <3>1 DEF Apart
      <3>3. u[j] = x
        BY <1>9, <2>2
      <3> QED
        BY <2>1, <3>2, <3>3
    <2>3. CASE j # k
      <3>1. j \in 1..(k - 1) /\ u[j] = infos[j]
        BY <1>3, <1>9, <2>3
      <3> QED
        BY <1>7, <1>11, <2>1, <3>1
    <2> QED
      BY <2>2, <2>3
  <1>12. k + 1 - 1 = k
    BY <1>3
  <1> QED
    BY <1>4, <1>5a, <1>6, <1>8, <1>9, <1>10, <1>11, <1>12 DEF InfosBefore

\* The first loop's sums are the places the second one copies to.
LEMMA PlaceFacts ==
    ASSUME NEW segs, NEW n \in Nat, GoodSegments(segs, n), NEW par, par.overlap_ms \in Nat,
           NEW f, IsTally(f, Len(segs), segs, n, par), NEW k \in 1..Len(segs)
    PROVE  /\ Place(f, k, segs) \in Nat /\ Place(f, Len(segs) + 1, segs) \in Nat
           /\ Place(f, k + 1, segs) = Place(f, k, segs) + CutLength(segs, n, par, k) + SilenceAfter(segs, k)
           /\ Place(f, k, segs) <= Place(f, Len(segs) + 1, segs)
  <1>1. PICK len \in Nat : len = Len(segs) /\ k \in 1..len
    BY DEF GoodSegments
  <1>2. PICK c \in Nat : c = CutLength(segs, n, par, k) /\ c = SizeOf(segs, n, par, k)
    BY LengthFacts
  <1>3. PICK x \in Nat, y \in Nat, z \in Nat :
            x = f[k - 1] /\ y = f[k] /\ z = f[len] /\ y = x + c /\ x <= z
    <2>1. k - 1 \in 0..len /\ k \in 0..len /\ len \in 0..len /\ k - 1 <= len
      BY <1>1
    <2>2. f[k - 1] \in Nat /\ f[k] \in Nat /\ f[len] \in Nat /\ f[k - 1] <= f[len]
      BY <1>1, <2>1 DEF IsTally
    <2>3. f[k] = f[k - 1] + SizeOf(segs, n, par, k)
      BY <1>1 DEF IsTally
    <2> QED
      BY <1>2, <2>2, <2>3
  <1>4. Place(f, k, segs) = x + (k - 1) * 1600
    BY <1>1, <1>3, SilenceValue DEF Place
  <1>5. Place(f, len + 1, segs) = z + (len - 1) * 1600
    <2>1. ~(len + 1 <= len) /\ len + 1 - 1 = len
      BY <1>1
    <2> QED
      BY <1>1, <1>3, <2>1, SilenceValue DEF Place
  <1>6. Place(f, k + 1, segs) = y + (IF k < len THEN k ELSE k - 1) * 1600
    <2>1. PICK m \in Nat : m = k + 1 /\ m - 1 = k
      BY <1>1
    <2>2. Place(f, m, segs) = f[m - 1] + (IF m <= Len(segs) THEN m - 1 ELSE Len(segs) - 1) * SilenceSamples
      BY DEF Place
    <2>3. f[m - 1] = y /\ Len(segs) = len /\ SilenceSamples = 1600
      BY <1>1, <1>3, <2>1, SilenceValue
    <2>4. (IF m <= len THEN m - 1 ELSE len - 1) = (IF k < len THEN k ELSE k - 1)
      BY <1>1, <2>1
    <2> QED
      BY <2>1, <2>2, <2>3, <2>4
  <1>7. SilenceAfter(segs, k) = (IF k < len THEN 1600 ELSE 0)
    BY <1>1, SilenceValue DEF SilenceAfter
  <1>8. x + (k - 1) * 1600 \in Nat /\ z + (len - 1) * 1600 \in Nat /\ x + (k - 1) * 1600 <= z + (len - 1) * 1600
    <2>1. x <= z
      BY <1>3
    <2>2. k \in Nat /\ 1 <= k /\ k <= len
      BY <1>1
    <2> QED
      BY <2>1, <2>2
  <1>9. Place(f, k + 1, segs) = Place(f, k, segs) + CutLength(segs, n, par, k) + SilenceAfter(segs, k)
    <2>1. k \in Nat /\ y = x + c
      BY <1>1, <1>3
    <2>2. CASE k < len
      <3>1. y + k * 1600 = x + (k - 1) * 1600 + c + 1600
        BY <2>1
      <3>2. Place(f, k + 1, segs) = y + k * 1600 /\ SilenceAfter(segs, k) = 1600
        BY <1>6, <1>7, <2>2
      <3>3. Place(f, k, segs) + CutLength(segs, n, par, k) + SilenceAfter(segs, k) = x + (k - 1) * 1600 + c + 1600
        BY <1>2, <1>4, <3>2
      <3> QED
        BY <3>1, <3>2, <3>3
    <2>3. CASE ~(k < len)
      <3>1. y + (k - 1) * 1600 = x + (k - 1) * 1600 + c + 0
        BY <2>1
      <3>2. Place(f, k + 1, segs) = y + (k - 1) * 1600 /\ SilenceAfter(segs, k) = 0
        BY <1>6, <1>7, <2>3
      <3>3. Place(f, k, segs) + CutLength(segs, n, par, k) + SilenceAfter(segs, k) = x + (k - 1) * 1600 + c + 0
        BY <1>2, <1>4, <3>2
      <3> QED
        BY <3>1, <3>2, <3>3
    <2> QED
      BY <2>2, <2>3
  <1> QED
    BY <1>1, <1>4, <1>5, <1>8, <1>9

\* Sorting and thinning: what is left is in order in both times.
LEMMA SortedTable ==
    ASSUME NEW t, NEW lo \in Nat, NEW processed \in Nat, NEW original \in Nat,
           BehindFrom(t, lo, processed, original), t # <<>>
    PROVE  TableInOrder(MappingTable(t), lo, original)
  <1>1. t \in Seq(PointType) /\ Len(t) \in Nat /\ DOMAIN t = 1..Len(t)
    BY DEF BehindFrom, Behind
  <1>2. \A k \in DOMAIN t : t[k] \in PointType /\ t[k].processed_time \in Nat /\ t[k].original_time \in Nat
    <2> TAKE k \in DOMAIN t
    <2>1. t[k] \in PointType
      BY <1>1
    <2> QED
      BY <2>1 DEF PointType
  <1>3. \A k \in DOMAIN t : lo <= t[k].original_time /\ t[k].original_time <= original
    BY DEF BehindFrom, Behind, Upto
  <1> DEFINE times == {t[k].processed_time : k \in DOMAIN t}
             g     == [x \in times |-> t[CHOOSE k \in DOMAIN t : t[k].processed_time = x]]
  <1>4. times \in SUBSET Nat /\ IsFiniteSet(times)
    <2>1. times \in SUBSET Nat
      BY <1>2
    <2>2. \A x \in times : x <= processed
      BY DEF BehindFrom, Behind, Upto
    <2> QED
      BY <2>1, <2>2, FS_BoundedSetOfNaturals
  <1>5. \A x \in times : g[x] \in PointType /\ g[x].processed_time = x /\ \E k \in DOMAIN t : g[x] = t[k]
    <2> TAKE x \in times
    <2>1. \E k \in DOMAIN t : t[k].processed_time = x
      OBVIOUS
    <2>2. PICK at : at = CHOOSE k \in DOMAIN t : t[k].processed_time = x
      OBVIOUS
    <2>3. at \in DOMAIN t /\ t[at].processed_time = x
      BY <2>1, <2>2, Zenon
    <2>4. g[x] = t[at]
      BY <2>2
    <2> QED
      BY <1>2, <2>3, <2>4
  <1>6. MappingTable(t) = [m \in 1..Cardinality(times) |-> g[Nth(times, m)]]
    BY DEF MappingTable, Listed
  <1> HIDE DEF g, times
  <1>7. PICK r : r = MappingTable(t)
    OBVIOUS
  <1>8. PICK card \in Nat : card = Cardinality(times)
    BY <1>4, NthFacts
  <1>9. /\ \A m \in 1..card : Nth(times, m) \in times
        /\ \A l, m \in 1..card : l < m => Nth(times, l) < Nth(times, m)
    BY <1>4, <1>8, NthFacts, Zenon
  <1>10. r = [m \in 1..card |-> g[Nth(times, m)]]
    BY <1>6, <1>7, <1>8
  <1>11. ASSUME NEW m \in 1..card
         PROVE  /\ r[m] \in PointType /\ r[m].processed_time = Nth(times, m)
                /\ \E k \in DOMAIN t : r[m] = t[k]
    <2>1. r[m] = g[Nth(times, m)] /\ Nth(times, m) \in times
      BY <1>9, <1>10
    <2> QED
      BY <1>5, <2>1
  <1>12. r \in Seq(PointType) /\ DOMAIN r = 1..card
    BY <1>8, <1>10, <1>11
  <1>13. r # <<>>
    <2>1. 1 \in DOMAIN t
      BY <1>1
    <2>2. t[1].processed_time \in times
      BY <2>1 DEF times
    <2>3. \E m \in 1..Cardinality(times) : Nth(times, m) = t[1].processed_time
      BY <1>4, <2>2, NthFacts
    <2> QED
      BY <1>8, <1>12, <2>3
  <1>14. ASSUME NEW l \in 1..card, NEW m \in 1..card, l < m
         PROVE  r[l].processed_time < r[m].processed_time /\ r[l].original_time <= r[m].original_time
    <2>1. r[l].processed_time < r[m].processed_time
      BY <1>9, <1>11, <1>14
    <2>2. PICK i \in DOMAIN t, j \in DOMAIN t : r[l] = t[i] /\ r[m] = t[j]
      BY <1>11
    <2>3. t[i].processed_time <= t[j].processed_time
      BY <1>2, <2>1, <2>2
    <2>4. t[i].original_time <= t[j].original_time
      BY <2>3 DEF BehindFrom, Behind, Agree
    <2> QED
      BY <2>1, <2>2, <2>4
  <1>15. \A m \in 1..card : lo <= r[m].original_time /\ r[m].original_time <= original
    BY <1>3, <1>11
  <1> QED
    BY <1>7, <1>12, <1>13, <1>14, <1>15 DEF TableInOrder

LEMMA SortedInfos ==
    ASSUME NEW segs, NEW n \in Nat, GoodSegments(segs, n), Len(segs) > 0, NEW to, NEW infos,
           InfosBefore(infos, segs, Len(segs) + 1, to)
    PROVE  /\ SegsInOrder(infos)
           /\ infos[1].orig_start = segs[1].start /\ infos[Len(infos)].orig_end = segs[Len(segs)].end
  <1>1. PICK len \in Nat : len = Len(segs) /\ len > 0 /\ len + 1 - 1 = len
    <2>1. PICK l \in Nat : l = Len(segs)
      BY DEF GoodSegments
    <2> QED
      BY <2>1
  <1>2. /\ infos \in Seq(InfoType) /\ Len(infos) = len
        /\ \A j \in 1..len : /\ infos[j].orig_start = segs[j].start /\ infos[j].orig_end = segs[j].end
                             /\ infos[j].vad_start < infos[j].vad_end
        /\ \A i, j \in 1..len : i < j => Apart(infos[i], infos[j])
    BY <1>1 DEF InfosBefore
  <1>4. \A k \in 1..len : infos[k].orig_start < infos[k].orig_end
    BY <1>1, <1>2 DEF GoodSegments
  <1>5. infos # <<>>
    BY <1>1, <1>2
  <1> QED
    BY <1>1, <1>2, <1>4, <1>5 DEF SegsInOrder
-----------------------------------------------------------------------------
(* The invariant of the join.                                              *)

\* The segments of a call whose padding is not too small.
LEMMA DataGood ==
    ASSUME PaddedCalls, VadInv, CallTypes, Found
    PROVE  /\ GoodSegments(data, n_samples) /\ n_samples \in Nat /\ p.overlap_ms \in Nat
           /\ Len(data) \in Nat
  <1>1. /\ p \in VadParams /\ n_samples \in Nat /\ DetectorOK(det, Sample(det), p)
        /\ det.i = NChunks(n_samples) /\ data = Segments(det, p)
    BY DEF VadInv
  <1>2. p.overlap_ms \in Nat /\ p.speech_pad_ms \in Nat /\ p.speech_pad_ms >= 15
    BY <1>1, VadAssumption DEF PaddedCalls
  <1>3. n_samples = 0 \/ n_samples > 160
    BY DEF CallTypes, PaddedCalls
  <1>4. GoodSegments(Segments(det, p), n_samples)
    BY <1>1, <1>2, <1>3, SegmentsGood
  <1> QED
    BY <1>1, <1>2, <1>4 DEF GoodSegments

\* Before the first segment.
LEMMA NothingBefore ==
    ASSUME NEW segs, NEW to \in Nat
    PROVE  PointsBefore(<<>>, segs, 1, to) /\ InfosBefore(<<>>, segs, 1, to)
  <1>1. <<>> \in Seq(PointType) /\ <<>> \in Seq(InfoType) /\ DOMAIN <<>> = {} /\ Len(<<>>) = 0
    OBVIOUS
  <1>2. BehindFrom(<<>>, segs[1].start, to, Reached(segs, 1))
    BY <1>1 DEF BehindFrom, Behind, Agree, Upto
  <1>3. InfosBefore(<<>>, segs, 1, to)
    BY <1>1 DEF InfosBefore
  <1> QED
    BY <1>2, <1>3 DEF PointsBefore

LEMMA InitJoin == Init => JoinInv
  <1> SUFFICES ASSUME Init PROVE JoinInv
    OBVIOUS
  <1>1. CallTypes
    <2>1. calls \in [vad : 0..MaxVadCalls, all : 0..MaxCalls]
      BY VadAssumption DEF Init
    <2>2. result \in [kind : {"none", "plain", "vad"}, len : Nat]
      BY DEF Init, NoResult
    <2>3. n_samples = 0 /\ data = <<>> /\ loaded = FALSE /\ has_vad_segments = FALSE
      BY DEF Init
    <2>4. \A k \in DOMAIN data : data[k].start \in Nat /\ data[k].end \in Nat
      BY <2>3
    <2> QED
      BY <2>1, <2>2, <2>3, <2>4 DEF CallTypes
  <1> QED
    BY <1>1 DEF Init, JoinInv, NotJoined, Sizing, Copying, Copied, Usable

\* A call, a failure and a window of the detector leave nothing that is joined.
LEMMA JoinCall ==
    ASSUME VadInv, JoinInv,
           \/ \E n \in AudioLens : CallPlain(n)
           \/ \E n \in AudioLens, par \in VadParams :
                \E from \in 0..Max({0, NChunks(n) - WatchLength(par)}) : CallVad(n, par, from)
           \/ LoadModel \/ VadFails
           \/ \E prob \in Probs : Detect(prob)
    PROVE  JoinInv'
  <1> USE DEF JoinInv
  <1>1. ASSUME NEW n \in AudioLens, CallPlain(n) PROVE JoinInv'
    <2>1. n \in Nat /\ samples_to_cs(n) \in Nat
      BY VadAssumption, RoundingFacts
    <2>2. /\ pc = "idle" /\ pc' = "idle" /\ calls.all < MaxCalls /\ calls' = [calls EXCEPT !.all = @ + 1]
          /\ n_samples' = n /\ result' = [kind |-> "plain", len |-> samples_to_cs(n)]
          /\ loaded' = loaded /\ data' = data /\ has_vad_segments' = has_vad_segments
          /\ vad_mapping_table' = vad_mapping_table /\ vad_segments' = vad_segments
      BY <1>1 DEF CallPlain, vadState
    <2>3. CallTypes'
      <3>1. calls' \in [vad : 0..MaxVadCalls, all : 0..MaxCalls]
        BY <2>2, VadAssumption DEF CallTypes
      <3> QED
        BY <2>1, <2>2, <3>1 DEF CallTypes
    <2>4. Usable'
      BY <2>2 DEF Usable, Joined
    <2> QED
      BY <2>2, <2>3, <2>4 DEF NotJoined, Sizing, Copying, Copied
  <1>2. ASSUME NEW n \in AudioLens, NEW par \in VadParams,
               NEW from \in 0..Max({0, NChunks(n) - WatchLength(par)}), CallVad(n, par, from)
        PROVE  JoinInv'
    <2>1. /\ pc' \in {"load", "detect"} /\ calls.all < MaxCalls /\ calls.vad < MaxVadCalls
          /\ calls' = [vad |-> calls.vad + 1, all |-> calls.all + 1]
          /\ n_samples' = n /\ result' = result /\ loaded' = loaded /\ data' = <<>>
          /\ has_vad_segments' = FALSE /\ vad_mapping_table' = <<>> /\ spliced' = NothingSpliced
      BY <1>2 DEF CallVad
    <2>2. CallTypes'
      <3>1. calls' \in [vad : 0..MaxVadCalls, all : 0..MaxCalls]
        <4>1. PICK x \in 0..MaxVadCalls, y \in 0..MaxCalls :
                  x = calls.vad /\ y = calls.all /\ x < MaxVadCalls /\ y < MaxCalls
          BY <2>1 DEF CallTypes
        <4>2. x + 1 \in 0..MaxVadCalls /\ y + 1 \in 0..MaxCalls
          BY <4>1, VadAssumption
        <4> QED
          BY <2>1, <4>1, <4>2
      <3>2. \A k \in DOMAIN data' : data'[k].start \in Nat /\ data'[k].end \in Nat
        BY <2>1
      <3>3. /\ n_samples' \in AudioLens \cup {0} /\ loaded' \in BOOLEAN /\ has_vad_segments' \in BOOLEAN
            /\ result' \in [kind : {"none", "plain", "vad"}, len : Nat]
        BY <2>1 DEF CallTypes
      <3> QED
        BY <3>1, <3>2, <3>3 DEF CallTypes
    <2> QED
      BY <2>1, <2>2 DEF NotJoined, Sizing, Copying, Copied, Usable
  <1>3. ASSUME LoadModel \/ VadFails \/ \E prob \in Probs : Detect(prob) PROVE JoinInv'
    <2>1. /\ pc \in {"load", "detect"} /\ pc' \in {"detect", "idle"}
          /\ calls' = calls /\ n_samples' = n_samples /\ loaded' \in {loaded, TRUE} /\ data' = data
          /\ has_vad_segments' = has_vad_segments /\ vad_mapping_table' = vad_mapping_table
          /\ spliced' = spliced /\ result' = result
      BY <1>3 DEF LoadModel, VadFails, Detect, vadState
    <2>2. CallTypes'
      BY <2>1 DEF CallTypes
    <2> QED
      BY <2>1, <2>2 DEF NotJoined, Sizing, Copying, Copied, Usable
  <1> QED
    BY <1>1, <1>2, <1>3

\* The types when only the join goes on.
LEMMA SameTypes ==
    ASSUME CallTypes, calls' = calls, n_samples' = n_samples, loaded' = loaded, data' = data,
           has_vad_segments' = has_vad_segments, result' = result
    PROVE  CallTypes'
  BY DEF CallTypes

LEMMA JoinFind ==
    ASSUME VadInv, JoinInv, FindSegments
    PROVE  JoinInv'
  <1>1. /\ pc = "detect" /\ det.i = NChunks(n_samples) /\ data' = Segments(det, p) /\ seg' = 1
        /\ calls' = calls /\ n_samples' = n_samples /\ loaded' = loaded /\ p' = p /\ result' = result
        /\ vad_mapping_table' = vad_mapping_table /\ spliced' = spliced
    BY DEF FindSegments
  <1>2. ~has_vad_segments /\ vad_mapping_table = <<>> /\ spliced = [size |-> 0, offset |-> 0]
    BY <1>1 DEF JoinInv, NotJoined, NothingSpliced
  <1>3. CallTypes'
    <2>1. DetectorOK(det, Sample(det), p) /\ p.speech_pad_ms \in Nat
      BY ParFacts DEF VadInv, ParOK
    <2>2. \A k \in DOMAIN data' : data'[k].start \in Nat /\ data'[k].end \in Nat
      BY <1>1, <2>1, SegmentsFacts
    <2>3. has_vad_segments' \in BOOLEAN
      BY DEF FindSegments, JoinInv, CallTypes
    <2> QED
      BY <1>1, <2>2, <2>3 DEF JoinInv, CallTypes
  <1>4. CASE data' = <<>>
    <2>1. pc' = "transcribe" /\ has_vad_segments' = has_vad_segments
      BY <1>1, <1>4 DEF FindSegments
    <2> QED
      BY <1>1, <1>2, <1>3, <2>1 DEF JoinInv, NotJoined, Sizing, Copying, Copied, Usable
  <1>5. CASE data' # <<>>
    <2>1. pc' = "size" /\ has_vad_segments' = TRUE /\ vad_segments' = <<>>
      BY <1>1, <1>5 DEF FindSegments
    <2>2. Len(data') > 0
      <3>1. PICK len \in Nat : len = Len(data') /\ DOMAIN data' = 1..len
        <4>1. DetectorOK(det, Sample(det), p) /\ p.speech_pad_ms \in Nat
          BY ParFacts DEF VadInv, ParOK
        <4> QED
          BY <1>1, <4>1, SegmentsFacts
      <3>2. PICK s, len1, pad : data' = [k \in DOMAIN s |-> [start |-> samples_to_cs(PaddedStart(s, pad, k)),
                                                            end   |-> samples_to_cs(PaddedEnd(s, len1, pad, k))]]
        <4>1. PICK s, pad : /\ s = DropShort(MergeAdjacent(FinalSpeech(det, p)), p)
                            /\ pad = MsToSamples(p.speech_pad_ms)
          OBVIOUS
        <4>2. data' = Pad(s, AudioLength(det), p)
          BY <1>1, <4>1 DEF Segments
        <4>3. Pad(s, AudioLength(det), p) = [k \in DOMAIN s |->
                  [start |-> samples_to_cs(PaddedStart(s, pad, k)),
                   end   |-> samples_to_cs(PaddedEnd(s, AudioLength(det), pad, k))]]
          BY <4>1, PadForm
        <4> QED
          BY <4>2, <4>3, Zenon
      <3>3. len = 0 => DOMAIN s = {}
        BY <3>1, <3>2
      <3>4. DOMAIN s = {} => data' = <<>>
        BY <3>2
      <3> QED
        BY <1>5, <3>1, <3>3, <3>4
    <2>3. PICK f : f = [j \in 0..0 |-> 0]
      OBVIOUS
    <2>4. IsTally(f, 0, data', n_samples', p') /\ f[0] = 0
      BY <2>3 DEF IsTally
    <2>5. Sizing'
      <3>1. seg' - 1 = 0 /\ seg' \in 1..(Len(data') + 1)
        BY <1>1, <2>2
      <3>2. spliced' = [size |-> f[seg' - 1], offset |-> 0]
        BY <1>1, <1>2, <2>4, <3>1
      <3> QED
        BY <1>1, <1>2, <2>1, <2>2, <2>4, <3>1, <3>2 DEF Sizing
    <2> QED
      BY <1>3, <2>1, <2>5 DEF JoinInv, NotJoined, Copying, Copied, Usable
  <1> QED
    BY <1>4, <1>5

LEMMA JoinSize ==
    ASSUME PaddedCalls, VadInv, JoinInv, SizeSegment
    PROVE  JoinInv'
  <1>1. /\ pc = "size" /\ pc' = "size" /\ seg <= Len(data) /\ seg' = seg + 1
        /\ spliced' = [spliced EXCEPT !.size = @ + SizeOf(data, n_samples, p, seg)]
        /\ calls' = calls /\ p' = p /\ n_samples' = n_samples /\ loaded' = loaded /\ data' = data
        /\ has_vad_segments' = has_vad_segments /\ vad_mapping_table' = vad_mapping_table
        /\ vad_segments' = vad_segments /\ result' = result
    BY DEF SizeSegment, vadState
  <1>2. CallTypes'
    BY <1>1, SameTypes DEF JoinInv
  <1>3. GoodSegments(data, n_samples) /\ n_samples \in Nat /\ p.overlap_ms \in Nat /\ Len(data) \in Nat
    BY <1>1, DataGood DEF JoinInv, Found
  <1>4. PICK f : /\ has_vad_segments /\ vad_mapping_table = <<>> /\ vad_segments = <<>>
                 /\ Len(data) > 0 /\ seg \in 1..(Len(data) + 1)
                 /\ IsTally(f, seg - 1, data, n_samples, p) /\ spliced = [size |-> f[seg - 1], offset |-> 0]
    BY <1>1 DEF JoinInv, Sizing
  <1>5. seg \in 1..Len(data) /\ seg - 1 \in Nat /\ seg - 1 + 1 = seg /\ seg + 1 - 1 = seg
        /\ seg + 1 \in 1..(Len(data) + 1)
    BY <1>1, <1>3, <1>4
  <1>6. SizeOf(data, n_samples, p, seg) \in Nat
    BY <1>3, <1>5, LengthFacts
  <1>7. PICK h : /\ IsTally(h, seg, data, n_samples, p)
                 /\ h[seg] = f[seg - 1] + SizeOf(data, n_samples, p, seg)
    <2>1. PICK m \in Nat : m = seg - 1 /\ m + 1 = seg
      BY <1>5
    <2>2. \E h : /\ IsTally(h, m + 1, data, n_samples, p)
                 /\ h[m + 1] = f[m] + SizeOf(data, n_samples, p, m + 1)
      BY <1>4, <1>6, <2>1, TallyGrows
    <2> QED
      BY <2>1, <2>2
  <1>8. spliced' = [size |-> h[seg], offset |-> 0]
    BY <1>1, <1>4, <1>7
  <1>9. Sizing'
    BY <1>1, <1>4, <1>5, <1>7, <1>8 DEF Sizing
  <1> QED
    BY <1>1, <1>2, <1>9 DEF JoinInv, NotJoined, Copying, Copied, Usable

LEMMA JoinResize ==
    ASSUME PaddedCalls, VadInv, JoinInv, Resize \/ ResizeFails
    PROVE  JoinInv'
  <1>1. /\ pc = "size" /\ seg > Len(data)
        /\ calls' = calls /\ p' = p /\ n_samples' = n_samples /\ loaded' = loaded /\ data' = data
        /\ has_vad_segments' = has_vad_segments /\ vad_mapping_table' = vad_mapping_table
        /\ vad_segments' = vad_segments /\ result' = result
    BY DEF Resize, ResizeFails, vadState
  <1>2. CallTypes'
    BY <1>1, SameTypes DEF JoinInv
  <1>3. GoodSegments(data, n_samples) /\ n_samples \in Nat /\ p.overlap_ms \in Nat /\ Len(data) \in Nat
    BY <1>1, DataGood DEF JoinInv, Found
  <1>4. PICK f : /\ has_vad_segments /\ vad_mapping_table = <<>> /\ vad_segments = <<>>
                 /\ Len(data) > 0 /\ seg \in 1..(Len(data) + 1)
                 /\ IsTally(f, seg - 1, data, n_samples, p) /\ spliced = [size |-> f[seg - 1], offset |-> 0]
    BY <1>1 DEF JoinInv, Sizing
  <1>5. ASSUME ResizeFails PROVE JoinInv'
    <2>1. pc' = "idle"
      BY <1>5 DEF ResizeFails
    <2> QED
      BY <1>1, <1>2, <1>4, <2>1 DEF JoinInv, NotJoined, Sizing, Copying, Copied, Usable
  <1>6. ASSUME Resize PROVE JoinInv'
    <2>1. pc' = "copy" /\ seg' = 1 /\ spliced' = [size |-> TotalSamples, offset |-> 0]
      BY <1>6 DEF Resize
    <2>2. PICK len \in Nat : len = Len(data) /\ seg - 1 = len /\ IsTally(f, len, data, n_samples, p)
      BY <1>1, <1>3, <1>4
    <2>3. f[len] \in Nat /\ f[0] = 0
      BY <2>2 DEF IsTally
    <2>4. Place(f, len + 1, data) = f[len] + (len - 1) * SilenceSamples
      <3>1. ~(len + 1 <= Len(data)) /\ len + 1 - 1 = len
        BY <2>2
      <3> QED
        BY <2>2, <3>1 DEF Place
    <2>5. Place(f, 1, data) = 0
      <3>1. 1 <= Len(data)
        BY <1>3, <1>4
      <3>2. Place(f, 1, data) = f[1 - 1] + (1 - 1) * SilenceSamples
        BY <3>1, Zenon DEF Place
      <3> QED
        BY <2>3, <3>2, SilenceValue
    <2>6. TotalSamples = f[len] + (len - 1) * SilenceSamples
      BY <1>4, <2>2 DEF TotalSamples
    <2>7. PointsBefore(<<>>, data, 1, 0) /\ InfosBefore(<<>>, data, 1, 0)
      BY NothingBefore
    <2>8. samples_to_cs(spliced'.offset) = 0 /\ 1 \in 1..(Len(data) + 1)
      BY <1>3, <2>1, RoundingFacts
    <2>9. spliced' = [size |-> Place(f, Len(data) + 1, data), offset |-> Place(f, 1, data)]
      BY <2>1, <2>2, <2>4, <2>5, <2>6
    <2>10. Copying'
      BY <1>1, <1>4, <2>1, <2>2, <2>7, <2>8, <2>9 DEF Copying
    <2> QED
      BY <1>2, <2>1, <2>10 DEF JoinInv, NotJoined, Sizing, Copied, Usable
  <1> QED
    BY <1>5, <1>6

LEMMA JoinCopy ==
    ASSUME PaddedCalls, VadInv, JoinInv, CopySegment
    PROVE  JoinInv'
  <1>1. /\ pc = "copy" /\ pc' = "copy" /\ seg <= Len(data) /\ seg' = seg + 1
        /\ calls' = calls /\ p' = p /\ n_samples' = n_samples /\ loaded' = loaded /\ data' = data
        /\ has_vad_segments' = has_vad_segments /\ result' = result
    BY DEF CopySegment
  <1>2. CallTypes'
    BY <1>1, SameTypes DEF JoinInv
  <1>3. GoodSegments(data, n_samples) /\ n_samples \in Nat /\ p.overlap_ms \in Nat /\ Len(data) \in Nat
    BY <1>1, DataGood DEF JoinInv, Found
  <1>4. PICK f : /\ has_vad_segments /\ Len(data) > 0 /\ seg \in 1..(Len(data) + 1)
                 /\ IsTally(f, Len(data), data, n_samples, p)
                 /\ spliced = [size |-> Place(f, Len(data) + 1, data), offset |-> Place(f, seg, data)]
                 /\ PointsBefore(vad_mapping_table, data, seg, samples_to_cs(spliced.offset))
                 /\ InfosBefore(vad_segments, data, seg, samples_to_cs(spliced.offset))
    BY <1>1 DEF JoinInv, Copying
  <1>5. seg \in 1..Len(data) /\ seg + 1 \in 1..(Len(data) + 1)
    BY <1>1, <1>3, <1>4
  <1>6. PICK offset \in Nat : offset = Place(f, seg, data) /\ offset = spliced.offset
    <2>1. Place(f, seg, data) \in Nat
      BY <1>3, <1>4, <1>5, PlaceFacts
    <2> QED
      BY <1>4, <2>1
  <1>7. PICK next : /\ next = offset + CutLength(data, n_samples, p, seg) + SilenceAfter(data, seg)
                    /\ next = Place(f, seg + 1, data)
    BY <1>3, <1>4, <1>5, <1>6, PlaceFacts
  <1>8. CutLength(data, n_samples, p, seg) > 0
    <2>1. PICK a \in Nat, b \in Nat, c \in Nat :
              /\ a = CutStart(data, n_samples, seg) /\ b = CutEnd(data, n_samples, seg)
              /\ c = CutLength(data, n_samples, p, seg) /\ a + 160 <= b /\ b - a <= c
      BY <1>3, <1>5, LengthFacts
    <2> QED
      BY <2>1
  <1>9. /\ vad_segments' = Append(vad_segments, SegmentInfo(data, n_samples, seg, offset))
        /\ vad_mapping_table' = vad_mapping_table \o Points(data, n_samples, p, seg, offset)
        /\ spliced' = [size |-> Place(f, Len(data) + 1, data), offset |-> next]
    <2>1. /\ vad_segments' = Append(vad_segments, SegmentInfo(data, n_samples, seg, spliced.offset))
          /\ vad_mapping_table' = vad_mapping_table \o Points(data, n_samples, p, seg, spliced.offset)
          /\ spliced' = [spliced EXCEPT !.offset = @ + CutLength(data, n_samples, p, seg) + SilenceAfter(data, seg)]
      BY <1>8 DEF CopySegment
    <2>2. spliced' = [size |-> Place(f, Len(data) + 1, data), offset |-> next]
      BY <1>4, <1>6, <1>7, <2>1
    <2> QED
      BY <1>6, <2>1, <2>2
  <1>10. PointsBefore(vad_mapping_table', data, seg + 1, samples_to_cs(next))
    <2>1. PointsBefore(vad_mapping_table, data, seg, samples_to_cs(offset))
      BY <1>4, <1>6
    <2>2. PointsBefore(vad_mapping_table \o Points(data, n_samples, p, seg, offset), data, seg + 1,
                       samples_to_cs(offset + CutLength(data, n_samples, p, seg) + SilenceAfter(data, seg)))
      BY <1>3, <1>5, <2>1, CopyPoints
    <2> QED
      BY <1>7, <1>9, <2>2
  <1>11. InfosBefore(vad_segments', data, seg + 1, samples_to_cs(next))
    <2>1. InfosBefore(vad_segments, data, seg, samples_to_cs(offset))
      BY <1>4, <1>6
    <2>2. InfosBefore(Append(vad_segments, SegmentInfo(data, n_samples, seg, offset)), data, seg + 1,
                      samples_to_cs(offset + CutLength(data, n_samples, p, seg) + SilenceAfter(data, seg)))
      BY <1>3, <1>5, <2>1, CopyInfos
    <2> QED
      BY <1>7, <1>9, <2>2
  <1>12. Copying'
    <2>1. spliced'.offset = next /\ spliced' = [size |-> Place(f, Len(data) + 1, data), offset |-> Place(f, seg + 1, data)]
      BY <1>7, <1>9
    <2> QED
      BY <1>1, <1>4, <1>5, <1>10, <1>11, <2>1 DEF Copying
  <1> QED
    BY <1>1, <1>2, <1>12 DEF JoinInv, NotJoined, Sizing, Copied, Usable

LEMMA JoinSort ==
    ASSUME PaddedCalls, VadInv, JoinInv, SortTable
    PROVE  JoinInv'
  <1>1. /\ pc = "copy" /\ pc' = "transcribe" /\ seg > Len(data)
        /\ vad_mapping_table' = MappingTable(vad_mapping_table) /\ vad_segments' = vad_segments /\ spliced' = spliced
        /\ calls' = calls /\ p' = p /\ n_samples' = n_samples /\ loaded' = loaded /\ data' = data
        /\ has_vad_segments' = has_vad_segments /\ result' = result
    BY DEF SortTable
  <1>2. CallTypes'
    BY <1>1, SameTypes DEF JoinInv
  <1>3. GoodSegments(data, n_samples) /\ n_samples \in Nat /\ p.overlap_ms \in Nat /\ Len(data) \in Nat
    BY <1>1, DataGood DEF JoinInv, Found
  <1>4. PICK f : /\ has_vad_segments /\ Len(data) > 0 /\ seg \in 1..(Len(data) + 1)
                 /\ IsTally(f, Len(data), data, n_samples, p)
                 /\ spliced = [size |-> Place(f, Len(data) + 1, data), offset |-> Place(f, seg, data)]
                 /\ PointsBefore(vad_mapping_table, data, seg, samples_to_cs(spliced.offset))
                 /\ InfosBefore(vad_segments, data, seg, samples_to_cs(spliced.offset))
    BY <1>1 DEF JoinInv, Copying
  <1>5. seg = Len(data) + 1
    BY <1>1, <1>3, <1>4
  <1>6. PICK size \in Nat : size = spliced.size /\ size = spliced.offset
    <2>1. Place(f, Len(data) + 1, data) \in Nat
      <3>1. 1 \in 1..Len(data)
        BY <1>3, <1>4
      <3> QED
        BY <1>3, <1>4, <3>1, PlaceFacts
    <2> QED
      BY <1>4, <1>5, <2>1
  <1>7. PICK to \in Nat : to = samples_to_cs(size)
    BY RoundingFacts
  <1>8. PICK lo \in Nat, hi \in Nat : lo = data[1].start /\ hi = data[Len(data)].end /\ hi = Reached(data, seg)
    <2>1. 1 \in 1..Len(data) /\ Len(data) \in 1..Len(data) /\ ~(seg <= Len(data))
      BY <1>3, <1>4, <1>5
    <2> QED
      BY <1>3, <2>1 DEF GoodSegments, Reached
  <1>9. BehindFrom(vad_mapping_table, lo, to, hi) /\ vad_mapping_table # <<>>
    <2>1. seg > 1
      BY <1>3, <1>4, <1>5
    <2> QED
      BY <1>4, <1>6, <1>7, <1>8, <2>1 DEF PointsBefore
  <1>10. TableInOrder(vad_mapping_table', lo, hi)
    BY <1>1, <1>9, SortedTable
  <1>11. /\ SegsInOrder(vad_segments) /\ vad_segments[1].orig_start = lo
         /\ vad_segments[Len(vad_segments)].orig_end = hi
    BY <1>3, <1>4, <1>5, <1>8, SortedInfos
  <1>12. Joined'
    BY <1>1, <1>10, <1>11 DEF Joined
  <1>13. Copied'
    BY <1>1, <1>4, <1>6 DEF Copied
  <1> QED
    BY <1>1, <1>2, <1>12, <1>13 DEF JoinInv, NotJoined, Sizing, Copying, Usable

LEMMA JoinEnd ==
    ASSUME JoinInv, NoSpeech \/ Transcribe
    PROVE  JoinInv'
  <1>1. /\ pc = "transcribe" /\ pc' = "idle"
        /\ vad_mapping_table' = vad_mapping_table /\ vad_segments' = vad_segments
        /\ calls' = calls /\ n_samples' = n_samples /\ loaded' = loaded /\ data' = data
        /\ has_vad_segments' = has_vad_segments
    BY DEF NoSpeech, Transcribe, vadState
  <1>2. result' \in [kind : {"none", "plain", "vad"}, len : Nat]
    <2>1. samples_to_cs(spliced.size) \in Nat
      BY <1>1, RoundingFacts DEF JoinInv, Copied
    <2> QED
      BY <2>1 DEF NoSpeech, Transcribe, NoResult
  <1>3. CallTypes'
    BY <1>1, <1>2 DEF JoinInv, CallTypes
  <1>4. Usable'
    BY <1>1 DEF JoinInv, Usable, Joined
  <1> QED
    BY <1>1, <1>3, <1>4 DEF JoinInv, NotJoined, Sizing, Copying, Copied

LEMMA JoinStep == PaddedCalls /\ VadInv /\ JoinInv /\ [Next]_vars => JoinInv'
  <1> SUFFICES ASSUME PaddedCalls, VadInv, JoinInv, [Next]_vars PROVE JoinInv'
    OBVIOUS
  <1>1. CASE UNCHANGED vars
    BY <1>1 DEF vars, JoinInv, CallTypes, NotJoined, Sizing, Copying, Copied, Usable, Joined
  <1>2. CASE Next
    BY <1>2, JoinCall, JoinFind, JoinSize, JoinResize, JoinCopy, JoinSort, JoinEnd, Zenon DEF Next
  <1> QED
    BY <1>1, <1>2

\* What the loops of whisper_vad keep: the sizes add up, the table and the infos grow in order.
THEOREM JoinInvariant == PaddedCalls => (Spec => []JoinInv)
  <1> SUFFICES ASSUME PaddedCalls PROVE Spec => []JoinInv
    OBVIOUS
  <1>1. VadInv /\ JoinInv /\ [Next]_vars => JoinInv'
    BY JoinStep
  <1> QED
    BY <1>1, InitJoin, DetectorInvariant, PTL DEF Spec

\* The type invariant.
THEOREM VadTypesHold == PaddedCalls => (Spec => []VadTypeOK)
  <1> SUFFICES ASSUME PaddedCalls PROVE Spec => []VadTypeOK
    OBVIOUS
  <1>1. VadInv /\ JoinInv => VadTypeOK
    <2> SUFFICES ASSUME VadInv, JoinInv PROVE VadTypeOK
      OBVIOUS
    <2>1. CallTypes
      BY DEF JoinInv
    <2>2. /\ det \in DetectorType /\ WellApart(det.speeches, Sample(det))
          /\ DetectorOK(det, Sample(det), p) /\ Sample(det) = AudioLength(det) /\ Sample(det) \in Nat
      BY SampleFacts DEF VadInv, DetectorOK, Sample, AudioLength
    <2>3. PICK now \in Nat, start \in Nat, temp \in Nat, prev \in Nat, next \in Nat :
              /\ now = AudioLength(det) /\ start = det.start /\ temp = det.temp_end
              /\ prev = det.prev_end /\ next = det.next_start
              /\ start <= now
              /\ temp # 0 => start + Window <= temp /\ temp + Window <= now
              /\ prev # 0 => start + Window <= prev /\ prev + Window <= now
              /\ next # 0 => next + Window <= now
      BY <2>2 DEF DetectorOK, DetectorType, Inside
    <2>4. {det.start, det.temp_end, det.prev_end, det.next_start} \subseteq 0..AudioLength(det)
      <3>1. {start, temp, prev, next} \subseteq 0..now
        BY <2>3, WindowFacts
      <3> QED
        BY <2>3, <3>1, Zenon
    <2>5. \A k \in DOMAIN det.speeches : det.speeches[k].start \in Nat /\ det.speeches[k].end \in Nat
      BY <2>2, ApartType
    <2>6. calls.vad \in 0..MaxVadCalls /\ calls.all \in 0..MaxCalls
      BY <2>1 DEF CallTypes
    <2>7. result.kind \in {"none", "plain", "vad"} /\ result.len \in Nat
      BY <2>1 DEF CallTypes
    <2>8. det.i \in Nat /\ det.is_speech \in BOOLEAN
      BY <2>2 DEF DetectorType
    <2>9. /\ pc \in {"idle", "load", "detect", "size", "copy", "transcribe"} /\ p \in VadParams
          /\ pc # "idle" => det.i <= NChunks(n_samples)
      BY DEF VadInv
    <2> QED
      BY <2>1, <2>4, <2>5, <2>6, <2>7, <2>8, <2>9 DEF VadTypeOK, CallTypes
  <1> QED
    BY <1>1, JoinInvariant, DetectorInvariant, PTL

\* The second loop of whisper_vad writes what the first one counted: no sample of the joined
\* audio is left over, and none is written after it.
THEOREM BufferIsFilled == PaddedCalls => (Spec => []SpliceFillsBuffer)
  <1> SUFFICES ASSUME PaddedCalls PROVE Spec => []SpliceFillsBuffer
    OBVIOUS
  <1>1. VadInv /\ JoinInv => SpliceFillsBuffer
    <2> SUFFICES ASSUME VadInv, JoinInv PROVE SpliceFillsBuffer
      OBVIOUS
    <2>1. pc \in {"size", "copy"} => /\ GoodSegments(data, n_samples) /\ n_samples \in Nat
                                     /\ p.overlap_ms \in Nat /\ Len(data) \in Nat
      BY DataGood DEF JoinInv, Found
    <2>2. ASSUME pc = "size", seg > Len(data) PROVE TotalSamples >= 0
      <3>1. PICK f : /\ Len(data) > 0 /\ seg \in 1..(Len(data) + 1)
                     /\ IsTally(f, seg - 1, data, n_samples, p) /\ spliced = [size |-> f[seg - 1], offset |-> 0]
        BY <2>2 DEF JoinInv, Sizing
      <3>2. PICK x \in Nat, len \in Nat : x = spliced.size /\ len = Len(data) /\ len > 0
        <4>1. seg - 1 \in 0..(seg - 1)
          BY <2>1, <2>2, <3>1
        <4>2. f[seg - 1] \in Nat
          BY <3>1, <4>1 DEF IsTally
        <4> QED
          BY <2>1, <2>2, <3>1, <4>2
      <3>3. TotalSamples = x + (len - 1) * 1600
        BY <3>2, SilenceValue DEF TotalSamples
      <3> QED
        BY <3>2, <3>3
    <2>3. ASSUME pc = "copy" PROVE spliced.offset <= spliced.size
      <3>1. PICK f : /\ Len(data) > 0 /\ seg \in 1..(Len(data) + 1)
                     /\ IsTally(f, Len(data), data, n_samples, p)
                     /\ spliced = [size |-> Place(f, Len(data) + 1, data), offset |-> Place(f, seg, data)]
        BY <2>3 DEF JoinInv, Copying
      <3>2. CASE seg = Len(data) + 1
        <4>1. 1 \in 1..Len(data)
          BY <2>1, <2>3, <3>1
        <4>2. Place(f, Len(data) + 1, data) \in Nat
          BY <2>1, <2>3, <3>1, <4>1, PlaceFacts
        <4> QED
          BY <3>1, <3>2, <4>2
      <3>3. CASE seg # Len(data) + 1
        <4>1. seg \in 1..Len(data)
          BY <2>1, <2>3, <3>1, <3>3
        <4> QED
          BY <2>1, <2>3, <3>1, <4>1, PlaceFacts
      <3> QED
        BY <3>2, <3>3
    <2>4. pc = "transcribe" => spliced.offset = spliced.size
      BY DEF JoinInv, Copied
    <2> QED
      BY <2>2, <2>3, <2>4 DEF SpliceFillsBuffer
  <1> QED
    BY <1>1, JoinInvariant, DetectorInvariant, PTL

\* The order std::sort leaves equal processed times in and the one std::unique keeps do not
\* matter, and the table the getters search grows in both times.
THEOREM TableIsMonotone == PaddedCalls => (Spec => []TableMonotone)
  <1> SUFFICES ASSUME PaddedCalls PROVE Spec => []TableMonotone
    OBVIOUS
  <1>1. VadInv /\ JoinInv => TableMonotone
    <2> SUFFICES ASSUME VadInv, JoinInv PROVE TableMonotone
      OBVIOUS
    <2>1. ASSUME pc = "copy", NEW a \in DOMAIN vad_mapping_table, NEW b \in DOMAIN vad_mapping_table,
                 vad_mapping_table[a].processed_time = vad_mapping_table[b].processed_time
          PROVE  vad_mapping_table[a] = vad_mapping_table[b]
      <3>1. vad_mapping_table \in Seq(PointType) /\ Agree(vad_mapping_table)
        BY <2>1 DEF JoinInv, Copying, PointsBefore, BehindFrom, Behind
      <3>2. PICK x \in PointType, y \in PointType : x = vad_mapping_table[a] /\ y = vad_mapping_table[b]
        BY <3>1
      <3>3. x.processed_time = y.processed_time /\ x.processed_time \in Nat
            /\ x.original_time \in Nat /\ y.original_time \in Nat
        BY <2>1, <3>2 DEF PointType
      <3>4. x.original_time <= y.original_time /\ y.original_time <= x.original_time
        BY <3>1, <3>2, <3>3 DEF Agree
      <3>5. x.original_time = y.original_time
        BY <3>3, <3>4
      <3> QED
        BY <3>2, <3>3, <3>5 DEF PointType
    <2>2. ASSUME pc = "transcribe", NEW k \in 1..(Len(vad_mapping_table) - 1)
          PROVE  /\ vad_mapping_table[k].processed_time < vad_mapping_table[k + 1].processed_time
                 /\ vad_mapping_table[k].original_time <= vad_mapping_table[k + 1].original_time
      <3>1. CASE vad_mapping_table = <<>>
        BY <2>2, <3>1
      <3>2. CASE vad_mapping_table # <<>>
        <4>1. has_vad_segments
          BY <2>2, <3>2 DEF JoinInv, Copied
        <4> QED
          BY <2>2, <3>2, <4>1 DEF JoinInv, Usable, Joined, TableInOrder
      <3> QED
        BY <3>1, <3>2
    <2> QED
      BY <2>1, <2>2 DEF TableMonotone
  <1> QED
    BY <1>1, JoinInvariant, DetectorInvariant, PTL
-----------------------------------------------------------------------------
(* From the time of the joined audio back to the audio.                    *)

LEMMA QuotientFacts ==
    ASSUME NEW a \in Nat, NEW b \in Nat \ {0}
    PROVE  a \div b \in Nat /\ b * (a \div b) <= a /\ a < b * (a \div b) + b
  BY SMT

LEMMA ProductMono ==
    ASSUME NEW a \in Nat, NEW b \in Nat, NEW k \in Nat, a <= b
    PROVE  /\ a * k \in Nat /\ b * k \in Nat /\ k * a \in Nat /\ k * b \in Nat
           /\ a * k <= b * k /\ k * a <= k * b
  BY SMT

\* A quotient and one that is not smaller, by what they are divided from.
LEMMA QuotientMono ==
    ASSUME NEW a \in Nat, NEW b \in Nat, NEW k \in Nat \ {0}, a <= b
    PROVE  a \div k <= b \div k
  <1>1. PICK x \in Nat, y \in Nat : x = a \div k /\ k * x <= a /\ y = b \div k /\ b < k * y + k
    BY QuotientFacts
  <1>2. SUFFICES ASSUME y + 1 <= x PROVE FALSE
    BY <1>1
  <1>3. k * (y + 1) <= k * x
    BY <1>1, <1>2, ProductMono
  <1>4. k * (y + 1) = k * y + k /\ k * y \in Nat /\ k * x \in Nat
    BY <1>1
  <1> QED
    BY <1>1, <1>3, <1>4

\* The line from (x0, y0) to (x1, y1), rounded down.
Line(t, x0, y0, x1, y1) == y0 + ((t - x0) * (y1 - y0)) \div (x1 - x0)

\* It stays between its ends, reaches the last, and does not fall.
LEMMA LineFacts ==
    ASSUME NEW x0 \in Nat, NEW y0 \in Nat, NEW x1 \in Nat, NEW y1 \in Nat, x0 < x1, y0 <= y1,
           NEW s \in Nat, NEW t \in Nat, x0 <= s, s <= t, t <= x1
    PROVE  /\ Line(s, x0, y0, x1, y1) \in Nat /\ Line(t, x0, y0, x1, y1) \in Nat
           /\ y0 <= Line(s, x0, y0, x1, y1)
           /\ Line(s, x0, y0, x1, y1) <= Line(t, x0, y0, x1, y1)
           /\ Line(t, x0, y0, x1, y1) <= y1
           /\ Line(x1, x0, y0, x1, y1) = y1
  <1>1. PICK a \in Nat, b \in Nat, w \in Nat \ {0}, h \in Nat :
            a = s - x0 /\ b = t - x0 /\ w = x1 - x0 /\ h = y1 - y0 /\ a <= b /\ b <= w
    <2>1. s - x0 \in Nat /\ t - x0 \in Nat /\ x1 - x0 \in Nat \ {0} /\ y1 - y0 \in Nat
          /\ s - x0 <= t - x0 /\ t - x0 <= x1 - x0
      OBVIOUS
    <2> QED
      BY <2>1, Zenon
  <1>2. PICK A \in Nat, B \in Nat, W \in Nat : A = a * h /\ B = b * h /\ W = w * h /\ A <= B /\ B <= W
    <2>1. a * h \in Nat /\ b * h \in Nat /\ w * h \in Nat /\ a * h <= b * h /\ b * h <= w * h
      BY <1>1, ProductMono
    <2> QED
      BY <2>1, Zenon
  <1>3. PICK qa \in Nat, qb \in Nat, qw \in Nat :
            qa = A \div w /\ qb = B \div w /\ qw = W \div w /\ qa <= qb /\ qb <= qw
    <2>1. A \div w \in Nat /\ B \div w \in Nat /\ W \div w \in Nat /\ A \div w <= B \div w /\ B \div w <= W \div w
      BY <1>2, QuotientFacts, QuotientMono
    <2> QED
      BY <2>1, Zenon
  <1>4. qw = h
    <2>1. w * qw <= w * h /\ w * h < w * qw + w
      BY <1>2, <1>3, QuotientFacts
    <2>2. ASSUME h + 1 <= qw PROVE FALSE
      <3>1. w * (h + 1) <= w * qw
        BY <2>2, ProductMono
      <3>2. w * (h + 1) = w * h + w /\ w * h \in Nat /\ w * qw \in Nat
        OBVIOUS
      <3> QED
        BY <2>1, <3>1, <3>2
    <2>3. ASSUME qw + 1 <= h PROVE FALSE
      <3>1. w * (qw + 1) <= w * h
        BY <2>3, ProductMono
      <3>2. w * (qw + 1) = w * qw + w /\ w * h \in Nat /\ w * qw \in Nat
        OBVIOUS
      <3> QED
        BY <2>1, <3>1, <3>2
    <2> QED
      BY <2>2, <2>3
  <1>5. /\ Line(s, x0, y0, x1, y1) = y0 + qa /\ Line(t, x0, y0, x1, y1) = y0 + qb
        /\ Line(x1, x0, y0, x1, y1) = y0 + qw
    BY <1>1, <1>2, <1>3, Zenon DEF Line
  <1>6. y0 + h = y1
    BY <1>1
  <1> QED
    BY <1>3, <1>4, <1>5, <1>6

LEMMA LineEnd ==
    ASSUME NEW x0 \in Nat, NEW y0 \in Nat, NEW x1 \in Nat, NEW y1 \in Nat, x0 < x1, y0 <= y1
    PROVE  Line(x1, x0, y0, x1, y1) = y1
  <1>1. x0 <= x1 /\ x1 <= x1
    OBVIOUS
  <1> QED
    BY <1>1, LineFacts

\* The least of a set of naturals.
LEMMA MinOfNats ==
    ASSUME NEW S \in SUBSET Nat, S # {}
    PROVE  Min(S) \in S /\ \A k \in S : Min(S) <= k
  <1>1. \E m \in S : \A k \in S : m <= k
    BY LeastNat
  <1> QED
    BY <1>1, Zenon DEF Min

\* A time lies before the table, after it, or between two neighbours of it.
LEMMA MapForm ==
    ASSUME NEW table, NEW lo \in Nat, NEW hi \in Nat, TableInOrder(table, lo, hi), NEW t \in Nat
    PROVE  \/ t <= table[1].processed_time /\ map_processed_to_original_time(t, table) = table[1].original_time
           \/ /\ t >= table[Len(table)].processed_time
              /\ map_processed_to_original_time(t, table) = table[Len(table)].original_time
           \/ \E k \in 2..Len(table) :
                /\ table[k - 1].processed_time < t /\ t <= table[k].processed_time
                /\ map_processed_to_original_time(t, table)
                     = Line(t, table[k - 1].processed_time, table[k - 1].original_time,
                               table[k].processed_time, table[k].original_time)
  <1>1. table \in Seq(PointType) /\ table # <<>> /\ DOMAIN table = 1..Len(table) /\ Len(table) \in Nat /\ Len(table) > 0
    BY DEF TableInOrder
  <1>2. \A k \in 1..Len(table) : table[k].processed_time \in Nat /\ table[k].original_time \in Nat
    <2> TAKE k \in 1..Len(table)
    <2>1. table[k] \in PointType
      BY <1>1
    <2> QED
      BY <2>1 DEF PointType
  <1>3. Head(table) = table[1] /\ Last(table) = table[Len(table)]
    BY <1>1 DEF Last
  <1>4. CASE t <= table[1].processed_time
    BY <1>1, <1>3, <1>4 DEF map_processed_to_original_time
  <1>5. CASE ~(t <= table[1].processed_time) /\ t >= table[Len(table)].processed_time
    BY <1>1, <1>3, <1>5 DEF map_processed_to_original_time
  <1>6. CASE ~(t <= table[1].processed_time) /\ ~(t >= table[Len(table)].processed_time)
    <2>1. PICK S : S = {j \in DOMAIN table : table[j].processed_time >= t}
      OBVIOUS
    <2>2. S \in SUBSET Nat /\ Len(table) \in S
      BY <1>1, <1>2, <1>6, <2>1
    <2>3. PICK k : k = Min(S) /\ k \in S /\ \A j \in S : k <= j
      BY <2>2, MinOfNats
    <2>4. k \in 2..Len(table) /\ t <= table[k].processed_time
      <3>1. k # 1
        BY <1>1, <1>2, <1>6, <2>1, <2>3
      <3> QED
        BY <1>1, <1>2, <2>1, <2>3, <3>1
    <2>5. table[k - 1].processed_time < t
      <3>1. k - 1 \in 1..Len(table) /\ k - 1 \notin S
        BY <1>1, <2>2, <2>3, <2>4
      <3> QED
        BY <1>1, <1>2, <2>1, <3>1
    <2>6. PICK x0 \in Nat, y0 \in Nat, x1 \in Nat, y1 \in Nat :
              /\ x0 = table[k - 1].processed_time /\ y0 = table[k - 1].original_time
              /\ x1 = table[k].processed_time /\ y1 = table[k].original_time
              /\ x0 < t /\ t <= x1 /\ y0 <= y1
      <3>1. k - 1 \in 1..Len(table) /\ k \in 1..Len(table) /\ k - 1 < k
        BY <1>1, <2>4
      <3>2. table[k - 1].original_time <= table[k].original_time
        BY <1>1, <3>1 DEF TableInOrder
      <3> QED
        BY <1>2, <2>4, <2>5, <3>1, <3>2
    <2>7. map_processed_to_original_time(t, table)
            = IF x1 = t THEN y1 ELSE y0 + ((t - x0) * (y1 - y0)) \div (x1 - x0)
      <3> DEFINE Value(j) ==
                   IF table[j].processed_time = t THEN table[j].original_time
                   ELSE table[j - 1].original_time
                          + ((t - table[j - 1].processed_time) * (table[j].original_time - table[j - 1].original_time))
                            \div (table[j].processed_time - table[j - 1].processed_time)
      <3>1. map_processed_to_original_time(t, table) =
              IF table = <<>> THEN t
              ELSE IF t <= Head(table).processed_time THEN Head(table).original_time
              ELSE IF t >= Last(table).processed_time THEN Last(table).original_time
              ELSE Value(Min({j \in DOMAIN table : table[j].processed_time >= t}))
        BY DEF map_processed_to_original_time
      <3>2. Value(k) = IF x1 = t THEN y1 ELSE y0 + ((t - x0) * (y1 - y0)) \div (x1 - x0)
        BY <2>6, Zenon
      <3> HIDE DEF Value
      <3>3. map_processed_to_original_time(t, table) = Value(k)
        BY <1>1, <1>3, <1>6, <2>1, <2>3, <3>1, Zenon
      <3> QED
        BY <3>2, <3>3, Zenon
    <2>8. map_processed_to_original_time(t, table) = Line(t, x0, y0, x1, y1)
      <3>1. CASE x1 = t
        <4>1. Line(x1, x0, y0, x1, y1) = y1
          BY <2>6, <3>1, LineEnd
        <4> QED
          BY <2>7, <3>1, <4>1
      <3>2. CASE x1 # t
        BY <2>7, <3>2, Zenon DEF Line
      <3> QED
        BY <3>1, <3>2
    <2> QED
      BY <2>4, <2>6, <2>8, Zenon
  <1> QED
    BY <1>4, <1>5, <1>6

\* What a getter returns lies in the table, and does not fall when the time grows.
LEMMA MapMono ==
    ASSUME NEW table, NEW lo \in Nat, NEW hi \in Nat, TableInOrder(table, lo, hi),
           NEW s \in Nat, NEW t \in Nat, s <= t
    PROVE  /\ map_processed_to_original_time(s, table) \in Nat /\ map_processed_to_original_time(t, table) \in Nat
           /\ lo <= map_processed_to_original_time(s, table) /\ map_processed_to_original_time(s, table) <= hi
           /\ map_processed_to_original_time(s, table) <= map_processed_to_original_time(t, table)
  <1>1. DOMAIN table = 1..Len(table) /\ Len(table) \in Nat /\ Len(table) > 0
    BY DEF TableInOrder
  <1>2. \A k \in 1..Len(table) : /\ table[k].processed_time \in Nat /\ table[k].original_time \in Nat
                                 /\ lo <= table[k].original_time /\ table[k].original_time <= hi
    <2> TAKE k \in 1..Len(table)
    <2>1. table[k] \in PointType
      BY <1>1 DEF TableInOrder
    <2> QED
      BY <1>1, <2>1 DEF PointType, TableInOrder
  <1>3. \A i, j \in 1..Len(table) : i <= j => /\ table[i].processed_time <= table[j].processed_time
                                              /\ table[i].original_time <= table[j].original_time
    <2> SUFFICES ASSUME NEW i \in 1..Len(table), NEW j \in 1..Len(table), i <= j
                 PROVE  /\ table[i].processed_time <= table[j].processed_time
                        /\ table[i].original_time <= table[j].original_time
      OBVIOUS
    <2>1. CASE i = j
      BY <1>2, <2>1
    <2>2. CASE i # j
      <3>1. i < j /\ i \in DOMAIN table /\ j \in DOMAIN table
        BY <1>1, <2>2
      <3>2. /\ table[i].processed_time < table[j].processed_time
            /\ table[i].original_time <= table[j].original_time
        BY <3>1 DEF TableInOrder
      <3> QED
        BY <1>2, <3>2
    <2> QED
      BY <2>1, <2>2
  <1>4. 1 \in 1..Len(table) /\ Len(table) \in 1..Len(table)
    BY <1>1
  <1> DEFINE M(x) == map_processed_to_original_time(x, table)
             InTable(x, k) ==
               /\ table[k - 1].processed_time < x /\ x <= table[k].processed_time
               /\ M(x) = Line(x, table[k - 1].processed_time, table[k - 1].original_time,
                                 table[k].processed_time, table[k].original_time)
             First(x) == x <= table[1].processed_time /\ M(x) = table[1].original_time
             After(x) == x >= table[Len(table)].processed_time /\ M(x) = table[Len(table)].original_time
  <1>5. \A x \in Nat : First(x) \/ After(x) \/ \E k \in 2..Len(table) : InTable(x, k)
    BY MapForm
  <1>6. \A k \in 2..Len(table) : k \in 1..Len(table) /\ k - 1 \in 1..Len(table) /\ k - 1 < k
    BY <1>1
  <1>7. ASSUME NEW x \in Nat, NEW k \in 2..Len(table), InTable(x, k)
        PROVE  M(x) \in Nat /\ table[k - 1].original_time <= M(x) /\ M(x) <= table[k].original_time
    <2>1. PICK x0 \in Nat, y0 \in Nat, x1 \in Nat, y1 \in Nat :
              /\ x0 = table[k - 1].processed_time /\ y0 = table[k - 1].original_time
              /\ x1 = table[k].processed_time /\ y1 = table[k].original_time
              /\ x0 < x /\ x <= x1 /\ y0 <= y1
      BY <1>2, <1>3, <1>6, <1>7
    <2>2. M(x) = Line(x, x0, y0, x1, y1)
      BY <1>7, <2>1, Zenon
    <2>3. x0 < x1 /\ x0 <= x /\ x <= x
      BY <2>1
    <2>4. Line(x, x0, y0, x1, y1) \in Nat /\ y0 <= Line(x, x0, y0, x1, y1) /\ Line(x, x0, y0, x1, y1) <= y1
      BY <2>1, <2>3, LineFacts
    <2> QED
      BY <2>1, <2>2, <2>4, Zenon
  <1>8. ASSUME NEW k \in 2..Len(table), InTable(s, k), InTable(t, k) PROVE M(s) <= M(t)
    <2>1. PICK x0 \in Nat, y0 \in Nat, x1 \in Nat, y1 \in Nat :
              /\ x0 = table[k - 1].processed_time /\ y0 = table[k - 1].original_time
              /\ x1 = table[k].processed_time /\ y1 = table[k].original_time
              /\ x0 < s /\ t <= x1 /\ y0 <= y1
      <3>1. table[k - 1].processed_time < s /\ t <= table[k].processed_time
        BY <1>8
      <3>2. k \in 1..Len(table) /\ k - 1 \in 1..Len(table) /\ k - 1 <= k
        BY <1>6
      <3>3. table[k - 1].original_time <= table[k].original_time
        BY <1>3, <3>2
      <3> QED
        BY <1>2, <3>1, <3>2, <3>3
    <2>2. M(s) = Line(s, x0, y0, x1, y1) /\ M(t) = Line(t, x0, y0, x1, y1)
      BY <1>8, <2>1, Zenon
    <2>3. x0 < x1 /\ x0 <= s
      BY <2>1
    <2>4. Line(s, x0, y0, x1, y1) <= Line(t, x0, y0, x1, y1)
      BY <2>1, <2>3, LineFacts
    <2> QED
      BY <2>2, <2>4, Zenon
  <1> HIDE DEF M, InTable
  <1>9. \A x \in Nat : M(x) \in Nat /\ lo <= M(x) /\ M(x) <= hi
    <2> TAKE x \in Nat
    <2>1. CASE First(x) \/ After(x)
      BY <1>2, <1>4, <2>1
    <2>2. ASSUME NEW k \in 2..Len(table), InTable(x, k) PROVE M(x) \in Nat /\ lo <= M(x) /\ M(x) <= hi
      <3>1. PICK a \in Nat, b \in Nat : a = table[k - 1].original_time /\ b = table[k].original_time
                                        /\ lo <= a /\ b <= hi
        BY <1>2, <1>6
      <3>2. M(x) \in Nat /\ a <= M(x) /\ M(x) <= b
        BY <1>7, <2>2, <3>1
      <3> QED
        BY <3>1, <3>2
    <2> QED
      BY <1>5, <2>1, <2>2
  <1>10. M(s) <= M(t)
    <2>1. M(s) \in Nat /\ M(t) \in Nat
      BY <1>9
    <2>2. PICK o1 \in Nat, on \in Nat, p1 \in Nat, pn \in Nat :
              /\ o1 = table[1].original_time /\ on = table[Len(table)].original_time
              /\ p1 = table[1].processed_time /\ pn = table[Len(table)].processed_time
              /\ o1 <= on /\ p1 <= pn
      BY <1>2, <1>3, <1>4
    <2>3. \A x \in Nat : o1 <= M(x) /\ M(x) <= on
      <3> TAKE x \in Nat
      <3>1. CASE First(x) \/ After(x)
        BY <2>2, <3>1
      <3>2. ASSUME NEW k \in 2..Len(table), InTable(x, k) PROVE o1 <= M(x) /\ M(x) <= on
        <4>1. PICK a \in Nat, b \in Nat : a = table[k - 1].original_time /\ b = table[k].original_time
                                          /\ o1 <= a /\ b <= on
          <5>1. /\ k \in 1..Len(table) /\ k - 1 \in 1..Len(table) /\ 1 <= k - 1 /\ k <= Len(table)
            BY <1>1, <1>6
          <5>2. table[1].original_time <= table[k - 1].original_time
                /\ table[k].original_time <= table[Len(table)].original_time
            BY <1>3, <1>4, <5>1
          <5> QED
            BY <1>2, <2>2, <5>1, <5>2
        <4>2. M(x) \in Nat /\ a <= M(x) /\ M(x) <= b
          BY <1>7, <3>2, <4>1
        <4> QED
          BY <4>1, <4>2
      <3> QED
        BY <1>5, <3>1, <3>2
    <2>4. CASE First(s) \/ After(t)
      BY <2>1, <2>2, <2>3, <2>4
    <2>5. CASE First(t) /\ ~First(s)
      <3>1. ASSUME NEW k \in 2..Len(table), InTable(s, k) PROVE FALSE
        <4>1. table[k - 1].processed_time < s /\ p1 <= table[k - 1].processed_time
              /\ table[k - 1].processed_time \in Nat
          BY <1>1, <1>2, <1>3, <1>4, <1>6, <2>2, <3>1 DEF InTable
        <4> QED
          BY <2>2, <2>5, <4>1
      <3>2. After(s)
        BY <1>5, <2>5, <3>1
      <3>3. pn <= s /\ s <= t /\ t <= p1
        BY <2>2, <2>5, <3>2
      <3>4. p1 = pn
        BY <2>2, <3>3
      <3>5. s <= p1 /\ ~(Len(table) > 1)
        <4>1. Len(table) > 1 => table[1].processed_time < table[Len(table)].processed_time
          BY <1>1, <1>4 DEF TableInOrder
        <4> QED
          BY <2>2, <3>3, <3>4, <4>1
      <3>6. Len(table) = 1
        BY <1>1, <3>5
      <3> QED
        BY <2>2, <2>5, <3>2, <3>6
    <2>6. CASE After(s) /\ ~After(t)
      <3>1. pn <= t
        BY <2>2, <2>6
      <3>2. ASSUME First(t) PROVE M(s) <= M(t)
        BY <2>4, <2>5, <3>2
      <3>3. ASSUME NEW k \in 2..Len(table), InTable(t, k) PROVE M(s) <= M(t)
        <4>1. PICK b \in Nat, q \in Nat : b = table[k].original_time /\ q = table[k].processed_time
                                          /\ q <= pn /\ t <= q
          <5>1. k \in 1..Len(table) /\ k <= Len(table)
            BY <1>1, <1>6
          <5>2. table[k].processed_time <= table[Len(table)].processed_time
            BY <1>3, <1>4, <5>1
          <5>3. t <= table[k].processed_time
            BY <3>3 DEF InTable
          <5> QED
            BY <1>2, <2>2, <5>1, <5>2, <5>3
        <4>2. q = pn /\ t = q
          BY <2>2, <3>1, <4>1
        <4>3. k = Len(table)
          <5>1. k < Len(table) => table[k].processed_time < table[Len(table)].processed_time
            BY <1>1, <1>4, <1>6 DEF TableInOrder
          <5>2. ~(table[k].processed_time < table[Len(table)].processed_time)
            BY <2>2, <4>1, <4>2
          <5>3. ~(k < Len(table))
            BY <5>1, <5>2, Zenon
          <5>4. PICK n \in Nat : n = Len(table)
            BY <1>1
          <5>5. k \in Nat /\ k <= n
            BY <5>4
          <5> QED
            BY <5>3, <5>4, <5>5
        <4>4. M(t) = on
          <5>1. PICK x0 \in Nat, y0 \in Nat :
                    /\ x0 = table[k - 1].processed_time /\ y0 = table[k - 1].original_time
                    /\ x0 < t /\ y0 <= on
            <6>1. k - 1 \in 1..Len(table) /\ k - 1 <= Len(table)
              BY <1>1, <1>6
            <6>2. table[k - 1].original_time <= table[Len(table)].original_time
              BY <1>3, <1>4, <6>1
            <6>3. table[k - 1].processed_time < t
              BY <3>3, Zenon DEF InTable
            <6>4. table[k - 1].processed_time \in Nat /\ table[k - 1].original_time \in Nat
              BY <1>2, <6>1, Zenon
            <6>5. table[k - 1].original_time <= on
              BY <2>2, <6>2
            <6> QED
              BY <6>3, <6>4, <6>5
          <5>2. M(t) = Line(t, x0, y0, t, on)
            <6>1. M(t) = Line(t, x0, y0, table[k].processed_time, table[k].original_time)
              BY <3>3, <5>1 DEF InTable
            <6> QED
              BY <2>2, <4>1, <4>2, <4>3, <6>1
          <5>3. Line(t, x0, y0, t, on) = on
            BY <5>1, LineEnd
          <5> QED
            BY <5>2, <5>3
        <4> QED
          BY <2>1, <2>2, <2>3, <4>4
      <3> QED
        BY <1>5, <2>6, <3>2, <3>3
    <2>7. ASSUME NEW k \in 2..Len(table), InTable(s, k), NEW m \in 2..Len(table), InTable(t, m)
          PROVE  M(s) <= M(t)
      <3>1. CASE k = m
        BY <1>8, <2>7, <3>1
      <3>2. CASE k < m
        <4>1. k \in 1..Len(table) /\ m - 1 \in 1..Len(table) /\ k <= m - 1
          BY <1>1, <3>2
        <4>2. PICK a \in Nat, b \in Nat : a = table[k].original_time /\ b = table[m - 1].original_time /\ a <= b
          BY <1>2, <1>3, <4>1
        <4>3. M(s) <= a /\ b <= M(t)
          BY <1>7, <2>7, <4>2
        <4> QED
          BY <2>1, <4>2, <4>3
      <3>3. CASE m < k
        <4>1. m \in 1..Len(table) /\ k - 1 \in 1..Len(table) /\ m <= k - 1
          BY <1>1, <3>3
        <4>2. PICK a \in Nat, b \in Nat : a = table[m].processed_time /\ b = table[k - 1].processed_time /\ a <= b
          BY <1>2, <1>3, <4>1
        <4>3. t <= a /\ b < s
          BY <2>7, <4>2 DEF InTable
        <4> QED
          BY <4>2, <4>3
      <3> QED
        BY <1>1, <3>1, <3>2, <3>3
    <2> QED
      BY <1>5, <2>4, <2>5, <2>6, <2>7
  <1> QED
    BY <1>9, <1>10 DEF M

\* Times of the results, whatever they are in the joined audio, come back in order, start in
\* the speech that was found, and end after they start.
THEOREM SegmentTimesAreInOrder == PaddedCalls => (Spec => []SegmentTimesInOrder)
  <1> SUFFICES ASSUME PaddedCalls PROVE Spec => []SegmentTimesInOrder
    OBVIOUS
  <1>1. JoinInv => SegmentTimesInOrder
    <2> SUFFICES ASSUME JoinInv, pc = "idle", Mapped, NEW t0 \in 0..result.len
                 PROVE  /\ whisper_full_get_segment_t0(t0)
                             \in Head(vad_segments).orig_start..Last(vad_segments).orig_end
                        /\ t0 > 0 => whisper_full_get_segment_t0(t0 - 1) <= whisper_full_get_segment_t0(t0)
                        /\ \A t1 \in {t0, result.len} :
                             whisper_full_get_segment_t0(t0) < whisper_full_get_segment_t1(t0, t1)
      BY DEF SegmentTimesInOrder
    <2>1. result.len \in Nat /\ t0 \in Nat
      BY DEF JoinInv, CallTypes
    <2>2. Joined
      BY DEF JoinInv, Usable, Mapped
    <2>3. PICK lo \in Nat, hi \in Nat :
              /\ lo = vad_segments[1].orig_start /\ hi = vad_segments[Len(vad_segments)].orig_end
              /\ lo = Head(vad_segments).orig_start /\ hi = Last(vad_segments).orig_end
              /\ TableInOrder(vad_mapping_table, lo, hi)
      <3>1. vad_segments \in Seq(InfoType) /\ vad_segments # <<>>
        BY <2>2 DEF Joined, SegsInOrder
      <3>2. PICK a \in InfoType, b \in InfoType : a = vad_segments[1] /\ b = vad_segments[Len(vad_segments)]
        BY <3>1
      <3>3. a.orig_start \in Nat /\ b.orig_end \in Nat
        BY <3>2 DEF InfoType
      <3>4. Head(vad_segments) = vad_segments[1] /\ Last(vad_segments) = vad_segments[Len(vad_segments)]
        BY <3>1 DEF Last
      <3> QED
        BY <2>2, <3>2, <3>3, <3>4 DEF Joined
    <2> DEFINE M(t) == map_processed_to_original_time(t, vad_mapping_table)
    <2>4. ASSUME NEW s \in Nat, NEW t \in Nat, s <= t
          PROVE  M(s) \in Nat /\ M(t) \in Nat /\ lo <= M(s) /\ M(s) <= hi /\ M(s) <= M(t)
      BY <2>3, <2>4, MapMono
    <2>5. \A t : whisper_full_get_segment_t0(t) = M(t)
      BY DEF whisper_full_get_segment_t0
    <2>6. \A t1 : whisper_full_get_segment_t1(t0, t1) = Max({M(t1), M(t0) + 10})
      BY <2>5 DEF whisper_full_get_segment_t1, MinDuration
    <2> HIDE DEF M
    <2>7. t0 <= t0 /\ M(t0) \in Nat /\ lo <= M(t0) /\ M(t0) <= hi
      BY <2>1, <2>4
    <2>8. ASSUME t0 > 0 PROVE M(t0 - 1) <= M(t0)
      <3>1. t0 - 1 \in Nat /\ t0 - 1 <= t0
        BY <2>1, <2>8
      <3> QED
        BY <2>1, <2>4, <3>1
    <2>9. ASSUME NEW t1 \in {t0, result.len} PROVE M(t0) < whisper_full_get_segment_t1(t0, t1)
      <3>1. t1 \in Nat /\ t1 <= t1
        BY <2>1
      <3>2. M(t1) \in Int /\ M(t0) + 10 \in Int
        BY <2>4, <2>7, <3>1
      <3>3. Max({M(t1), M(t0) + 10}) \in {M(t1), M(t0) + 10} /\ Max({M(t1), M(t0) + 10}) >= M(t0) + 10
        BY <3>2, LargerOfTwo
      <3>4. PICK x \in Int : x = Max({M(t1), M(t0) + 10}) /\ x >= M(t0) + 10
        BY <3>2, <3>3
      <3> QED
        BY <2>6, <2>7, <3>4
    <2> QED
      BY <2>3, <2>5, <2>7, <2>8, <2>9
  <1> QED
    BY <1>1, JoinInvariant, PTL

\* What whisper_map_token_time_segment_aware returns for a time inside segment k, or between
\* it and the next.
SegLine(t, s) == Line(t, s.vad_start, s.orig_start, s.vad_end, s.orig_end)

Inner(t, segs, k) ==
    /\ segs[k].vad_start <= t /\ t <= segs[k].vad_end
    /\ \A j \in 1..Len(segs) : j < k => segs[j].vad_end < t
    /\ whisper_map_token_time_segment_aware(t, segs) = SegLine(t, segs[k])

Outer(t, segs, k) ==
    /\ k < Len(segs) /\ segs[k].vad_end < t /\ t < segs[k + 1].vad_start
    /\ whisper_map_token_time_segment_aware(t, segs)
         = IF t <= (segs[k].vad_end + segs[k + 1].vad_start) \div 2 THEN segs[k].orig_end ELSE segs[k + 1].orig_start

LEMMA InfoNats ==
    ASSUME NEW segs, SegsInOrder(segs)
    PROVE  /\ Len(segs) \in Nat /\ Len(segs) > 0 /\ DOMAIN segs = 1..Len(segs)
           /\ Head(segs) = segs[1] /\ Last(segs) = segs[Len(segs)]
           /\ \A k \in 1..Len(segs) :
                /\ segs[k].vad_start \in Nat /\ segs[k].vad_end \in Nat /\ segs[k].vad_start < segs[k].vad_end
                /\ segs[k].orig_start \in Nat /\ segs[k].orig_end \in Nat /\ segs[k].orig_start < segs[k].orig_end
           /\ \A j, k \in 1..Len(segs) : j < k => /\ segs[j].vad_end <= segs[k].vad_start
                                                  /\ segs[j].orig_end <= segs[k].orig_start
  <1>1. segs \in Seq(InfoType) /\ segs # <<>>
    BY DEF SegsInOrder
  <1>2. \A k \in 1..Len(segs) :
                /\ segs[k].vad_start \in Nat /\ segs[k].vad_end \in Nat /\ segs[k].vad_start < segs[k].vad_end
                /\ segs[k].orig_start \in Nat /\ segs[k].orig_end \in Nat /\ segs[k].orig_start < segs[k].orig_end
    <2> TAKE k \in 1..Len(segs)
    <2>1. segs[k] \in InfoType
      BY <1>1
    <2> QED
      BY <2>1 DEF InfoType, SegsInOrder
  <1> QED
    BY <1>1, <1>2 DEF SegsInOrder, Apart, Last

\* A time lies before the segments, after them, in one of them or between two.
LEMMA TokenForm ==
    ASSUME NEW segs, SegsInOrder(segs), NEW t \in Nat
    PROVE  \/ t <= segs[1].vad_start /\ whisper_map_token_time_segment_aware(t, segs) = segs[1].orig_start
           \/ /\ segs[1].vad_start < t /\ segs[Len(segs)].vad_end <= t
              /\ whisper_map_token_time_segment_aware(t, segs) = segs[Len(segs)].orig_end
           \/ /\ segs[1].vad_start < t /\ t < segs[Len(segs)].vad_end
              /\ \E k \in 1..Len(segs) : Inner(t, segs, k) \/ Outer(t, segs, k)
  <1>1. /\ Len(segs) \in Nat /\ Len(segs) > 0 /\ DOMAIN segs = 1..Len(segs) /\ segs # <<>>
        /\ Head(segs) = segs[1] /\ Last(segs) = segs[Len(segs)]
    BY InfoNats DEF SegsInOrder
  <1>2. \A k \in 1..Len(segs) : segs[k].vad_start \in Nat /\ segs[k].vad_end \in Nat
                                /\ segs[k].vad_start < segs[k].vad_end
    BY InfoNats
  <1>3. \A j, k \in 1..Len(segs) : j < k => segs[j].vad_end <= segs[k].vad_start
    BY InfoNats
  <1> DEFINE T == whisper_map_token_time_segment_aware(t, segs)
             In(k)      == segs[k].vad_start <= t /\ t <= segs[k].vad_end
             Between(k) == k < Len(segs) /\ segs[k].vad_end < t /\ t < segs[k + 1].vad_start
             found      == {k \in DOMAIN segs : In(k) \/ Between(k)}
             Value(k) == IF Between(k)
                         THEN IF t <= (segs[k].vad_end + segs[k + 1].vad_start) \div 2
                              THEN segs[k].orig_end ELSE segs[k + 1].orig_start
                         ELSE IF segs[k].vad_end <= segs[k].vad_start THEN segs[k].orig_start
                         ELSE SegLine(t, segs[k])
  <1>4. T = IF segs = <<>> THEN t
            ELSE IF t <= Head(segs).vad_start THEN Head(segs).orig_start
            ELSE IF t >= Last(segs).vad_end THEN Last(segs).orig_end
            ELSE IF found = {} THEN t
            ELSE Value(Min(found))
    BY DEF whisper_map_token_time_segment_aware, SegLine, Line
  <1>5. CASE t <= segs[1].vad_start
    BY <1>1, <1>4, <1>5
  <1>6. CASE ~(t <= segs[1].vad_start) /\ t >= segs[Len(segs)].vad_end
    <2>1. PICK v \in Nat, w \in Nat : v = segs[1].vad_start /\ w = segs[Len(segs)].vad_end /\ v < t /\ w <= t
      <3>1. 1 \in 1..Len(segs) /\ Len(segs) \in 1..Len(segs)
        BY <1>1
      <3> QED
        BY <1>2, <1>6, <3>1
    <2>2. T = Last(segs).orig_end
      <3> HIDE DEF T, found, Value
      <3> QED
        BY <1>1, <1>4, <1>6
    <2> QED
      BY <1>1, <2>1, <2>2
  <1>7. CASE ~(t <= segs[1].vad_start) /\ ~(t >= segs[Len(segs)].vad_end)
    <2>1. found # {}
      <3>1. PICK S : S = {k \in 1..Len(segs) : segs[k].vad_start <= t}
        OBVIOUS
      <3>2. S \in SUBSET Nat /\ 1 \in S /\ \A k \in S : k <= Len(segs)
        BY <1>1, <1>2, <1>7, <3>1
      <3>3. PICK k \in S : \A j \in S : j <= k
        BY <1>1, <3>2, GreatestNat
      <3>4. k \in 1..Len(segs) /\ segs[k].vad_start <= t
        BY <3>1, <3>3
      <3>5. CASE t <= segs[k].vad_end
        BY <1>1, <3>4, <3>5
      <3>6. CASE ~(t <= segs[k].vad_end)
        <4>1. k < Len(segs)
          BY <1>1, <1>2, <1>7, <3>4, <3>6
        <4>2. k + 1 \in 1..Len(segs) /\ k + 1 \notin S
          BY <1>1, <3>2, <3>3, <3>4, <4>1
        <4>3. Between(k)
          BY <1>2, <3>1, <3>4, <3>6, <4>1, <4>2
        <4> QED
          BY <1>1, <3>4, <4>3
      <3> QED
        BY <3>5, <3>6
    <2>2. found \in SUBSET Nat
      BY <1>1
    <2>3. PICK k : k = Min(found) /\ k \in found /\ \A j \in found : k <= j
      <3> HIDE DEF found
      <3> QED
        BY <2>1, <2>2, MinOfNats
    <2>4. T = Value(k)
      <3> HIDE DEF found, Value, T
      <3> QED
        BY <1>1, <1>4, <1>7, <2>1, <2>3
    <2>5. k \in 1..Len(segs) /\ (In(k) \/ Between(k))
      BY <1>1, <2>3
    <2>6. CASE Between(k)
      <3>1. Outer(t, segs, k)
        BY <2>4, <2>6, Zenon DEF Outer
      <3> QED
        BY <1>1, <1>2, <1>7, <2>5, <3>1
    <2>7. CASE ~Between(k)
      <3>1. T = SegLine(t, segs[k])
        <4>1. ~(segs[k].vad_end <= segs[k].vad_start)
          BY <1>2, <2>5
        <4> QED
          BY <2>4, <2>7, <4>1, Zenon
      <3>2. In(k)
        BY <2>5, <2>7, Zenon
      <3>3. ASSUME NEW j \in 1..Len(segs), j < k PROVE segs[j].vad_end < t
        <4>1. j \notin found
          <5>1. j \in Nat /\ k \in Nat /\ ~(k <= j)
            BY <1>1, <2>5, <3>3
          <5> HIDE DEF found
          <5> QED
            BY <2>3, <5>1
        <4>2. ~In(j)
          BY <1>1, <4>1
        <4>3. segs[j].vad_end <= segs[k].vad_start
          BY <1>3, <2>5, <3>3
        <4> QED
          BY <1>2, <2>5, <3>2, <4>2, <4>3
      <3>4. Inner(t, segs, k)
        BY <3>1, <3>2, <3>3, Zenon DEF Inner
      <3> QED
        BY <1>1, <1>2, <1>7, <2>5, <3>4
    <2> QED
      BY <2>6, <2>7
  <1> QED
    BY <1>5, <1>6, <1>7

\* What is returned inside segment k.
LEMMA InnerFacts ==
    ASSUME NEW segs, SegsInOrder(segs), NEW k \in 1..Len(segs), NEW s \in Nat, NEW t \in Nat, s <= t,
           Inner(s, segs, k), Inner(t, segs, k)
    PROVE  \E x \in Nat, y \in Nat :
             /\ x = whisper_map_token_time_segment_aware(s, segs) /\ y = whisper_map_token_time_segment_aware(t, segs)
             /\ segs[k].orig_start <= x /\ x <= y /\ y <= segs[k].orig_end
  <1>1. PICK x0 \in Nat, y0 \in Nat, x1 \in Nat, y1 \in Nat :
            /\ x0 = segs[k].vad_start /\ y0 = segs[k].orig_start
            /\ x1 = segs[k].vad_end /\ y1 = segs[k].orig_end /\ x0 < x1 /\ y0 < y1
    BY InfoNats
  <1>2. x0 <= s /\ t <= x1 /\ y0 <= y1
    BY <1>1 DEF Inner
  <1>3. /\ whisper_map_token_time_segment_aware(s, segs) = Line(s, x0, y0, x1, y1)
        /\ whisper_map_token_time_segment_aware(t, segs) = Line(t, x0, y0, x1, y1)
    BY <1>1, Zenon DEF Inner, SegLine
  <1>4. /\ Line(s, x0, y0, x1, y1) \in Nat /\ Line(t, x0, y0, x1, y1) \in Nat
        /\ y0 <= Line(s, x0, y0, x1, y1) /\ Line(s, x0, y0, x1, y1) <= Line(t, x0, y0, x1, y1)
        /\ Line(t, x0, y0, x1, y1) <= y1
    BY <1>1, <1>2, LineFacts
  <1> QED
    BY <1>1, <1>3, <1>4

\* A time in segment k, or between it and the next, is mapped into one of the two, and before
\* every later one.
LEMMA TokenBounds ==
    ASSUME NEW segs, SegsInOrder(segs), NEW k \in 1..Len(segs), NEW t \in Nat,
           Inner(t, segs, k) \/ Outer(t, segs, k)
    PROVE  \E y \in Nat :
             /\ y = whisper_map_token_time_segment_aware(t, segs)
             /\ segs[k].orig_start <= y
             /\ Outer(t, segs, k) => segs[k].orig_end <= y
             /\ \A m \in 1..Len(segs) : k < m => y <= segs[m].orig_start
             /\ y <= segs[Len(segs)].orig_end
             /\ \E m \in 1..Len(segs) : segs[m].orig_start <= y /\ y <= segs[m].orig_end
  <1>1. /\ Len(segs) \in Nat
        /\ \A m \in 1..Len(segs) : /\ segs[m].vad_start \in Nat /\ segs[m].vad_end \in Nat
                                   /\ segs[m].vad_start < segs[m].vad_end
                                   /\ segs[m].orig_start \in Nat /\ segs[m].orig_end \in Nat
                                   /\ segs[m].orig_start < segs[m].orig_end
        /\ \A j, m \in 1..Len(segs) : j < m => segs[j].orig_end <= segs[m].orig_start
    BY InfoNats
  <1>2. CASE Inner(t, segs, k)
    <2>1. PICK y \in Nat : /\ y = whisper_map_token_time_segment_aware(t, segs)
                           /\ segs[k].orig_start <= y /\ y <= segs[k].orig_end
      <3>1. t <= t
        OBVIOUS
      <3> QED
        BY <1>2, <3>1, InnerFacts
    <2>2. ~Outer(t, segs, k)
      <3>1. segs[k].vad_end \in Nat /\ t <= segs[k].vad_end
        BY <1>1, <1>2 DEF Inner
      <3> QED
        BY <3>1 DEF Outer
    <2>3. PICK e \in Nat : e = segs[k].orig_end
      BY <1>1
    <2>4. ASSUME NEW m \in 1..Len(segs), k < m PROVE y <= segs[m].orig_start /\ y <= segs[m].orig_end
      <3>1. PICK a \in Nat, b \in Nat : a = segs[m].orig_start /\ b = segs[m].orig_end /\ a < b /\ e <= a
        BY <1>1, <2>3, <2>4
      <3> QED
        BY <2>1, <2>3, <3>1
    <2>5. y <= segs[Len(segs)].orig_end
      <3>1. Len(segs) \in 1..Len(segs) /\ (k = Len(segs) \/ k < Len(segs))
        BY <1>1
      <3> QED
        BY <2>1, <2>4, <3>1
    <2> QED
      BY <2>1, <2>2, <2>4, <2>5
  <1>3. CASE Outer(t, segs, k)
    <2>1. k + 1 \in 1..Len(segs) /\ k < k + 1
      BY <1>1, <1>3 DEF Outer
    <2>2. PICK a \in Nat, e \in Nat, a1 \in Nat, e1 \in Nat :
              /\ a = segs[k].orig_start /\ e = segs[k].orig_end /\ a < e
              /\ a1 = segs[k + 1].orig_start /\ e1 = segs[k + 1].orig_end /\ a1 < e1 /\ e <= a1
      BY <1>1, <2>1
    <2>3. whisper_map_token_time_segment_aware(t, segs) \in {e, a1}
      BY <1>3, <2>2 DEF Outer
    <2>4. PICK y \in Nat : y = whisper_map_token_time_segment_aware(t, segs) /\ y \in {e, a1}
      BY <2>3
    <2>5. ASSUME NEW m \in 1..Len(segs), k < m PROVE y <= segs[m].orig_start /\ y <= segs[m].orig_end
      <3>1. a1 <= segs[m].orig_start
        <4>1. CASE m = k + 1
          BY <2>2, <4>1
        <4>2. CASE m # k + 1
          <5>1. k + 1 < m
            BY <1>1, <2>5, <4>2
          <5>2. e1 <= segs[m].orig_start /\ segs[m].orig_start \in Nat
            BY <1>1, <2>1, <2>2, <5>1
          <5> QED
            BY <2>2, <5>2
        <4> QED
          BY <4>1, <4>2
      <3>2. PICK b \in Nat, c \in Nat : b = segs[m].orig_start /\ c = segs[m].orig_end /\ b < c
        BY <1>1
      <3> QED
        BY <2>2, <2>4, <3>1, <3>2
    <2>6. y <= segs[Len(segs)].orig_end
      <3>1. Len(segs) \in 1..Len(segs) /\ k < Len(segs)
        BY <1>1, <1>3 DEF Outer
      <3> QED
        BY <2>5, <3>1
    <2>7. CASE y = e
      <3>1. segs[k].orig_start <= y /\ segs[k].orig_end <= y /\ y <= segs[k].orig_end
        BY <2>2, <2>7
      <3> QED
        BY <2>4, <2>5, <2>6, <3>1, Zenon
    <2>8. CASE y = a1
      BY <2>1, <2>2, <2>4, <2>5, <2>6, <2>8
    <2> QED
      BY <2>4, <2>7, <2>8
  <1> QED
    BY <1>2, <1>3

\* A later time is not in an earlier place.
LEMMA PlacesInOrder ==
    ASSUME NEW segs, SegsInOrder(segs), NEW j \in 1..Len(segs), NEW k \in 1..Len(segs),
           NEW s \in Nat, NEW t \in Nat, s <= t,
           Inner(s, segs, j) \/ Outer(s, segs, j), Inner(t, segs, k) \/ Outer(t, segs, k)
    PROVE  j <= k
  <1>1. /\ Len(segs) \in Nat
        /\ \A m \in 1..Len(segs) : /\ segs[m].vad_start \in Nat /\ segs[m].vad_end \in Nat
                                   /\ segs[m].vad_start < segs[m].vad_end
        /\ \A l, m \in 1..Len(segs) : l < m => segs[l].vad_end <= segs[m].vad_start
    BY InfoNats
  <1> SUFFICES ASSUME k < j PROVE FALSE
    BY <1>1
  <1>2. PICK a \in Nat, b \in Nat, c \in Nat, d \in Nat :
            /\ a = segs[k].vad_start /\ b = segs[k].vad_end /\ c = segs[j].vad_start /\ d = segs[j].vad_end
            /\ a < b /\ c < d /\ b <= c
    BY <1>1
  <1>3. c <= s
    <2>1. CASE Inner(s, segs, j)
      BY <1>2, <2>1 DEF Inner
    <2>2. CASE Outer(s, segs, j)
      BY <1>2, <2>2 DEF Outer
    <2> QED
      BY <2>1, <2>2
  <1>4. CASE Inner(t, segs, k)
    <2>1. t <= b
      BY <1>2, <1>4 DEF Inner
    <2>2. b < s
      <3>1. CASE Inner(s, segs, j)
        BY <1>2, <3>1 DEF Inner
      <3>2. CASE Outer(s, segs, j)
        BY <1>2, <3>2 DEF Outer
      <3> QED
        BY <3>1, <3>2
    <2> QED
      BY <2>1, <2>2
  <1>5. CASE Outer(t, segs, k)
    <2>1. k + 1 \in 1..Len(segs) /\ t < segs[k + 1].vad_start
      BY <1>1, <1>5 DEF Outer
    <2>2. PICK e \in Nat, f \in Nat : e = segs[k + 1].vad_start /\ f = segs[k + 1].vad_end /\ e < f
      BY <1>1, <2>1
    <2>3. e <= c
      <3>1. CASE k + 1 = j
        BY <1>2, <2>2, <3>1
      <3>2. CASE k + 1 # j
        <4>1. k + 1 < j
          BY <1>1, <3>2
        <4> QED
          BY <1>1, <1>2, <2>1, <2>2, <4>1
      <3> QED
        BY <3>1, <3>2
    <2> QED
      BY <1>3, <2>1, <2>2, <2>3
  <1> QED
    BY <1>4, <1>5

\* Times in the segments, or between them, are mapped in order.
LEMMA PlacedMono ==
    ASSUME NEW segs, SegsInOrder(segs), NEW j \in 1..Len(segs), NEW k \in 1..Len(segs),
           NEW s \in Nat, NEW t \in Nat, s <= t,
           Inner(s, segs, j) \/ Outer(s, segs, j), Inner(t, segs, k) \/ Outer(t, segs, k)
    PROVE  whisper_map_token_time_segment_aware(s, segs) <= whisper_map_token_time_segment_aware(t, segs)
  <1>1. /\ Len(segs) \in Nat
        /\ \A m \in 1..Len(segs) : /\ segs[m].vad_start \in Nat /\ segs[m].vad_end \in Nat
                                   /\ segs[m].orig_start \in Nat /\ segs[m].orig_end \in Nat
        /\ \A l, m \in 1..Len(segs) : l < m => segs[l].orig_end <= segs[m].orig_start
    BY InfoNats
  <1>2. PICK x \in Nat : /\ x = whisper_map_token_time_segment_aware(s, segs)
                         /\ \A m \in 1..Len(segs) : j < m => x <= segs[m].orig_start
    BY TokenBounds
  <1>3. PICK y \in Nat : /\ y = whisper_map_token_time_segment_aware(t, segs)
                         /\ segs[k].orig_start <= y
                         /\ Outer(t, segs, k) => segs[k].orig_end <= y
    BY TokenBounds
  <1>4. j <= k
    BY PlacesInOrder
  <1>5. CASE j < k
    <2>1. PICK a \in Nat : a = segs[k].orig_start
      BY <1>1
    <2> QED
      BY <1>2, <1>3, <1>5, <2>1
  <1>6. CASE j = k /\ Inner(s, segs, j) /\ Inner(t, segs, k)
    <2>1. Inner(s, segs, k)
      BY <1>6
    <2>2. PICK u \in Nat, v \in Nat :
              /\ u = whisper_map_token_time_segment_aware(s, segs)
              /\ v = whisper_map_token_time_segment_aware(t, segs) /\ u <= v
      BY <1>6, <2>1, InnerFacts
    <2> QED
      BY <2>2
  <1>7. CASE j = k /\ Inner(s, segs, j) /\ Outer(t, segs, k)
    <2>1. s <= s
      OBVIOUS
    <2>2. PICK u \in Nat : u = whisper_map_token_time_segment_aware(s, segs) /\ u <= segs[j].orig_end
      BY <1>7, <2>1, InnerFacts
    <2>3. PICK e \in Nat : e = segs[k].orig_end
      BY <1>1
    <2> QED
      BY <1>3, <1>7, <2>2, <2>3
  <1>8. CASE j = k /\ Outer(s, segs, j) /\ Inner(t, segs, k)
    <2>1. PICK b \in Nat : b = segs[k].vad_end
      BY <1>1
    <2>2. b < s
      BY <1>8, <2>1 DEF Outer
    <2>3. t <= b
      BY <1>8, <2>1 DEF Inner
    <2> QED
      BY <2>1, <2>2, <2>3
  <1>9. CASE j = k /\ Outer(s, segs, j) /\ Outer(t, segs, k)
    <2>1. k + 1 \in 1..Len(segs) /\ k < k + 1
      BY <1>1, <1>9 DEF Outer
    <2>2. PICK b \in Nat, c \in Nat, e \in Nat, a \in Nat :
              /\ b = segs[k].vad_end /\ c = segs[k + 1].vad_start
              /\ e = segs[k].orig_end /\ a = segs[k + 1].orig_start /\ e <= a
      BY <1>1, <2>1
    <2>3. x = IF s <= (b + c) \div 2 THEN e ELSE a
      BY <1>2, <1>9, <2>2, Zenon DEF Outer
    <2>4. y = IF t <= (b + c) \div 2 THEN e ELSE a
      BY <1>3, <1>9, <2>2, Zenon DEF Outer
    <2>5. PICK m \in Nat : m = (b + c) \div 2
      OBVIOUS
    <2>6. x <= y
      BY <2>2, <2>3, <2>4, <2>5
    <2> QED
      BY <1>2, <1>3, <2>6
  <1> QED
    <2>1. j < k \/ j = k
      BY <1>1, <1>4
    <2> QED
      BY <1>5, <1>6, <1>7, <1>8, <1>9, <2>1, Zenon

\* Wherever a time is mapped to, it is the time of a segment.
LEMMA TokenInSegment ==
    ASSUME NEW segs, SegsInOrder(segs), NEW t \in Nat
    PROVE  \E y \in Nat :
             /\ y = whisper_map_token_time_segment_aware(t, segs)
             /\ segs[1].orig_start <= y /\ y <= segs[Len(segs)].orig_end
             /\ \E m \in 1..Len(segs) : segs[m].orig_start <= y /\ y <= segs[m].orig_end
  <1>1. /\ Len(segs) \in Nat /\ 1 \in 1..Len(segs) /\ Len(segs) \in 1..Len(segs)
        /\ \A m \in 1..Len(segs) : /\ segs[m].orig_start \in Nat /\ segs[m].orig_end \in Nat
                                   /\ segs[m].orig_start < segs[m].orig_end
        /\ \A l, m \in 1..Len(segs) : l < m => segs[l].orig_end <= segs[m].orig_start
    <2>1. Len(segs) \in Nat /\ Len(segs) > 0
      BY InfoNats
    <2>2. 1 \in 1..Len(segs) /\ Len(segs) \in 1..Len(segs)
      BY <2>1
    <2> QED
      BY <2>1, <2>2, InfoNats, Zenon
  <1>2. PICK a \in Nat, b \in Nat, c \in Nat, d \in Nat :
            /\ a = segs[1].orig_start /\ b = segs[1].orig_end
            /\ c = segs[Len(segs)].orig_start /\ d = segs[Len(segs)].orig_end
            /\ a < b /\ c < d /\ (Len(segs) = 1 \/ b <= c)
    <2>1. Len(segs) = 1 \/ segs[1].orig_end <= segs[Len(segs)].orig_start
      <3>1. Len(segs) = 1 \/ 1 < Len(segs)
        BY <1>1
      <3> QED
        BY <1>1, <3>1, Zenon
    <2> QED
      BY <1>1, <2>1
  <1>3. a <= d /\ a <= c
    <2>1. Len(segs) = 1 => a = c
      BY <1>2
    <2> QED
      BY <1>2, <2>1
  <1>4. CASE whisper_map_token_time_segment_aware(t, segs) = a
    <2>1. segs[1].orig_start <= a /\ a <= segs[1].orig_end /\ a <= segs[Len(segs)].orig_end
      BY <1>2, <1>3
    <2> QED
      BY <1>1, <1>4, <2>1, Zenon
  <1>5. CASE whisper_map_token_time_segment_aware(t, segs) = d
    <2>1. segs[1].orig_start <= d /\ segs[Len(segs)].orig_start <= d /\ d <= segs[Len(segs)].orig_end
      BY <1>2, <1>3
    <2> QED
      BY <1>1, <1>5, <2>1, Zenon
  <1>6. CASE \E k \in 1..Len(segs) : Inner(t, segs, k) \/ Outer(t, segs, k)
    <2>1. PICK k \in 1..Len(segs) : Inner(t, segs, k) \/ Outer(t, segs, k)
      BY <1>6
    <2>2. PICK y \in Nat :
             /\ y = whisper_map_token_time_segment_aware(t, segs)
             /\ segs[k].orig_start <= y
             /\ y <= segs[Len(segs)].orig_end
             /\ \E m \in 1..Len(segs) : segs[m].orig_start <= y /\ y <= segs[m].orig_end
      BY <2>1, TokenBounds
    <2>3. PICK e \in Nat, f \in Nat : e = segs[k].orig_start /\ f = segs[k].orig_end /\ (k = 1 \/ b <= e)
      BY <1>1, <1>2
    <2>4. a <= e
      <3>1. k = 1 => a = e
        BY <1>2, <2>3
      <3> QED
        BY <1>2, <2>3, <3>1
    <2>5. a <= y
      BY <2>2, <2>3, <2>4
    <2> QED
      BY <1>2, <2>2, <2>5
  <1> QED
    BY <1>2, <1>4, <1>5, <1>6, TokenForm

\* The times of the tokens stay in order.
LEMMA TokenMono ==
    ASSUME NEW segs, SegsInOrder(segs), NEW s \in Nat, NEW t \in Nat, s <= t
    PROVE  whisper_map_token_time_segment_aware(s, segs) <= whisper_map_token_time_segment_aware(t, segs)
  <1>1. PICK v \in Nat, w \in Nat : /\ v = segs[1].vad_start /\ w = segs[Len(segs)].vad_end /\ v < w
    <2>1. /\ 1 \in 1..Len(segs) /\ Len(segs) \in 1..Len(segs)
          /\ \A m \in 1..Len(segs) : /\ segs[m].vad_start \in Nat /\ segs[m].vad_end \in Nat
                                     /\ segs[m].vad_start < segs[m].vad_end
          /\ \A l, m \in 1..Len(segs) : l < m => segs[l].vad_end <= segs[m].vad_start
      BY InfoNats
    <2>2. PICK a \in Nat, b \in Nat, c \in Nat, d \in Nat :
            /\ a = segs[1].vad_start /\ b = segs[1].vad_end
            /\ c = segs[Len(segs)].vad_start /\ d = segs[Len(segs)].vad_end
            /\ a < b /\ c < d /\ (Len(segs) = 1 \/ b <= c)
      <3>1. Len(segs) \in Nat
        BY InfoNats
      <3> QED
        BY <2>1, <3>1
    <2>3. Len(segs) = 1 => a = c
      BY <2>2
    <2>4. a < d
      BY <2>2, <2>3
    <2> QED
      BY <2>2, <2>4
  <1>2. PICK x \in Nat : /\ x = whisper_map_token_time_segment_aware(s, segs)
                         /\ segs[1].orig_start <= x /\ x <= segs[Len(segs)].orig_end
    BY TokenInSegment
  <1>3. PICK y \in Nat : /\ y = whisper_map_token_time_segment_aware(t, segs)
                         /\ segs[1].orig_start <= y /\ y <= segs[Len(segs)].orig_end
    BY TokenInSegment
  <1>4. CASE x = segs[1].orig_start
    BY <1>2, <1>3, <1>4
  <1>5. CASE y = segs[Len(segs)].orig_end
    BY <1>2, <1>3, <1>5
  <1>6. CASE x # segs[1].orig_start /\ y # segs[Len(segs)].orig_end
    <2>1. v < s
      BY <1>1, <1>2, <1>6, TokenForm
    <2>2. v < t
      BY <1>1, <2>1
    <2>3. \E k \in 1..Len(segs) : Inner(t, segs, k) \/ Outer(t, segs, k)
      <3>1. ~(t <= v)
        BY <1>1, <2>2
      <3> QED
        BY <1>1, <1>3, <1>6, <3>1, TokenForm, Zenon
    <2>4. t < w
      <3>1. ~(t <= v)
        BY <1>1, <2>2
      <3> QED
        BY <1>1, <1>3, <1>6, <3>1, TokenForm, Zenon
    <2>5. ~(s <= v) /\ ~(w <= s)
      BY <1>1, <2>1, <2>4
    <2>6. \E j \in 1..Len(segs) : Inner(s, segs, j) \/ Outer(s, segs, j)
      BY <1>1, <2>5, TokenForm, Zenon
    <2> QED
      BY <2>3, <2>6, PlacedMono
  <1> QED
    BY <1>4, <1>5, <1>6

\* A token starts in a segment of speech, ends after it starts, and does not start before
\* the tokens before it, whatever its times in the joined audio (the getters
\* whisper_full_get_token_t0 and whisper_full_get_token_t1).
THEOREM TokenTimesAreInSpeech == PaddedCalls => (Spec => []TokenTimesInSpeech)
  <1> SUFFICES ASSUME PaddedCalls PROVE Spec => []TokenTimesInSpeech
    OBVIOUS
  <1>1. JoinInv => TokenTimesInSpeech
    <2> SUFFICES ASSUME JoinInv, pc = "idle", TokensMapped, NEW t0 \in 0..result.len
                 PROVE  /\ \E k \in DOMAIN vad_segments :
                             whisper_full_get_token_t0(t0) \in vad_segments[k].orig_start..vad_segments[k].orig_end
                        /\ t0 > 0 => whisper_full_get_token_t0(t0 - 1) <= whisper_full_get_token_t0(t0)
                        /\ whisper_full_get_token_t0(t0) < whisper_full_get_token_t1(t0, t0)
      BY DEF TokenTimesInSpeech
    <2>1. result.len \in Nat /\ t0 \in Nat
      BY DEF JoinInv, CallTypes
    <2>2. SegsInOrder(vad_segments)
      BY DEF JoinInv, Usable, Joined, TokensMapped
    <2>3. DOMAIN vad_segments = 1..Len(vad_segments)
      BY <2>2, InfoNats
    <2> DEFINE T(t) == whisper_map_token_time_segment_aware(t, vad_segments)
    <2>4. PICK y \in Nat : /\ y = T(t0)
                           /\ \E m \in 1..Len(vad_segments) :
                                vad_segments[m].orig_start <= y /\ y <= vad_segments[m].orig_end
      BY <2>1, <2>2, TokenInSegment
    <2>5. \A t : whisper_full_get_token_t0(t) = T(t)
      BY DEF whisper_full_get_token_t0
    <2>6. whisper_full_get_token_t1(t0, t0) = Max({T(t0), T(t0) + 1})
      BY <2>5 DEF whisper_full_get_token_t1
    <2>7. ASSUME t0 > 0 PROVE T(t0 - 1) <= T(t0)
      <3>1. t0 - 1 \in Nat /\ t0 - 1 <= t0
        BY <2>1, <2>7
      <3> QED
        BY <2>1, <2>2, <3>1, TokenMono
    <2> HIDE DEF T
    <2>8. T(t0) < whisper_full_get_token_t1(t0, t0)
      <3>1. T(t0) \in Int /\ T(t0) + 1 \in Int
        BY <2>4
      <3>2. Max({T(t0), T(t0) + 1}) \in {T(t0), T(t0) + 1} /\ Max({T(t0), T(t0) + 1}) >= T(t0) + 1
        BY <3>1, LargerOfTwo
      <3>3. PICK z \in Int : z = Max({T(t0), T(t0) + 1}) /\ z >= T(t0) + 1
        BY <3>1, <3>2
      <3> QED
        BY <2>6, <3>1, <3>3
    <2>9. \E k \in DOMAIN vad_segments : T(t0) \in vad_segments[k].orig_start..vad_segments[k].orig_end
      <3>1. PICK m \in 1..Len(vad_segments) :
                vad_segments[m].orig_start <= y /\ y <= vad_segments[m].orig_end
        BY <2>4
      <3>2. vad_segments[m].orig_start \in Nat /\ vad_segments[m].orig_end \in Nat
        BY <2>2, InfoNats
      <3> QED
        BY <2>3, <2>4, <3>1, <3>2
    <2> QED
      BY <2>5, <2>7, <2>8, <2>9
  <1> QED
    BY <1>1, JoinInvariant, PTL
=============================================================================
