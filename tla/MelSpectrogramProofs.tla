------------------------ MODULE MelSpectrogramProofs ------------------------
(***************************************************************************)
(* The spectrogram for any frame and hop size, any audio and any number of *)
(* threads.  What the reused buffer holds in front of the end of the audio *)
(* is what a new one would hold, each thread has written the frames of its *)
(* residue class up to the one it is at, and a buffer that is too long     *)
(* adds only silent frames, of which there is one already.                 *)
(***************************************************************************)
EXTENDS MelSpectrogram, SequenceTheorems, TLAPS

Samples == Nat \X Nat
Frames  == [0..(FrameSize - 1) -> Samples]
Columns == [frame : Frames, among : SUBSET Frames]

\* In front of its end the padded audio of call c is all in the buffer.
Holds(b, c, len, r) ==
    \A k \in 0..(len + ShortPad - 1) :
        b[k + 1] = IF k < ShortPad THEN Sample(c, r, ShortPad - k) ELSE Sample(c, r, k - ShortPad)

\* The same samples in front of the end of the audio.
Agree(b, d, len) == \A k \in 0..(len + ShortPad - 1) : b[k + 1] = d[k + 1]

MelTypeOK ==
    /\ buf \in Seq(Samples) /\ at \in Seq(Nat) /\ call \in Nat /\ n \in Nat /\ real \in Nat
    /\ mel \in [n_len : Nat, n_len_org : Int, data : Seq(Columns)] /\ Len(mel.data) = mel.n_len

\* The buffer of the last call, whatever it held before.
BufferOK ==
    n > 0 => /\ Len(buf) >= Needed(n) /\ mel.n_len = NLen(Len(buf)) /\ mel.n_len_org = NLenOrg(n)
             /\ n > ShortPad => Holds(buf, call, n, real)

\* The frame a thread has to write for index f.
Due(f) == FrameValue(buf, n, mel.n_len, f)

\* Thread t is in its residue class, and its frames up to there are written.
Written(t) ==
    /\ at[t] % Len(at) = t - 1
    /\ \A f \in 0..(mel.n_len - 1) : (f % Len(at) = t - 1 /\ f < at[t]) => mel.data[f + 1].frame = Due(f)

\* Between calls every frame is written, and normalised among all of them.
Complete ==
    \A f \in 0..(mel.n_len - 1) :
        /\ mel.data[f + 1].frame = Due(f)
        /\ mel.data[f + 1].among = {Due(e) : e \in 0..(mel.n_len - 1)}

IInv ==
    /\ MelTypeOK
    /\ BufferOK
    /\ Busy => n > 0 /\ \A t \in 1..Len(at) : Written(t)
    /\ ~Busy /\ n > 0 => Complete
-----------------------------------------------------------------------------
(* Arithmetic.                                                             *)

\* What the constants are.
LEMMA Sizes ==
    /\ FrameSize \in Nat \ {0} /\ FrameStep \in Nat \ {0} /\ LongPad \in Nat /\ ShortPad \in Nat
    /\ FrameStep <= ShortPad /\ 2 * ShortPad <= FrameSize /\ FrameSize <= 2 * ShortPad + 1
    /\ LongPad >= FrameSize /\ LongPad >= ShortPad + 2 * FrameStep
    /\ Window \in Nat /\ Window * FrameStep = LongPad
  <1>1. /\ FrameSize \in Nat \ {0} /\ FrameStep \in 1..ShortPad /\ LongPad \in Nat /\ LongPad % FrameStep = 0
        /\ LongPad >= FrameSize /\ LongPad >= ShortPad + 2 * FrameStep
    BY MelAssumption DEF ShortPad
  <1>2. ShortPad \in Nat /\ 2 * ShortPad <= FrameSize /\ FrameSize <= 2 * ShortPad + 1
    BY <1>1 DEF ShortPad
  <1>3. FrameStep \in Nat \ {0} /\ FrameStep <= ShortPad
    BY <1>1, <1>2
  <1>4. Window \in Nat /\ Window * FrameStep = LongPad
    BY <1>1, <1>3 DEF Window
  <1> QED
    BY <1>1, <1>2, <1>3, <1>4

\* The quotient and the rest of a division.
LEMMA Division ==
    ASSUME NEW a \in Int, NEW b \in Nat \ {0}
    PROVE  /\ a \div b \in Int /\ a % b \in 0..(b - 1)
           /\ a = b * (a \div b) + (a % b)
           /\ a >= 0 => a \div b >= 0
  OBVIOUS

\* The same for a natural number.
LEMMA NatDivision ==
    ASSUME NEW a \in Nat, NEW b \in Nat \ {0}
    PROVE  /\ a \div b \in Nat /\ a \div b \in Int /\ a \div b >= 0 /\ a % b \in 0..(b - 1)
           /\ a = b * (a \div b) + (a % b)
  OBVIOUS

\* The quotient is the largest number of whole steps.
LEMMA LargestQuotient ==
    ASSUME NEW a \in Int, NEW b \in Nat \ {0}, NEW q \in Int, q * b <= a
    PROVE  q <= a \div b
  <1>1. a \div b \in Int /\ a < b * (a \div b) + b
    BY Division
  <1>2. q * b < (a \div b) * b + b
    BY <1>1
  <1>3. PICK d \in Int : d = a \div b
    BY <1>1
  <1>4. q * b < (d + 1) * b
    BY <1>2, <1>3
  <1> QED
    BY <1>3, <1>4

\* Two numbers of one residue class that are less than a step apart are one.
LEMMA SameClass ==
    ASSUME NEW a \in Nat, NEW c \in Nat, NEW b \in Nat \ {0}, a % b = c % b, a <= c, c < a + b
    PROVE  a = c
  <1>0. a \in Int /\ c \in Int
    OBVIOUS
  <1>1. PICK x \in Int : x = a \div b
    BY <1>0, Division, Zenon
  <1>2. PICK y \in Int : y = c \div b
    BY <1>0, Division, Zenon
  <1>3. a = b * x + (a % b) /\ c = b * y + (c % b) /\ a % b \in Nat /\ c % b \in Nat
    BY <1>1, <1>2, Division
  <1>4. b * x <= b * y /\ b * y < b * x + b
    BY <1>3
  <1>5. x = y
    <2>1. y < x + 1 /\ x <= y
      BY <1>4
    <2> QED
      BY <2>1
  <1> QED
    BY <1>3, <1>5

\* A step stays in the class.
LEMMA NextInClass ==
    ASSUME NEW a \in Nat, NEW b \in Nat \ {0}
    PROVE  (a + b) % b = a % b
  <1>1. PICK c \in Int : c = a + b
    OBVIOUS
  <1>2. a \in Int
    OBVIOUS
  <1>3. PICK x \in Int : x = a \div b
    BY <1>2, Division, Zenon
  <1>4. PICK y \in Int : y = c \div b
    BY <1>1, Division, Zenon
  <1>5. PICK r \in 0..(b - 1) : r = a % b
    BY <1>2, Division, Zenon
  <1>6. PICK s \in 0..(b - 1) : s = c % b
    BY <1>1, Division, Zenon
  <1>7. a = b * x + r
    BY <1>2, <1>3, <1>5, Division, Zenon
  <1>8. c = b * y + s
    BY <1>1, <1>4, <1>6, Division, Zenon
  <1>9. b * y + s = b * (x + 1) + r
    BY <1>1, <1>7, <1>8
  <1>10. y < x + 2 /\ x < y
    <2>1. b * y < b * (x + 2)
      BY <1>9
    <2>2. b * x < b * y
      BY <1>9
    <2> QED
      BY <2>1, <2>2
  <1>11. y = x + 1
    BY <1>10
  <1> QED
    BY <1>1, <1>5, <1>6, <1>9, <1>11

\* There is a frame behind the audio, and all windows end in front of the last one.
LEMMA FrameCounts ==
    ASSUME NEW len \in Nat \ {0}, NEW size \in Nat, size >= Needed(len)
    PROVE  /\ NLen(size) \in Nat /\ NLen(Needed(len)) \in Nat /\ NLen(Needed(len)) <= NLen(size)
           /\ \E f \in 0..(NLen(Needed(len)) - 1) : f * FrameStep >= len + ShortPad
           /\ \A f \in Nat : f >= NLen(Needed(len)) => f * FrameStep >= len + ShortPad
           /\ \A seek \in 0..(NLenOrg(len) - 1) : seek + Window <= NLen(Needed(len))
  <1>0. /\ FrameSize \in Nat \ {0} /\ FrameStep \in Nat \ {0} /\ LongPad \in Nat /\ ShortPad \in Nat
        /\ FrameStep <= ShortPad /\ 2 * ShortPad <= FrameSize /\ FrameSize <= 2 * ShortPad + 1
        /\ LongPad >= FrameSize /\ LongPad >= ShortPad + 2 * FrameStep
        /\ Window \in Nat /\ Window * FrameStep = LongPad
    BY Sizes
  <1>1. /\ Needed(len) \in Nat /\ Needed(len) - FrameSize \in Nat /\ Needed(len) - FrameSize <= size - FrameSize
        /\ Needed(len) - FrameSize >= len + LongPad - 1 /\ size - FrameSize \in Nat
    BY <1>0 DEF Needed
  <1>2. PICK m \in Nat : /\ m = NLen(Needed(len)) /\ m * FrameStep <= Needed(len) - FrameSize
                         /\ Needed(len) - FrameSize < m * FrameStep + FrameStep
    <2>0. PICK x \in Nat : x = Needed(len) - FrameSize
      BY <1>1
    <2>1. x \div FrameStep \in Nat
      BY <1>0, NatDivision, Zenon
    <2>2. PICK m \in Nat : m = x \div FrameStep
      BY <2>1
    <2>3. x = FrameStep * m + (x % FrameStep) /\ x % FrameStep \in 0..(FrameStep - 1)
      BY <1>0, <2>2, NatDivision, Zenon
    <2>4. m * FrameStep <= x /\ x < m * FrameStep + FrameStep
      BY <1>0, <2>3
    <2> QED
      BY <2>0, <2>2, <2>4 DEF NLen
  <1>3. NLen(size) \in Nat /\ m <= NLen(size)
    <2>0. PICK x \in Nat : x = size - FrameSize
      BY <1>1
    <2>1. x \div FrameStep \in Nat
      BY <1>0, NatDivision, Zenon
    <2>2. m * FrameStep <= x
      <3>1. m * FrameStep \in Nat
        BY <1>0
      <3> QED
        BY <2>0, <1>0, <1>1, <1>2, <3>1
    <2>3. m <= x \div FrameStep
      <3>1. x \in Int /\ m \in Int
        OBVIOUS
      <3> QED
        BY <3>1, <1>0, <2>2, LargestQuotient, Zenon
    <2> QED
      BY <2>0, <2>1, <2>3 DEF NLen
  <1>4. m * FrameStep >= len + ShortPad + FrameStep /\ m * FrameStep \in Nat
    <2>1. m * FrameStep \in Nat
      BY <1>0
    <2> QED
      BY <2>1, <1>0, <1>1, <1>2
  <1>5. m - 1 \in 0..(m - 1) /\ (m - 1) * FrameStep >= len + ShortPad
    <2>1. m # 0
      BY <1>0, <1>4
    <2>2. (m - 1) * FrameStep = m * FrameStep - FrameStep
      BY <1>0
    <2> QED
      BY <2>1, <2>2, <1>0, <1>4
  <1>6. ASSUME NEW f \in Nat, f >= m PROVE f * FrameStep >= len + ShortPad
    <2>1. f * FrameStep >= m * FrameStep /\ f * FrameStep \in Nat
      BY <1>0, <1>6
    <2> QED
      BY <2>1, <1>0, <1>4
  <1>7. ASSUME NEW seek \in 0..(NLenOrg(len) - 1) PROVE seek + Window <= m
    <2>1. PICK a \in Int : a = len + ShortPad - FrameSize
      BY <1>0
    <2>2. (seek + Window) * FrameStep <= Needed(len) - FrameSize
      <3>0. (seek + Window) * FrameStep = seek * FrameStep + LongPad /\ seek * FrameStep \in Nat /\ seek \in Nat
        <4>1. seek \in Nat
          OBVIOUS
        <4> QED
          BY <4>1, <1>0
      <3>1. CASE a >= 0
        <4>1. seek <= a \div FrameStep /\ a \div FrameStep \in Int
          <5>1. NLenOrg(len) = 1 + (a \div FrameStep)
            BY <2>1, <3>1 DEF NLenOrg, Quotient
          <5>2. a \div FrameStep \in Int
            BY <1>0, Division
          <5> QED
            BY <5>1, <5>2, <3>0
        <4>2. seek * FrameStep <= a
          <5>1. PICK d \in Int : d = a \div FrameStep
            BY <4>1
          <5>2. FrameStep * d <= a
            <6>1. a = FrameStep * d + (a % FrameStep) /\ a % FrameStep \in 0..(FrameStep - 1)
              BY <5>1, <1>0, Division
            <6> QED
              BY <6>1, <1>0
          <5>3. seek * FrameStep <= d * FrameStep
            BY <4>1, <5>1, <3>0, <1>0
          <5> QED
            BY <5>2, <5>3, <3>0, <1>0
        <4> QED
          BY <4>2, <3>0, <2>1, <1>0 DEF Needed
      <3>2. CASE a < 0
        <4>1. seek = 0
          <5>1. NLenOrg(len) = 1 + -((-a) \div FrameStep)
            BY <2>1, <3>2 DEF NLenOrg, Quotient
          <5>2. (-a) \div FrameStep \in Int /\ (-a) \div FrameStep >= 0
            <6>1. PICK x \in Nat : x = -a
              BY <3>2
            <6>2. x \div FrameStep \in Int /\ x \div FrameStep >= 0
              BY <1>0, NatDivision, Zenon
            <6> QED
              BY <6>1, <6>2
          <5> QED
            BY <5>1, <5>2, <3>0
        <4> QED
          BY <4>1, <3>0, <1>0, <1>1
      <3> QED
        BY <3>1, <3>2
    <2>3. seek + Window \in Int /\ Needed(len) - FrameSize \in Int
      BY <1>0, <1>1
    <2>4. seek + Window <= (Needed(len) - FrameSize) \div FrameStep
      BY <2>2, <2>3, <1>0, LargestQuotient
    <2> QED
      BY <2>4, <1>2 DEF NLen
  <1> QED
    BY <1>2, <1>3, <1>5, <1>6, <1>7
-----------------------------------------------------------------------------
(* The buffer and the frames.                                              *)

\* What padding leaves in the buffer, whatever it held before.
LEMMA PaddedFacts ==
    ASSUME NEW old \in Seq(Samples), NEW c \in Nat, NEW len \in Nat \ {0}, NEW r \in Nat
    PROVE  /\ Padded(old, c, len, r) \in Seq(Samples)
           /\ Len(Padded(old, c, len, r)) = IF Len(old) < Needed(len) THEN Needed(len) ELSE Len(old)
           /\ Len(Padded(old, c, len, r)) >= Needed(len)
           /\ len > ShortPad => Holds(Padded(old, c, len, r), c, len, r)
  <1>0. ShortPad \in Nat /\ LongPad \in Nat /\ Needed(len) \in Nat /\ Needed(len) >= len + ShortPad /\ Len(old) \in Nat
    BY Sizes DEF Needed
  <1>1. PICK size \in Nat : size = IF Len(old) < Needed(len) THEN Needed(len) ELSE Len(old)
    BY <1>0
  <1>2. PICK head : head = ShortPad - ReflectCount(len)
    OBVIOUS
  <1>3. head \in Nat /\ (len > ShortPad => head = 0)
    BY <1>0, <1>2 DEF ReflectCount
  <1> DEFINE kept(k) == IF k < Len(old) THEN old[k + 1] ELSE Quiet
             value(k) == IF k < head THEN kept(k)
                         ELSE IF k < ShortPad THEN Sample(c, r, ShortPad - k)
                         ELSE IF k < len + ShortPad THEN Sample(c, r, k - ShortPad)
                         ELSE IF k < Needed(len) THEN Quiet
                         ELSE kept(k)
  <1>4. Padded(old, c, len, r) = [p \in 1..size |-> value(p - 1)]
    BY <1>1, <1>2 DEF Padded
  <1>5. \A k \in Nat : value(k) \in Samples
    <2>1. Quiet \in Samples
      BY DEF Quiet, Samples
    <2>2. \A j \in Nat : Sample(c, r, j) \in Samples
      BY <2>1 DEF Sample, Samples
    <2>3. \A k \in Nat : k < Len(old) => old[k + 1] \in Samples
      BY <1>0
    <2> QED
      BY <1>0, <2>1, <2>2, <2>3
  <1>6. \A p \in 1..size : value(p - 1) \in Samples
    <2>1. \A p \in 1..size : p - 1 \in Nat
      OBVIOUS
    <2> QED
      BY <1>5, <2>1
  <1>7. ASSUME len > ShortPad, NEW k \in 0..(len + ShortPad - 1)
        PROVE  Padded(old, c, len, r)[k + 1] =
                  IF k < ShortPad THEN Sample(c, r, ShortPad - k) ELSE Sample(c, r, k - ShortPad)
    <2>1. k + 1 \in 1..size /\ (k + 1) - 1 = k /\ ~(k < head) /\ k < len + ShortPad
      BY <1>0, <1>1, <1>3, <1>7
    <2>2. Padded(old, c, len, r)[k + 1] = value((k + 1) - 1)
      BY <1>4, <2>1
    <2> QED
      BY <2>1, <2>2
  <1> HIDE DEF value
  <1>8. Padded(old, c, len, r) \in Seq(Samples) /\ Len(Padded(old, c, len, r)) = size
    BY <1>1, <1>4, <1>6
  <1>9. len > ShortPad => Holds(Padded(old, c, len, r), c, len, r)
    BY <1>7 DEF Holds
  <1> QED
    BY <1>0, <1>1, <1>8, <1>9

\* A frame is made of samples of the buffer.
LEMMA FrameType ==
    ASSUME NEW b \in Seq(Samples), NEW len \in Nat, len + ShortPad <= Len(b), NEW m \in Nat, NEW f \in Nat
    PROVE  FrameValue(b, len, m, f) \in Frames
  <1>0. FrameSize \in Nat /\ FrameStep \in Nat /\ ShortPad \in Nat /\ f * FrameStep \in Nat
    BY Sizes
  <1>1. Quiet \in Samples
    BY DEF Quiet, Samples
  <1>2. Silence \in Frames
    BY <1>1 DEF Silence, Frames
  <1>3. FrameOf(b, len + ShortPad, f) \in Frames
    <2>1. ASSUME NEW j \in 0..(FrameSize - 1), f * FrameStep + j < len + ShortPad
          PROVE  b[f * FrameStep + j + 1] \in Samples
      BY <1>0, <2>1
    <2> QED
      BY <1>1, <2>1 DEF FrameOf, Frames
  <1> QED
    BY <1>2, <1>3 DEF FrameValue

\* Behind the audio a frame is silent.
LEMMA SilentBehind ==
    ASSUME NEW b, NEW len \in Nat, NEW m \in Nat, NEW f \in Nat, f * FrameStep >= len + ShortPad
    PROVE  FrameValue(b, len, m, f) = Silence
  <1>0. FrameSize \in Nat /\ FrameStep \in Nat /\ ShortPad \in Nat /\ f * FrameStep \in Nat
    BY Sizes
  <1>1. \A j \in 0..(FrameSize - 1) : ~(f * FrameStep + j < len + ShortPad)
    BY <1>0
  <1>2. FrameOf(b, len + ShortPad, f) = Silence
    BY <1>1 DEF FrameOf, Silence
  <1> QED
    BY <1>2 DEF FrameValue

\* A frame depends on the samples in front of the end of the audio alone.
LEMMA SameFrame ==
    ASSUME NEW b, NEW d, NEW len \in Nat, NEW m \in Nat, NEW w \in Nat,
           Agree(b, d, len),
           NEW f \in Nat, f < m, m <= w
    PROVE  FrameValue(b, len, w, f) = FrameValue(d, len, m, f)
  <1>0. FrameSize \in Nat /\ FrameStep \in Nat \ {0} /\ ShortPad \in Nat /\ f * FrameStep \in Nat
    BY Sizes
  <1>1. FrameOf(b, len + ShortPad, f) = FrameOf(d, len + ShortPad, f)
    <2>1. ASSUME NEW j \in 0..(FrameSize - 1), f * FrameStep + j < len + ShortPad
          PROVE  b[f * FrameStep + j + 1] = d[f * FrameStep + j + 1]
      <3>1. f * FrameStep + j \in 0..(len + ShortPad - 1)
        BY <1>0, <2>1
      <3> QED
        BY <3>1 DEF Agree
    <2> QED
      BY <2>1 DEF FrameOf
  <1>2. PICK e \in Nat : e = (len + ShortPad) \div FrameStep + 1
    <2>1. PICK x \in Nat : x = len + ShortPad
      BY <1>0
    <2>2. x \div FrameStep \in Nat
      BY <1>0, NatDivision, Zenon
    <2> QED
      BY <2>1, <2>2
  <1>3. f < Lower(e, w) <=> f < Lower(e, m)
    BY DEF Lower
  <1> QED
    BY <1>1, <1>2, <1>3 DEF FrameValue
-----------------------------------------------------------------------------
(* The invariant.                                                          *)

\* A state that was never used.
LEMMA InitIInv == Init => IInv
  BY DEF Init, IInv, MelTypeOK, BufferOK, Busy

\* A column of the right type.
LEMMA RawType == ASSUME NEW v \in Frames PROVE Raw(v) \in Columns /\ Raw(v).frame = v
  BY DEF Raw, Columns

\* Resizing keeps columns and gives the length asked for.
LEMMA ResizedType ==
    ASSUME NEW data \in Seq(Columns), NEW m \in Nat
    PROVE  Resized(data, m) \in Seq(Columns) /\ Len(Resized(data, m)) = m
  <1>1. Silence \in Frames
    BY DEF Silence, Frames, Quiet, Samples
  <1>2. \A k \in 1..m : (IF k <= Len(data) THEN data[k] ELSE Raw(Silence)) \in Columns
    BY <1>1, RawType
  <1> QED
    BY <1>2 DEF Resized

\* A call pads its audio over the buffer; no thread has written a frame yet.
LEMMA BeginStep ==
    ASSUME IInv, NEW len \in Nat \ {0}, NEW r \in Nat, NEW threads \in Nat \ {0}, Begin(len, r, threads)
    PROVE  IInv'
  <1>1. /\ call' = call + 1 /\ n' = len /\ real' = r /\ buf' = Padded(buf, call + 1, len, r)
        /\ mel' = [n_len |-> NLen(Len(buf')), n_len_org |-> NLenOrg(len),
                   data |-> Resized(mel.data, NLen(Len(buf')))]
        /\ at' = [t \in 1..threads |-> t - 1]
    BY DEF Begin
  <1>2. buf \in Seq(Samples) /\ call \in Nat /\ call + 1 \in Nat /\ mel.data \in Seq(Columns)
    BY DEF IInv, MelTypeOK
  <1>3. /\ buf' \in Seq(Samples) /\ Len(buf') \in Nat /\ Len(buf') >= Needed(len)
        /\ len > ShortPad => Holds(buf', call + 1, len, r)
    BY <1>1, <1>2, PaddedFacts
  <1>4. NLen(Len(buf')) \in Nat
    BY <1>3, FrameCounts
  <1>5. NLenOrg(len) \in Int
    <2>1. FrameStep \in Nat \ {0} /\ len + ShortPad - FrameSize \in Int
      BY Sizes
    <2>2. PICK a \in Int : a = len + ShortPad - FrameSize
      BY <2>1
    <2>3. a \div FrameStep \in Int /\ (-a) \div FrameStep \in Int
      <3>1. -a \in Int
        OBVIOUS
      <3> QED
        BY <3>1, <2>1, Division, Zenon
    <2>4. Quotient(a, FrameStep) \in Int
      BY <2>3 DEF Quotient
    <2> QED
      BY <2>2, <2>4 DEF NLenOrg
  <1>6. at' \in Seq(Nat) /\ Len(at') = threads /\ at' # <<>>
    <2>1. \A t \in 1..threads : t - 1 \in Nat
      OBVIOUS
    <2>2. at' \in Seq(Nat) /\ Len(at') = threads
      BY <1>1, <2>1
    <2> QED
      BY <2>2
  <1>7. Resized(mel.data, NLen(Len(buf'))) \in Seq(Columns)
        /\ Len(Resized(mel.data, NLen(Len(buf')))) = NLen(Len(buf'))
    BY <1>2, <1>4, ResizedType
  <1>8. MelTypeOK'
    BY <1>1, <1>2, <1>3, <1>4, <1>5, <1>6, <1>7 DEF MelTypeOK
  <1>9. BufferOK'
    BY <1>1, <1>3 DEF BufferOK
  <1>10. ASSUME NEW t \in 1..Len(at') PROVE Written(t)'
    <2>1. t \in 1..threads /\ at'[t] = t - 1
      BY <1>1, <1>6
    <2>2. t - 1 \in Nat /\ t - 1 < threads /\ \A f \in Nat : f < t - 1 => f < threads /\ f # t - 1
      BY <2>1
    <2>3. \A f \in Nat : f < threads => f % threads = f
      <3> TAKE f \in Nat
      <3> HAVE f < threads
      <3> QED
        OBVIOUS
    <2>4. (t - 1) % threads = t - 1
      BY <2>2, <2>3
    <2>5. \A f \in 0..(mel'.n_len - 1) : ~(f % threads = t - 1 /\ f < t - 1)
      BY <2>2, <2>3
    <2> QED
      BY <1>6, <2>1, <2>4, <2>5 DEF Written
  <1> QED
    BY <1>1, <1>6, <1>8, <1>9, <1>10 DEF IInv, Busy

\* A thread writes its frame: the others' frames are of other classes.
LEMMA WriteStep == ASSUME IInv, NEW t \in DOMAIN at, WriteFrame(t) PROVE IInv'
  <1>1. /\ MelTypeOK /\ BufferOK /\ Busy /\ n > 0 /\ \A s \in 1..Len(at) : Written(s)
    BY DEF IInv, WriteFrame
  <1>2. /\ at[t] < mel.n_len
        /\ mel' = [mel EXCEPT !.data[at[t] + 1] = Raw(FrameValue(buf, n, mel.n_len, at[t]))]
        /\ at' = [at EXCEPT ![t] = @ + Len(at)]
        /\ UNCHANGED <<buf, call, n, real>>
    BY DEF WriteFrame, WrittenEnd
  <1>3. /\ at \in Seq(Nat) /\ t \in 1..Len(at) /\ Len(at) \in Nat \ {0} /\ at[t] \in Nat
        /\ mel \in [n_len : Nat, n_len_org : Int, data : Seq(Columns)] /\ Len(mel.data) = mel.n_len
        /\ mel.n_len \in Nat /\ mel.data \in Seq(Columns) /\ at[t] + 1 \in 1..Len(mel.data)
    BY <1>1, <1>2 DEF MelTypeOK
  <1>4. PICK v \in Frames : v = FrameValue(buf, n, mel.n_len, at[t])
    <2>1. buf \in Seq(Samples) /\ n \in Nat /\ n + ShortPad <= Len(buf)
      BY <1>1, Sizes DEF MelTypeOK, BufferOK, Needed
    <2> QED
      BY <2>1, <1>3, FrameType
  <1>5. /\ mel'.n_len = mel.n_len /\ mel'.n_len_org = mel.n_len_org
        /\ mel'.data = [mel.data EXCEPT ![at[t] + 1] = Raw(v)]
        /\ mel' \in [n_len : Nat, n_len_org : Int, data : Seq(Columns)] /\ Len(mel'.data) = mel.n_len
    <2>1. Raw(v) \in Columns
      BY RawType
    <2>2. /\ [mel.data EXCEPT ![at[t] + 1] = Raw(v)] \in Seq(Columns)
          /\ Len([mel.data EXCEPT ![at[t] + 1] = Raw(v)]) = mel.n_len
      BY <2>1, <1>3
    <2> QED
      BY <2>2, <1>2, <1>3, <1>4
  <1>6. /\ at' \in Seq(Nat) /\ Len(at') = Len(at) /\ at'[t] = at[t] + Len(at)
        /\ \A s \in 1..Len(at) : s # t => at'[s] = at[s]
    BY <1>2, <1>3
  <1>7. MelTypeOK'
    BY <1>1, <1>2, <1>5, <1>6 DEF MelTypeOK
  <1>8. BufferOK'
    BY <1>1, <1>2, <1>5 DEF BufferOK
  <1>9. \A f : Due(f)' = Due(f)
    BY <1>2, <1>5 DEF Due
  <1>10. ASSUME NEW s \in 1..Len(at') PROVE Written(s)'
    <2>0. s \in 1..Len(at) /\ Written(s) /\ Written(t)
      BY <1>1, <1>3, <1>6
    <2>1. ASSUME NEW f \in 0..(mel.n_len - 1)
          PROVE  mel'.data[f + 1] = IF f = at[t] THEN Raw(v) ELSE mel.data[f + 1]
      BY <1>3, <1>5
    <2>2. at'[s] % Len(at) = s - 1
      <3>1. CASE s = t
        <4>1. (at[t] + Len(at)) % Len(at) = at[t] % Len(at)
          BY <1>3, NextInClass
        <4> QED
          BY <3>1, <4>1, <2>0, <1>6 DEF Written
      <3>2. CASE s # t
        BY <3>2, <2>0, <1>6 DEF Written
      <3> QED
        BY <3>1, <3>2
    <2>3. ASSUME NEW f \in 0..(mel.n_len - 1), f % Len(at) = s - 1, f < at'[s]
          PROVE  mel'.data[f + 1].frame = Due(f)
      <3>1. CASE f = at[t]
        BY <3>1, <2>1, <1>4, RawType DEF Due
      <3>2. CASE f # at[t]
        <4>1. f < at[s]
          <5>1. CASE s # t
            BY <5>1, <2>0, <2>3, <1>6
          <5>2. CASE s = t
            <6>1. f \in Nat /\ f < at[t] + Len(at) /\ f % Len(at) = at[t] % Len(at)
              BY <5>2, <2>0, <2>3, <1>6 DEF Written
            <6>2. ~(at[t] <= f)
              BY <6>1, <3>2, <1>3, SameClass
            <6> QED
              BY <5>2, <6>1, <6>2, <1>3
          <5> QED
            BY <5>1, <5>2
        <4>2. mel.data[f + 1].frame = Due(f)
          BY <4>1, <2>0, <2>3 DEF Written
        <4> QED
          BY <4>2, <3>2, <2>1
      <3> QED
        BY <3>1, <3>2
    <2> QED
      BY <2>2, <2>3, <1>5, <1>6, <1>9 DEF Written
  <1>11. Busy'
    BY <1>3, <1>6 DEF Busy
  <1> QED
    BY <1>1, <1>2, <1>7, <1>8, <1>10, <1>11 DEF IInv

\* Every frame is of the class of one thread, so when all threads are past the end
\* every frame is written.
LEMMA AllWritten ==
    ASSUME IInv, Finish, NEW f \in 0..(mel.n_len - 1)
    PROVE  mel.data[f + 1].frame = Due(f)
  <1>1. /\ MelTypeOK /\ Busy /\ (\A s \in 1..Len(at) : Written(s)) /\ \A s \in 1..Len(at) : at[s] >= mel.n_len
    BY DEF IInv, Finish, WrittenEnd
  <1>2. Len(at) \in Nat \ {0} /\ f \in Nat /\ mel.n_len \in Nat
    BY <1>1 DEF MelTypeOK, Busy
  <1>3. f % Len(at) \in 0..(Len(at) - 1)
    BY <1>2, NatDivision, Zenon
  <1>4. PICK t \in 1..Len(at) : f % Len(at) = t - 1
    <2>1. PICK q \in 0..(Len(at) - 1) : q = f % Len(at)
      BY <1>3
    <2>2. q + 1 \in 1..Len(at) /\ (q + 1) - 1 = q
      BY <1>2
    <2> QED
      BY <2>1, <2>2
  <1>5. f < at[t]
    <2>1. at[t] \in Nat /\ at[t] >= mel.n_len
      BY <1>1 DEF MelTypeOK
    <2> QED
      BY <2>1, <1>2
  <1> QED
    BY <1>1, <1>4, <1>5 DEF Written

\* Normalisation keeps the frames and relates each to all of them.
LEMMA FinishStep == ASSUME IInv, Finish PROVE IInv'
  <1>1. MelTypeOK /\ BufferOK /\ Busy /\ n > 0
    BY DEF IInv, Finish
  <1>2. /\ mel' = [mel EXCEPT !.data = [k \in 1..mel.n_len |-> Normalised(mel.data[k], mel.data)]]
        /\ at' = <<>> /\ UNCHANGED <<buf, call, n, real>>
    BY DEF Finish
  <1>3. /\ mel \in [n_len : Nat, n_len_org : Int, data : Seq(Columns)] /\ Len(mel.data) = mel.n_len
        /\ mel.n_len \in Nat /\ mel.data \in Seq(Columns)
    BY <1>1 DEF MelTypeOK
  <1>4. PICK all : all = {mel.data[k].frame : k \in 1..mel.n_len}
    OBVIOUS
  <1>5. \A k \in 1..mel.n_len : mel.data[k].frame \in Frames
    <2>1. \A k \in 1..mel.n_len : mel.data[k] \in Columns
      BY <1>3
    <2> QED
      BY <2>1 DEF Columns
  <1>6. all \subseteq Frames
    BY <1>4, <1>5
  <1>7. \A k \in 1..mel.n_len : Normalised(mel.data[k], mel.data) = [frame |-> mel.data[k].frame, among |-> all]
    BY <1>3, <1>4 DEF Normalised
  <1>8. PICK data : data = [k \in 1..mel.n_len |-> Normalised(mel.data[k], mel.data)]
    OBVIOUS
  <1>9. data \in Seq(Columns) /\ Len(data) = mel.n_len
    <2>1. \A k \in 1..mel.n_len : Normalised(mel.data[k], mel.data) \in Columns
      <3> TAKE k \in 1..mel.n_len
      <3>1. mel.data[k].frame \in Frames /\ all \in SUBSET Frames
        BY <1>5, <1>6
      <3>2. [frame |-> mel.data[k].frame, among |-> all] \in Columns
        BY <3>1 DEF Columns
      <3> QED
        BY <3>2, <1>7
    <2> QED
      BY <2>1, <1>3, <1>8
  <1>10. /\ mel'.n_len = mel.n_len /\ mel'.n_len_org = mel.n_len_org /\ mel'.data = data
         /\ mel' \in [n_len : Nat, n_len_org : Int, data : Seq(Columns)]
    BY <1>2, <1>3, <1>8, <1>9
  <1>11. MelTypeOK'
    BY <1>1, <1>2, <1>9, <1>10 DEF MelTypeOK
  <1>12. BufferOK'
    BY <1>1, <1>2, <1>10 DEF BufferOK
  <1>13. \A f : Due(f)' = Due(f)
    BY <1>2, <1>10 DEF Due
  <1>14. all = {Due(e) : e \in 0..(mel.n_len - 1)}
    <2>1. \A k \in 1..mel.n_len : k - 1 \in 0..(mel.n_len - 1) /\ mel.data[k].frame = Due(k - 1)
      <3>1. ASSUME NEW k \in 1..mel.n_len PROVE k - 1 \in 0..(mel.n_len - 1) /\ (k - 1) + 1 = k
        BY <1>3
      <3> QED
        BY <3>1, AllWritten
    <2>2. \A e \in 0..(mel.n_len - 1) : e + 1 \in 1..mel.n_len /\ mel.data[e + 1].frame = Due(e)
      BY <1>3, AllWritten
    <2> QED
      BY <1>4, <2>1, <2>2
  <1>15. ASSUME NEW f \in 0..(mel.n_len - 1) PROVE mel'.data[f + 1].frame = Due(f) /\ mel'.data[f + 1].among = all
    <2>1. f + 1 \in 1..mel.n_len /\ mel.data[f + 1].frame = Due(f)
      BY <1>3, AllWritten
    <2>2. mel'.data[f + 1] = [frame |-> mel.data[f + 1].frame, among |-> all]
      BY <2>1, <1>7, <1>8, <1>10
    <2> QED
      BY <2>1, <2>2
  <1>16. Complete'
    BY <1>10, <1>13, <1>14, <1>15 DEF Complete
  <1>17. ~Busy'
    BY <1>2 DEF Busy
  <1> QED
    BY <1>11, <1>12, <1>16, <1>17 DEF IInv

\* A spectrogram of the host's own takes the place of the last one.
LEMMA SetMelStep == ASSUME IInv, SetMel PROVE IInv'
  <1>1. PICK len \in MelLens :
          /\ ~Busy /\ call' = call + 1 /\ n' = 0 /\ real' = 0 /\ UNCHANGED <<buf, at>>
          /\ mel' = [n_len |-> len, n_len_org |-> len,
                     data  |-> [k \in 1..len |-> Raw([j \in 0..(FrameSize - 1) |-> <<call + 1, k>>])]]
    BY DEF SetMel
  <1>2. len \in Nat /\ MelTypeOK /\ call \in Nat
    BY MelAssumption DEF IInv, MelTypeOK
  <1>3. \A k \in 1..len : Raw([j \in 0..(FrameSize - 1) |-> <<call + 1, k>>]) \in Columns
    <2>1. \A k \in 1..len : [j \in 0..(FrameSize - 1) |-> <<call + 1, k>>] \in Frames
      BY <1>2 DEF Frames, Samples
    <2> QED
      BY <2>1, RawType
  <1>4. PICK data : data = [k \in 1..len |-> Raw([j \in 0..(FrameSize - 1) |-> <<call + 1, k>>])]
    OBVIOUS
  <1>5. data \in Seq(Columns) /\ Len(data) = len
    <2> DEFINE column(k) == Raw([j \in 0..(FrameSize - 1) |-> <<call + 1, k>>])
    <2>1. data = [k \in 1..len |-> column(k)] /\ \A k \in 1..len : column(k) \in Columns
      BY <1>3, <1>4
    <2> HIDE DEF column
    <2> QED
      BY <2>1, <1>2
  <1>6. MelTypeOK'
    <2>1. mel' = [n_len |-> len, n_len_org |-> len, data |-> data]
      BY <1>1, <1>4
    <2>2. /\ mel' \in [n_len : Nat, n_len_org : Int, data : Seq(Columns)]
          /\ Len(mel'.data) = mel'.n_len
      BY <2>1, <1>2, <1>5
    <2> QED
      <3>1. buf' \in Seq(Samples) /\ at' \in Seq(Nat) /\ call' \in Nat /\ n' \in Nat /\ real' \in Nat
        BY <1>1, <1>2 DEF MelTypeOK
      <3> QED
        BY <2>2, <3>1 DEF MelTypeOK
  <1>7. BufferOK' /\ ~Busy'
    BY <1>1 DEF BufferOK, Busy
  <1> QED
    BY <1>1, <1>6, <1>7 DEF IInv

\* A step that changes nothing.
LEMMA IdleStep == ASSUME IInv, UNCHANGED vars PROVE IInv'
  BY DEF vars, IInv, MelTypeOK, BufferOK, Busy, Written, Complete, Due
-----------------------------------------------------------------------------
(* The theorems.                                                           *)

\* The invariant holds through every sequence of calls.
THEOREM MelInvariant == Spec => []IInv
  <1>1. IInv /\ [Next]_vars => IInv'
    <2> SUFFICES ASSUME IInv, [Next]_vars PROVE IInv'
      OBVIOUS
    <2>1. CASE PcmToMel
      <3>1. PICK len \in AudioLens, threads \in ThreadCounts : Begin(len, len, threads)
        BY <2>1 DEF PcmToMel
      <3>2. len \in Nat \ {0} /\ threads \in Nat \ {0}
        BY MelAssumption
      <3> QED
        BY <3>1, <3>2, BeginStep
    <2>2. CASE Full
      <3>1. PICK len \in AudioLens, threads \in ThreadCounts :
                Begin(IF len < MinSamples THEN MinSamples ELSE len, len, threads)
        BY <2>2 DEF Full
      <3>2. PICK padded : padded = IF len < MinSamples THEN MinSamples ELSE len
        OBVIOUS
      <3>3. padded \in Nat \ {0} /\ len \in Nat /\ threads \in Nat \ {0}
        <4>1. len \in Nat \ {0} /\ threads \in Nat \ {0} /\ MinSamples \in Nat
          BY MelAssumption
        <4> QED
          BY <4>1, <3>2
      <3> QED
        BY <3>1, <3>2, <3>3, BeginStep
    <2>3. CASE Rest
      BY <2>3, IdleStep DEF Rest
    <2> QED
      BY <2>1, <2>2, <2>3, WriteStep, FinishStep, SetMelStep, IdleStep DEF Next
  <1> QED
    BY <1>1, InitIInv, PTL DEF Spec

\* Every window that starts inside the audio lies inside the spectrogram, for any
\* frame size, hop and length of the audio.
THEOREM WindowsLieInside == Spec => []WindowInside
  <1>1. IInv => WindowInside
    <2> SUFFICES ASSUME IInv, ~Busy, n > 0, NEW seek \in 0..(mel.n_len_org - 1) PROVE seek + Window <= mel.n_len
      BY DEF WindowInside
    <2>1. n \in Nat \ {0} /\ Len(buf) \in Nat /\ Len(buf) >= Needed(n) /\ mel.n_len = NLen(Len(buf)) /\ mel.n_len_org = NLenOrg(n)
      BY DEF IInv, MelTypeOK, BufferOK
    <2>2. seek + Window <= NLen(Needed(n)) /\ NLen(Needed(n)) <= NLen(Len(buf)) /\ NLen(Needed(n)) \in Nat /\ NLen(Len(buf)) \in Nat
      BY <2>1, FrameCounts
    <2> QED
      BY <2>1, <2>2, Sizes
  <1> QED
    BY <1>1, MelInvariant, PTL

\* Reusing the buffers is invisible: whatever audio a state has seen before, and for
\* every number of threads, the encoder gets the frames a fresh state would give.
THEOREM ReuseIsInvisible == Spec => []SameAsFresh
  <1>1. IInv => SameAsFresh
    <2> SUFFICES ASSUME IInv, ~Busy, n > ShortPad,
                        NEW seek \in 0..(mel.n_len_org - 1), NEW k \in 0..(Window - 1)
                 PROVE  EncoderInput(mel, seek, k) = EncoderInput(Fresh, seek, k)
      BY DEF SameAsFresh
    <2>1. /\ n \in Nat \ {0} /\ call \in Nat /\ real \in Nat /\ Len(buf) \in Nat
          /\ Len(buf) >= Needed(n) /\ mel.n_len = NLen(Len(buf)) /\ mel.n_len_org = NLenOrg(n)
          /\ Holds(buf, call, n, real)
          /\ Complete /\ mel \in [n_len : Nat, n_len_org : Int, data : Seq(Columns)]
          /\ mel.data \in Seq(Columns) /\ Len(mel.data) = mel.n_len
      <3>1. n \in Nat /\ n > 0
        BY Sizes DEF IInv, MelTypeOK
      <3> QED
        BY <3>1 DEF IInv, MelTypeOK, BufferOK
    <2>2. PICK b : b = Padded(<<>>, call, n, real)
      OBVIOUS
    <2>3. Len(b) = Needed(n) /\ Holds(b, call, n, real)
      <3>1. <<>> \in Seq(Samples) /\ Len(<<>>) = 0 /\ 0 < Needed(n)
        BY <2>1, Sizes DEF Needed
      <3> QED
        <4>1. /\ Len(b) = IF Len(<<>>) < Needed(n) THEN Needed(n) ELSE Len(<<>>)
              /\ n > ShortPad => Holds(b, call, n, real)
          BY <2>1, <2>2, <3>1, PaddedFacts, ZenonT(40)
        <4> QED
          BY <4>1, <3>1
    <2>4. PICK m : m = NLen(Len(b))
      OBVIOUS
    <2>5. /\ m \in Nat /\ mel.n_len \in Nat /\ m <= mel.n_len
          /\ \E f \in 0..(m - 1) : f * FrameStep >= n + ShortPad
          /\ \A f \in Nat : f >= m => f * FrameStep >= n + ShortPad
          /\ seek + Window <= m
      BY <2>1, <2>3, <2>4, FrameCounts
    <2>6. \A f \in 0..(m - 1) : Due(f) = FrameValue(b, n, m, f)
      <3> TAKE f \in 0..(m - 1)
      <3>1. f \in Nat /\ f < m
        BY <2>5
      <3>2. Agree(buf, b, n)
        BY <2>1, <2>3 DEF Holds, Agree
      <3>3. n \in Nat /\ m \in Nat /\ mel.n_len \in Nat /\ m <= mel.n_len
        BY <2>1, <2>5
      <3>4. FrameValue(buf, n, mel.n_len, f) = FrameValue(b, n, m, f)
        BY <3>1, <3>2, <3>3, SameFrame
      <3> QED
        BY <3>4 DEF Due
    <2>7. {Due(e) : e \in 0..(mel.n_len - 1)} = {FrameValue(b, n, m, e) : e \in 0..(m - 1)}
      <3>1. ASSUME NEW e \in 0..(mel.n_len - 1) PROVE \E f \in 0..(m - 1) : Due(e) = FrameValue(b, n, m, f)
        <4>1. CASE e < m
          BY <4>1, <2>5, <2>6
        <4>2. CASE e >= m
          <5>1. e \in Nat /\ e * FrameStep >= n + ShortPad
            BY <4>2, <2>5
          <5>2. Due(e) = Silence
            BY <5>1, <2>1, <2>5, SilentBehind DEF Due
          <5>3. PICK f \in 0..(m - 1) : f * FrameStep >= n + ShortPad
            BY <2>5
          <5>4. f \in Nat
            OBVIOUS
          <5>5. FrameValue(b, n, m, f) = Silence
            BY <5>3, <5>4, <2>1, <2>5, SilentBehind
          <5> QED
            BY <5>2, <5>5
        <4> QED
          BY <4>1, <4>2, <2>5
      <3>2. \A f \in 0..(m - 1) : f \in 0..(mel.n_len - 1)
        BY <2>5
      <3> QED
        BY <3>1, <3>2, <2>6
    <2>8. PICK data : data = [j \in 1..m |-> Raw(FrameValue(b, n, m, j - 1))]
      OBVIOUS
    <2>9. Fresh = [n_len |-> m, data |-> [j \in 1..m |-> Normalised(data[j], data)]]
      BY <2>2, <2>4, <2>8 DEF Fresh
    <2>10. {data[j].frame : j \in 1..Len(data)} = {FrameValue(b, n, m, e) : e \in 0..(m - 1)}
      <3>1. Len(data) = m
        BY <2>5, <2>8
      <3>2. \A j \in 1..m : data[j].frame = FrameValue(b, n, m, j - 1)
        BY <2>8 DEF Raw
      <3>3. \A j \in 1..m : j - 1 \in 0..(m - 1)
        BY <2>5
      <3>4. \A e \in 0..(m - 1) : e + 1 \in 1..m /\ (e + 1) - 1 = e
        BY <2>5
      <3> QED
        BY <3>1, <3>2, <3>3, <3>4
    <2>11. PICK f : f = seek + k
      OBVIOUS
    <2>12. f \in 0..(m - 1) /\ f < m /\ f < mel.n_len /\ f + 1 \in 1..m /\ (f + 1) - 1 = f /\ f \in 0..(mel.n_len - 1)
      BY <2>5, <2>11, Sizes
    <2>13. mel.data[f + 1] = [frame |-> FrameValue(b, n, m, f), among |-> {FrameValue(b, n, m, e) : e \in 0..(m - 1)}]
      <3>1. mel.data[f + 1] \in Columns
        BY <2>1, <2>12
      <3>2. mel.data[f + 1].frame = FrameValue(b, n, m, f)
        BY <2>1, <2>6, <2>12 DEF Complete
      <3>3. mel.data[f + 1].among = {FrameValue(b, n, m, e) : e \in 0..(m - 1)}
        BY <2>1, <2>7, <2>12 DEF Complete
      <3> QED
        BY <3>1, <3>2, <3>3 DEF Columns
    <2>14. Fresh.data[f + 1] = [frame |-> FrameValue(b, n, m, f), among |-> {FrameValue(b, n, m, e) : e \in 0..(m - 1)}]
      <3>1. Fresh.data[f + 1] = Normalised(data[f + 1], data)
        BY <2>9, <2>12
      <3>2. data[f + 1].frame = FrameValue(b, n, m, f)
        BY <2>8, <2>12 DEF Raw
      <3> QED
        BY <3>1, <3>2, <2>10 DEF Normalised
    <2>15. Fresh.n_len = m
      BY <2>9
    <2> QED
      BY <2>11, <2>12, <2>13, <2>14, <2>15 DEF EncoderInput
  <1> QED
    BY <1>1, MelInvariant, PTL
=============================================================================
