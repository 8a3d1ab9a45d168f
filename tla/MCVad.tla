------------------------------- MODULE MCVad -------------------------------
(***************************************************************************)
(* Instances of Vad for TLC: the code's own sample rate, window and gaps,  *)
(* an audio of 17 windows whose last is not full, and parameters short     *)
(* enough for three segments to fit.                                       *)
(***************************************************************************)
EXTENDS Vad

Par(speech, silence, max, pad, overlap) ==
    [threshold |-> 50, min_speech_ms |-> speech, min_silence_ms |-> silence, max_speech_ms |-> max,
     speech_pad_ms |-> pad, overlap_ms |-> overlap]

\* The defaults but for the minimal speech.
DefaultParams == {Par(30, 100, 200000000, 30, 100)}

Params == DefaultParams \cup
    {Par(60, 300, 1000, 250, 0),     \* a maximal duration of less than the audio, no overlap
     Par(120, 50, 500, 130, 100),    \* a maximum under a second, padding that meets between segments
     [Par(90, 50, 500, 30, 40) EXCEPT !.threshold = 0]}

\* No padding, and speech as short as a window.
UnpaddedParams == {Par(30, 100, 200000000, 0, 100)}
=============================================================================
