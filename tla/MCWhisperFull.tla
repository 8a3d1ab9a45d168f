--------------------------- MODULE MCWhisperFull ---------------------------
(* Small instances of WhisperFull for TLC.                                 *)
EXTENDS WhisperFull

Default ==
    [strategy |-> "greedy", best_of |-> 1, beam_size |-> 1,
     temperature |-> 0, temperature_inc |-> 6,
     n_max_text_ctx |-> 8, n_prompt |-> 0, carry_initial_prompt |-> FALSE,
     no_context |-> TRUE, no_timestamps |-> FALSE, single_segment |-> FALSE,
     suppress_blank |-> TRUE, max_tokens |-> 0, max_initial_ts |-> 1,
     offset_ms |-> 0, duration_ms |-> 0, language |-> "given",
     audio_ctx_ok |-> TRUE, dtw |-> FALSE]

\* One greedy decoder with timestamps, a call of one short segment, every early
\* return and failure of a call, and a call that falls back to two decoders.
TranscribeParams ==
    {[Default EXCEPT !.language = l] : l \in {"given", "auto", "detect_only"}}
    \cup {[Default EXCEPT !.single_segment = TRUE, !.max_tokens = 2],
          [Default EXCEPT !.best_of = 3],
          [Default EXCEPT !.best_of = 2, !.max_tokens = 1, !.duration_ms = 50],
          [Default EXCEPT !.audio_ctx_ok = FALSE],
          [Default EXCEPT !.duration_ms = 20], [Default EXCEPT !.offset_ms = 60]}

\* Beam search at temperature 0, one sampled decoder above.
BeamParams ==
    {[Default EXCEPT !.strategy = "beam", !.beam_size = 2, !.temperature_inc = 10]}

\* Prompt history across windows and calls.  In one call the
\* budget is smaller than the prompt an earlier call carried, in one the list
\* of temperatures is empty.
PromptBase == [Default EXCEPT !.no_timestamps = TRUE, !.no_context = FALSE]

PromptParams ==
    {[PromptBase EXCEPT !.n_prompt = n, !.carry_initial_prompt = c, !.no_context = k]
        : n \in {0, 2, 9}, c \in BOOLEAN, k \in BOOLEAN}
    \cup {[PromptBase EXCEPT !.n_prompt = 3, !.carry_initial_prompt = TRUE, !.n_max_text_ctx = 2],
          [PromptBase EXCEPT !.temperature = 12]}

\* The carried prompt of one call meets the smaller budget of the next.
BudgetParams ==
    {[PromptBase EXCEPT !.n_prompt = 3, !.carry_initial_prompt = TRUE, !.n_max_text_ctx = n]
        : n \in {2, 8}}

\* The instance of the passing run: the first two families in one call each,
\* of one or two windows of audio or with no audio; prompts in two calls.
AllParams == TranscribeParams \cup BeamParams \cup PromptParams

OneOrTwoCalls(made, last, p, n) ==
    \/ made = 0 /\ p \in TranscribeParams /\ n \in {0, 7}
    \/ made = 0 /\ p \in BeamParams /\ n = 3
    \/ (made = 1 => last \in PromptParams) /\ p \in PromptParams /\ n \in {0, 9}

AnyCall(made, last, p, n) == TRUE

TailParams     == {Default}
KillParams     == {[Default EXCEPT !.no_timestamps = TRUE]}
DtwParams      == {[Default EXCEPT !.dtw = TRUE]}
=============================================================================
