------------------------- MODULE MCWhisperParallel -------------------------
(* Small instances of WhisperParallel for TLC.                             *)
EXTENDS WhisperParallel

\* What a chunk may give: nothing, one segment inside it, one that reaches past
\* its end, and two.
Times ==
    {<<>>, <<[t0 |-> 0, t1 |-> 2]>>, <<[t0 |-> 1, t1 |-> 9]>>,
     <<[t0 |-> 0, t1 |-> 1], [t0 |-> 1, t1 |-> 3]>>}
=============================================================================
