---------------------------- MODULE KvSequences ----------------------------
(***************************************************************************)
(* What the self-attention KV cache promises to the decoders of one        *)
(* whisper_state: each decoder attends to a sequence of tokens of its own, *)
(* given as the set of its <<position, token>> entries.  A temperature     *)
(* starts from one prompt, beam search deals the sequences out anew at one *)
(* instant, and a batch extends some of them by one token each.            *)
(***************************************************************************)
EXTENDS Integers, FiniteSets

CONSTANTS Decoders, Tokens

VARIABLES
    view,    \* the entries each decoder attends to
    busy     \* is a temperature under way?

\* Entries that hold every position once, from 0 on.
IsSequence(v) == {e[1] : e \in v} = 0..(Cardinality(v) - 1)

Init == view = [j \in Decoders |-> {}] /\ busy = FALSE

\* Decoder 0 starts from a new prompt and nothing is left of the others.
Restart ==
    /\ ~busy
    /\ IsSequence(view'[0])
    /\ \A j \in Decoders \ {0} : view'[j] = {}

\* Decoder 0 alone starts anew, to detect the language.
Detect ==
    /\ ~busy /\ ~busy'
    /\ IsSequence(view'[0])
    /\ \A j \in Decoders \ {0} : view'[j] = view[j]

\* Decoders take over sequences that decoders had before the step.
Deal ==
    /\ busy /\ busy'
    /\ \A j \in Decoders : \E s \in Decoders : view'[j] = view[s]

\* Decoders get one entry more, each at the end of its own sequence.
Extend ==
    /\ busy
    /\ \A j \in Decoders :
          \/ view'[j] = view[j]
          \/ \E t \in Tokens : view'[j] = view[j] \cup {<<Cardinality(view[j]), t>>}

Next == /\ DOMAIN view' = Decoders
        /\ Restart \/ Detect \/ Deal \/ Extend

Spec == Init /\ [][Next]_<<view, busy>>
=============================================================================
