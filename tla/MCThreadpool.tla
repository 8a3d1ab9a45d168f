---------------------------- MODULE MCThreadpool ----------------------------
(* A small instance of Threadpool for TLC.                                 *)
EXTENDS Threadpool

\* A product with a node after it; a fused pair first and
\* a nop last.
Graphs2 == {<<"chunk", "share">>, <<"fuse", "fused", "nop">>}
=============================================================================
