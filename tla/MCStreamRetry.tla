--------------------------- MODULE MCStreamRetry ---------------------------
(* StreamRetry with two members, two attempts and a few deltas.            *)
EXTENDS StreamRetry
============================================================================
