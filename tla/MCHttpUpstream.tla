--------------------------- MODULE MCHttpUpstream ---------------------------
(* Small instances of HttpUpstream.                                        *)
EXTENDS HttpUpstream

CONSTANTS c1, c2

\* One caller forwards two messages, so that a second follows one that failed or
\* timed out; the other forwards one.
TwoAndOne == [c \in {c1, c2} |-> IF c = c1 THEN 2 ELSE 1]
=============================================================================
