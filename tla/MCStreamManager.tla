--------------------------- MODULE MCStreamManager ---------------------------
(* Instance of StreamManager for TLC. *)
EXTENDS StreamManager, TLC

CONSTANTS h1, h2, t1, t2

\* h2 overlaps h1: closing either of them leaves a topic the other needs.
MCWants == [h \in Handles |-> IF h = h1 THEN {t1} ELSE {t1, t2}]

=============================================================================
