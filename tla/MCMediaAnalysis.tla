--------------------------- MODULE MCMediaAnalysis ---------------------------
(* Two requests with the same attachment and one with another: they share  *)
(* an analysis, and the two analyses compete for the only vision permit.   *)
EXTENDS MediaAnalysis

CONSTANTS r1, r2, r3, k1, k2

MCRequests == {r1, r2, r3}
MCKeys == {k1, k2}
MCKeyOf == [r \in MCRequests |-> IF r = r3 THEN k2 ELSE k1]
MCMaxCalls == [k \in MCKeys |-> IF k = k1 THEN 1 ELSE 2]
MCFlaky == {r1, r2}
=============================================================================
