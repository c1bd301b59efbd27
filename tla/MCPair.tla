------------------------------- MODULE MCPair -------------------------------
(* The two ends of a connection, a server S and a client C, as model values *)
(* and what a function of the ends or of the streams is written with.      *)
CONSTANTS S, C

MCEnds == {S, C}
Both(s, c) == [e \in {S, C} |-> IF e = S THEN s ELSE c]
OnStreams(n, f) == [j \in {0, 1} |-> IF j = 0 THEN n ELSE f]
=============================================================================
