--------------------------- MODULE MCInputSources ---------------------------
(* A queue of two events, a screen of two columns and two rows, the keys   *)
(* that share a modifier, two that share a code, one that is not mapped.   *)
EXTENDS InputSources

MCMaxPos == [a \in Axis |-> 1]
MCSteps == {-2, 1}
=============================================================================
