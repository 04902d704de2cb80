------------------------------ MODULE MCEngine ------------------------------
(***************************************************************************)
(* Small values of the constants of Engine.tla for TLC: two servers that   *)
(* both list one tool, and a name that only the model has heard of.        *)
(***************************************************************************)
EXTENDS Engine

CONSTANTS s1, s2, query, unheard

TwoServers == <<s1, s2>>

SameTool == [s \in {s1, s2} |-> {query}]
=============================================================================
