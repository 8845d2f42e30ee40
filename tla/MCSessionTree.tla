--------------------------- MODULE MCSessionTree ----------------------------
(* Two session files and one label.                                        *)
EXTENDS SessionTree, TLC

CONSTANTS a, b

Paths == Permutations({a, b})
=============================================================================
