---------------------------- MODULE MCSettingsFile --------------------------
(* Two managers and two fields; setters come in bursts, or files fail.     *)
EXTENDS SettingsFile, TLC

CONSTANTS p, q, theme, model

Symmetry == Permutations({p, q}) \cup Permutations({theme, model})

BurstOrFailure == {{"burst"}, {"writeFails", "loadFails"}}
=============================================================================
