-------------------------- MODULE MCLightRagIngest -------------------------
(* LightRagIngest for TLC: the faults come one kind at a time.             *)
EXTENDS LightRagIngest

CONSTANTS p1, p2

OneKind  == {{f} : f \in Faults}

=============================================================================
