------------------------- MODULE MCExperimentQuery -------------------------
(* Model values for checking ExperimentQuery with TLC. *)
EXTENDS ExperimentQuery, TLC

CONSTANTS u1, u2, u3, u4

MCUid == {u1, u2, u3, u4}

Symmetry == Permutations(MCUid)
=============================================================================
