----------------------------- MODULE MCAppInfo -----------------------------
(* Model values for checking AppInfo with TLC. *)
EXTENDS AppInfo, TLC

CONSTANTS h1, h2

MCRequest == {h1, h2}

Symmetry == Permutations(MCRequest)
=============================================================================
