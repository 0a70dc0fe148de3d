--------------------------- MODULE MCAllExperiments ---------------------------
(* AllExperiments with a few requests of each kind, for TLC. *)
EXTENDS AllExperimentsInv, TLC

\* An archive that can be run and one whose format is refused.
MCArchives ==
    {{[form |-> "n", s |-> NoPid, n |-> n]} : n \in {"main.bat", "main.sh"}}

\* Handlers and uids are interchangeable.
Symmetry == Permutations(DestroyReq) \cup Permutations(Uid)
=============================================================================
