---------------------------- MODULE MCExperiments ----------------------------
(* Experiments on a small machine, for TLC. *)
EXTENDS ExperimentsInv, TLC

\* Requests, handlers, uids and pids of one kind are interchangeable.
Symmetry ==
    Permutations(CpuReq) \cup Permutations(MemReq) \cup
    Permutations(DestroyReq) \cup Permutations(Uid) \cup Permutations(Pid)
=============================================================================
