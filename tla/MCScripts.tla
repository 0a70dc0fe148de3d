------------------------------ MODULE MCScripts ------------------------------
(* Scripts with a few requests and directories, for TLC. *)
EXTENDS Scripts, TLC

Plain(n) == [form |-> "n", s |-> NoDir, n |-> n]

Into(s, form) == [form |-> form, s |-> s, n |-> "main.bat"]

\* An archive with a batch script and a script of a format that the agent
\* refuses, and one with members that lead into directory s.  Members may be
\* missing all the same: the unpacking may end early.
MCArchives ==
    {{Plain("main.bat"), Plain("main.sh")}} \cup
    {{Into(s, "../s/n"), Into(s, "s/n")} : s \in Dir}

Symmetry ==
    Permutations(ScriptReq) \cup Permutations(DestroyReq) \cup
    Permutations(Uid) \cup Permutations(Dir)
=============================================================================
