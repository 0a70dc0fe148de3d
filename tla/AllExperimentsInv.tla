-------------------------- MODULE AllExperimentsInv --------------------------
(***************************************************************************)
(* The inductive invariant behind the safety properties of AllExperiments: *)
(* that of the loads, and what keeps the scripts, their rows and their     *)
(* directories in agreement while the loads write to the same table.       *)
(***************************************************************************)
EXTENDS AllExperiments, ExperimentsInv

ScriptTypes ==
    /\ script \in [ScriptReq -> S!PC]
    /\ scriptUid \in [ScriptReq -> Uid \cup {NoUid}]
    /\ dir \in [ScriptReq -> Dir \cup {NoPid}]
    /\ archive \in [ScriptReq -> SUBSET S!Entry]
    /\ recorded \in [ScriptReq -> BOOLEAN]
    /\ disk \in [Dir -> [S!Member -> SUBSET ScriptReq]]
    /\ sdpc \in [DestroyReq -> {"idle", "remove", "update"}]

\* A request has a directory from its first step on and a uid when it inserts
\* its row, and it unpacks nothing any more when it has one.
ScriptStages ==
    \A s \in ScriptReq :
        /\ script[s] = "new" => dir[s] = NoPid
        /\ script[s] \notin {"new", "failed"} => dir[s] \in Dir
        /\ script[s] \in {"new", "download"} => archive[s] = {}
        /\ script[s] \in {"insert", "ready", "running", "report"} =>
              scriptUid[s] \in Uid
        /\ recorded[s] =>
              script[s] \notin {"new", "download", "untar", "list", "named", "insert"}

\* What was recorded stays the row of the script and names its directory.
ScriptRows ==
    \A s \in ScriptReq : recorded[s] =>
        /\ scriptUid[s] \in Uid
        /\ dir[s] \in Dir
        /\ IsScript(scriptUid[s])
        /\ table[scriptUid[s]].handle = dir[s]

\* A handler stays in the case of the switch it has taken: the kind of a row
\* never changes, nor does the directory in it.
SwitchHolds ==
    \A d \in DestroyReq :
        /\ dpc[d] # "idle" => ~IsScript(target[d])
        /\ sdpc[d] # "idle" =>
              /\ dpc[d] = "idle"
              /\ answer[d] = "none"
              /\ target[d] \in Uid
              /\ IsScript(target[d])
              /\ victim[d] = table[target[d]].handle

\* Somebody has removed the files under uid u, or has reported so.
Removed(u) ==
    \/ HasStatus(u, "Destroyed")
    \/ \E d \in DestroyReq :
          /\ target[d] = u
          /\ sdpc[d] = "update" \/ answer[d] \in {"success", "already"}

RemovedIsGone ==
    \A s \in ScriptReq :
        recorded[s] /\ S!Unshared(s) /\ Removed(scriptUid[s]) =>
            disk[dir[s]] = S!Nothing

AllInv ==
    /\ IInv
    /\ ScriptTypes
    /\ ScriptStages
    /\ ScriptRows
    /\ SwitchHolds
    /\ RemovedIsGone
=============================================================================
