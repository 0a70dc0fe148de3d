--------------------------- MODULE ExperimentsInv ---------------------------
(***************************************************************************)
(* The inductive invariant behind the safety properties of Experiments.    *)
(* The properties themselves are not inductive: that a kill hits the right *)
(* process depends on how rows, helpers, pids and the copies the destroy   *)
(* handlers hold agree with each other at every step.                      *)
(***************************************************************************)
EXTENDS Experiments

\* A request has a uid from the moment it is accepted; only a helper that
\* runs or has run can have a row.
Stages ==
    \A e \in Req :
        /\ pc[e] \in {"new", "rejected"} => uid[e] = NoUid
        /\ inserted[e] => pc[e] \in {"burning", "dead"} /\ uid[e] \in Uid
        /\ pc[e] \in {"spawning", "starting", "burning"} => uid[e] \in Uid
        /\ marked[e] => e \in MemReq /\ uid[e] \in Uid

\* A row of a load; in AllExperiments a row can be a script's, too.
IsLoad(u) == Stored(u) /\ table[u].cmdType # "script"

\* Every such row belongs to exactly one helper, the one that inserted it.
RowsHaveOwners ==
    /\ \A u \in Uid : IsLoad(u) <=> \E e \in Req : Owns(e, u)
    /\ \A e, x \in Req : inserted[e] /\ inserted[x] /\ uid[e] = uid[x] => e = x

\* No two running processes have the same pid.
PidsAreUnique ==
    /\ \A e \in Req : Alive(e) => pid[e] \in Pid /\ pid[e] \notin foreignPids
    /\ \A e, x \in Req : Alive(e) /\ Alive(x) /\ pid[e] = pid[x] => e = x

\* What a destroy handler holds is still true of the load it is after: the
\* pid while it is about to kill, the end of the load when it has killed one
\* that it could open.
JobsAreAccurate ==
    \A d \in DestroyReq :
        /\ dpc[d] \in {"kill", "update"} => target[d] \in Uid /\ Stored(target[d])
        /\ answer[d] \in {"success", "already"} =>
              target[d] \in Uid /\ Stored(target[d])
        /\ \A e \in Req : Owns(e, target[d]) /\ Alive(e) =>
              /\ dpc[d] = "update" => e \in Guarded
              /\ dpc[d] = "kill" => victim[d] = pid[e]

IInv ==
    /\ TypeOK
    /\ Stages
    /\ RowsHaveOwners
    /\ PidsAreUnique
    /\ RowNamesLiveProcess
    /\ JobsAreAccurate
    /\ DestroyedIsDead
    /\ SuccessMeansDead

\* With uids that do not repeat, a row also reports the timer faithfully:
\* while the load runs it says Created until its own timer has fired, and
\* it never says Error.
UidsAreUnique ==
    \A e, x \in Req : uid[e] = uid[x] /\ uid[e] # NoUid => e = x

StatusFollowsTimer ==
    /\ \A e \in Req \ Guarded : inserted[e] /\ Alive(e) /\ ~marked[e] =>
          HasStatus(uid[e], "Created")
    /\ \A u \in Uid : ~HasStatus(u, "Error")

\* While there are no scripts.
OnlyLoads == \A u \in Uid : Stored(u) => IsLoad(u)

UInv == IInv /\ UidsAreUnique /\ StatusFollowsTimer /\ OnlyLoads
=============================================================================
