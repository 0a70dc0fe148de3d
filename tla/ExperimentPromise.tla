-------------------------- MODULE ExperimentPromise --------------------------
(***************************************************************************)
(* What the agent promises about a cpu or mem experiment, seen only        *)
(* through its recorded status and through whether its load is running.    *)
(***************************************************************************)
CONSTANT Uid

VARIABLES
    phase,      \* the status recorded for a uid, "Absent" before its row
    live        \* the uids whose recorded helper process is running

promiseVars == <<phase, live>>

Phase == {"Absent", "Created", "Success", "Destroyed"}

Init ==
    /\ phase = [u \in Uid |-> "Absent"]
    /\ live = {}

\* A helper records itself while it is running.
Begin(u) ==
    /\ phase[u] = "Absent"
    /\ phase' = [phase EXCEPT ![u] = "Created"]
    /\ live' = live \cup {u}

\* Only a running experiment can report that its time is up.
Expire(u) ==
    /\ u \in live
    /\ phase[u] = "Created"
    /\ phase' = [phase EXCEPT ![u] = "Success"]
    /\ UNCHANGED live

\* A helper stops: by its timer, by a destroy, or by a crash.
Stop(u) ==
    /\ u \in live
    /\ live' = live \ {u}
    /\ UNCHANGED phase

\* Destroyed is recorded only once the load has stopped, and for good.
Destroy(u) ==
    /\ u \notin live
    /\ phase[u] \in {"Created", "Success"}
    /\ phase' = [phase EXCEPT ![u] = "Destroyed"]
    /\ UNCHANGED live

Next == \E u \in Uid : Begin(u) \/ Expire(u) \/ Stop(u) \/ Destroy(u)

Spec == Init /\ [][Next]_promiseVars
=============================================================================
