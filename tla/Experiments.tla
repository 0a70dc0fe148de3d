----------------------------- MODULE Experiments -----------------------------
(***************************************************************************)
(* Life of the cpu and mem experiments: the agent's create requests        *)
(* (CpuResolver, MemResolver), the os.exe helper process each of them      *)
(* starts (CpuRun, MemRun), and the destroy requests (DestroyExperiment),  *)
(* which run concurrently in HTTP handler goroutines.  Agent and helpers   *)
(* share nothing but the experiment table and the pid written in it.       *)
(*                                                                         *)
(* A create request is identified with the helper it starts.  Time is left *)
(* out: an armed timer may fire at any moment.  The processes of the       *)
(* machine that are not helpers (foreignPids) exist because pids are       *)
(* reused.  Scripts are modelled in module Scripts.                        *)
(***************************************************************************)
EXTENDS ExperimentStore

CONSTANTS
    CpuReq, MemReq,     \* create requests, by the load they ask for
    DestroyReq,         \* handler goroutines that serve destroy requests
    Pid,                \* process ids of the operating system
    Guarded,            \* requests whose helper FindProcess may fail to open
                        \* (an agent started again with lesser rights)
    NoUid, NoPid

Req == CpuReq \cup MemReq

ASSUME RequestAssumption == CpuReq \cap MemReq = {}
ASSUME GuardedAssumption == Guarded \subseteq Req
ASSUME PidAssumption == Pid \subseteq Handle /\ NoPid \notin Pid
ASSUME UidAssumption == NoUid \notin Uid

VARIABLES
    pc,         \* create request and helper: see PC
    uid,        \* the uid generated for the request
    pid,        \* the helper's process id while it runs
    inserted,   \* did the helper's INSERT succeed?
    marked,     \* has the mem timer written its Success?
    foreignPids,\* pids of the processes that are not helpers
    dpc,        \* destroy handler: "idle", "kill" or "update"
    target,     \* the uid it was asked to destroy
    victim,     \* the pid it read from the row
    answer      \* its latest answer to target

helperVars  == <<pc, uid, pid, inserted, marked>>
destroyVars == <<dpc, target, victim, answer>>
vars == <<table, helperVars, foreignPids, destroyVars>>

\* new -> rejected, or new -> spawning (uid replied, goroutine about to run
\* os.exe) -> starting (process runs, no row yet) -> burning -> dead
PC == {"new", "rejected", "spawning", "starting", "burning", "dead"}

Answer == {"none", "success", "already", "notFound", "error", "panic"}

Alive(e) == pc[e] \in {"starting", "burning"}

LivePids == foreignPids \cup {pid[e] : e \in {x \in Req : Alive(x)}}

\* Types of the table, the helpers, the processes and the destroy handlers.
TypeOK ==
    /\ TableType
    /\ pc \in [Req -> PC]
    /\ uid \in [Req -> Uid \cup {NoUid}]
    /\ pid \in [Req -> Pid \cup {NoPid}]
    /\ inserted \in [Req -> BOOLEAN]
    /\ marked \in [Req -> BOOLEAN]
    /\ foreignPids \in SUBSET Pid
    /\ dpc \in [DestroyReq -> {"idle", "kill", "update"}]
    /\ target \in [DestroyReq -> Uid \cup {NoUid}]
    /\ victim \in [DestroyReq -> Handle \cup {NoPid}]
    /\ answer \in [DestroyReq -> Answer]

Init ==
    /\ TableInit
    /\ pc = [e \in Req |-> "new"]
    /\ uid = [e \in Req |-> NoUid]
    /\ pid = [e \in Req |-> NoPid]
    /\ inserted = [e \in Req |-> FALSE]
    /\ marked = [e \in Req |-> FALSE]
    /\ foreignPids \in SUBSET Pid
    /\ dpc = [d \in DestroyReq |-> "idle"]
    /\ target = [d \in DestroyReq |-> NoUid]
    /\ victim = [d \in DestroyReq |-> NoPid]
    /\ answer = [d \in DestroyReq |-> "none"]

-----------------------------------------------------------------------------
(* Create: the agent's side *)

\* The uid is replied while tools.Go starts the goroutine of the helper.
Accept(e, u) ==
    /\ pc[e] = "new"
    /\ GenerateUid(u, {uid[x] : x \in Req})
    /\ pc' = [pc EXCEPT ![e] = "spawning"]
    /\ uid' = [uid EXCEPT ![e] = u]
    /\ UNCHANGED <<table, pid, inserted, marked, foreignPids, destroyVars>>

CpuResolver(e, u) == e \in CpuReq /\ Accept(e, u)
MemResolver(e, u) == e \in MemReq /\ Accept(e, u)

\* A percentage out of range, an unknown sub type, or a failing uid query.
Reject(e) ==
    /\ pc[e] = "new"
    /\ pc' = [pc EXCEPT ![e] = "rejected"]
    /\ UNCHANGED <<table, uid, pid, inserted, marked, foreignPids, destroyVars>>

\* cmd.Output() starts os.exe under a pid no running process has.
Spawn(e) ==
    /\ pc[e] = "spawning"
    /\ \E p \in Pid \ LivePids :
          /\ pc' = [pc EXCEPT ![e] = "starting"]
          /\ pid' = [pid EXCEPT ![e] = p]
    /\ UNCHANGED <<table, uid, inserted, marked, foreignPids, destroyVars>>

\* os.exe cannot be started: logged, the uid has been replied already.
SpawnFails(e) ==
    /\ pc[e] = "spawning"
    /\ pc' = [pc EXCEPT ![e] = "dead"]
    /\ UNCHANGED <<table, uid, pid, inserted, marked, foreignPids, destroyVars>>

-----------------------------------------------------------------------------
(* The helper process *)

\* The helper records itself; an INSERT that fails leaves it burning
\* without a row.
Record(e, type) ==
    /\ pc[e] = "starting"
    /\ pc' = [pc EXCEPT ![e] = "burning"]
    /\ \/ /\ InsertExperimentModel(uid[e],
                [status |-> "Created", cmdType |-> type, handle |-> pid[e]])
          /\ inserted' = [inserted EXCEPT ![e] = TRUE]
       \/ /\ WriteFails
          /\ UNCHANGED inserted
    /\ UNCHANGED <<uid, pid, marked, foreignPids, destroyVars>>

\* The loop of a cpu helper has no end: tools.Go hands CpuStart
\* context.Background(), so burn's case <-ctx.Done() is never ready.
CpuRun(e) == e \in CpuReq /\ Record(e, "cpu")

\* A mem helper arms its timer before it records itself; the loop `starts`
\* has no end either.
MemRun(e) == e \in MemReq /\ Record(e, "mem")

\* The timer writes Success under the helper's uid ...
TimerMark(e) ==
    /\ e \in MemReq
    /\ Alive(e)
    /\ ~marked[e]
    /\ marked' = [marked EXCEPT ![e] = TRUE]
    /\ \/ UpdateExperimentModelByUid(uid[e], "Success")
       \/ WriteFails
    /\ UNCHANGED <<pc, uid, pid, inserted, foreignPids, destroyVars>>

\* The process of helper e is gone and its pid is free.
Die(e) ==
    /\ pc' = [pc EXCEPT ![e] = "dead"]
    /\ pid' = [pid EXCEPT ![e] = NoPid]

\* Mutant: the timer only marks the row and leaves the load to the loop.
TimerKillNever(e) == FALSE /\ Die(e) /\ UNCHANGED vars

\* ... and then kills its own process.
TimerKill(e) ==
    /\ marked[e]
    /\ Alive(e)
    /\ Die(e)
    /\ UNCHANGED <<table, uid, inserted, marked, foreignPids, destroyVars>>

\* A helper can crash, be killed by a user, or go down with the machine.
HelperDies(e) ==
    /\ Alive(e)
    /\ Die(e)
    /\ UNCHANGED <<table, uid, inserted, marked, foreignPids, destroyVars>>

-----------------------------------------------------------------------------
(* Destroy *)

Respond(d, u, a) ==
    /\ target' = [target EXCEPT ![d] = u]
    /\ answer' = [answer EXCEPT ![d] = a]
    /\ UNCHANGED <<dpc, victim>>

\* Mutant: an experiment that reports Success needs no kill.
AlreadyEnded(row) == row.status \in {"Destroyed", "Success"}

AlreadyDestroyed(row) == row.status = "Destroyed"

\* The row is read; what follows uses this copy of it.
DestroyQuery(d, u) ==
    /\ dpc[d] = "idle"
    /\ \/ Respond(d, u, "notFound")             \* the query fails
       \/ \E row \in QueryExperimentModelByUid(u) :
             \/ /\ row = NoRow                   \* err is nil: err.Error()
                /\ Respond(d, u, "panic")        \* panics, no reply is sent
             \/ /\ row # NoRow
                /\ AlreadyDestroyed(row)
                /\ Respond(d, u, "already")
             \/ /\ row # NoRow
                /\ ~AlreadyDestroyed(row)
                /\ dpc' = [dpc EXCEPT ![d] = "kill"]
                /\ target' = [target EXCEPT ![d] = u]
                /\ victim' = [victim EXCEPT ![d] = row.handle]
                /\ answer' = [answer EXCEPT ![d] = "none"]
    /\ UNCHANGED <<table, helperVars, foreignPids>>

KillSucceeds(d) ==
    /\ dpc' = [dpc EXCEPT ![d] = "update"]
    /\ UNCHANGED <<target, victim, answer>>

KillFails(d) ==
    /\ dpc' = [dpc EXCEPT ![d] = "idle"]
    /\ answer' = [answer EXCEPT ![d] = "error"]
    /\ UNCHANGED <<target, victim>>

\* Mutant: FindProcess's result is tested the wrong way round.
KillSkipped(d) ==
    /\ dpc[d] = "kill"
    /\ KillSucceeds(d)
    /\ UNCHANGED <<table, helperVars, foreignPids>>

\* Kills whatever process has the pid now.  FindProcess fails if there is no
\* such process or it cannot be opened, which is ignored; an error of Kill is
\* reported.
ExperimentDestroy(d) ==
    /\ dpc[d] = "kill"
    /\ \/ \E e \in Req :
             /\ Alive(e)
             /\ pid[e] = victim[d]
             /\ Die(e)
             /\ KillSucceeds(d)
             /\ UNCHANGED foreignPids
       \/ /\ victim[d] \in foreignPids
          /\ foreignPids' = foreignPids \ {victim[d]}
          /\ KillSucceeds(d)
          /\ UNCHANGED <<pc, pid>>
       \/ /\ \A e \in Req \ Guarded : Alive(e) => pid[e] # victim[d]
          /\ KillSucceeds(d)
          /\ UNCHANGED <<pc, pid, foreignPids>>
       \/ KillFails(d) /\ UNCHANGED <<pc, pid, foreignPids>>
    /\ UNCHANGED <<table, uid, inserted, marked>>

\* Success is replied whether or not the UPDATE went through.
DestroyUpdate(d) ==
    /\ dpc[d] = "update"
    /\ UpdateExperimentModelByUid(target[d], "Destroyed") \/ WriteFails
    /\ dpc' = [dpc EXCEPT ![d] = "idle"]
    /\ answer' = [answer EXCEPT ![d] = "success"]
    /\ UNCHANGED <<target, victim, helperVars, foreignPids>>

-----------------------------------------------------------------------------
(* The surroundings *)

\* The agent process dies and is started again: its goroutines are gone,
\* the helpers are processes of their own and keep burning.
AgentRestart ==
    /\ pc' = [e \in Req |-> IF pc[e] = "spawning" THEN "dead" ELSE pc[e]]
    /\ dpc' = [d \in DestroyReq |-> "idle"]
    /\ UNCHANGED <<table, uid, pid, inserted, marked, foreignPids,
                   target, victim, answer>>

ForeignStarts(p) ==
    /\ p \notin LivePids
    /\ foreignPids' = foreignPids \cup {p}
    /\ UNCHANGED <<table, helperVars, destroyVars>>

ForeignEnds(p) ==
    /\ p \in foreignPids
    /\ foreignPids' = foreignPids \ {p}
    /\ UNCHANGED <<table, helperVars, destroyVars>>

HelperStep(e) == CpuRun(e) \/ MemRun(e) \/ TimerMark(e) \/ TimerKill(e)

Next ==
    \/ \E e \in Req, u \in Uid : CpuResolver(e, u) \/ MemResolver(e, u)
    \/ \E e \in Req : \/ Reject(e) \/ Spawn(e) \/ SpawnFails(e)
                      \/ HelperStep(e) \/ HelperDies(e)
    \/ \E d \in DestroyReq, u \in Uid : DestroyQuery(d, u)
    \/ \E d \in DestroyReq : ExperimentDestroy(d) \/ DestroyUpdate(d)
    \/ AgentRestart
    \/ \E p \in Pid : ForeignStarts(p) \/ ForeignEnds(p)

Spec == Init /\ [][Next]_vars

\* The schedulers of Go and of the machine run every goroutine and process
\* that can run, and an armed timer fires.  Requests, crashes and other
\* processes are under no obligation.
Fairness ==
    /\ \A e \in Req :
          /\ WF_vars(Spawn(e) \/ SpawnFails(e))
          /\ WF_vars(CpuRun(e) \/ MemRun(e))
          /\ WF_vars(TimerMark(e))
          /\ WF_vars(TimerKill(e))
    /\ \A d \in DestroyReq :
          /\ WF_vars(ExperimentDestroy(d))
          /\ WF_vars(DestroyUpdate(d))

FairSpec == Spec /\ Fairness
-----------------------------------------------------------------------------
(* Safety *)

\* e is the helper whose row is the one stored under uid u.
Owns(e, u) == inserted[e] /\ uid[e] = u

\* A row that says Destroyed never belongs to a load that still runs, unless
\* its process could not be opened, however the destroy handlers, the timers
\* and the recycling of pids interleave (DestroyExperiment reads the row,
\* kills, and only then writes).
DestroyedIsDead ==
    \A e \in Req \ Guarded, u \in Uid :
        Owns(e, u) /\ HasStatus(u, "Destroyed") => ~Alive(e)

\* A caller of destroy who is told that it worked, or that it had been done
\* already, can rely on it: the load recorded under that uid is gone, or its
\* process could not be opened.
SuccessMeansDead ==
    \A d \in DestroyReq, e \in Req \ Guarded :
        /\ answer[d] \in {"success", "already"}
        /\ Owns(e, target[d])
        => ~Alive(e)

\* While a recorded load runs, the row under its uid leads to it: the pid is
\* its own, even if two requests drew the same uid (generateUid looks the
\* uid up long before the helper inserts it; the UNIQUE constraint decides).
RowNamesLiveProcess ==
    \A e \in Req :
        inserted[e] /\ Alive(e) =>
            /\ Stored(uid[e])
            /\ table[uid[e]].handle = pid[e]
            /\ table[uid[e]].cmdType = IF e \in CpuReq THEN "cpu" ELSE "mem"

\* The rows of the loads whose process can be opened.
Open(u) == Stored(u) /\ \A e \in Guarded : ~Owns(e, u)

\* Destroyed is the last word on an experiment: no timer that fires late
\* turns it back into Success.  Needs uids that do not repeat.
DestroyedIsFinal ==
    [][\A u \in Uid : Open(u) /\ HasStatus(u, "Destroyed") => HasStatus(u, "Destroyed")']_vars

\* Seen through the status of these rows and the loads they stand for, the
\* agent, the helpers and the destroy handlers keep ExperimentPromise.
Promise == INSTANCE ExperimentPromise WITH
    phase <- [u \in Uid |-> IF Open(u) THEN table[u].status ELSE "Absent"],
    live  <- {u \in Uid : \E e \in Req \ Guarded : Owns(e, u) /\ Alive(e)}

KeepsPromise == Promise!Spec

-----------------------------------------------------------------------------
(* Liveness *)

\* A mem experiment ends by itself, whether or not its row, its timer's
\* Success or any destroy gets through to the database.
MemExperimentEnds ==
    \A e \in MemReq : pc[e] = "spawning" ~> pc[e] = "dead"

\* A destroy that has found the row ends the load, whatever pid the row names
\* by then, unless the caller is told that Kill failed, or the agent goes down
\* before the kill.
DestroyTakesEffect ==
    \A d \in DestroyReq, e \in Req \ Guarded :
        dpc[d] = "kill" /\ Owns(e, target[d])
        ~> ~Alive(e) \/ (dpc[d] = "idle" /\ answer[d] \in {"none", "error"})

-----------------------------------------------------------------------------
(* What the documentation says and the code does not do *)

\* The timeout of a cpu experiment ends it.
CpuExperimentEnds ==
    \A e \in CpuReq : pc[e] = "spawning" ~> pc[e] = "dead"
=============================================================================
