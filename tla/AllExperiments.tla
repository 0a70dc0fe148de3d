---------------------------- MODULE AllExperiments ----------------------------
(***************************************************************************)
(* The cpu, mem and script experiments of one agent: Experiments and       *)
(* Scripts over one table, one supply of uids, one set of destroy handlers *)
(* and one agent process.  Neither module alone shows what a helper or a   *)
(* script may do to a row of the other kind.                               *)
(*                                                                         *)
(* A destroy handler is at work in Experiments (dpc) or in Scripts (sdpc), *)
(* never in both; the victim is the pid or the directory of the row it has *)
(* read.  NoPid stands for Scripts' NoDir, too.                            *)
(***************************************************************************)
EXTENDS Experiments

CONSTANTS ScriptReq, Dir, Archives      \* see Scripts

VARIABLES
    script, scriptUid, dir, archive, file, recorded, ran, exit,
                    \* Scripts' pc, uid, dir, archive, file, inserted, ran, exit
    disk, present,
    sdpc            \* Scripts' dpc

S == INSTANCE Scripts WITH
        NoDir <- NoPid, pc <- script, uid <- scriptUid, inserted <- recorded,
        dpc <- sdpc

ASSUME KindAssumption ==
    /\ Dir \subseteq Handle
    /\ Dir \cap (Pid \cup {NoPid}) = {}
    /\ Archives \subseteq SUBSET S!Entry

loadVars == <<helperVars, foreignPids>>
fileVars == <<script, scriptUid, dir, archive, file, recorded, ran, exit,
              disk, present>>
allVars == <<vars, fileVars, sdpc>>

AllInit == Init /\ S!Init

-----------------------------------------------------------------------------
(* Create: uids are drawn from one supply *)

Create(e, u) ==
    /\ CpuResolver(e, u) \/ MemResolver(e, u)
    /\ Drawn(u, {scriptUid[s] : s \in ScriptReq})
    /\ UNCHANGED <<fileVars, sdpc>>

Name(s, u) ==
    /\ S!Name(s, u)
    /\ Drawn(u, {uid[e] : e \in Req})
    /\ UNCHANGED <<loadVars, dpc>>

\* A cpu or mem experiment moves on, in the agent or as a helper.
LoadStep(e) ==
    /\ Reject(e) \/ Spawn(e) \/ SpawnFails(e) \/ HelperStep(e) \/ HelperDies(e)
    /\ UNCHANGED <<fileVars, sdpc>>

\* A script request moves on, or the script itself ends.
ScriptStep(s) ==
    /\ \/ \E t \in Dir : S!MkDir(s, t)
       \/ S!Download(s) \/ S!UnTarEnds(s) \/ S!Fails(s) \/ S!List(s)
       \/ \E m \in archive[s] : S!UnTar(s, m)
       \/ S!Insert(s) \/ S!WrongFormat(s) \/ S!Start(s)
       \/ S!Exit(s) \/ S!Report(s)
    /\ UNCHANGED <<loadVars, dpc>>

-----------------------------------------------------------------------------
(* Destroy: the command type of the row that was read decides *)

IsScript(u) == Stored(u) /\ table[u].cmdType = "script"

\* Mutant: the switch has no case for scripts, and falls through to the
\* update.
ChooseWithoutScripts(d, u) ==
    \/ ~IsScript(u) /\ DestroyQuery(d, u) /\ UNCHANGED <<fileVars, sdpc>>
    \/ /\ IsScript(u)
       /\ ~AlreadyDestroyed(table[u])
       /\ dpc' = [dpc EXCEPT ![d] = "update"]
       /\ target' = [target EXCEPT ![d] = u]
       /\ UNCHANGED <<table, victim, answer, loadVars, fileVars, sdpc>>

\* The query and the switch.
Choose(d, u) ==
    \/ ~IsScript(u) /\ DestroyQuery(d, u) /\ UNCHANGED <<fileVars, sdpc>>
    \/ IsScript(u) /\ S!DestroyQuery(d, u) /\ UNCHANGED <<loadVars, dpc>>

DestroyBegins(d, u) == dpc[d] = "idle" /\ sdpc[d] = "idle" /\ Choose(d, u)

\* The rest of the handler, in the case of the switch that was chosen.
DestroyGoesOn(d) ==
    \/ (ExperimentDestroy(d) \/ DestroyUpdate(d)) /\ UNCHANGED <<fileVars, sdpc>>
    \/ (S!RemoveAll(d) \/ S!DestroyUpdate(d)) /\ UNCHANGED <<loadVars, dpc>>

-----------------------------------------------------------------------------
(* The surroundings *)

\* One process: requests, scripts and destroys go down together.
AgentGoesDown == AgentRestart /\ S!AgentRestart

\* The other processes of the machine, the interpreters of scripts among them.
Foreign(p) ==
    (ForeignStarts(p) \/ ForeignEnds(p)) /\ UNCHANGED <<fileVars, sdpc>>

AllNext ==
    \/ \E e \in Req, u \in Uid : Create(e, u)
    \/ \E s \in ScriptReq, u \in Uid : Name(s, u)
    \/ \E e \in Req : LoadStep(e)
    \/ \E s \in ScriptReq : ScriptStep(s)
    \/ \E d \in DestroyReq, u \in Uid : DestroyBegins(d, u)
    \/ \E d \in DestroyReq : DestroyGoesOn(d)
    \/ AgentGoesDown
    \/ \E p \in Pid : Foreign(p)

AllSpec == AllInit /\ [][AllNext]_allVars

-----------------------------------------------------------------------------
(* Safety.  DestroyedIsDead, SuccessMeansDead and RowNamesLiveProcess of   *)
(* Experiments are checked here, too.                                      *)

\* A script that was recorded keeps the row that leads a destroy to its
\* directory, though a load may have drawn the same uid and write under it;
\* and whoever is told that the script is destroyed, or had been already,
\* finds its files gone, whichever way the switch of the destroy went.
ScriptDestroyedIsGone ==
    \A s \in ScriptReq : recorded[s] =>
        /\ IsScript(scriptUid[s])
        /\ table[scriptUid[s]].handle = dir[s]
        /\ \A d \in DestroyReq :
              /\ answer[d] \in {"success", "already"}
              /\ target[d] = scriptUid[s]
              /\ S!Unshared(s)
              => disk[dir[s]] = S!Nothing
=============================================================================
