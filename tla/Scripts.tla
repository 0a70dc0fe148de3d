------------------------------- MODULE Scripts -------------------------------
(***************************************************************************)
(* Script experiments: a request downloads an archive into a directory     *)
(* named after the current second, unpacks it, records the experiment,     *)
(* runs the main (or recover) file and reports its outcome; the destroy of *)
(* such an experiment removes the directory.  Both run in HTTP handler     *)
(* goroutines, so requests interleave with each other and with destroys.   *)
(*                                                                         *)
(* A handle of the table is here a directory.  A file's content is the set *)
(* of requests whose bytes are in it: unTar opens without O_TRUNC, so the  *)
(* tail of a longer file survives.  An archive is the set of its members;  *)
(* what members do elsewhere than in these directories is left out.        *)
(***************************************************************************)
EXTENDS ExperimentStore, FiniteSets

CONSTANTS
    ScriptReq,      \* script create requests
    DestroyReq,     \* destroy requests for scripts
    Dir,            \* directories, one per second of the clock
    Archives,       \* contents an archive may have: sets of members
    NoUid, NoDir

Member == {"main.bat", "main.ps1", "main.sh", "recover.bat", "recover.ps1"}

\* A member has a plain name n, or one that leads to a directory s of another
\* request: ../s/n, or s/n, which unTar takes for a directory to be made.
Entry == [form : {"n"}, s : {NoDir}, n : Member]
            \cup [form : {"../s/n", "s/n"}, s : Dir, n : Member]

ASSUME DirAssumption == Dir \subseteq Handle /\ NoDir \notin Dir
ASSUME ArchivesAssumption == Archives \subseteq SUBSET Entry
ASSUME UidAssumption == NoUid \notin Uid

VARIABLES
    pc,         \* progress of a request: see PC
    uid, dir,
    archive,    \* the members of what was downloaded
    file,       \* the file to run, "" before listDir
    inserted,   \* did the INSERT succeed?
    ran,        \* content of the file when it was started
    exit,       \* how the script ended: "none", "ok" or "fail"
    disk,       \* directory -> member -> requests that wrote to the file
    present,    \* the directories that exist
    dpc, target, victim, answer     \* as in Experiments

scriptVars  == <<pc, uid, dir, archive, file, inserted, ran, exit>>
diskVars    == <<disk, present>>
destroyVars == <<dpc, target, victim, answer>>
vars == <<table, scriptVars, diskVars, destroyVars>>

\* "failed" and "done" are replies, "lost" a request the agent died under.
PC == {"new", "download", "untar", "list", "named", "insert", "ready",
       "running", "report", "done", "failed", "lost"}

\* Types of the requests, the directories and the destroy handlers.
TypeOK ==
    /\ TableType
    /\ pc \in [ScriptReq -> PC]
    /\ uid \in [ScriptReq -> Uid \cup {NoUid}]
    /\ dir \in [ScriptReq -> Dir \cup {NoDir}]
    /\ archive \in [ScriptReq -> SUBSET Entry]
    /\ file \in [ScriptReq -> Member \cup {""}]
    /\ inserted \in [ScriptReq -> BOOLEAN]
    /\ ran \in [ScriptReq -> SUBSET ScriptReq]
    /\ exit \in [ScriptReq -> {"none", "ok", "fail"}]
    /\ disk \in [Dir -> [Member -> SUBSET ScriptReq]]
    /\ present \in SUBSET Dir
    /\ dpc \in [DestroyReq -> {"idle", "remove", "update"}]
    /\ target \in [DestroyReq -> Uid \cup {NoUid}]
    /\ victim \in [DestroyReq -> Dir \cup {NoDir}]
    /\ answer \in [DestroyReq ->
                    {"none", "success", "already", "notFound", "error", "panic"}]

Nothing == [n \in Member |-> {}]

Init ==
    /\ TableInit
    /\ pc = [e \in ScriptReq |-> "new"]
    /\ uid = [e \in ScriptReq |-> NoUid]
    /\ dir = [e \in ScriptReq |-> NoDir]
    /\ archive = [e \in ScriptReq |-> {}]
    /\ file = [e \in ScriptReq |-> ""]
    /\ inserted = [e \in ScriptReq |-> FALSE]
    /\ ran = [e \in ScriptReq |-> {}]
    /\ exit = [e \in ScriptReq |-> "none"]
    /\ disk = [s \in Dir |-> Nothing]
    /\ present = {}
    /\ dpc = [d \in DestroyReq |-> "idle"]
    /\ target = [d \in DestroyReq |-> NoUid]
    /\ victim = [d \in DestroyReq |-> NoDir]
    /\ answer = [d \in DestroyReq |-> "none"]

Goto(e, stage) == pc' = [pc EXCEPT ![e] = stage]

-----------------------------------------------------------------------------
(* execScript *)

\* isExistDir: a directory that exists already is as good as a new one.
\* Requests that read the same second get the same directory.
MkDir(e, s) ==
    /\ pc[e] = "new"
    /\ dir' = [dir EXCEPT ![e] = s]
    /\ present' = present \cup {s}
    /\ Goto(e, "download")
    /\ UNCHANGED <<table, uid, archive, file, inserted, ran, exit,
                   disk, destroyVars>>

\* downloadFile creates in the directory whatever archive the URL serves.
Download(e) ==
    /\ pc[e] = "download"
    /\ dir[e] \in present
    /\ \E a \in Archives : archive' = [archive EXCEPT ![e] = a]
    /\ Goto(e, "untar")
    /\ UNCHANGED <<table, uid, dir, file, inserted, ran, exit,
                   diskVars, destroyVars>>

\* Mutant: members land in the directory the archive was made from.
UnTarElsewhere(e, m) ==
    /\ pc[e] = "untar"
    /\ \E s \in present : disk' = [disk EXCEPT ![s][m.n] = @ \cup {e}]
    /\ UNCHANGED <<table, scriptVars, present, destroyVars>>

Landing(e, m) == IF m.form = "n" THEN dir[e] ELSE m.s

\* unTar makes the directory of a member's name below the working directory,
\* where the directories of the requests are, but opens the file below its
\* own: s/n makes directory s and fails, ../s/n gets into one that is there.
\* What is written is written over whatever the file holds.
UnTar(e, m) ==
    /\ pc[e] = "untar"
    /\ \/ /\ m.form = "s/n"
          /\ present' = present \cup {m.s}
          /\ UNCHANGED disk
       \/ /\ m.form # "s/n"
          /\ Landing(e, m) \in present
          /\ disk' = [disk EXCEPT ![Landing(e, m)][m.n] = @ \cup {e}]
          /\ UNCHANGED present
    /\ UNCHANGED <<table, scriptVars, destroyVars>>

\* The end of the archive, which may have been cut short without an error.
UnTarEnds(e) ==
    /\ pc[e] = "untar"
    /\ Goto(e, "list")
    /\ UNCHANGED <<table, uid, dir, archive, file, inserted, ran, exit,
                   diskVars, destroyVars>>

\* The replies of failure that leave no trace in the table: getwd, mkdir,
\* download, unpacking or uid query went wrong.
Fails(e) ==
    /\ pc[e] \in {"new", "download", "untar", "named"}
    /\ Goto(e, "failed")
    /\ UNCHANGED <<table, uid, dir, archive, file, inserted, ran,
                   exit, diskVars, destroyVars>>

\* listDir returns the first main.* in the order of ReadDir.
ListDir(s) ==
    LET found(n) == s \in present /\ disk[s][n] # {} IN
    IF found("main.bat") THEN "main.bat"
    ELSE IF found("main.ps1") THEN "main.ps1"
    ELSE IF found("main.sh") THEN "main.sh" ELSE ""

\* The file type of main decides which recover file is meant.
FileToRun(recover, main) ==
    IF ~recover THEN main
    ELSE CASE main = "main.bat" -> "recover.bat"
           [] main = "main.ps1" -> "recover.ps1"
           [] OTHER -> main

\* `recover` is a parameter of the request.
List(e) ==
    /\ pc[e] = "list"
    /\ LET main == ListDir(dir[e]) IN
       \/ /\ main = ""
          /\ Goto(e, "failed")
          /\ UNCHANGED file
       \/ /\ main # ""
          /\ \E recover \in BOOLEAN :
                file' = [file EXCEPT ![e] = FileToRun(recover, main)]
          /\ Goto(e, "named")
    /\ UNCHANGED <<table, uid, dir, archive, inserted, ran, exit, diskVars, destroyVars>>

Name(e, u) ==
    /\ pc[e] = "named"
    /\ GenerateUid(u, {uid[x] : x \in ScriptReq})
    /\ uid' = [uid EXCEPT ![e] = u]
    /\ Goto(e, "insert")
    /\ UNCHANGED <<table, dir, archive, file, inserted, ran, exit,
                   diskVars, destroyVars>>

Insert(e) ==
    /\ pc[e] = "insert"
    /\ \/ /\ InsertExperimentModel(uid[e],
                [status |-> "Created", cmdType |-> "script", handle |-> dir[e]])
          /\ inserted' = [inserted EXCEPT ![e] = TRUE]
       \/ /\ WriteFails
          /\ UNCHANGED inserted
    /\ Goto(e, "ready")
    /\ UNCHANGED <<uid, dir, archive, file, ran, exit, diskVars,
                   destroyVars>>

\* A main file that is neither .bat nor .ps1: the row stays Created.
WrongFormat(e) ==
    /\ pc[e] = "ready"
    /\ file[e] = "main.sh"
    /\ Goto(e, "failed")
    /\ UNCHANGED <<table, uid, dir, archive, file, inserted, ran,
                   exit, diskVars, destroyVars>>

\* CombinedOutput starts the interpreter on the file as it is now.
Start(e) ==
    /\ pc[e] = "ready"
    /\ file[e] # "main.sh"
    /\ ran' = [ran EXCEPT ![e] =
                IF dir[e] \in present THEN disk[dir[e]][file[e]] ELSE {}]
    /\ Goto(e, "running")
    /\ UNCHANGED <<table, uid, dir, archive, file, inserted, exit,
                   diskVars, destroyVars>>

\* The script ends by itself; one whose file is missing fails.
Exit(e) ==
    /\ pc[e] = "running"
    /\ \/ ran[e] # {} /\ exit' = [exit EXCEPT ![e] = "ok"]
       \/ exit' = [exit EXCEPT ![e] = "fail"]
    /\ Goto(e, "report")
    /\ UNCHANGED <<table, uid, dir, archive, file, inserted, ran,
                   diskVars, destroyVars>>

\* Mutant: the outcome is written before err is looked at.
ReportSuccess(e) ==
    /\ pc[e] = "report"
    /\ UpdateExperimentModelByUid(uid[e], "Success") \/ WriteFails
    /\ Goto(e, IF exit[e] = "ok" THEN "done" ELSE "failed")
    /\ UNCHANGED <<uid, dir, archive, file, inserted, ran, exit,
                   diskVars, destroyVars>>

\* The timeout is looked at here, when the process has ended: its Kill has
\* nothing left to kill.
Report(e) ==
    /\ pc[e] = "report"
    /\ \/ UpdateExperimentModelByUid(uid[e],
              IF exit[e] = "ok" THEN "Success" ELSE "Error")
       \/ WriteFails
    /\ Goto(e, IF exit[e] = "ok" THEN "done" ELSE "failed")
    /\ UNCHANGED <<uid, dir, archive, file, inserted, ran, exit,
                   diskVars, destroyVars>>

-----------------------------------------------------------------------------
(* DestroyExperiment, for rows of command type script *)

Respond(d, u, a) ==
    /\ target' = [target EXCEPT ![d] = u]
    /\ answer' = [answer EXCEPT ![d] = a]
    /\ UNCHANGED <<dpc, victim>>

DestroyQuery(d, u) ==
    /\ dpc[d] = "idle"
    /\ \/ Respond(d, u, "notFound")
       \/ \E row \in QueryExperimentModelByUid(u) :
             \/ row = NoRow /\ Respond(d, u, "panic")
             \/ /\ row # NoRow
                /\ row.status = "Destroyed"
                /\ Respond(d, u, "already")
             \/ /\ row # NoRow
                /\ row.status # "Destroyed"
                /\ dpc' = [dpc EXCEPT ![d] = "remove"]
                /\ target' = [target EXCEPT ![d] = u]
                /\ victim' = [victim EXCEPT ![d] = row.handle]
                /\ answer' = [answer EXCEPT ![d] = "none"]
    /\ UNCHANGED <<table, scriptVars, diskVars>>

\* Mutant: os.Remove, which refuses a directory that is not empty, with its
\* error ignored.
RemoveEmpty(d) ==
    /\ dpc[d] = "remove"
    /\ dpc' = [dpc EXCEPT ![d] = "update"]
    /\ UNCHANGED <<table, scriptVars, diskVars, target, victim, answer>>

\* os.RemoveAll: a directory that does not exist is no error; after a failure
\* (a file in use, a file created meanwhile) some files may be gone.
RemoveAll(d) ==
    /\ dpc[d] = "remove"
    /\ \/ /\ disk' = [disk EXCEPT ![victim[d]] = Nothing]
          /\ present' = present \ {victim[d]}
          /\ dpc' = [dpc EXCEPT ![d] = "update"]
          /\ UNCHANGED answer
       \/ /\ victim[d] \in present
          /\ \E gone \in SUBSET Member :
                disk' = [disk EXCEPT ![victim[d]] =
                            [n \in Member |-> IF n \in gone THEN {} ELSE @[n]]]
          /\ dpc' = [dpc EXCEPT ![d] = "idle"]
          /\ answer' = [answer EXCEPT ![d] = "error"]
          /\ UNCHANGED present
    /\ UNCHANGED <<table, scriptVars, target, victim>>

DestroyUpdate(d) ==
    /\ dpc[d] = "update"
    /\ UpdateExperimentModelByUid(target[d], "Destroyed") \/ WriteFails
    /\ dpc' = [dpc EXCEPT ![d] = "idle"]
    /\ answer' = [answer EXCEPT ![d] = "success"]
    /\ UNCHANGED <<scriptVars, diskVars, target, victim>>

\* The agent dies and is started again; directories and rows stay.
AgentRestart ==
    /\ pc' = [e \in ScriptReq |->
                IF pc[e] \in {"new", "done", "failed"} THEN pc[e] ELSE "lost"]
    /\ dpc' = [d \in DestroyReq |-> "idle"]
    /\ UNCHANGED <<table, uid, dir, archive, file, inserted, ran,
                   exit, diskVars, target, victim, answer>>

AgentStep(e) ==
    \/ \E s \in Dir : MkDir(e, s)
    \/ Download(e) \/ UnTarEnds(e) \/ Fails(e) \/ List(e)
    \/ \E m \in archive[e] : UnTar(e, m)
    \/ \E u \in Uid : Name(e, u)
    \/ Insert(e) \/ WrongFormat(e) \/ Start(e) \/ Report(e)

Next ==
    \/ \E e \in ScriptReq : AgentStep(e) \/ Exit(e)
    \/ \E d \in DestroyReq, u \in Uid : DestroyQuery(d, u)
    \/ \E d \in DestroyReq : RemoveAll(d) \/ DestroyUpdate(d)
    \/ AgentRestart

Spec == Init /\ [][Next]_vars

-----------------------------------------------------------------------------
(* Safety *)

Owns(e, u) == inserted[e] /\ uid[e] = u

\* Request x unpacks in directory s, or has an archive that leads there.
Reaches(x, s) == dir[x] = s \/ \E m \in archive[x] : m.s = s

\* No other request reaches the directory of e.
Unshared(e) == \A x \in ScriptReq \ {e} : ~Reaches(x, dir[e])

\* A request that has its second for itself, with no archive of another that
\* leads there, never runs a byte that another request unpacked, whatever is
\* destroyed and unpacked around it.
UnsharedRunsItsOwn ==
    \A e \in ScriptReq : dir[e] # NoDir /\ Unshared(e) => ran[e] \subseteq {e}

\* Success and Error in a row are about the very run of its script.
StatusTellsOutcome ==
    \A e \in ScriptReq, u \in Uid : Owns(e, u) =>
        /\ HasStatus(u, "Success") => exit[e] = "ok"
        /\ HasStatus(u, "Error") => exit[e] = "fail"

\* A destroy that reports success has left nothing of the script behind, and
\* no unpacking of the same request puts it back.
DestroyCleansUp ==
    \A d \in DestroyReq, e \in ScriptReq :
        /\ answer[d] = "success"
        /\ Owns(e, target[d])
        /\ Unshared(e)
        => disk[dir[e]] = Nothing

\* Destroyed is overwritten by nothing but the report of the script's own
\* run, which was under way when the destroy came.
OnlyOwnReportOverwrites ==
    [][\A u \in Uid : HasStatus(u, "Destroyed") /\ ~HasStatus(u, "Destroyed")' =>
          \E e \in ScriptReq : Owns(e, u) /\ pc[e] = "report" /\ pc'[e] # "report"]_vars
=============================================================================
