------------------------------ MODULE BladeExec ------------------------------
(***************************************************************************)
(* exec of chaosblade.go: runs a command of the external program blade     *)
(* and keeps the map `running` of what it has started, under a mutex; and  *)
(* the goroutines that watch asynchronous creates and the installation of  *)
(* java agents, and report to the server.  At this commit nothing calls    *)
(* exec: its callers are external, each a goroutine that runs one command. *)
(*                                                                         *)
(* A create or prepare command stands for the uid that blade issues for    *)
(* it.  Blade is external: it keeps a record of each uid, may fail, and    *)
(* may hang.  A prepare of anything but a java agent behaves as a create,  *)
(* and so does the revoke of such a one as a destroy.                      *)
(***************************************************************************)
CONSTANTS
    CreateCmd,  \* create and prepare commands
    EndCmd,     \* destroy and revoke commands
    Kinds,      \* what each command may be
    NoOwner     \* nobody holds the mutex

Cmd == CreateCmd \cup EndCmd

CreateKind == {"create", "createAsync", "prepareJvm"}
EndKind    == {"destroy", "revoke"}

ASSUME CmdAssumption == CreateCmd \cap EndCmd = {} /\ NoOwner \notin Cmd
ASSUME KindsAssumption ==
    \A k \in Kinds :
        /\ k \in [Cmd -> CreateKind \cup EndKind]
        /\ \A c \in Cmd : k[c] \in CreateKind <=> c \in CreateCmd

VARIABLES
    kind,       \* what each command is
    uid,        \* its uid: itself, or the one it shall end
    pc,         \* exec of the command: see PC
    mutex,      \* the owner of ch.mutex
    running,    \* the keys of ch.running
    check,      \* the goroutine a command has started: see Check
    seen,       \* the status it has read last
    record,     \* external: blade's record of a uid
    hung,       \* external: blade status does not return any more
    told,       \* ghost: the commands that end a uid that had been answered
    raced       \* ghost: two accesses to the map have overlapped

execVars  == <<pc, mutex>>
checkVars == <<check, seen>>
vars == <<kind, uid, execVars, running, checkVars, record, hung, told, raced>>

\* "ran" is a success of blade, "writing" an access to the map under the
\* mutex, "querying" the status query of a revoke, still under the mutex.
PC == {"new", "ran", "writing", "recorded", "querying", "answered", "failed", "gone"}

\* "deleting" is deleteCallback's access to the map, without the mutex.
Check == {"none", "ticking", "deleting", "reporting", "reported", "lost"}

Status == {"none", "Created", "Running", "Error", "Ended"}

\* Types of calls, goroutines, the map and blade's records.
TypeOK ==
    /\ kind \in Kinds
    /\ uid \in [Cmd -> CreateCmd]
    /\ pc \in [Cmd -> PC]
    /\ mutex \in Cmd \cup {NoOwner}
    /\ running \in SUBSET CreateCmd
    /\ check \in [Cmd -> Check]
    /\ seen \in [Cmd -> Status \cup {"Unknown"}]
    /\ record \in [CreateCmd -> Status]
    /\ hung \in BOOLEAN
    /\ told \in SUBSET EndCmd
    /\ raced \in BOOLEAN

Init ==
    /\ kind \in Kinds
    /\ uid \in {u \in [Cmd -> CreateCmd] : \A c \in CreateCmd : u[c] = c}
    /\ pc = [c \in Cmd |-> "new"]
    /\ mutex = NoOwner
    /\ running = {}
    /\ check = [c \in Cmd |-> "none"]
    /\ seen = [c \in Cmd |-> "Unknown"]
    /\ record = [u \in CreateCmd |-> "none"]
    /\ hung = FALSE
    /\ told = {}
    /\ raced = FALSE

-----------------------------------------------------------------------------
(* exec *)

\* What a command does to blade's record.
Effect(c) ==
    CASE kind[c] = "create"                       -> "Running"
      [] kind[c] \in {"createAsync", "prepareJvm"} -> "Created"
      [] kind[c] \in EndKind                      -> "Ended"

\* Blade refuses the command, or is not there.
ExecRefused(c) ==
    /\ pc[c] = "new"
    /\ pc' = [pc EXCEPT ![c] = "failed"]
    /\ UNCHANGED <<kind, uid, mutex, running, checkVars, record, hung, told, raced>>

\* Blade does what the command says.  If it does not return in 60 s it is
\* killed, and its output is no JSON: exec answers ResultUnmarshalFailed.
ExecScript(c) ==
    /\ pc[c] = "new"
    /\ c \in EndCmd => record[uid[c]] \notin {"none", "Ended"}
    /\ record' = [record EXCEPT ![uid[c]] = Effect(c)]
    /\ told' = IF c \in EndCmd /\ pc[uid[c]] = "answered" THEN told \cup {c} ELSE told
    /\ \E result \in {"ran", "failed"} : pc' = [pc EXCEPT ![c] = result]
    /\ UNCHANGED <<kind, uid, mutex, running, checkVars, hung, raced>>

-----------------------------------------------------------------------------
(* handleCacheAndSafePoint *)

InTheMap == {c \in Cmd : pc[c] = "writing" \/ check[c] = "deleting"}

Lock(c) ==
    /\ pc[c] = "ran"
    /\ mutex = NoOwner
    /\ mutex' = c
    /\ pc' = [pc EXCEPT ![c] = "writing"]
    /\ raced' = (raced \/ InTheMap # {})
    /\ UNCHANGED <<kind, uid, running, checkVars, record, hung, told>>

\* A write to the map; once two accesses have overlapped it may be lost.
Write(keys) ==
    \/ running' = keys
    \/ raced /\ UNCHANGED running

\* Mutant: the key is the argument of the command, whatever it is.
WriteRunningArgument(c) ==
    /\ pc[c] = "writing"
    /\ Write(running \cup {c})
    /\ pc' = [pc EXCEPT ![c] = IF kind[c] = "revoke" THEN "querying" ELSE "recorded"]
    /\ UNCHANGED <<kind, uid, mutex, checkVars, record, hung, told, raced>>

\* running[uid] = cmdline, and delete(running, uid).
WriteRunning(c) ==
    /\ pc[c] = "writing"
    /\ Write(IF c \in CreateCmd THEN running \cup {uid[c]} ELSE running \ {uid[c]})
    /\ pc' = [pc EXCEPT ![c] = IF kind[c] = "revoke" THEN "querying" ELSE "recorded"]
    /\ UNCHANGED <<kind, uid, mutex, checkVars, record, hung, told, raced>>

\* The deferred Unlock, and the answer.
Unlock(c) ==
    /\ mutex' = NoOwner
    /\ pc' = [pc EXCEPT ![c] = "answered"]

\* A result that is not a string makes the handler of the request panic
\* before it writes; net/http recovers it, and the mutex is unlocked.
ResultPanics(c) ==
    /\ pc[c] = "writing" /\ c \in CreateCmd
    /\ mutex' = NoOwner
    /\ pc' = [pc EXCEPT ![c] = "failed"]
    /\ UNCHANGED <<kind, uid, running, checkVars, record, hung, told, raced>>

\* Mutant: an asynchronous create is not watched.
IsWatchedJvmOnly(c) == kind[c] = "prepareJvm"

\* isJavaAgentInstall, isAsyncCreate.
IsWatched(c) == kind[c] \in {"prepareJvm", "createAsync"}

Watch(c) == check' = [check EXCEPT ![c] = "ticking"]

\* The goroutine that watches is started only after the uid is in the map.
StartWatching(c) ==
    /\ pc[c] = "recorded"
    /\ IF IsWatched(c) THEN Watch(c) ELSE UNCHANGED check
    /\ Unlock(c)
    /\ UNCHANGED <<kind, uid, running, seen, record, hung, told, raced>>

\* Mutant: the early returns leave the mutex locked.
QueryRevokedLocked(c) ==
    /\ pc[c] = "querying" /\ ~hung
    /\ \/ kind[uid[c]] = "prepareJvm" /\ Watch(c) /\ Unlock(c)
       \/ UNCHANGED <<check, mutex>> /\ pc' = [pc EXCEPT ![c] = "answered"]
    /\ UNCHANGED <<kind, uid, running, seen, record, hung, told, raced>>

\* queryPreparationStatus of a revoke, with the mutex held: it may fail, and
\* only the end of a java agent is watched.  context.TODO() is not
\* context.Background(), so this call of ExecScript has no timeout.
QueryRevoked(c) ==
    /\ pc[c] = "querying" /\ ~hung
    /\ \/ kind[uid[c]] = "prepareJvm" /\ Watch(c)
       \/ UNCHANGED check
    /\ Unlock(c)
    /\ UNCHANGED <<kind, uid, running, seen, record, hung, told, raced>>

-----------------------------------------------------------------------------
(* checkAndReport... *)

\* Mutant: the callback of an installation does nothing.
AfterCheckKept(c, status) == "reporting"

\* The callback of an installation looks at the map if the status is Error.
AfterCheck(c, status) ==
    IF kind[c] = "prepareJvm" /\ status = "Error" THEN "deleting" ELSE "reporting"

\* What `blade status` says.  An error of the query changes nothing.
QueryPreparationStatus(c) == record[uid[c]]

EndOfCheck(c, status) ==
    /\ seen' = [seen EXCEPT ![c] = status]
    /\ check' = [check EXCEPT ![c] = AfterCheck(c, status)]
    /\ raced' = (raced \/ (check'[c] = "deleting" /\ InTheMap # {}))

\* A tick of timingCheckStatus.
Tick(c) ==
    LET status == QueryPreparationStatus(c) IN
    /\ check[c] = "ticking" /\ ~hung
    /\ IF status = "Created"
       THEN seen' = [seen EXCEPT ![c] = status] /\ UNCHANGED <<check, raced>>
       ELSE EndOfCheck(c, status)
    /\ UNCHANGED <<kind, uid, execVars, running, record, hung, told>>

\* A tick after the minute, between two queries.
Timeout(c) ==
    /\ check[c] = "ticking" /\ ~hung
    /\ EndOfCheck(c, seen[c])
    /\ UNCHANGED <<kind, uid, execVars, running, record, hung, told>>

\* deleteCallback does not take the mutex.
DeleteCallback(c) ==
    /\ check[c] = "deleting"
    /\ Write(running \ {uid[c]})
    /\ check' = [check EXCEPT ![c] = "reporting"]
    /\ UNCHANGED <<kind, uid, execVars, seen, record, hung, told, raced>>

\* One attempt; an error is logged.
ReportStatus(c) ==
    /\ check[c] = "reporting"
    /\ \E outcome \in {"reported", "lost"} : check' = [check EXCEPT ![c] = outcome]
    /\ UNCHANGED <<kind, uid, execVars, running, seen, record, hung, told, raced>>

-----------------------------------------------------------------------------
(* The surroundings *)

\* External: an installation or an asynchronous create comes to its end.
BladeActs(u) ==
    /\ record[u] = "Created"
    /\ \E s \in {"Running", "Error"} : record' = [record EXCEPT ![u] = s]
    /\ UNCHANGED <<kind, uid, execVars, running, checkVars, hung, told, raced>>

\* External.
BladeHangs ==
    /\ ~hung
    /\ hung' = TRUE
    /\ UNCHANGED <<kind, uid, execVars, running, checkVars, record, told, raced>>

\* The agent ends and is started again: killed, or by the runtime, which
\* throws when it notices accesses to the map that overlap.
AgentRestart ==
    /\ pc' = [c \in Cmd |-> IF pc[c] = "new" THEN "new" ELSE "gone"]
    /\ mutex' = NoOwner
    /\ running' = {}
    /\ check' = [c \in Cmd |-> "none"]
    /\ seen' = [c \in Cmd |-> "Unknown"]
    /\ raced' = FALSE
    /\ UNCHANGED <<kind, uid, record, hung, told>>

HandlerStep(c) ==
    Lock(c) \/ WriteRunning(c) \/ ResultPanics(c) \/ StartWatching(c) \/ QueryRevoked(c)

CheckEnds(c) == Timeout(c) \/ DeleteCallback(c) \/ ReportStatus(c)

Next ==
    \/ \E c \in Cmd : \/ ExecRefused(c) \/ ExecScript(c)
                      \/ HandlerStep(c)
                      \/ Tick(c) \/ CheckEnds(c)
    \/ \E u \in CreateCmd : BladeActs(u)
    \/ BladeHangs \/ AgentRestart

Spec == Init /\ [][Next]_vars

\* Goroutines are scheduled, a free mutex is handed out, a minute passes.
\* Blade, its callers and whoever restarts the agent owe nothing.
FairSpec ==
    /\ Spec
    /\ \A c \in Cmd : WF_vars(HandlerStep(c)) /\ WF_vars(CheckEnds(c))

-----------------------------------------------------------------------------
(* Properties *)

\* What is over is not kept as running: neither a uid that a caller had been
\* answered and has ended since (chaosblade.go:222), nor a java agent whose
\* installation was seen to fail (line 340: "if the installation fails, the
\* cache has to be deleted").  It depends on the uid being recorded before the
\* goroutine that may delete it is started; overlapping accesses spoil it.
ForgottenWhenOver ==
    ~raced =>
    /\ \A e \in EndCmd : e \in told /\ pc[e] = "answered" => uid[e] \notin running
    /\ \A c \in CreateCmd :
          /\ kind[c] = "prepareJvm" /\ seen[c] = "Error"
          /\ check[c] \in {"reporting", "reported", "lost"}
          => c \notin running

\* Every command that blade has carried out is answered, whoever holds the
\* mutex and whatever early return he takes, unless blade hangs in the query
\* that a revoke makes under the mutex, or the agent goes down.
CallsAreAnswered ==
    \A c \in Cmd : pc[c] = "ran" ~> pc[c] \in {"answered", "failed", "gone"} \/ hung

\* An asynchronous create that was answered gets its one report attempt, and
\* so does the installation of a java agent, even if blade never comes to an
\* end with it.
AsyncIsReported ==
    \A c \in CreateCmd :
        pc[c] = "answered" /\ kind[c] # "create"
        ~> check[c] \in {"reported", "lost"} \/ pc[c] = "gone" \/ hung
=============================================================================
