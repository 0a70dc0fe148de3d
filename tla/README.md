# TLA+ models of winchaos

winchaos is a chaos agent for Windows. A server (or a user, over HTTP) asks it to load the cpu or the
memory of its machine or to run a script; the agent starts the experiment, records it in a SQLite file,
answers with a uid, and destroys the experiment on request. The modules in this directory model the
parts of that program that keep state and run concurrently, and the way a request takes to them. TLC
checks them on small instances; all their safety properties, those of the composition of all experiments
included, are proved with TLAPS for instances of any size.

Contents: [the system](#the-system) | [components](#components-state-operations-and-what-makes-them-correct) |
[modules](#modules-and-how-they-correspond-to-the-code) | [runs](#runs) | [bounds](#bounds) |
[fairness](#fairness) | [proofs](#what-is-proved) | [differences](#where-the-code-and-its-words-differ) |
[abstractions](#what-the-models-leave-out) | [not modelled](#not-modelled) | [plan](#plan)

## The system

```
        HTTP requests                                    registration, heartbeats, close notice
 user / server ----> web/server, web/handler      conn, conn/connect, conn/heartbeat ----> chaos server
                          |                              |  Opts.Cid, accessKey, secureKey, .chaos.cert
          CpuResolver / MemResolver / Script             |
          DestroyExperiment / SearchExperiments    transport, interceptors (auth, timestamp), pkg/http
              |          |            |
              |          |            +---- kill pid / remove directory
              |          +---- table `experiment` of chaosblade.dat (SQLite) ----+
              +---- starts os.exe (web/category/event/cmd.go): CpuRun, MemRun ---+
```

* The **agent** (`cmd/chaos_agent.go`) is one process. Every HTTP request runs in a goroutine of its own.
* Every cpu or mem experiment is a **helper**, a process of its own (`os.exe`), that inserts its own row.
  Agent and helpers share the SQLite file and nothing else: the agent ends a helper by killing the pid
  that it reads from the row.
* A script runs in the handler of its request; its files lie in a directory named after the second in
  which the request came.
* Two goroutines of `conn.Start` talk to the server: one registers once, one sends heartbeats. They share
  unlocked globals.
* Signals are taken by two independent goroutines, the one of `pkg/tools/app.go` and `tools.Hold`.

## Components: state, operations, and what makes them correct

| component (source) | state | operations | hard because | should be true |
|---|---|---|---|---|
| experiment store (`data/experiment.go`, `data/source.go`) | the table | insert, update by uid, query by uid, listing with filter, order, limit | several processes, statements fail, `rows.Err()` is not consulted | a listing is the window that filter, order and limit ask for, or its first rows; a walk whose pages are whole misses nothing |
| cpu and mem experiments (`web/cmdexec/{cpu,mem,destroy}.go`, `web/category/{cpu,mem}_main.go`) | helper processes, timers, rows, the copies of rows in destroy handlers | create, insert, timer, destroy (query, kill, update) | uid looked up long before it is inserted; row read before the kill; pids reused; processes that cannot be opened count as gone; writes fail and are logged only; restarts | Destroyed means dead, and for good; a destroy that answers success has ended the load; rows lead to processes |
| script experiments (`web/cmdexec/script.go`, `destroy.go`) | directories, rows, running scripts | mkdir, download, unpack, record, run, report, destroy | requests of one second share a directory; members of archives lead elsewhere; destroy during any step; report after a destroy | a script runs its own files, unless another archive leads into its directory; status tells the outcome; destroy cleans up |
| connection (`conn/...`, `transport/...`, `pkg/tools/{auth,limitedlist}.go`, `pkg/http`) | cid, key pair, `.chaos.cert`, heartbeat outcomes | register, beat, sign | globals assigned without the lock under which they are read; strings of two words; answers lost; restarts | every beat is signed with one issued pair; a registered agent beats |
| application info (`web/handler/updateApplication.go`, `auth.go`, `options.go`) | `Opts.ApplicationInstance/Group`, `.chaos.app` | update, write file, read at start | unlocked options; file written line by line; crash between truncation and write | the file holds one write, broken off or not; a lone update makes file and memory agree |
| shutdown (`pkg/tools/{app,signal}.go`, `conn/close/closer.go`, `chaos_agent.go`) | two goroutines, two channels of capacity 1, `wgDone`, notices under way | deliver a signal, Wait, Hold, close notice, grace timer | signal at any moment; full channels; waiting for helpers | a signal that is taken ends the process; one that outlives its first SIGTERM can be ended by the next |
| request dispatch (`web/handler/chaosblade.go` Handle, `web/api`, `web/server`) | none (the operation is chosen from the command) | decode, classify, dispatch | two texts decide together, and "destroy" anywhere in the first wins; numbers that are none become 0 and then defaults, those too large the largest; panics on malformed commands are recovered by net/http | a request with "destroy" in its command destroys the second word, every other does what its type says, with parameters in their ranges |
| blade commands, async reports (`chaosblade.go` exec..., `conn/asyncreport`, `pkg/tools/bash.go`) | map of running commands, its mutex, watching goroutines | exec, cache and safe point, status timer, delete callback, report | the callback does not take the mutex; the query of a revoke runs under it; blade hangs; the watcher races the entry in the map; no caller at this commit | what is over is not kept as running; every call is answered; an asynchronous create is reported |
| cpu load control (`cpu_main.go` burn, CpuStart) | quota channel, feedback | produce, burn | producer and workers wait for each other | no worker gives up in the first rounds; the producer is served while a worker is left |
| mem load control (`mem_main.go` starts) | slices of blocks, garbage | measure, compute size, append | rounding, other processes, the copy that append makes and clears | how far a tick may eat into the reserve; the load settles near the percentage |
| uninstall, ping | none | run an external script, answer | - | (part of the dispatch) |
| options, logging, tools | flags, log files | parse, format | - | not modelled |

The hazards, each at its line and with the properties that guard it, are listed in `PROJECT.json`.

## Modules and how they correspond to the code

`PROJECT.json` "map" gives the lines of every definition. Names follow the code. "Mutant" definitions are
changed versions of the definition that follows them; each of them makes a property of a run fail, which
shows that the property depends on that code.

### ExperimentStore
`table` is the table `experiment`; a row keeps its status, command type and handle (the pid inside the JSON
of column `flag`, or the directory in `sub_command`). One SQL statement is one atomic step, as in SQLite,
and may fail (`WriteFails`); all callers hand the error to `checkError`, which logs it. A query that breaks
off returns nil without an error, because `rows.Err()` is never asked: constant `ReadErrors` switches this
on. `GenerateUid` draws until the query finds no row; the drawing itself is random, so `Collide` decides
whether two requests in flight may draw the same uid.

### Experiments
A create request is identified with the helper it leads to: `pc[e]` runs through *new, spawning* (uid answered,
goroutine about to start os.exe), *starting* (process runs, no row), *burning, dead*. `Accept` is the resolver,
`Spawn`/`SpawnFails` the goroutine that runs os.exe, `CpuRun`/`MemRun` the INSERT of the helper, `TimerMark` and
`TimerKill` the two halves of the timer of a mem helper (UPDATE to Success, then the end of its own process). A
destroy handler is *idle*, about to *kill*, or about to *update*; `DestroyQuery` copies the pid from the row,
`ExperimentDestroy` kills **whatever** process has that pid by then, `DestroyUpdate` writes Destroyed and
answers success whether or not the write worked. A `Kill` that fails is answered with an error. A `FindProcess`
that fails counts as "no such process", and the row becomes Destroyed: the helpers that it may fail to open
while they live are the constant `Guarded`, and what a destroy promises is said of the others. The environment
kills helpers (`HelperDies`), restarts the agent (`AgentRestart`: handlers and goroutines are gone, helpers
stay), and starts and ends other processes, so that every pid may be reused at once.

### ExperimentPromise
The abstract specification: seen through status and liveness of the load, an experiment begins once with
its load, reports Success only while it runs, stops, and becomes Destroyed only after the load has stopped,
for good. `Experiments!KeepsPromise` is the refinement (phase = status of the row, live = uids whose recorded
helper runs).

### ExperimentsInv, ExperimentsProofs
The inductive invariants `IInv` and `UInv`, and the proofs; see [below](#what-is-proved). `ExperimentsProofs` goes
on with the proofs about `AllExperiments`, since they use the same lemmas about the steps of the loads. The other
modules with proofs (`ScriptsProofs`, `AgentConnProofs`, `AppInfoProofs`, `ShutdownProofs`, `ExperimentQueryProofs`,
`BladeExecProofs`, and `LoadProofs` for both CpuLoad and MemLoad) hold the inductive invariant of their component
next to its theorems.

### Scripts
The handler of a script step by step: `MkDir` (a directory per second, shared by requests of that second),
`Download`, `UnTar` (one member at a time; the file is opened without O_TRUNC, so a file holds the bytes of
everybody who wrote to it), `List`, `Name`, `Insert`, `Start`, `Exit`, `Report`; and the destroy of scripts:
`DestroyQuery`, `RemoveAll` (which may fail half way), `DestroyUpdate`.

The name of a member is used as it is (script.go:220-226), so an `Entry` is a plain name, or leads to a
directory `s` of another request: `../s/main.bat` is opened in `s` if that is there (`Landing`); for
`s/main.bat` unTar makes `s` in the working directory, where the directories of all requests are, and then fails
to open the file below its own. `Reaches` and `Unshared` take such archives into account.

### AllExperiments
Experiments (extended) and Scripts (`S`, an instance) over one table, one supply of uids, one agent process and
one set of destroy handlers. `Choose` is the query and the switch of `DestroyExperiment`: the command type of the
row decides whether the handler goes on in Experiments (`dpc`) or in Scripts (`sdpc`). Each part alone takes
the rows of the other as absent; here a script's report and a helper's timer may meet rows of the other kind,
and one `AgentGoesDown` ends the requests of both. The properties of Experiments are checked over this
composition, next to `ScriptDestroyedIsGone`. `AllExperimentsInv` has its inductive invariant `AllInv`.

### AgentConn
The two goroutines of `conn.Start`. `reg` is the registration: `Connect`, the answers it may get, `SetCid`,
`RecordSecretKeyToFile` (first the file), `AssignKeys` (then the two globals, without the lock). `hb` is the
heartbeat: `NewRequest` reads the cid, `GetAccessKey`, `GetSecureKey` and `SignAndSend` read the keys in
three steps, the outcome goes to `HBSnapshotList`. A Go string is two words: between the two stores it is
`Torn`, and a reader finds the empty string or panics. The server's answer holds a key pair (`granted`) and a cid
(`grantedCid`), which may be the empty string: connect.go:102 takes it as it takes any other, the keys are recorded
all the same, and request.go:37 then leaves the header out.

### ExperimentQuery
The table as the sequence of its rows in id order; `QueryExperimentModels` is the SELECT built in
experiment.go, with `Where`, `OrderBy` and `Limit`. A statement that runs to its end has `Found`; one that breaks off
has a prefix of it, which is answered as if it were all (`rows.Err()` is never asked), and any statement may fail.
`SearchExperiments` is therefore the set of answers that a status request may get: failures, the row of the asked
uid, or listings. Walkers are clients that fetch a listing page by page. A walker's request passes through `Handle` of
`Dispatch`, so the listing it gets is that of the parameters as the agent has decoded them. A walk is *done* when it
has got a page that was not full, and *cut* when that page was one that broke off; the client cannot tell one from the
other.

### Dispatch
The way from the form of a request to an operation, as functions: `Serve` is the decoding in front of the four
handlers, `Route` the table of `api.Register`, `Handle` the choice that chaosblade.go makes from `cmd` and
`cmd2`, and `CpuResolver`, `MemResolver`, `Script`, `StatusCommand` what becomes of the numbers and texts in the
parameters. `MentionsDestroy` is `strings.Contains` over the whole command: `Destroying` names the words that
have "destroy" in them. `Atoi` clamps numbers beyond `MaxInt` and makes 0 of texts that are none;
`StatusCommand` hands on uid, status, limit and the text `asc`, which `SearchExperiments` takes as true if it is
missing. An outcome is the operation with its parameters, the code of a refusal, or the panic of an index out of
range. `ExperimentQuery!RequestsAreServed` compares it with what the requests name.

### AppInfo
`updateApplication` handlers assign the two options word by word (`Assign`), read them back (`ReadOpts`), and
write `.chaos.app` under `tools.mutex` (`Open` truncates, `Write` one line, `Close`). `written` remembers the
pair of the write begun last. `Start` is the start of the agent with `InitApplicationInfo`.

### Shutdown
One process, agent or helper: `main` (Wait, then Hold), the goroutine of `pkg/tools` (`appGo`), their
channels, the goroutines that post the close notice. `Deliver` is the runtime: offered to every notified
channel, dropped by a full one, default action if there is none. The select of the grace period is one step
(`TimerFires` or `AppDone`, either if both are ready), the exit after the stack has been printed another
(`GraceTimeout`), and `main` goes on between them: the exit may cut off a notice that Hold has just begun.

### CpuLoad
What a cpu helper does while its row says Created. `producer` is the loop of `CpuStart`: `Measure` (a second of
watching the machine, `getQuota`) and then one `Send` per worker into the channel `quota`, which has room for
as many offsets as there are workers. A worker measures for itself (`Start`), then its `select` either takes
an offset (`Take`, clamped at 0) or runs an iteration (`Burn`, `Iterated`): busy for `q`, asleep for `s`. The
sleep is computed once, because the `ds` of the loop is a new variable that nothing reads. A worker whose
iteration took more than 5 s may return; when all have, the producer stays in its send (`Stalled`).

### MemLoad
What a mem helper does meanwhile, in blocks of 128 KB: `Tick` is one turn of the loop of `starts`, from
`ExpectMem` (free memory above the reserve, in whole MB) over `FillMem` (how much of it is taken now) to the
choice between a new slice and `append`. `Grown` is what append may choose (`Threshold` is where it stops
doubling), and since the runtime clears all of a grown slice of pointer-free blocks, the machine is without its
whole capacity from then on (`Free`). `garbage` is the slice that append has left, `Collect` the runtime that
returns it, `OthersChange` the rest of the machine.

### BladeExec
`exec` of chaosblade.go, which runs a command of the external program blade. `ExecScript`/`ExecRefused` is
blade; `Lock`, `WriteRunning`, `StartWatching`, `QueryRevoked`, `ResultPanics` are handleCacheAndSafePoint under
the mutex; `Tick`, `Timeout`, `DeleteCallback`, `ReportStatus` are the goroutine that watches an asynchronous
create or the installation of a java agent. `raced` remembers that two accesses to the map have overlapped:
DeleteCallback does not take the mutex.

### MC modules
`MCExperiments`, `MCScripts`, `MCAllExperiments`, `MCAgentConn`, `MCExperimentQuery`, `MCAppInfo` and
`MCBladeExec` give model values, sets and symmetry. `Shutdown`, `CpuLoad` and `MemLoad` need none.

## Runs

| run | cfg | expected | shows |
|---|---|---|---|
| any_draw | AllExperiments | pass | Loads and scripts over one table, with uids that repeat across kinds, queries that break off and failing writes: `AllInv` (the inductive invariant, with the types), `DestroyedIsDead`, `SuccessMeansDead`, `RowNamesLiveProcess`, `ScriptDestroyedIsGone`. Two destroy handlers, one mem and one script request. |
| unique_uids | ExperimentsUniqueUids | pass | With unique uids, and a cpu helper that a destroy may fail to open: `UInv` (the inductive invariant), the refinement `KeepsPromise`, and the liveness `MemExperimentEnds`, `DestroyTakesEffect`. |
| cpu_timeout | ExperimentsCpuTimeout | violation | `CpuExperimentEnds`: the timeout of a cpu experiment ends nothing. |
| scripts | Scripts | pass | `UnsharedRunsItsOwn`, `StatusTellsOutcome`, `DestroyCleansUp`, `OnlyOwnReportOverwrites`. |
| agent_conn | AgentConn | pass | `SignedWithOnePair`, `KeysInUseAreOnDisk`, `SuccessNeedsRegistration`, `NewBeatsCarryCid`, and the liveness `RegisteredSends`. |
| registration_exit | AgentConnExit | violation | `RegistrationFailureExits`: the nil channel errCh. |
| query | ExperimentQuery | pass | Walks whose pages fail or break off: `AscendingWalkIsExact`, `DescendingWalkMissesNothing`; every set of answers against `QueryMeetsReference`, every request against `RequestsAreServed`. |
| app_info | AppInfo | pass | `LoneUpdateSettles`, `FileIsOneWrite`. |
| cpu_load | CpuLoad | pass | `LoadHoldsAtFirst`, and the liveness `ProducerIsServed`. |
| mem_load | MemLoad | pass | `TickSparesTheReserve`, and the liveness `LoadSettles`. |
| blade_exec | BladeExec | pass | `ForgottenWhenOver`, and the liveness `CallsAreAnswered`, `AsyncIsReported`. |
| shutdown | Shutdown | pass | `SurvivorIsPastWait`, `OfferedTermEnds`. |

Next to these, a run checks the types of its module (`TypeOK`, `MemTypeOK`) where no inductive invariant contains
them.

Some of these say less than one might wish, because the code does less:

* `UnsharedRunsItsOwn`, `DestroyCleansUp` and `ScriptDestroyedIsGone` are about requests that had their second for
  themselves and whose directory no other request's archive names. Two script requests of one second do unpack over
  each other, and `../s/main.bat` does replace the file that another request is about to run.
* The properties of loads (`DestroyedIsDead`, `SuccessMeansDead`, `KeepsPromise`, `DestroyTakesEffect`) except the
  helpers in `Guarded`: a destroy that cannot open the process of one reports success and leaves it running.
* `OnlyOwnReportOverwrites`: a script that is destroyed while it runs reports afterwards, and its Success or
  Error replaces Destroyed.
* `ScriptDestroyedIsGone` says nothing of the status: when a uid repeats, the timer of a load whose INSERT was refused
  writes Success into the row of a script, and the report of such a script into the row of a load, over Destroyed.
* That Destroyed is final (`DestroyedForGood` of the proofs, part of `KeepsPromise`) needs uids that do not
  repeat: with a repeated one, the timer of one helper writes into the row of another.
* `RegisteredSends` gives one heartbeat, or the end of all: a panic at a torn string ends the heartbeat
  goroutine while the agent stays up, and an answer that never comes blocks it, since only connecting has a
  timeout.
* `NewBeatsCarryCid` is about beats that were begun with an access key: they carry a cid exactly if the server has
  given one. After an answer with an empty cid every beat is signed and goes out without it, and so can a beat that
  was begun before the registration was answered.
* `AscendingWalkIsExact` has no status filter: under a filter rows leave the listing between two pages and
  the ones behind them are skipped, as with every listing by offset. When a page breaks off, the client takes it for
  the last one and misses the rest: what is left of the property is that nothing is missing in between.
  `DescendingWalkMissesNothing` says the same of a walk that is cut: what it has not shown is older than all it has.
* `RequestsAreServed`: a command with "destroy" anywhere in it is a destroy of its second word. `create script
  destroy.bat` destroys the experiment with uid "script", `status --status destroyed` the one with uid "--status".
* `LoneUpdateSettles` is about an update that meets no other one. Overlapping ones may leave different pairs
  in file and memory, even the pointer of one name with the length of another. `FileIsOneWrite` therefore does not
  say that the file is one update: the pair that is written was read from the options, and may mix two.
* `LoadHoldsAtFirst` bounds from below how long a load lasts; how near it comes to the percentage depends on
  the machine and is not stated.
* `TickSparesTheReserve` bounds an overshoot that does happen: a tick whose append copies the slice has both
  copies in memory for a while, with the spare capacity of the new one, and takes the machine up to five quarters of
  the rate and three quarters of the threshold of append below the reserve: 149 MB, although 100 MB are taken at a
  time.
* `SurvivorIsPastWait` and `OfferedTermEnds` leave out the SIGTERM that is lost: one that is taken before Hold is
  notified, or that comes while its channel is full, leaves an agent that stays up.
* `ForgottenWhenOver` speaks of histories in which no two accesses to the map have overlapped. They can
  overlap, and then the Go runtime may end the agent.
* `CallsAreAnswered` and `AsyncIsReported` except a blade that hangs: a revoke asks it for a status under the
  mutex and without a timeout, so everybody else waits too.
* A kill may hit a process that is not the target, when the helper has ended and its pid has been given
  away; if the target lives, the target is hit. `JobsAreAccurate` in `ExperimentsInv` states exactly this.

## Bounds

The proofs remove these bounds for all safety properties; what the bounds still limit is liveness.

* AllExperiments (any_draw): one mem and one script request, two destroy handlers, two uids, one pid, one directory.
  Two requests are the least that can collide on a uid, two destroy handlers the least that can race on one
  row; the pid is passed on to other processes and back. A mem helper does all that a cpu helper does.
* Experiments (unique_uids): two cpu requests, one of them in `Guarded`, and one mem request, one destroy
  handler, two uids and two pids, so that a pid may pass from one helper to the other, too. In any_draw
  `Guarded` is empty; the helper that cannot be opened has its run here. cpu_timeout has one cpu request and one
  destroy handler.
* Scripts: two requests, one destroy handler (which serves any number of requests one after the other), two
  directories: the two requests may share or not. Archives: a .bat and a .sh, which is refused, of either of which
  the unpacking may stop short; and for each directory one with members that lead there in both ways. A .ps1 goes the
  way of a .bat.
* AgentConn: two pairs of keys, so that a pair of one registration can be confused with that of an earlier one;
  capacity 2 of the outcomes (26 in the code, heartbeat.go:21: only the limit counts). Crashes and restarts are
  unbounded.
* ExperimentQuery: four rows and pages of two, so that a walk has up to three pages and the table may change
  around each. Limits have no, one or two parts, each from -1 to 2 or a text that is no number.
* AppInfo: two handlers, two names.
* CpuLoad: two workers, the least that can share offsets unevenly; `Period` 2 and `Target` 1, so that what is
  measured may be below, at or above the target. `LoadHoldsAtFirst` allows no return in the first 4 rounds
  under these values, and `MaxRounds` = 6 leaves room for returns after them. `MaxQ` = 11 is more than a quota can
  reach within those rounds, so the cap does not touch the property.
* MemLoad: a machine of 500 blocks (62 MB), 70 %, a rate of 10 MB for the 100 of the code, a threshold of 20 for the
  256 of append, and a rest of the machine that uses one of three amounts, of which the largest leaves the load no
  room. That is enough for
  every branch of `FillMem`, for slices that move and for slices that are left behind.
* BladeExec: the installation of a java agent, another create (plain or asynchronous), and a destroy or revoke
  of either. Two commands are the least that meet at the mutex; the third ends what the first two record.
* Dispatch: commands of up to three words, with "destroy" as the first word, as a part of another or not at all; types
  of up to two parts. A number is below, inside, at the end of or beyond its range, beyond the largest int (`MaxInt`
  is 1000), or a text. The machine has four cpus.
* Shutdown: `MaxPosts` = 2 close notices are counted; with more under way the counter stays.

## Fairness

* Experiments: weak fairness of the goroutine that starts os.exe, of the helper's INSERT, of an armed timer
  and of a destroy handler at work: the schedulers of Go and Windows run whatever can run, and time passes.
  Creating, destroying, crashes, other processes: none.
* Scripts, AllExperiments: none; their properties are about safety.
* AgentConn: both goroutines run while the process does, and the ticker ticks. Server and network
  owe nothing, and nobody needs to restart the agent.
* CpuLoad: producer and workers are scheduled, bursts and sleeps end.
* MemLoad: the ticker ticks, and the runtime returns memory that nobody uses.
* BladeExec: goroutines are scheduled, a free mutex is handed out, a minute passes (weak fairness of a handler's
  steps and of the end of a watch). Blade, its callers and whoever restarts the agent owe nothing.
* Shutdown: both goroutines are scheduled, sleeps and timers end. A notice may stay unanswered, helpers may
  run for ever.

## What is proved

Everything below is checked by TLAPS down to the last leaf, with the SMT solver, Zenon and the temporal decision
procedure, for **any** values of the constants that meet the named assumptions of the modules. Every proof
has the same shape: an inductive invariant, a lemma per action (or per group of actions) that keeps it,
and theorems that follow from it. The invariants were checked with TLC before they were proved.

### Experiments (ExperimentsProofs)

For any sets of requests, handlers, uids and pids, from the assumptions that cpu and mem requests are different,
pids are handles, `Guarded` holds requests, and `NoPid`, `NoUid`, `NoRow` are none of the things whose absence
they stand for:

* `Invariance`: Spec => []IInv; hence `TypeCorrect`, `NoDestroyedLoadRuns`, `DestroyAnswersAreTrue` and
  `RowsLeadToProcesses`, for repeated uids, queries that break off and failing writes too.
* With `Collide = FALSE` and `ReadErrors = FALSE`: `UniqueInvariance` (UInv), `DestroyedForGood` and
  `PromiseKept`, the refinement of `ExperimentPromise`.

The argument. That Destroyed means dead is not inductive: `DestroyUpdate` writes Destroyed long after the
kill, and the kill goes by a pid that was read earlier still. `IInv` adds what makes the three steps fit:

1. `Stages` and `RowsHaveOwners`: a row of a load belongs to exactly one helper, the one that inserted it (the
   UNIQUE constraint), and stays for ever;
2. `PidsAreUnique`: no two live processes share a pid;
3. `RowNamesLiveProcess`: the row of a live helper has its pid, so what a destroy handler copies is right
   at that moment;
4. `JobsAreAccurate`: while a handler is about to kill, its copy is the pid of its target, if the target
   still lives, because a process keeps its pid. So the kill hits the target, or the target is dead already or in
   `Guarded`; and while a handler is about to update, its target is dead or in `Guarded`. Dead helpers stay dead.

`DestroyedIsDead` and `SuccessMeansDead` follow at `DestroyUpdate` from 4. `UInv` adds that uids are unique and
that a live helper's row says Created until its own timer has fired; then a late timer cannot turn
Destroyed back, and each step is a step of the promise for at most one uid (`TableSteps`, `StepShows`,
`PromiseByUid`).

### All experiments (ExperimentsProofs, second part)

For loads and scripts over one table, from the same assumptions and that the directories are handles, but no pids
(`KindAssumption`): `AllInvariance` (AllSpec => []AllInv), hence `ScriptsAreGone`, `NoDestroyedLoadRunsAmongScripts`,
`AnswersAreTrueAmongScripts` and `RowsLeadToProcessesAmongScripts`, with uids that repeat across kinds, failing
reads and failing writes.

The invariants of the parts do not simply add up, because each part writes to rows of the other: a timer and a report
write under a uid that they may have lost to a request of the other kind. `AllInv` is `IInv`, which speaks of rows of
loads only, with

1. `ScriptStages` and `ScriptRows`: a script unpacks nothing any more once it has a row, and its row keeps its kind
   and names its directory;
2. `SwitchHolds`: a handler stays in the case of the switch it has taken, because the kind of a row never changes;
   one that is about to remove a directory holds the one of its target;
3. `RemovedIsGone`: from the removal on (a handler about to update, an answer, or Destroyed in the row) the directory
   of an unshared script is empty.

Two frame lemmas carry the proof over the kinds. `LoadFrame`: a step of the loads turns no row into a script's, nor
a script's row into another, and marks none Destroyed, since the only load step that writes Destroyed has a load as
its target. `ScriptFrame`: a step of a script leaves every load's row its handle, its kind and, if it is not
Destroyed, does not make it so; and a handler that a script step touches has a script as its target, which no helper
owns.

### Scripts (ScriptsProofs)

`SInv`: a row has one owner, whose directory it names (`Rows`); only those who were given a directory, or have
an archive that leads there (`Reaches`), have bytes in its files and in what is run from it (`Files`); a destroy
handler at work has its directory from a row that is there, and rows never move (`Jobs`); from the removal on
the directory of an unshared request stays empty, because its owner has finished unpacking before it had a row
and nobody else gets there (`Clean`). This gives `OwnFilesAreRun` and `DestroysCleanUp`, with repeated uids and
failing reads too. With `Collide = FALSE` and `ReadErrors = FALSE`, uids differ, so that a report writes into
its own row: `StatusTellsTruth` and `OwnReportsOverwrite`.

### The connection (AgentConnProofs)

`CInv`: how far the registration has come tells what the unlocked globals hold (`KeysFollow`), because no one
else assigns them; and a heartbeat that has found an access key has the one that stays (`BeatFollows`). The
registration assigns, and a heartbeat reads, the access key before the secret key, and a heartbeat that finds no
secret key is not sent. The cid is what the answer says before the keys are (`KeysFollow`). Hence
`SignedWithIssuedPair`, `KeysAreOnDisk`, `SuccessesAreRegistered` and `BeatsCarryCid`, over any number of crashes
and restarts, and any capacity of the list of outcomes.

### The application (AppInfoProofs)

`AInv`: whoever is in *write* holds the mutex (`MutexIsHeld`); the file has lines of the write begun last only,
which is the one of the holder of the mutex if there is one (`FileFollows`), through crashes and failed writes;
a handler that has met no other one has read what the options still are (`AloneFollows`). Hence
`FileHoldsOneWrite` and `LoneUpdatesSettle`.

### Shutdown (ShutdownProofs)

`GInv`: `wgDone` is closed only when `main` has come past Wait, the goroutine of `pkg/tools` is done only when
`wgDone` is closed, and a helper, whose load is counted before Wait looks at the counter and has no end, never
comes past it. Hence `SurvivorsArePastWait`.

### Listing and dispatch (ExperimentQueryProofs)

What the filter finds is a recursive function of the table. An induction over the rows, stated with a set
(`SetInduction`), tells what it is: the row at every number of the result is the matching row with that many
matching rows before it (`WhereFilters`). The order turns this number into the rank (`OrderShowsRanks`), and
`Limit` cuts a window of ranks out, for any integer offset and count, negative ones too (`PageShowsRanks`).
`QueryIsRight` adds how the text of a limit is read and that an answer is a prefix of the window
(`ListingMeets`, `AnswersMeet`): every table, filter and order, with the limits of `Limits` (no part, one or
two; numbers around zero or no number).

`QInv` is the invariant of the walks. Ids only grow, so an ascending walk has seen exactly the first rows, in
their order, and while it goes on its offset is how many (`AscendingInv`); a page that breaks off ends the walk,
so that its offset cannot run ahead of what it has seen. A descending walk meets rows again; but there always is
a row up to which it has seen none, and behind which it has left out nothing that was there at the start
(`DescendingInv`). A page lowers that row to the one before its last entry, whether it broke off or not. Hence
`AscendingIsExact` and `DescendingMissesNothing`, for any number of walkers, page size and length of the table.

`RequestsAreRight` is about the dispatch alone and needs no invariant. It splits as `Handle` does: a destroy
goes by its command, whatever the type says (`DestroyIsHandled`), any other command by its type
(`TypeIsHandled`); `Defaults` tells what is made of a number, `CpuRequest` and `MemRequest` what is made of
those of a load, and `OutcomeIs` puts them together. The requests are those of `Commands`, `Types` and `Noise`,
for any positive number of cpus and any largest int above 100.

### The loads (LoadProofs)

`LInv` of the cpu load: the offsets that the workers have taken are what was sent in all the rounds, less what
is pending or in the channel, and no iteration has grown by more than the target for each of them, even if
one worker took them all (`Growth`). Hence `LoadHolds` for any number of workers and any percentage, and that
the channel never overflows (`TypeCorrect`).
`ReserveIsSpared` of the mem load needs no invariant beyond the types: a full slice is copied only if its capacity,
grown by a quarter, is less than what may be taken, and append gives it at most a quarter more than it has to hold,
and three quarters of the threshold. With the bounds of `FillMem` these add
up to the bound of the property, for
every size of the machine, rate, percentage and threshold.

### Blade commands (BladeExecProofs)

`BInv`: a goroutine that watches belongs to a command that has been answered, so its uid was entered before
it can be deleted; and whoever ends a uid that was answered finds nobody who will enter it again (`Order`).
As long as no accesses overlap, what is over has left the map (`Forgotten`). Hence `OverIsForgotten`.

### Only model-checked

Liveness (`MemExperimentEnds`, `DestroyTakesEffect`, `RegisteredSends`, `ProducerIsServed`, `LoadSettles`,
`CallsAreAnswered`, `AsyncIsReported`, `OfferedTermEnds`), which is out of reach of the prover. Every invariant and
every action property of a run is a theorem.

## Where the code and its words differ

Each is a run that TLC ends with a counterexample; `PROJECT.json` "findings" quotes the lines.

1. The timeout of a cpu experiment does not end it: the context handed to `CpuStart` is never done.
2. A failed registration does not exit the agent: `errCh` is nil, and the sender blocks for ever.

Met on the way, without a run: the timeout of a script is compared after the script has ended, and kills a
finished process (script.go:143, `Report`); a cpu load dies out, although README.md:85 asks for a load of 80 %
until its timeout, since the busy part of an iteration grows with every measurement below the target and a
worker returns after an iteration of more than 5 s (cpu_main.go:148, `Iterated`; `LoadHoldsAtFirst` bounds from
below when); a destroy of an unknown uid calls `err.Error()` on a nil error
(destroy.go:26), so it panics instead of answering (the answer "panic" of `DestroyQuery`); a SIGQUIT sends the
close notice and keeps the agent running (signal.go:30, `HoldTakes`); what `InitApplicationInfo` reads from the
file is assigned to its parameters and lost (options.go:232); a SIGTERM that comes before `Hold` is notified, or
while its channel is full, is taken by the goroutine of `pkg/tools` alone, and the agent stays up although
it has logged that it closes (app.go:70, `AppCloses`, `AppDone`).

## What the models leave out

* Time: an armed timer may fire, and a clock may show a new second, at any moment.
* How long a machine may stall: an iteration of `CpuLoad` takes the time that its quota and its sleep add up
  to.
* The wording of refusals: `Dispatch` keeps their codes.
* A form body with several keys (every key is served by itself), and keys that a "=" or "&" in their JSON
  cuts in two: the latter are among the keys that are no JSON.
* What happens to a Go map after accesses have overlapped: in `BladeExec` a write may be lost, or the agent
  ends.
* The server, the operating system, the file system and SQLite are external and behave as the code's calls
  allow. SQL statements and kills are atomic.
* What the members of an archive do to files elsewhere on the machine: of the names that lead out of a
  directory, those are kept that lead to the directory of a request.
* Timeouts so large that their number of nanoseconds overflows (mem_main.go:19, 30): a timer may fire at any moment
  anyway.
* Encodings (JSON, sign, gzip of archives): a key pair, a name, an archive is one value. Where the code
  can tell something apart (first letter of a status, texts that are no numbers, torn strings, truncated
  files) so do the models.
* Compilers: stores of one goroutine are seen in program order (the agent is built for amd64).

## Not modelled

* `DeleteExperimentModelByUid`, the user_version pragmas, `tools.Defer`, the lock file of `pkg/tools`,
  `GatewayServer`, `Callback` of conn/callback and `ExecOsAgentScript` have no caller at this commit. Neither
  has the exec path of chaosblade.go; it is modelled nevertheless, because it is the only concurrent code
  of the handler.
* Option parsing, logging, and the helpers of `pkg/tools` for files, environment and downloads: they read,
  format and write, and keep no state of their own. What the core does with their results is in the models.

## Plan

Done: ExperimentStore, Experiments with its promise; Scripts; AllExperiments, the composition of both; AgentConn;
ExperimentQuery with Dispatch; AppInfo; Shutdown; CpuLoad; MemLoad; BladeExec; proofs of the safety properties of all
of them.

What is left, in this order:

1. *The promise among scripts*: with uids that do not repeat, the rows and helpers of the loads keep
   `ExperimentPromise` in AllExperiments, too. It needs the uids of both kinds to differ.
2. *Own files among loads*: `UnsharedRunsItsOwn` and `StatusTellsOutcome` of Scripts over AllExperiments.
3. *The restart of an agent with its files*: AgentConn and AppInfo over one process, with the options that
   `InitApplicationInfo` loses.
