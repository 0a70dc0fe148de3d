------------------------------- MODULE Dispatch -------------------------------
(***************************************************************************)
(* From an HTTP request to the operation it asks for: the four handlers    *)
(* that api.Register installs, the decoding in front of them, and Handle   *)
(* of chaosblade.go, which chooses the operation from the parameters cmd   *)
(* and cmd2.  Nothing here keeps state: an outcome says which operation    *)
(* runs with which parameters, or how the request is refused.              *)
(*                                                                         *)
(* cmd is the sequence of its words (split at blanks), cmd2 that of its    *)
(* parts (split at "-").  A parameter is a number, written without a plus  *)
(* sign, or one of three texts: Blank is "" or a missing one, Span a       *)
(* duration such as "20s", NaN any other.                                  *)
(***************************************************************************)
EXTENDS Integers, Sequences

CONSTANTS
    Blank, Span, NaN,
    NumCPU,         \* runtime.NumCPU()
    MaxInt          \* the largest int, 2^63 - 1 in a build for 64 bits

ASSUME NaNAssumption == NaN \notin Int
ASSUME NumCPUAssumption == NumCPU \in Nat \ {0}
ASSUME MaxIntAssumption == MaxInt \in Nat /\ MaxInt >= NumCPU /\ MaxInt > 100

\* A form key that is not the JSON of a request has none of its parameters.
NotJson == [text |-> "not JSON"]

Fail(code) == [op |-> "fail", code |-> code]

Success == [op |-> "success"]

\* An index out of range: net/http recovers it and closes the connection.
Panic == [op |-> "panic"]

\* The error of Atoi is dropped: what is no number is 0, what is too large or
\* too small for an int the nearest that is one.
Atoi(text) ==
    IF text \notin Int THEN 0
    ELSE IF text > MaxInt THEN MaxInt
    ELSE IF text < -MaxInt - 1 THEN -MaxInt - 1
    ELSE text

\* A parameter of 0 stands for the default.
OrDefault(n, default) == IF n = 0 THEN default ELSE n

-----------------------------------------------------------------------------
(* The resolvers *)

CpuResolver(sub, count, percent, timeout) ==
    IF sub # "fullload" \/ OrDefault(percent, 100) \notin 1 .. 100
    THEN Fail("ParameterTypeError")
    ELSE [op      |-> "cpu",
          count   |-> IF count \in 1 .. NumCPU THEN count ELSE NumCPU,
          percent |-> OrDefault(percent, 100),
          timeout |-> OrDefault(timeout, 60)]

MemResolver(sub, percent, timeout) ==
    IF sub # "load" \/ OrDefault(percent, 100) \notin 1 .. 100
    THEN Fail("ParameterTypeError")
    ELSE [op      |-> "mem",
          percent |-> OrDefault(percent, 100),
          timeout |-> OrDefault(timeout, 60)]

\* A timeout is a number without a sign, of 64 bits, or a duration.
ScriptTimeout(text) == text \in 0 .. 2 * MaxInt + 1 \/ text \in {Blank, Span}

Script(sub, url, timeout) ==
    IF url = Blank \/ ~ScriptTimeout(timeout) THEN Fail("ParameterEmpty")
    ELSE IF sub # "execute" THEN Fail("ScriptFileExecuteWrong")
    ELSE [op |-> "script", timeout |-> timeout]

\* The limit is a sequence of parts, see ExperimentQuery; "" becomes "10".
StatusCommand(params) ==
    [op |-> "status", uid |-> params.uid, status |-> params.status, asc |-> params.asc,
     limit |-> IF params.limit = <<>> THEN <<10>> ELSE params.limit]

-----------------------------------------------------------------------------
(* Handle *)

\* A request without any parameter.  uid, status and asc are texts.
NoParams ==
    [cmd |-> <<>>, cmd2 |-> <<>>,
     cpuCount |-> Blank, cpuPercent |-> Blank, timeOut |-> Blank,
     memPercent |-> Blank, timeout |-> Blank, downloadUrl |-> Blank,
     uid |-> "", status |-> "", asc |-> "", limit |-> <<>>]

\* The words with "destroy" in them: the operation, a status, a file name.
Destroying == {"destroy", "destroyed", "destroy.bat"}

\* strings.Contains(cmd, "destroy") looks at the whole text.
MentionsDestroy(cmd) == \E i \in DOMAIN cmd : cmd[i] \in Destroying

\* Mutant: the command chooses between the operations, not its type.
FirstCmdOfCmd(params) ==
    IF MentionsDestroy(params.cmd) THEN "destroy"
    ELSE IF params.cmd = <<>> THEN "" ELSE params.cmd[1]

FirstCmd(params) ==
    IF MentionsDestroy(params.cmd) THEN "destroy"
    ELSE IF params.cmd2 = <<>> THEN "" ELSE params.cmd2[1]

SubCmd(params) == IF Len(params.cmd2) >= 2 THEN params.cmd2[2] ELSE ""

Handle(params) ==
    LET first == FirstCmd(params)
        sub   == SubCmd(params)
    IN
    IF params.cmd = <<>> \/ first = "" THEN Fail("ParameterEmpty")
    ELSE CASE first = "cpu" ->
                IF Len(params.cmd2) < 2 THEN Fail("ParameterTypeError")
                ELSE CpuResolver(sub, Atoi(params.cpuCount), Atoi(params.cpuPercent),
                                 Atoi(params.timeOut))
           [] first = "mem" ->
                IF Len(params.cmd2) < 2 THEN Panic
                ELSE MemResolver(sub, Atoi(params.memPercent), Atoi(params.timeout))
           [] first = "script" -> Script(sub, params.downloadUrl, params.timeout)
           [] first = "destroy" ->
                IF Len(params.cmd) < 2 THEN Panic
                ELSE [op |-> "destroy", uid |-> params.cmd[2]]
           [] first = "status" -> StatusCommand(params)
           [] OTHER -> Fail("ChaosbladeTypeError")

-----------------------------------------------------------------------------
(* The handlers of the agent's API *)

\* The ctl script is missing, exits with 0, or fails, which includes that it
\* takes more than 60 s.
UninstallHandle(ctl) ==
    CASE ctl = "missing" -> Fail("CtlFileNotFound")
      [] ctl = "fails"   -> Fail("CtlExecFailed")
      [] ctl = "exits"   -> Success

PingHandle == Success

\* The handler of each path.  (updateApplication is modelled in AppInfo.)
Route(path, request, ctl) ==
    CASE path = "chaosblade" -> Handle(request)
      [] path = "ping"       -> PingHandle
      [] path = "uninstall"  -> UninstallHandle(ctl)

\* What is answered to one key of the form that is posted to path.  A key
\* that is not the JSON of a request is answered with the text of an error.
Serve(path, key, ctl) ==
    IF key = NotJson THEN [op |-> "errorText"] ELSE Route(path, key, ctl)
=============================================================================
