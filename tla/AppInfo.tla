------------------------------- MODULE AppInfo -------------------------------
(***************************************************************************)
(* The application the agent belongs to (instance and group): the pair in  *)
(* options.Opts, its copy in the file .chaos.app, the updateApplication    *)
(* requests that change both, and what a start of the agent does with the  *)
(* file.  Requests are served by concurrent goroutines: Opts is written    *)
(* and read without any lock, the file under tools.mutex.                  *)
(*                                                                         *)
(* A Go string is a pointer and a length, stored one after the other.  Two *)
(* goroutines that assign the same variable can leave the pointer of one   *)
(* name with the length of the other.                                      *)
(***************************************************************************)
CONSTANTS
    Request,    \* goroutines that serve updateApplication
    Name,       \* names of instances and groups, of different lengths
    Default,    \* the name the flags default to
    None,       \* no goroutine
    Absent      \* a missing parameter, line or file

ASSUME DefaultAssumption == Default \in Name
ASSUME NoneAssumption == None \notin Request

VARIABLES
    up,         \* does the agent run?
    opts,       \* Opts.ApplicationInstance and Opts.ApplicationGroup
    file,       \* .chaos.app: its two lines, or Absent
    mutex,      \* who holds tools.mutex
    pc,         \* where each handler is: see PC
    param,      \* the parameters of its request
    args,       \* what it passes to RecordApplicationToFile
    alone,      \* ghost: the one handler at work, if it met no other
    settled,    \* ghost: the last update met no other one, and succeeded
    written     \* ghost: the pair whose writing was begun last

handlerVars == <<pc, param, args, alone, settled>>
vars == <<up, opts, file, mutex, handlerVars, written>>

Field  == {"instance", "group"}
String == [ptr : Name, len : Name]
Str(n) == [ptr |-> n, len |-> n]
Pair   == [Field -> String]
Lines  == [Field -> String \cup {Absent}]

NoLines == [f \in Field |-> Absent]

\* The two stores of an assignment, in the order of the code.
Stores ==
    {[at |-> "instancePtr", field |-> "instance", word |-> "ptr", next |-> "instanceLen"],
     [at |-> "instanceLen", field |-> "instance", word |-> "len", next |-> "groupPtr"],
     [at |-> "groupPtr",    field |-> "group",    word |-> "ptr", next |-> "groupLen"],
     [at |-> "groupLen",    field |-> "group",    word |-> "len", next |-> "readInstance"]}

Loads ==
    {[at |-> "readInstance", field |-> "instance", next |-> "readGroup"],
     [at |-> "readGroup",    field |-> "group",    next |-> "open"]}

PC == {"idle", "open", "write"} \cup {s.at : s \in Stores \cup Loads}

Idle == {h \in Request : pc[h] = "idle"}

\* Types: options and file hold whole strings, or nothing.
TypeOK ==
    /\ up \in BOOLEAN
    /\ opts \in Pair
    /\ file = Absent \/ file \in Lines
    /\ mutex \in Request \cup {None}
    /\ pc \in [Request -> PC]
    /\ param \in [Request -> [Field -> Name \cup {Absent}]]
    /\ args \in [Request -> Lines]
    /\ alone \in Request \cup {None}
    /\ settled \in BOOLEAN
    /\ written = Absent \/ written \in Pair

Goto(h, where) == pc' = [pc EXCEPT ![h] = where]

-----------------------------------------------------------------------------
(* updateApplication *)

Begin(h, p) ==
    /\ up /\ pc[h] = "idle"
    /\ param' = [param EXCEPT ![h] = p]
    /\ Goto(h, "instancePtr")
    /\ alone' = IF Idle = Request THEN h ELSE None
    /\ settled' = FALSE
    /\ UNCHANGED <<up, opts, file, mutex, args, written>>

\* Opts is assigned where the request has a parameter.
Assign(h) ==
    \E s \in Stores :
        /\ pc[h] = s.at
        /\ opts' = IF param[h][s.field] = Absent THEN opts
                   ELSE [opts EXCEPT ![s.field][s.word] = param[h][s.field]]
        /\ Goto(h, s.next)
        /\ UNCHANGED <<up, file, mutex, param, args, alone, settled, written>>

\* Mutant: the parameters of the request are recorded, or their default.
ReadRequest(h) ==
    \E s \in Loads :
        /\ pc[h] = s.at
        /\ args' = [args EXCEPT ![h][s.field] =
                      Str(IF param[h][s.field] = Absent THEN Default ELSE param[h][s.field])]
        /\ Goto(h, s.next)
        /\ UNCHANGED <<up, opts, file, mutex, param, alone, settled, written>>

\* Mutant: the parameter of the request is recorded as it is.
ReadParam(h) ==
    \E s \in Loads :
        /\ pc[h] = s.at
        /\ args' = [args EXCEPT ![h][s.field] = param[h][s.field]]
        /\ Goto(h, s.next)
        /\ UNCHANGED <<up, opts, file, mutex, param, alone, settled, written>>

\* What is recorded is read back from Opts.
ReadOpts(h) ==
    \E s \in Loads :
        /\ pc[h] = s.at
        /\ args' = [args EXCEPT ![h][s.field] = opts[s.field]]
        /\ Goto(h, s.next)
        /\ UNCHANGED <<up, opts, file, mutex, param, alone, settled, written>>

\* A handler replies and is done.
Reply(h, success) ==
    /\ Goto(h, "idle")
    /\ param' = [param EXCEPT ![h] = NoLines]
    /\ args' = [args EXCEPT ![h] = NoLines]
    /\ alone' = IF alone = h THEN None ELSE alone
    /\ settled' = (success /\ alone = h)

\* Mutant: the mutex is not taken.
OpenUnlocked(h) ==
    /\ pc[h] = "open"
    /\ Goto(h, "write")
    /\ file' = NoLines
    /\ written' = args[h]
    /\ UNCHANGED <<up, opts, mutex, param, args, alone, settled>>

\* RecordMapToFile opens the file and truncates it ...
Open(h) ==
    /\ pc[h] = "open"
    /\ mutex = None
    /\ \/ /\ mutex' = h
          /\ file' = NoLines
          /\ written' = args[h]
          /\ Goto(h, "write")
          /\ UNCHANGED <<param, args, alone, settled>>
       \/ Reply(h, FALSE) /\ UNCHANGED <<mutex, file, written>>
    /\ UNCHANGED <<up, opts>>

\* ... and writes a line per key, in the random order of a Go map.
Write(h) ==
    /\ pc[h] = "write"
    /\ \E f \in Field : /\ file[f] = Absent
                        /\ file' = [file EXCEPT ![f] = args[h][f]]
    /\ UNCHANGED <<up, opts, mutex, handlerVars, written>>

\* All lines are written, or a write failed.  A line that was cut short
\* counts as Absent.
Close(h) ==
    /\ pc[h] = "write"
    /\ mutex' = None
    /\ \/ (\A f \in Field : file[f] # Absent) /\ Reply(h, TRUE)
       \/ (\E f \in Field : file[f] = Absent) /\ Reply(h, FALSE)
    /\ UNCHANGED <<up, opts, file, written>>

-----------------------------------------------------------------------------
(* The process *)

Crash ==
    /\ up
    /\ up' = FALSE
    /\ mutex' = None
    /\ pc' = [h \in Request |-> "idle"]
    /\ alone' = None
    /\ param' = [h \in Request |-> NoLines]
    /\ args' = [h \in Request |-> NoLines]
    /\ settled' = FALSE
    /\ UNCHANGED <<opts, file, written>>

\* InitApplicationInfo: with a file and default flags the file is read, but
\* only into local variables; otherwise the flags are written, which may fail.
InitApplicationInfo(flags) ==
    IF file # Absent /\ \A f \in Field : flags[f] = Default
    THEN UNCHANGED <<file, written>>
    ELSE \/ UNCHANGED <<file, written>>
         \/ /\ written' = [f \in Field |-> Str(flags[f])]
            /\ \E fs \in SUBSET Field :
                  file' = [f \in Field |-> IF f \in fs THEN Str(flags[f]) ELSE Absent]

Start(flags) ==
    /\ ~up
    /\ up' = TRUE
    /\ opts' = [f \in Field |-> Str(flags[f])]
    /\ InitApplicationInfo(flags)
    /\ UNCHANGED <<mutex, handlerVars>>

Init ==
    /\ up = FALSE
    /\ opts = [f \in Field |-> Str(Default)]
    /\ file = Absent
    /\ mutex = None
    /\ pc = [h \in Request |-> "idle"]
    /\ param = [h \in Request |-> NoLines]
    /\ args = [h \in Request |-> NoLines]
    /\ alone = None
    /\ settled = FALSE
    /\ written = Absent

Next ==
    \/ \E h \in Request :
          \/ \E p \in [Field -> Name \cup {Absent}] : Begin(h, p)
          \/ Assign(h) \/ ReadOpts(h) \/ Open(h) \/ Write(h) \/ Close(h)
    \/ Crash
    \/ \E flags \in [Field -> Name] : Start(flags)

Spec == Init /\ [][Next]_vars

-----------------------------------------------------------------------------
(* Properties *)

\* After an update that met no other update and was answered with success,
\* the agent and its file say the same, whatever earlier overlapping updates,
\* failed writes and restarts had left in either (updateApplication.go:23-29).
LoneUpdateSettles == settled => file = opts

\* All that is in the file belongs to one write, the last one that was begun,
\* although every write truncates the file and fills it line by line, and may
\* break off or be cut off by a crash anywhere (auth.go:108-130).  The pair it
\* writes was read from Opts, and may itself mix two overlapping updates.
FileIsOneWrite ==
    file # Absent => \A f \in Field : file[f] # Absent => file[f] = written[f]
=============================================================================
