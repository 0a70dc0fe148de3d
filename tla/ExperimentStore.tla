--------------------------- MODULE ExperimentStore ---------------------------
(***************************************************************************)
(* The SQLite table `experiment` of chaosblade.dat, as data.Source offers  *)
(* it to the agent process and to the os.exe helper processes, which all   *)
(* open the same file.  One SQL statement is one atomic step: SQLite locks *)
(* the file, no caller opens a transaction of several statements.          *)
(*                                                                         *)
(* Of a row the model keeps what some caller reads back: the status, the   *)
(* command type, and the handle by which destroy finds the experiment: the *)
(* pid in the JSON of column flag (cpu, mem) or the directory in column    *)
(* sub_command (script).                                                   *)
(***************************************************************************)
CONSTANTS
    Uid,        \* experiment uids (8 random bytes in hex)
    Handle,     \* pids and script directories a row can name
    NoRow,      \* "no row has this uid"
    ReadErrors, \* may a query break off while its rows are fetched?
    Collide     \* may two requests in flight draw the same uid?

VARIABLE table  \* uid -> row, or NoRow

Status  == {"Created", "Success", "Error", "Destroyed"}
CmdType == {"cpu", "mem", "script"}
Row     == [status : Status, cmdType : CmdType, handle : Handle]

ASSUME NoRowAssumption == NoRow \notin Row
ASSUME ReadErrorsAssumption == ReadErrors \in BOOLEAN
ASSUME CollideAssumption == Collide \in BOOLEAN

TableType == table \in [Uid -> Row \cup {NoRow}]

\* InitExperimentTable creates an empty table.
TableInit == table = [u \in Uid |-> NoRow]

Stored(u) == table[u] # NoRow

\* The models a query for uid u may return; NoRow stands for the nil result.
\* A query that breaks off at rows.Next() (busy or corrupt file) returns nil
\* without an error, as if the row were absent: rows.Err() is not consulted.
QueryExperimentModelByUid(u) ==
    {table[u]} \cup (IF ReadErrors THEN {NoRow} ELSE {})

\* Mutant: INSERT OR REPLACE, a row of the same uid is overwritten.
InsertOrReplace(u, row) == table' = [table EXCEPT ![u] = row]

\* INSERT succeeds only if the UNIQUE constraint on uid admits the row.
InsertExperimentModel(u, row) ==
    /\ ~Stored(u)
    /\ table' = [table EXCEPT ![u] = row]

\* Mutant: a row that is updated always becomes Running.
UpdateToRunning(u, s) ==
    table' = IF Stored(u) THEN [table EXCEPT ![u].status = "Running"] ELSE table

\* UPDATE ... WHERE uid = ?: matching no row is not an error.
UpdateExperimentModelByUid(u, s) ==
    table' = IF Stored(u) THEN [table EXCEPT ![u].status = s] ELSE table

\* A write that returns an error (busy, full or corrupt file, constraint):
\* every caller passes the error to checkError, which only logs it.
WriteFails == UNCHANGED table

HasStatus(u, s) == Stored(u) /\ table[u].status = s

\* The draw of the external generator, random bytes seeded with the clock.
\* A stored uid may come up again; one that another request has drawn and
\* not stored yet comes up only if Collide.
Drawn(u, drawn) == Collide \/ u \notin drawn \/ Stored(u)

\* Mutant: the drawn uid is not looked up.
GenerateUidUnchecked(u, drawn) == Drawn(u, drawn)

\* generateUid draws until the query finds no row.
GenerateUid(u, drawn) ==
    /\ Drawn(u, drawn)
    /\ NoRow \in QueryExperimentModelByUid(u)
=============================================================================
