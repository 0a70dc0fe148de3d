--------------------------- MODULE ExperimentQuery ---------------------------
(***************************************************************************)
(* The status command: SearchExperiments and the SELECT with filter, order *)
(* and LIMIT that QueryExperimentModels builds, while experiments are      *)
(* inserted and change their status.  The table is the sequence of its     *)
(* rows in the order of their AUTOINCREMENT ids; nothing deletes a row     *)
(* (DeleteExperimentModelByUid has no caller).                             *)
(*                                                                         *)
(* A query may fail, and one that returns rows may break off before it has *)
(* returned the last: rows.Next is then false, rows.Err is not consulted,  *)
(* and what was read so far is answered as if it were all.  An answer is   *)
(* therefore one of a set: of failures, of a row, or of listings.          *)
(*                                                                         *)
(* Walkers are external: clients that fetch a listing page by page, each   *)
(* page a request of its own with limit "offset,count", which reaches      *)
(* SearchExperiments through Handle (module Dispatch).                     *)
(***************************************************************************)
EXTENDS Dispatch, SequencesExt

CONSTANTS
    Uid,
    Walker,     \* clients that page through a listing
    Count       \* size of their pages

ASSUME UidAssumption == "" \notin Uid
ASSUME CountAssumption == Count \in Nat \ {0}

VARIABLES
    rows,       \* the table, oldest row first
    walk        \* walker -> the listing it is fetching

vars == <<rows, walk>>

Status == {"Created", "Success", "Error", "Destroyed"}

\* What a request can ask for: "" is no filter, the first letter may be small.
StatusText == Status \cup {"", "created", "destroyed"}

RowSet == [uid : Uid, status : Status]

\* A client whose last page was not full is done.  Of those, the ones whose
\* last page broke off are "cut", which they cannot know.
Phase == {"idle", "fetching", "failed", "done", "cut"}

Walk == [phase  : Phase,
         status : StatusText,
         asc    : BOOLEAN,
         offset : Nat,
         seen   : Seq(Uid),     \* the uids of the pages, as received
         first  : SUBSET Uid]   \* ghost: what matched when it began

-----------------------------------------------------------------------------
(* The query *)

UpperFirst(text) ==
    CASE text = "created"   -> "Created"
      [] text = "destroyed" -> "Destroyed"
      [] OTHER              -> text

\* [and status = ?], unless no status is asked for.
Matches(status, row) == status = "" \/ row.status = UpperFirst(status)

\* where 1=1 [and status = ?]: the table is read row by row.
Where(status) ==
    LET found[n \in 0 .. Len(rows)] ==
            IF n = 0 THEN <<>>
            ELSE IF Matches(status, rows[n]) THEN Append(found[n - 1], rows[n])
            ELSE found[n - 1]
    IN  found[Len(rows)]

\* Mutant: the switch of the order is the wrong way round.
OrderByReversed(asc, list) == IF asc THEN Reverse(list) ELSE list

OrderBy(asc, list) == IF asc THEN list ELSE Reverse(list)

\* count entries of the list after the first `from`; all, if count is negative.
Window(from, count, list) ==
    IF count < 0 \/ from + count > Len(list)
    THEN SubSeq(list, from + 1, Len(list))
    ELSE SubSeq(list, from + 1, from + count)

\* Mutant: one entry too many is skipped.
LimitSkipsOne(offset, count, list) ==
    Window(IF offset < 0 THEN 0 ELSE offset + 1, count, list)

\* LIMIT offset, count: a negative offset is 0.
Limit(offset, count, list) ==
    Window(IF offset < 0 THEN 0 ELSE offset, count, list)

\* What the statement finds if it runs to its end.  The parts of the text
\* limit are those between its commas; the ones after the second are ignored.
\* LIMIT of a text that is no number breaks the statement off at its first row.
Found(status, limit, asc) ==
    LET offset == IF Len(limit) > 1 THEN limit[1] ELSE 0
        count  == IF Len(limit) > 1 THEN limit[2] ELSE limit[1]
        found  == OrderBy(asc, Where(status))
    IN  IF limit = <<>> THEN found
        ELSE IF NaN \in {offset, count} THEN <<>>
        ELSE Limit(offset, count, found)

\* The listings that may be returned without an error.
QueryExperimentModels(status, limit, asc) == Prefixes(Found(status, limit, asc))

\* The first row of experiment u, in a set; none if there is none.
QueryExperimentModelByUid(u) ==
    {rows[i] : i \in {i \in DOMAIN rows :
        rows[i].uid = u /\ \A j \in 1 .. i - 1 : rows[j].uid # u}}

\* The possible answers.  A lookup that breaks off finds nothing; a listing is
\* never nil: an empty one is a success, not "not found".
SearchExperiments(command) ==
    {Fail("GetStatusExecuteWrong")} \cup
    IF command.uid # ""
    THEN {Fail("HandlerNotFound")} \cup
         {[op |-> "row", row |-> row] : row \in QueryExperimentModelByUid(command.uid)}
    ELSE {[op |-> "listing", list |-> list] :
             list \in QueryExperimentModels(command.status, command.limit,
                                            command.asc \in {"", "true"})}

\* The client's request, as README.md writes it, and what may answer it.
StatusRequest(uid, status, limit, asc) ==
    [NoParams EXCEPT !.cmd = <<"status", "--type", "create">>, !.cmd2 = <<"status">>,
                     !.uid = uid, !.status = status, !.limit = limit, !.asc = asc]

Answers(uid, status, limit, asc) ==
    SearchExperiments(Handle(StatusRequest(uid, status, limit, asc)))

UidsOf(list) == [i \in DOMAIN list |-> list[i].uid]

-----------------------------------------------------------------------------
(* The table changes *)

Init ==
    /\ rows = <<>>
    /\ walk = [w \in Walker |->
                 [phase |-> "idle", status |-> "", asc |-> TRUE, offset |-> 0,
                  seen |-> <<>>, first |-> {}]]

\* Mutant: the status is recorded the way a client may spell it.
InsertSmallLetter(u) ==
    /\ u \notin Range(UidsOf(rows))
    /\ rows' = Append(rows, [uid |-> u, status |-> "created"])
    /\ UNCHANGED walk

\* A helper or execScript records experiment u.
Insert(u) ==
    /\ u \notin Range(UidsOf(rows))
    /\ rows' = Append(rows, [uid |-> u, status |-> "Created"])
    /\ UNCHANGED walk

\* A timer's or a script's outcome, or a destroy; a script that is destroyed
\* while it runs reports its outcome all the same.
Update(i, s) ==
    /\ s # "Created"
    /\ rows' = [rows EXCEPT ![i].status = s]
    /\ UNCHANGED walk

-----------------------------------------------------------------------------
(* Walking through a listing *)

Begin(w, status, asc) ==
    /\ walk[w].phase = "idle"
    /\ walk' = [walk EXCEPT ![w] =
                  [phase |-> "fetching", status |-> status, asc |-> asc,
                   offset |-> 0, seen |-> <<>>,
                   first |-> Range(UidsOf(Where(status)))]]
    /\ UNCHANGED rows

TextOf(asc) == IF asc THEN "true" ELSE "false"

\* The next page; a page that is not full is taken for the last one.
NextPage(w) ==
    LET old == walk[w]
        limit == <<old.offset, Count>>
        whole == Found(old.status, limit, old.asc)
    IN
    /\ old.phase = "fetching"
    /\ \E answer \in Answers("", old.status, limit, TextOf(old.asc)) :
          \/ /\ answer.op = "fail"
             /\ walk' = [walk EXCEPT ![w].phase = "failed"]
          \/ /\ answer.op = "listing"
             /\ walk' = [walk EXCEPT
                    ![w].offset = @ + Count,
                    ![w].seen = @ \o UidsOf(answer.list),
                    ![w].phase = IF Len(answer.list) < Len(whole) THEN "cut"
                                 ELSE IF Len(whole) < Count THEN "done" ELSE @]
    /\ UNCHANGED rows

Next ==
    \/ \E u \in Uid : Insert(u)
    \/ \E i \in DOMAIN rows, s \in Status : Update(i, s)
    \/ \E w \in Walker :
          \/ \E status \in StatusText, asc \in BOOLEAN : Begin(w, status, asc)
          \/ NextPage(w)

Spec == Init /\ [][Next]_vars

-----------------------------------------------------------------------------
(* Properties *)

\* Types: rows and listings hold what the columns can hold.
TypeOK ==
    /\ rows \in Seq(RowSet)
    /\ walk \in [Walker -> Walk]

\* The listing in ascending order, fetched page by page while experiments are
\* inserted and change their status, shows the oldest experiments in their
\* order, none left out and none twice, whichever page fails or breaks off; if
\* none does, every one that was there at the start (experiment.go:219-252).
AscendingWalkIsExact ==
    \A w \in Walker :
        walk[w].status = "" /\ walk[w].asc =>
            /\ Len(walk[w].seen) <= Len(rows)
            /\ \A k \in 1 .. Len(walk[w].seen) : walk[w].seen[k] = rows[k].uid
            /\ walk[w].phase = "done" => walk[w].first \subseteq Range(walk[w].seen)

\* In descending order new experiments push the old ones towards later pages:
\* some may be shown twice, but of those that were there at the start the ones
\* not shown are older than all that were, whichever page fails or breaks off;
\* if none does, none is missed (experiment.go:219-252).
DescendingWalkMissesNothing ==
    \A w \in Walker :
        walk[w].status = "" /\ ~walk[w].asc =>
            /\ \A i, j \in DOMAIN rows :
                  /\ rows[i].uid \in walk[w].first \ Range(walk[w].seen)
                  /\ rows[j].uid \in Range(walk[w].seen)
                  => i < j
            /\ walk[w].phase = "done" => walk[w].first \subseteq Range(walk[w].seen)

\* The rank of row i among the matching ones, in the asked order.
Rank(i, status, asc) ==
    Cardinality({j \in DOMAIN rows :
        /\ status = "" \/ rows[j].status = UpperFirst(status)
        /\ IF asc THEN j < i ELSE j > i})

\* Limits of no, one and two parts, with numbers around zero and texts that
\* are no numbers.
Limits ==
    LET part == {-1, 0, 1, 2, NaN} IN
    {<<>>} \cup {<<c>> : c \in part} \cup part \X part

\* The experiments that match the filter and whose rank in the asked order
\* lies in the window.
Ranked(status, asc, o, c) ==
    {rows[i].uid : i \in {i \in DOMAIN rows :
        /\ NaN \notin {o, c}
        /\ status = "" \/ rows[i].status = UpperFirst(status)
        /\ Rank(i, status, asc) >= o
        /\ c < 0 \/ Rank(i, status, asc) < (IF o < 0 THEN 0 ELSE o) + c}}

\* Reference: a listing shows as many of the ranks from the offset on as it has
\* entries, the answer to a query that ran to its end all of the window,
\* whatever the limit's text and the order's; with an uid the answer is a
\* failure or the row of that experiment, whatever else is asked for.  Only the
\* rows matter, so the tables before any walk are all there are to look at.
QueryMeetsReference ==
    (\A w \in Walker : walk[w].phase = "idle") =>
    \A status \in StatusText, limit \in Limits, asc \in BOOLEAN :
    \A text \in IF asc THEN {"", "true"} ELSE {"false"} :
        LET o == IF Len(limit) = 2 THEN limit[1] ELSE 0
            c == IF limit = <<>> THEN 10 ELSE limit[Len(limit)]
            answers == Answers("", status, limit, text)
        IN  /\ \A answer \in answers : answer.op = "listing" =>
                  Range(UidsOf(answer.list)) =
                      Ranked(status, asc, o, Len(answer.list))
            /\ \E answer \in answers : answer.op = "listing" /\
                  Range(UidsOf(answer.list)) = Ranked(status, asc, o, c)
            /\ \A u \in Uid : \A answer \in Answers(u, status, limit, text) :
                  \/ answer.op = "fail"
                  \/ answer.op = "row" /\ answer.row \in Range(rows) /\ answer.row.uid = u

\* Parameters a request may carry, wanted or not: numbers around the bounds
\* of a percentage, of the cpus and of an int, and texts that are none.
Numbers == {-MaxInt - 2, -1, 0, 1, NumCPU, NumCPU + 1, 100, 101, MaxInt + 1, 2 * MaxInt + 2,
            Blank, Span, NaN}

Noisy(n, p, t, url) ==
    [NoParams EXCEPT !.cpuCount = n, !.cpuPercent = p, !.memPercent = p, !.timeOut = t,
                     !.timeout = t, !.downloadUrl = url, !.uid = "v", !.status = "created",
                     !.asc = "false"]

Noise == {Noisy(n, p, t, url) :
            n \in Numbers, p \in Numbers, t \in Numbers, url \in {Blank, "url"}}

\* Words of a command that README.md or a client may send.
Commands ==
    {<<"create", "cpu", "fullload">>, <<"create", "mem", "load">>, <<"destroy", "u">>,
     <<"destroy">>, <<"status", "--type", "create">>, <<>>,
     <<"create", "script", "destroy.bat">>, <<"status", "--status", "destroyed">>}

Types == {<<>>, <<"cpu">>, <<"mem">>, <<"cpu", "fullload">>, <<"mem", "load">>,
          <<"mem", "fullload">>, <<"script", "execute">>, <<"script", "Exit">>,
          <<"status">>, <<"IO">>, <<"destroy">>}

\* Reference: what a request does depends on its own parameters only.  One with
\* the text "destroy" anywhere in its command, or as its type, is a destroy of
\* its command's second word, also where the word is not meant for an uid:
\* "create script destroy.bat" destroys "script" (chaosblade.go:53, 131-132).
\* Every other does what its type says, in the forms of README.md:29-176: a
\* load has a share from 1 to 100, cpus the machine has and a timeout, and the
\* client's where they are such numbers; a status asks for the client's uid,
\* status and order.  A panic leaves a request unanswered only if the uid of a
\* destroy or the kind of a mem load is missing; an uninstall is answered like
\* a ping only when its script has done its work.
RequestsAreServed ==
    rows = <<>> /\ (\A w \in Walker : walk[w].phase = "idle") =>
    \A noise \in Noise, cmd \in Commands, type \in Types :
        LET r == [noise EXCEPT !.cmd = cmd, !.cmd2 = type]
            o == Serve("chaosblade", r, "missing")
            Asked(text, default) == IF text \in Int \ {0} THEN text ELSE default
            destroys == \/ \E i \in DOMAIN cmd : cmd[i] \in Destroying
                        \/ cmd # <<>> /\ type = <<"destroy">>
            Does(form) == cmd # <<>> /\ ~destroys /\ type = form
        IN
        /\ o.op = "destroy" <=> destroys /\ Len(cmd) >= 2
        /\ o.op = "destroy" => o.uid = cmd[2]
        /\ o.op = "panic" <=> (destroys /\ Len(cmd) < 2) \/ Does(<<"mem">>)
        /\ o.op = "cpu" <=>
              Does(<<"cpu", "fullload">>) /\ Asked(r.cpuPercent, 100) \in 1 .. 100
        /\ o.op = "cpu" =>
              /\ o.percent = Asked(r.cpuPercent, 100)
              /\ Asked(r.timeOut, 60) \in -MaxInt .. MaxInt => o.timeout = Asked(r.timeOut, 60)
              /\ o.count \in 1 .. NumCPU
              /\ r.cpuCount \in 1 .. NumCPU => o.count = r.cpuCount
        /\ o.op = "mem" =>
              Does(<<"mem", "load">>) /\ o.percent \in 1 .. 100 /\ o.timeout # 0
        /\ o.op = "script" => Does(<<"script", "execute">>) /\ r.downloadUrl # Blank
        /\ o.op = "status" <=> Does(<<"status">>)
        /\ o.op = "status" => o.uid = r.uid /\ o.status = r.status /\ o.asc = r.asc
        /\ \A ctl \in {"missing", "fails", "exits"} :
              Serve("uninstall", r, ctl) = PingHandle <=> ctl = "exits"
=============================================================================
