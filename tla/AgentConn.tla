------------------------------ MODULE AgentConn ------------------------------
(***************************************************************************)
(* The agent's side of its connection to the chaos server.  conn.Start     *)
(* runs two goroutines: one registers the agent once and stores the cid    *)
(* and the key pair of the answer, the other one sends a heartbeat per     *)
(* tick, signed with the pair.  They share the globals Opts.Cid,           *)
(* localAccessKey and localSecureKey, which the registration writes        *)
(* without the lock under which the heartbeat reads the keys.              *)
(*                                                                         *)
(* A Go string is two words.  While one is being assigned it is Torn: a    *)
(* reader finds "" or a string that makes it panic.  Stores of one         *)
(* goroutine become visible in program order (the agent is built for       *)
(* amd64).  The server is external: it may answer anything or nothing.     *)
(***************************************************************************)
EXTENDS Sequences, SequencesExt, Integers

CONSTANTS
    Pair,           \* key pairs the server issues; ak and sk of a pair are
                    \* both written as the pair
    Empty, Torn,    \* the string "", and one that is half assigned
    Cap             \* capacity of HBSnapshotList

ASSUME CapAssumption == Cap \in Nat \ {0}
ASSUME PairAssumption == {Empty, Torn} \cap Pair = {} /\ Empty # Torn

VARIABLES
    up,         \* is the agent process running?
    reg,        \* the registration goroutine: see RegPC
    granted,    \* the pair in the answer it is working on
    grantedCid, \* the cid in that answer: "none" (it is "") or "set"
    cid,        \* Opts.Cid: "none", "torn" or "set"
    ak, sk,     \* localAccessKey, localSecureKey
    cert,       \* the pair in .chaos.cert, Empty if there is none
    hb,         \* the heartbeat goroutine: see HbPC
    request,    \* the heartbeat it is working on
    received,   \* external: the heartbeats that reached the server
    snapshots   \* HBSnapshotList, the successes among the last heartbeats

keyVars == <<cid, ak, sk, cert>>
hbVars  == <<hb, request, received, snapshots>>
vars == <<up, reg, granted, grantedCid, keyVars, hbVars>>

\* "begin" -> "sent" -> "answered" -> "cid" -> "recorded" -> "ak" -> "akDone"
\* -> "sk" -> "registered"; "failed" is the goroutine blocked in errCh <- err.
RegPC == {"begin", "sent", "answered", "cid", "recorded", "ak", "akDone",
          "sk", "registered", "failed"}

HbPC == {"waiting", "built", "akRead", "skRead", "sent", "lost", "ended"}

Key == Pair \cup {Empty}

Beat == [cid : BOOLEAN, ak : Key, sk : Key]

NoBeat == [cid |-> FALSE, ak |-> Empty, sk |-> Empty]

\* Types, and the list of outcomes never outgrows its capacity.
TypeOK ==
    /\ up \in BOOLEAN
    /\ reg \in RegPC
    /\ granted \in Key
    /\ grantedCid \in {"none", "set"}
    /\ cid \in {"none", "torn", "set"}
    /\ ak \in Key \cup {Torn}
    /\ sk \in Key \cup {Torn}
    /\ cert \in Key
    /\ hb \in HbPC
    /\ request \in Beat
    /\ received \in SUBSET Beat
    /\ snapshots \in Seq(BOOLEAN) /\ Len(snapshots) <= Cap

\* A process that has just started has nothing but its files.
Fresh ==
    /\ reg' = "begin"
    /\ granted' = Empty
    /\ grantedCid' = "none"
    /\ cid' = "none"
    /\ ak' = Empty /\ sk' = Empty
    /\ hb' = "waiting"
    /\ request' = NoBeat
    /\ snapshots' = <<>>

Init ==
    /\ up = TRUE
    /\ reg = "begin"
    /\ granted = Empty
    /\ grantedCid = "none"
    /\ cid = "none"
    /\ ak = Empty /\ sk = Empty /\ cert = Empty
    /\ hb = "waiting"
    /\ request = NoBeat
    /\ received = {}
    /\ snapshots = <<>>

-----------------------------------------------------------------------------
(* Registration *)

Connect ==
    /\ up /\ reg = "begin"
    /\ reg' = "sent"
    /\ UNCHANGED <<up, granted, grantedCid, keyVars, hbVars>>

\* No connection, a status other than 200, a body that is not a response,
\* Success = false, or a Result that is not an object.
ConnectRefused ==
    /\ up /\ reg = "sent"
    /\ reg' = "failed"
    /\ UNCHANGED <<up, granted, grantedCid, keyVars, hbVars>>

\* An object without a cid, or a field that is not a string: the type
\* assertion panics, and in this goroutine nothing recovers.
ConnectPanics ==
    /\ up /\ reg \in {"sent", "cid"}
    /\ up' = FALSE
    /\ UNCHANGED <<reg, granted, grantedCid, keyVars, hbVars>>

\* The answer grants pair p, or lacks a key (Empty); its cid may be "".
ConnectAnswered(p) ==
    /\ up /\ reg = "sent"
    /\ reg' = "answered"
    /\ granted' = p
    /\ grantedCid' \in {"none", "set"}
    /\ UNCHANGED <<up, keyVars, hbVars>>

\* Mutant: the cid of the answer is not kept.
SetCidLost ==
    /\ up /\ reg = "answered"
    /\ reg' = "cid"
    /\ UNCHANGED <<up, granted, grantedCid, keyVars, hbVars>>

\* SetCid, which comes before the keys are looked at.  Storing "" where there
\* was no cid changes nothing.
SetCid ==
    /\ up /\ reg = "answered"
    /\ \/ grantedCid = "none" /\ reg' = "cid" /\ UNCHANGED cid
       \/ grantedCid = "set" /\ cid = "none" /\ cid' = "torn" /\ UNCHANGED reg
       \/ grantedCid = "set" /\ cid = "torn" /\ cid' = "set" /\ reg' = "cid"
    /\ UNCHANGED <<up, granted, grantedCid, ak, sk, cert, hbVars>>

\* Mutant: the error of the file is ignored.
RecordDespiteError ==
    /\ up /\ reg = "cid"
    /\ \/ granted # Empty /\ cert' \in {granted, Empty} /\ reg' = "recorded"
       \/ reg' = "failed" /\ cert' \in {cert, Empty}
    /\ UNCHANGED <<up, granted, grantedCid, cid, ak, sk, hbVars>>

\* RecordSecretKeyToFile writes the file first; it fails on an empty key or
\* a file that cannot be written, which may already be truncated.
RecordSecretKeyToFile ==
    /\ up /\ reg = "cid"
    /\ \/ granted # Empty /\ cert' = granted /\ reg' = "recorded"
       \/ reg' = "failed" /\ cert' \in {cert, Empty}
    /\ UNCHANGED <<up, granted, grantedCid, cid, ak, sk, hbVars>>

\* Mutant: the secret key is assigned to a variable of the function.
AssignAccessKeyOnly ==
    /\ up
    /\ \/ reg = "recorded" /\ reg' = "ak" /\ ak' = Torn
       \/ reg = "ak" /\ reg' = "registered" /\ ak' = granted
    /\ UNCHANGED <<up, granted, grantedCid, cid, sk, cert, hbVars>>

\* ... and then assigns the two keys one after the other, without the lock.
AssignKeys ==
    /\ up
    /\ \/ reg = "recorded" /\ reg' = "ak" /\ ak' = Torn /\ UNCHANGED sk
       \/ reg = "ak" /\ reg' = "akDone" /\ ak' = granted /\ UNCHANGED sk
       \/ reg = "akDone" /\ reg' = "sk" /\ sk' = Torn /\ UNCHANGED ak
       \/ reg = "sk" /\ reg' = "registered" /\ sk' = granted /\ UNCHANGED ak
    /\ UNCHANGED <<up, granted, grantedCid, cid, cert, hbVars>>

-----------------------------------------------------------------------------
(* Heartbeats *)

\* The values a reader of a string finds; a torn one may also make it panic.
Reads(s) == IF s = Torn THEN Empty ELSE s

\* Mutant: the oldest entry goes one too late.
PutOneMore(list, v) ==
    LET longer == Append(list, v) IN
    IF Len(list) > Cap THEN Tail(longer) ELSE longer

Put(list, v) ==
    LET longer == Append(list, v) IN
    IF Len(longer) > Cap THEN Tail(longer) ELSE longer

RecordOutcome(success) ==
    /\ snapshots' = Put(snapshots, success)
    /\ request' = NoBeat
    /\ hb' = "waiting"

\* A tick: the headers of the request are taken from Opts as it is now.
NewRequest ==
    /\ up /\ hb = "waiting"
    /\ request' = [NoBeat EXCEPT !.cid = (cid = "set")]
    /\ hb' = "built"
    /\ UNCHANGED <<up, reg, granted, grantedCid, keyVars, received, snapshots>>

\* A torn string is used: the panic ends the goroutine, PanicPrintStack
\* catches it, and there are no more heartbeats.
HeartbeatPanics ==
    /\ up
    /\ \/ hb = "waiting" /\ cid = "torn"
       \/ hb = "built" /\ ak = Torn
       \/ hb = "akRead" /\ sk = Torn
    /\ hb' = "ended"
    /\ UNCHANGED <<up, reg, granted, grantedCid, keyVars, request, received,
                   snapshots>>

\* doInvoker of the auth interceptor: GetAccessKey ...
GetAccessKey ==
    /\ up /\ hb = "built"
    /\ request' = [request EXCEPT !.ak = Reads(ak)]
    /\ hb' = "akRead"
    /\ UNCHANGED <<up, reg, granted, grantedCid, keyVars, received, snapshots>>

\* Mutant: only the access key is checked.
GetSecureKeyUnchecked ==
    /\ up /\ hb = "akRead"
    /\ IF request.ak = Empty
       THEN RecordOutcome(FALSE)
       ELSE hb' = "skRead" /\ UNCHANGED <<request, snapshots>>
    /\ UNCHANGED <<up, reg, granted, grantedCid, keyVars, received>>

\* ... then GetSecureKey; without both keys nothing is sent.
GetSecureKey ==
    /\ up /\ hb = "akRead"
    /\ IF request.ak = Empty \/ Reads(sk) = Empty
       THEN RecordOutcome(FALSE)
       ELSE hb' = "skRead" /\ UNCHANGED <<request, snapshots>>
    /\ UNCHANGED <<up, reg, granted, grantedCid, keyVars, received>>

\* The signature stands for the secret key in it.
Sign == Reads(sk)

\* Sign reads localSecureKey again, and the request goes out; it may get
\* lost on its way.
SignAndSend ==
    /\ up /\ hb = "skRead"
    /\ request' = [request EXCEPT !.sk = Sign]
    /\ \/ hb' = "sent" /\ received' = received \cup {request'}
       \/ hb' = "lost" /\ UNCHANGED received
    /\ UNCHANGED <<up, reg, granted, grantedCid, keyVars, snapshots>>

\* The answer or the error of the POST.  Only connecting has a timeout: an
\* answer may never come.
HeartbeatAnswered(success) ==
    /\ up /\ hb \in {"sent", "lost"}
    /\ success => hb = "sent"
    /\ RecordOutcome(success)
    /\ UNCHANGED <<up, reg, granted, grantedCid, keyVars, received>>

-----------------------------------------------------------------------------
(* The process *)

\* Killed, or down with its machine.
Crash ==
    /\ up
    /\ up' = FALSE
    /\ UNCHANGED <<reg, granted, grantedCid, keyVars, hbVars>>

\* Started again by hand.  The file is not read back.
Restart ==
    /\ ~up
    /\ up' = TRUE
    /\ Fresh
    /\ UNCHANGED <<cert, received>>

RegistrationStep == Connect \/ SetCid \/ RecordSecretKeyToFile \/ AssignKeys

HeartbeatStep == GetAccessKey \/ GetSecureKey \/ SignAndSend

Next ==
    \/ RegistrationStep
    \/ ConnectRefused \/ ConnectPanics
    \/ \E p \in Key : ConnectAnswered(p)
    \/ NewRequest \/ HeartbeatStep \/ HeartbeatPanics
    \/ \E success \in BOOLEAN : HeartbeatAnswered(success)
    \/ Crash \/ Restart

Spec == Init /\ [][Next]_vars

\* Both goroutines run while the process does; the ticker keeps ticking.
\* The server, the network and whoever restarts the agent owe nothing.
Fairness ==
    /\ WF_vars(RegistrationStep)
    /\ WF_vars(NewRequest)
    /\ WF_vars(HeartbeatStep)

FairSpec == Spec /\ Fairness

-----------------------------------------------------------------------------
(* Properties *)

\* Every heartbeat that reaches the server is signed with the secret key
\* that was issued with the access key it names, although the heartbeat
\* reads the two variables in three steps while the registration assigns
\* them without the lock (auth.go:90, interceptor.go:91-105).
SignedWithOnePair == \A b \in received : b.ak \in Pair /\ b.sk = b.ak

\* A key that a heartbeat can read is on disk: RecordSecretKeyToFile writes
\* .chaos.cert before it assigns the keys, and gives up if it cannot.
KeysInUseAreOnDisk == up /\ ak \in Pair => cert = ak

\* What the monitor list reports as a success was sent by this process after
\* its own registration had stored both keys: with one key or the key of an
\* earlier process, nothing is sent (heartbeat.go:57, interceptor.go:93).
SuccessNeedsRegistration ==
    \A i \in DOMAIN snapshots : snapshots[i] => reg = "registered"

\* A heartbeat begun when there is an access key carries a cid exactly if the
\* answer that granted the key has one: the cid is stored before the keys
\* (connect.go:102, request.go:37), and a server that sends "" gets signed
\* heartbeats without it for as long as the agent runs.  A heartbeat begun
\* before there was a key may be signed and go out without the cid.
NewBeatsCarryCid ==
    [][hb = "waiting" /\ hb' = "built" /\ ak \in Pair =>
          (request'.cid <=> grantedCid = "set")]_vars

\* A registered agent gets a heartbeat on its way, unless the heartbeat
\* goroutine has died of a torn string or the process goes down.
RegisteredSends ==
    reg = "registered" ~> (hb \in {"sent", "lost", "ended"} \/ ~up)

\* Violated: conn.go:48-53 exits the agent when its registration failed.  The
\* error is sent on a channel that was never made (conn.go:36), so the agent
\* stays up, unregistered, and each of its heartbeats fails.
RegistrationFailureExits == reg = "failed" ~> ~up
=============================================================================
