---------------------------- MODULE AppInfoProofs ----------------------------
(* What AppInfo guarantees about the application and its file, for any set  *)
(* of handlers and names.                                                   *)
EXTENDS AppInfo, TLAPS

\* Who writes the file holds the mutex, and nobody does when the agent is down.
MutexIsHeld ==
    /\ \A h \in Request : pc[h] = "write" <=> mutex = h
    /\ ~up => mutex = None /\ Idle = Request

\* The file has lines of the last write that was begun and of no other; it is
\* the one of the handler that holds the mutex, which writes what it has read.
FileFollows ==
    /\ FileIsOneWrite
    /\ mutex # None =>
          /\ file \in Lines
          /\ written = args[mutex]
          /\ \A f \in Field : file[f] \in {Absent, written[f]}
    /\ \A h \in Request : pc[h] \in {"open", "write"} => args[h] \in Pair
    /\ \A h \in Request : pc[h] = "readGroup" => args[h]["instance"] \in String

\* A handler that has met no other one has read what the options still are.
AloneFollows ==
    alone # None =>
        /\ \A h \in Request \ {alone} : pc[h] = "idle"
        /\ pc[alone] = "readGroup" => args[alone]["instance"] = opts["instance"]
        /\ pc[alone] \in {"open", "write"} => args[alone] = opts

SettledFollows == settled => file = opts /\ Idle = Request /\ up

AInv == TypeOK /\ MutexIsHeld /\ FileFollows /\ AloneFollows /\ SettledFollows

-----------------------------------------------------------------------------

\* The stores of an assignment come before the handler reads the options.
LEMMA StoresAre ==
    ASSUME NEW s \in Stores
    PROVE  /\ s.field \in Field /\ s.word \in {"ptr", "len"}
           /\ s.at \in PC \ {"idle", "write", "open", "readGroup"}
           /\ s.next \in PC \ {"idle", "write", "open", "readGroup"}
  <1>1. /\ s.field \in Field /\ s.word \in {"ptr", "len"}
        /\ s.at \in {"instancePtr", "instanceLen", "groupPtr", "groupLen"}
        /\ s.next \in {"instanceLen", "groupPtr", "groupLen", "readInstance"}
    BY DEF Stores, Field
  <1>2. {"instancePtr", "instanceLen", "groupPtr", "groupLen", "readInstance"} \subseteq PC
    BY DEF PC, Stores, Loads
  <1> QED
    BY <1>1, <1>2

\* The options are read one after the other, then the file is opened.
LEMMA LoadsAre ==
    ASSUME NEW s \in Loads
    PROVE  \/ s.at = "readInstance" /\ s.field = "instance" /\ s.next = "readGroup"
           \/ s.at = "readGroup" /\ s.field = "group" /\ s.next = "open"
  BY DEF Loads

\* Where a handler may be, as far as the steps below name it.
LEMMA PCHas == {"idle", "write", "open", "instancePtr", "readInstance", "readGroup"} \subseteq PC
  BY DEF PC, Stores, Loads

\* The first start finds no file and no handler.
LEMMA InitEstablishes == Init => AInv
  <1> SUFFICES ASSUME Init PROVE AInv
    OBVIOUS
  <1>1. TypeOK
    BY DefaultAssumption, PCHas DEF Init, TypeOK, Pair, String, Str, Lines, NoLines
  <1>2. MutexIsHeld
    BY NoneAssumption DEF Init, MutexIsHeld, Idle
  <1> QED
    BY <1>1, <1>2 DEF Init, AInv, FileFollows, FileIsOneWrite, AloneFollows, SettledFollows

\* A new request: the handlers at work are not alone any more.
LEMMA BeginKeeps ==
    ASSUME AInv, NEW h \in Request, NEW p \in [Field -> Name \cup {Absent}], Begin(h, p)
    PROVE  AInv'
  <1> USE DEF AInv
  <1>1. pc' = [pc EXCEPT ![h] = "instancePtr"] /\ pc \in [Request -> PC] /\ pc[h] = "idle"
    BY DEF Begin, Goto, TypeOK
  <1>2. TypeOK'
    BY <1>1, PCHas DEF Begin, TypeOK
  <1>3. MutexIsHeld' /\ FileFollows'
    BY <1>1 DEF Begin, MutexIsHeld, FileFollows, FileIsOneWrite, Idle, TypeOK
  <1>4. AloneFollows'
    BY <1>1, NoneAssumption DEF Begin, AloneFollows, Idle
  <1>5. SettledFollows'
    BY DEF Begin, SettledFollows
  <1> QED
    BY <1>2, <1>3, <1>4, <1>5

\* A store into the options: whoever is alone does it, or nobody is.
LEMMA AssignKeeps ==
    ASSUME AInv, NEW h \in Request, Assign(h)
    PROVE  AInv'
  <1> USE DEF AInv
  <1>1. PICK s \in Stores :
           /\ pc[h] = s.at /\ pc' = [pc EXCEPT ![h] = s.next]
           /\ opts' = IF param[h][s.field] = Absent THEN opts
                      ELSE [opts EXCEPT ![s.field][s.word] = param[h][s.field]]
           /\ UNCHANGED <<up, file, mutex, param, args, alone, settled, written>>
    BY DEF Assign, Goto
  <1>2. /\ s.field \in Field /\ s.word \in {"ptr", "len"}
        /\ s.at \in PC \ {"idle", "write", "open", "readGroup"}
        /\ s.next \in PC \ {"idle", "write", "open", "readGroup"}
    BY StoresAre
  <1>3. pc \in [Request -> PC] /\ pc' \in [Request -> PC]
    BY <1>1, <1>2 DEF TypeOK
  <1>4. opts' \in Pair
    <2>1. param[h][s.field] = Absent \/ param[h][s.field] \in Name
      BY <1>2 DEF TypeOK
    <2>2. opts[s.field] \in String
      BY <1>2 DEF TypeOK, Pair
    <2>3. ASSUME NEW n \in Name PROVE [opts EXCEPT ![s.field][s.word] = n] \in Pair
      <3>1. [opts[s.field] EXCEPT ![s.word] = n] \in String
        BY <1>2, <2>2 DEF String
      <3> QED
        BY <1>2, <3>1 DEF TypeOK, Pair
    <2> QED
      BY <1>1, <2>1, <2>3 DEF TypeOK
  <1>5. TypeOK'
    BY <1>1, <1>3, <1>4 DEF TypeOK
  <1>6. MutexIsHeld' /\ FileFollows'
    BY <1>1, <1>2, <1>3 DEF MutexIsHeld, FileFollows, FileIsOneWrite, Idle
  <1>7. AloneFollows'
    BY <1>1, <1>2, <1>3 DEF AloneFollows
  <1>8. SettledFollows'
    BY <1>1, <1>2 DEF SettledFollows, Idle
  <1> QED
    BY <1>5, <1>6, <1>7, <1>8

\* A handler reads an option: one that is alone reads what will be there
\* when it writes.
LEMMA ReadOptsKeeps ==
    ASSUME AInv, NEW h \in Request, ReadOpts(h)
    PROVE  AInv'
  <1> USE DEF AInv
  <1>1. PICK s \in Loads :
           /\ pc[h] = s.at /\ pc' = [pc EXCEPT ![h] = s.next]
           /\ args' = [args EXCEPT ![h][s.field] = opts[s.field]]
           /\ UNCHANGED <<up, opts, file, mutex, param, alone, settled, written>>
    BY DEF ReadOpts, Goto
  <1>2. \/ s.at = "readInstance" /\ s.field = "instance" /\ s.next = "readGroup"
        \/ s.at = "readGroup" /\ s.field = "group" /\ s.next = "open"
    BY LoadsAre
  <1>3. /\ pc \in [Request -> PC] /\ pc' \in [Request -> PC]
        /\ args \in [Request -> Lines] /\ opts \in Pair
    BY <1>1, <1>2, PCHas DEF TypeOK
  <1>4. /\ args'[h] = [args[h] EXCEPT ![s.field] = opts[s.field]]
        /\ args'[h] \in Lines
        /\ args' \in [Request -> Lines]
        /\ \A x \in Request \ {h} : args'[x] = args[x]
    <2>1. s.field \in Field
      BY <1>2 DEF Field
    <2>2. [args[h] EXCEPT ![s.field] = opts[s.field]] \in Lines
      BY <1>3, <2>1 DEF Lines, Pair
    <2> QED
      BY <1>1, <1>3, <2>2
  <1>5. TypeOK'
    BY <1>1, <1>3, <1>4 DEF TypeOK
  <1>6. MutexIsHeld'
    BY <1>1, <1>2, <1>3 DEF MutexIsHeld, Idle
  <1>7. FileFollows'
    <2>1. mutex # h
      BY <1>1, <1>2 DEF MutexIsHeld
    <2>2. FileIsOneWrite' /\ (mutex' # None =>
             /\ file' \in Lines /\ written' = args'[mutex']
             /\ \A f \in Field : file'[f] \in {Absent, written'[f]})
      BY <1>1, <1>4, <2>1 DEF FileFollows, FileIsOneWrite, TypeOK
    <2>3. s.at = "readInstance" => args'[h]["instance"] \in String
      BY <1>2, <1>3, <1>4 DEF Lines, Pair, Field
    <2>4. s.at = "readGroup" => args'[h] \in Pair
      <3> SUFFICES ASSUME s.at = "readGroup" PROVE args'[h] \in Pair
        OBVIOUS
      <3>1. args[h]["instance"] \in String /\ opts["group"] \in String /\ s.field = "group"
        BY <1>1, <1>2, <1>3 DEF FileFollows, Pair, Field
      <3>2. \A f \in Field : args'[h][f] \in String
        BY <1>3, <1>4, <3>1 DEF Lines, Field
      <3> QED
        BY <1>4, <3>2 DEF Lines, Pair
    <2>5. pc'[h] = s.next /\ \A x \in Request \ {h} : pc'[x] = pc[x] /\ args'[x] = args[x]
      BY <1>1, <1>3, <1>4
    <2> QED
      BY <1>2, <2>2, <2>3, <2>4, <2>5 DEF FileFollows
  <1>8. AloneFollows'
    <2> SUFFICES ASSUME alone # None PROVE AloneFollows'
      BY <1>1 DEF AloneFollows
    <2>1. alone = h
      BY <1>1, <1>2 DEF AloneFollows
    <2>2. \A x \in Request \ {h} : pc'[x] = "idle"
      BY <1>1, <1>3, <2>1 DEF AloneFollows
    <2>3. CASE s.at = "readInstance"
      <3>1. pc'[h] = "readGroup" /\ args'[h]["instance"] = opts["instance"]
        BY <1>1, <1>2, <1>3, <1>4, <2>3 DEF Lines, Field
      <3> QED
        BY <1>1, <2>1, <2>2, <3>1 DEF AloneFollows
    <2>4. CASE s.at = "readGroup"
      <3>1. pc'[h] = "open" /\ args[h]["instance"] = opts["instance"]
        BY <1>1, <1>2, <1>3, <2>1, <2>4 DEF AloneFollows
      <3>2. args'[h]["instance"] = opts["instance"] /\ args'[h]["group"] = opts["group"]
        BY <1>2, <1>3, <1>4, <2>4, <3>1 DEF Lines, Field
      <3>3. args'[h] = opts
        BY <1>3, <1>4, <3>2 DEF Lines, Pair, Field
      <3> QED
        BY <1>1, <2>1, <2>2, <3>1, <3>3 DEF AloneFollows
    <2> QED
      BY <1>2, <2>3, <2>4
  <1>9. SettledFollows'
    BY <1>1, <1>2 DEF SettledFollows, Idle
  <1> QED
    BY <1>5, <1>6, <1>7, <1>8, <1>9

\* What a reply does to the handlers, whoever holds the mutex.
LEMMA ReplyKeeps ==
    ASSUME AInv, NEW h \in Request, NEW success \in BOOLEAN, Reply(h, success)
    PROVE  /\ pc' = [pc EXCEPT ![h] = "idle"] /\ pc' \in [Request -> PC]
           /\ param' \in [Request -> [Field -> Name \cup {Absent}]]
           /\ args' \in [Request -> Lines]
           /\ \A x \in Request \ {h} : args'[x] = args[x]
           /\ alone' \in Request \cup {None} /\ settled' \in BOOLEAN
           /\ alone' # None => alone' = alone /\ alone # h
           /\ settled' => success /\ alone = h
  BY PCHas DEF Reply, Goto, AInv, TypeOK, NoLines, Lines

\* The file is truncated under the mutex, or the handler gives up.
LEMMA OpenKeeps ==
    ASSUME AInv, NEW h \in Request, Open(h)
    PROVE  AInv'
  <1> USE DEF AInv
  <1>1. pc[h] = "open" /\ mutex = None /\ up' = up /\ opts' = opts /\ pc \in [Request -> PC]
    BY DEF Open, TypeOK
  <1>2. CASE /\ mutex' = h /\ file' = NoLines /\ written' = args[h]
             /\ Goto(h, "write") /\ UNCHANGED <<param, args, alone, settled>>
    <2>1. pc' = [pc EXCEPT ![h] = "write"] /\ pc' \in [Request -> PC]
      BY <1>1, <1>2, PCHas DEF Goto
    <2>2. TypeOK'
      BY <1>1, <1>2, <2>1 DEF TypeOK, NoLines, Lines, FileFollows
    <2>3. MutexIsHeld'
      BY <1>1, <1>2, <2>1, NoneAssumption DEF MutexIsHeld, Idle
    <2>4. FileFollows'
      BY <1>1, <1>2, <2>1, NoneAssumption DEF FileFollows, FileIsOneWrite, NoLines, Lines
    <2>5. AloneFollows'
      BY <1>1, <1>2, <2>1 DEF AloneFollows
    <2>6. SettledFollows'
      BY <1>1, <1>2 DEF SettledFollows, Idle
    <2> QED
      BY <2>2, <2>3, <2>4, <2>5, <2>6
  <1>3. CASE Reply(h, FALSE) /\ UNCHANGED <<mutex, file, written>>
    <2>1. /\ pc' = [pc EXCEPT ![h] = "idle"] /\ pc' \in [Request -> PC]
          /\ param' \in [Request -> [Field -> Name \cup {Absent}]]
          /\ args' \in [Request -> Lines]
          /\ \A x \in Request \ {h} : args'[x] = args[x]
          /\ alone' \in Request \cup {None} /\ settled' \in BOOLEAN
          /\ alone' # None => alone' = alone /\ alone # h
          /\ ~settled'
      BY <1>3, ReplyKeeps
    <2>2. TypeOK'
      BY <1>1, <1>3, <2>1 DEF TypeOK
    <2>3. MutexIsHeld'
      BY <1>1, <1>3, <2>1 DEF MutexIsHeld, Idle
    <2>4. FileFollows'
      BY <1>1, <1>3, <2>1 DEF FileFollows, FileIsOneWrite
    <2>5. AloneFollows'
      BY <1>1, <2>1 DEF AloneFollows
    <2> QED
      BY <2>1, <2>2, <2>3, <2>4, <2>5 DEF SettledFollows
  <1> QED
    BY <1>2, <1>3 DEF Open

\* A line is written by the holder of the mutex, from what it has read.
LEMMA WriteKeeps ==
    ASSUME AInv, NEW h \in Request, Write(h)
    PROVE  AInv'
  <1> USE DEF AInv
  <1>1. /\ pc[h] = "write" /\ mutex = h
        /\ UNCHANGED <<up, opts, mutex, pc, param, args, alone, settled, written>>
    BY DEF Write, handlerVars, MutexIsHeld
  <1>2. mutex # None
    BY <1>1, NoneAssumption
  <1>3. PICK f \in Field : file' = [file EXCEPT ![f] = args[h][f]]
    BY DEF Write
  <1>4. /\ file' \in Lines
        /\ \A g \in Field : file'[g] # Absent => file'[g] = written[g]
    BY <1>1, <1>2, <1>3 DEF FileFollows, FileIsOneWrite, Lines, TypeOK
  <1>5. TypeOK'
    BY <1>1, <1>4 DEF TypeOK
  <1>6. ~settled
    BY <1>1 DEF SettledFollows, Idle
  <1> QED
    BY <1>1, <1>2, <1>4, <1>5, <1>6
       DEF MutexIsHeld, FileFollows, FileIsOneWrite, AloneFollows, SettledFollows, Idle

\* The last handler to write has all lines from itself, or the write broke off.
LEMMA CloseKeeps ==
    ASSUME AInv, NEW h \in Request, Close(h)
    PROVE  AInv'
  <1> USE DEF AInv
  <1>1. /\ pc[h] = "write" /\ mutex = h /\ mutex' = None /\ mutex # None
        /\ up' = up /\ opts' = opts /\ file' = file /\ written' = written
        /\ pc \in [Request -> PC]
    BY NoneAssumption DEF Close, MutexIsHeld, TypeOK
  <1>2. PICK success \in BOOLEAN :
           /\ Reply(h, success)
           /\ success => \A f \in Field : file[f] # Absent
    BY DEF Close
  <1>3. /\ pc' = [pc EXCEPT ![h] = "idle"] /\ pc' \in [Request -> PC]
        /\ param' \in [Request -> [Field -> Name \cup {Absent}]]
        /\ args' \in [Request -> Lines]
        /\ \A x \in Request \ {h} : args'[x] = args[x]
        /\ alone' \in Request \cup {None} /\ settled' \in BOOLEAN
        /\ alone' # None => alone' = alone /\ alone # h
        /\ settled' => success /\ alone = h
    BY <1>2, ReplyKeeps
  <1>4. success => file = args[h] /\ args[h] \in Pair
    <2> SUFFICES ASSUME success PROVE file = args[h] /\ args[h] \in Pair
      OBVIOUS
    <2>1. file \in Lines /\ args[h] \in Pair /\ \A f \in Field : file[f] = args[h][f]
      BY <1>1, <1>2 DEF FileFollows
    <2> QED
      BY <2>1 DEF Lines, Pair
  <1>6. TypeOK'
    BY <1>1, <1>2, <1>3, <1>4 DEF TypeOK
  <1>7. MutexIsHeld'
    BY <1>1, <1>3, NoneAssumption DEF MutexIsHeld, Idle, TypeOK
  <1>8. FileFollows'
    BY <1>1, <1>3 DEF FileFollows, FileIsOneWrite
  <1>9. AloneFollows'
    BY <1>1, <1>3 DEF AloneFollows
  <1>10. SettledFollows'
    <2> SUFFICES ASSUME settled' PROVE file' = opts' /\ Idle' = Request /\ up'
      BY DEF SettledFollows
    <2>1. success /\ alone = h /\ alone # None
      BY <1>3, NoneAssumption
    <2>2. args[h] = opts
      BY <1>1, <2>1 DEF AloneFollows
    <2>3. Idle' = Request
      BY <1>3, <2>1 DEF AloneFollows, Idle
    <2>4. up
      BY <1>1 DEF MutexIsHeld
    <2> QED
      BY <1>1, <1>4, <2>1, <2>2, <2>3, <2>4
  <1> QED
    BY <1>6, <1>7, <1>8, <1>9, <1>10

\* A crash frees the mutex; what was written so far stays.
LEMMA ProcessKeeps ==
    ASSUME AInv, Crash \/ \E flags \in [Field -> Name] : Start(flags)
    PROVE  AInv'
  <1> USE DEF AInv
  <1>1. CASE Crash
    <2>1. TypeOK'
      BY <1>1, PCHas DEF Crash, TypeOK, NoLines, Lines
    <2>2. MutexIsHeld'
      BY <1>1, NoneAssumption DEF Crash, MutexIsHeld, Idle
    <2> QED
      BY <1>1, <2>1, <2>2 DEF Crash, FileFollows, FileIsOneWrite, AloneFollows,
         SettledFollows
  <1>2. ASSUME NEW flags \in [Field -> Name], Start(flags) PROVE AInv'
    <2>1. /\ ~up /\ up' /\ mutex = None /\ Idle = Request /\ ~settled
          /\ UNCHANGED <<mutex, pc, param, args, alone, settled>>
      BY <1>2 DEF Start, MutexIsHeld, SettledFollows, handlerVars
    <2>2. up' \in BOOLEAN
      BY <1>2 DEF Start
    <2>3. opts' \in Pair /\ [f \in Field |-> Str(flags[f])] \in Pair
      BY <1>2 DEF Start, Pair, Str, String
    <2>4. \/ UNCHANGED <<file, written>>
          \/ /\ file' \in Lines /\ written' \in Pair
             /\ \A f \in Field : file'[f] # Absent => file'[f] = written'[f]
      <3>1. ASSUME NEW fs \in SUBSET Field
            PROVE  [f \in Field |-> IF f \in fs THEN Str(flags[f]) ELSE Absent] \in Lines
        BY DEF Lines, Str, String
      <3> QED
        BY <1>2, <2>3, <3>1 DEF Start, InitApplicationInfo
    <2>5. Pair \subseteq Lines
      BY DEF Pair, Lines
    <2>6. TypeOK'
      BY <2>1, <2>2, <2>3, <2>4, <2>5 DEF TypeOK
    <2>7. MutexIsHeld'
      BY <2>1 DEF MutexIsHeld
    <2>8. FileFollows'
      BY <2>1, <2>4 DEF FileFollows, FileIsOneWrite, Idle
    <2>9. AloneFollows'
      <3>1. \A h \in Request : pc'[h] = "idle"
        BY <2>1 DEF Idle
      <3> QED
        BY <2>1, <3>1 DEF AloneFollows, TypeOK
    <2> QED
      BY <2>1, <2>6, <2>7, <2>8, <2>9 DEF SettledFollows
  <1> QED
    BY <1>1, <1>2

-----------------------------------------------------------------------------

\* The inductive invariant of the application information.
THEOREM AppInvariance == Spec => []AInv
  <1>1. AInv /\ UNCHANGED vars => AInv'
    BY DEF vars, handlerVars, AInv, TypeOK, MutexIsHeld, FileFollows, FileIsOneWrite,
       AloneFollows, SettledFollows, Idle
  <1>2. AInv /\ [Next]_vars => AInv'
    BY <1>1, BeginKeeps, AssignKeeps, ReadOptsKeeps, OpenKeeps, WriteKeeps, CloseKeeps,
       ProcessKeeps DEF Next
  <1> QED
    BY InitEstablishes, <1>2, PTL DEF Spec

\* Every reachable state is well typed: options and file hold whole strings or
\* nothing.
THEOREM TypeCorrect == Spec => []TypeOK
  BY AppInvariance, PTL DEF AInv

\* All that is in the file belongs to the write that was begun last, also after
\* failed writes and crashes (auth.go:108-130).
THEOREM FileHoldsOneWrite == Spec => []FileIsOneWrite
  <1>1. AInv => FileIsOneWrite
    BY DEF AInv, FileFollows
  <1> QED
    BY AppInvariance, <1>1, PTL

\* An update that met no other one leaves memory and file in agreement
\* (updateApplication.go:23-29).
THEOREM LoneUpdatesSettle == Spec => []LoneUpdateSettles
  <1>1. AInv => LoneUpdateSettles
    BY DEF AInv, SettledFollows, LoneUpdateSettles
  <1> QED
    BY AppInvariance, <1>1, PTL
=============================================================================
