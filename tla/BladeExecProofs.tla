--------------------------- MODULE BladeExecProofs ---------------------------
(* What the map of running commands forgets, for any set of commands.       *)
EXTENDS BladeExec, TLAPS

\* A create command is its own uid; a goroutine that watches belongs to a
\* command that has been answered; a command that ends an answered uid finds
\* nobody who will record this uid again.
Order ==
    /\ \A c \in CreateCmd : uid[c] = c
    /\ \A c \in Cmd : check[c] # "none" => pc[c] = "answered"
    /\ \A e \in told : pc[uid[e]] \in {"answered", "gone"}

\* As long as no accesses overlap, what is over has left the map.
Forgotten ==
    ~raced =>
    /\ \A e \in told : pc[e] \in {"recorded", "querying", "answered"} => uid[e] \notin running
    /\ \A c \in CreateCmd :
          /\ kind[c] = "prepareJvm" /\ seen[c] = "Error"
          /\ check[c] \in {"reporting", "reported", "lost"}
          => c \notin running

BInv == TypeOK /\ Order /\ Forgotten

-----------------------------------------------------------------------------

\* What commands may be, and what they do to blade's records.
LEMMA KindsAre ==
    ASSUME TypeOK, NEW c \in Cmd
    PROVE  /\ kind[c] \in CreateKind \cup EndKind
           /\ kind[c] \in CreateKind <=> c \in CreateCmd
           /\ uid[c] \in CreateCmd /\ uid[c] \in Cmd
           /\ Effect(c) \in Status
  <1>1. /\ kind[c] \in CreateKind \cup EndKind
        /\ kind[c] \in CreateKind <=> c \in CreateCmd
    BY KindsAssumption DEF TypeOK
  <1>2. Effect(c) \in Status
    BY <1>1 DEF Effect, Status, CreateKind, EndKind
  <1> QED
    BY <1>1, <1>2 DEF TypeOK, Cmd

\* Nothing has been run at first.
LEMMA InitEstablishes == Init => BInv
  <1> SUFFICES ASSUME Init PROVE BInv
    OBVIOUS
  <1>1. TypeOK
    BY CmdAssumption DEF Init, TypeOK, PC, Check, Status
  <1> QED
    BY <1>1 DEF Init, BInv, Order, Forgotten, Cmd

\* Blade refuses a command or carries it out.
LEMMA ExecKeeps ==
    ASSUME BInv, NEW c \in Cmd, ExecRefused(c) \/ ExecScript(c)
    PROVE  BInv'
  <1> USE DEF BInv
  <1>1. /\ pc[c] = "new" /\ pc \in [Cmd -> PC]
        /\ \E r \in {"ran", "failed"} : pc' = [pc EXCEPT ![c] = r]
        /\ UNCHANGED <<kind, uid, mutex, running, check, seen, hung, raced>>
    BY DEF ExecRefused, ExecScript, checkVars, TypeOK
  <1>2. /\ \A x \in Cmd \ {c} : pc'[x] = pc[x]
        /\ pc'[c] \in {"ran", "failed"} /\ pc' \in [Cmd -> PC]
    BY <1>1 DEF PC
  <1>3. record' \in [CreateCmd -> Status]
    BY KindsAre DEF ExecRefused, ExecScript, TypeOK
  <1>4. \/ told' = told
        \/ told' = told \cup {c} /\ c \in EndCmd /\ pc[uid[c]] = "answered"
    BY DEF ExecRefused, ExecScript
  <1>5. told' \subseteq EndCmd
    BY <1>4 DEF TypeOK
  <1>6. TypeOK'
    BY <1>1, <1>2, <1>3, <1>5 DEF TypeOK
  <1>7. uid \in [Cmd -> CreateCmd] /\ told \subseteq Cmd /\ CreateCmd \subseteq Cmd
    BY DEF TypeOK, Cmd
  <1>8. Order'
    BY <1>1, <1>2, <1>4, <1>7 DEF Order
  <1>9. Forgotten'
    BY <1>1, <1>2, <1>4, <1>7 DEF Forgotten
  <1> QED
    BY <1>6, <1>8, <1>9

\* Only a command that has not been answered yet enters a uid, its own.
LEMMA WriteRunningKeeps ==
    ASSUME BInv, NEW c \in Cmd, WriteRunning(c)
    PROVE  BInv'
  <1> USE DEF BInv
  <1>1. /\ pc[c] = "writing" /\ pc \in [Cmd -> PC]
        /\ \E r \in {"querying", "recorded"} : pc' = [pc EXCEPT ![c] = r]
        /\ UNCHANGED <<kind, uid, mutex, check, seen, record, hung, told, raced>>
    BY DEF WriteRunning, checkVars, TypeOK
  <1>2. /\ \A x \in Cmd \ {c} : pc'[x] = pc[x]
        /\ pc'[c] \in {"querying", "recorded"} /\ pc' \in [Cmd -> PC]
    BY <1>1 DEF PC
  <1>3. /\ uid \in [Cmd -> CreateCmd] /\ told \subseteq EndCmd /\ CreateCmd \subseteq Cmd
        /\ EndCmd \subseteq Cmd /\ CreateCmd \cap EndCmd = {}
    BY CmdAssumption DEF TypeOK, Cmd
  <1>4. running' \in SUBSET CreateCmd
    BY <1>3 DEF WriteRunning, Write, TypeOK
  <1>5. TypeOK'
    BY <1>1, <1>2, <1>4 DEF TypeOK
  <1>6. Order'
    BY <1>1, <1>2, <1>3 DEF Order
  <1>7. ~raced => running' = IF c \in CreateCmd THEN running \cup {c} ELSE running \ {uid[c]}
    BY DEF WriteRunning, Write, Order
  <1>8. Forgotten'
    <2> SUFFICES ASSUME ~raced PROVE Forgotten'
      BY <1>1 DEF Forgotten
    <2>1. ASSUME NEW e \in told, pc'[e] \in {"recorded", "querying", "answered"}
          PROVE  uid[e] \notin running'
      <3>1. uid[e] # c
        BY <1>1, <2>1 DEF Order
      <3>2. CASE e = c
        BY <1>3, <1>7, <2>1, <3>2
      <3>3. CASE e # c
        BY <1>2, <1>3, <1>7, <2>1, <3>1, <3>3 DEF Forgotten
      <3> QED
        BY <3>2, <3>3
    <2>2. ASSUME NEW x \in CreateCmd, kind[x] = "prepareJvm", seen[x] = "Error",
                 check[x] \in {"reporting", "reported", "lost"}
          PROVE  x \notin running'
      <3>1. x # c
        BY <1>1, <1>3, <2>2 DEF Order
      <3> QED
        BY <1>7, <2>2, <3>1 DEF Forgotten
    <2> QED
      BY <1>1, <2>1, <2>2 DEF Forgotten
  <1> QED
    BY <1>5, <1>6, <1>8

\* The other steps of the handler leave the map alone; a goroutine is started
\* by the answer.
LEMMA HandlerKeeps ==
    ASSUME BInv, NEW c \in Cmd,
           Lock(c) \/ ResultPanics(c) \/ StartWatching(c) \/ QueryRevoked(c)
    PROVE  BInv'
  <1> USE DEF BInv
  <1>1. /\ UNCHANGED <<kind, uid, running, seen, record, hung, told>>
        /\ pc[c] \in {"ran", "writing", "recorded", "querying"}
        /\ pc \in [Cmd -> PC] /\ check \in [Cmd -> Check]
    BY DEF Lock, ResultPanics, StartWatching, QueryRevoked, checkVars, TypeOK
  <1>2. \/ /\ pc' = [pc EXCEPT ![c] = "writing"] /\ pc[c] = "ran" /\ check' = check
           /\ mutex' = c /\ raced' = (raced \/ InTheMap # {})
        \/ /\ pc' = [pc EXCEPT ![c] = "failed"] /\ check' = check
           /\ mutex' = NoOwner /\ raced' = raced
        \/ /\ pc' = [pc EXCEPT ![c] = "answered"] /\ pc[c] \in {"recorded", "querying"}
           /\ check' = check \/ check' = [check EXCEPT ![c] = "ticking"]
           /\ mutex' = NoOwner /\ raced' = raced
    BY DEF Lock, ResultPanics, StartWatching, QueryRevoked, Watch, Unlock, checkVars
  <1>3. /\ pc' \in [Cmd -> PC] /\ check' \in [Cmd -> Check] /\ mutex' \in Cmd \cup {NoOwner}
        /\ \A x \in Cmd \ {c} : pc'[x] = pc[x] /\ check'[x] = check[x]
    BY <1>1, <1>2 DEF PC, Check
  <1>4. raced' \in BOOLEAN /\ (~raced' => ~raced)
    BY <1>2 DEF TypeOK
  <1>5. TypeOK'
    BY <1>1, <1>3, <1>4 DEF TypeOK
  <1>6. /\ uid \in [Cmd -> CreateCmd] /\ told \subseteq Cmd /\ CreateCmd \subseteq Cmd
    BY DEF TypeOK, Cmd
  <1>7. /\ check[c] = "none"
        /\ check'[c] \in {"none", "ticking"}
        /\ check'[c] # "none" => pc'[c] = "answered"
        /\ pc'[c] \in {"recorded", "querying", "answered"} => pc[c] \in {"recorded", "querying"}
    BY <1>1, <1>2 DEF Order
  <1>8. Order'
    BY <1>1, <1>3, <1>6, <1>7 DEF Order
  <1>9. Forgotten'
    BY <1>1, <1>3, <1>4, <1>6, <1>7 DEF Forgotten
  <1> QED
    BY <1>5, <1>8, <1>9

\* A watching goroutine deletes before it reports; it enters nothing.
LEMMA CheckKeeps ==
    ASSUME BInv, NEW c \in Cmd, Tick(c) \/ CheckEnds(c)
    PROVE  BInv'
  <1> USE DEF BInv
  <1>1. /\ UNCHANGED <<kind, uid, pc, mutex, record, hung, told>>
        /\ check[c] # "none" /\ check \in [Cmd -> Check]
        /\ seen \in [Cmd -> Status \cup {"Unknown"}]
    BY DEF Tick, CheckEnds, Timeout, DeleteCallback, ReportStatus, execVars, TypeOK
  <1>2. CASE Tick(c) \/ Timeout(c)
    <2>1. /\ running' = running
          /\ \E s \in Status \cup {"Unknown"} :
                /\ seen' = [seen EXCEPT ![c] = s]
                /\ \/ check' = check
                   \/ check' = [check EXCEPT ![c] = AfterCheck(c, s)]
          /\ raced' = raced \/ raced' = (raced \/ (check'[c] = "deleting" /\ InTheMap # {}))
          /\ check[c] = "ticking"
      BY <1>1, <1>2, KindsAre
         DEF Tick, Timeout, EndOfCheck, QueryPreparationStatus, TypeOK
    <2>2. PICK s \in Status \cup {"Unknown"} :
             /\ seen' = [seen EXCEPT ![c] = s]
             /\ \/ check' = check
                \/ check' = [check EXCEPT ![c] = AfterCheck(c, s)]
      BY <2>1
    <2>3. /\ seen' \in [Cmd -> Status \cup {"Unknown"}] /\ check' \in [Cmd -> Check]
          /\ \A x \in Cmd \ {c} : seen'[x] = seen[x] /\ check'[x] = check[x]
          /\ seen'[c] = "Error" /\ kind[c] = "prepareJvm"
             => check'[c] \in {"ticking", "deleting"}
          /\ check'[c] # "none"
      BY <1>1, <2>1, <2>2 DEF AfterCheck, Check
    <2>4. raced' \in BOOLEAN /\ (~raced' => ~raced)
      <3>1. raced \in BOOLEAN
        BY DEF TypeOK
      <3>2. raced' = raced \/ raced' = (raced \/ (check'[c] = "deleting" /\ InTheMap # {}))
        BY <2>1
      <3> QED
        BY <3>1, <3>2, Zenon
    <2>5. TypeOK'
      BY <1>1, <2>1, <2>3, <2>4 DEF TypeOK
    <2>6. CreateCmd \subseteq Cmd
      BY DEF Cmd
    <2>7. Order'
      BY <1>1, <2>3, <2>6 DEF Order
    <2>8. Forgotten'
      BY <1>1, <2>1, <2>3, <2>4, <2>6 DEF Forgotten
    <2> QED
      BY <2>5, <2>7, <2>8
  <1>3. CASE DeleteCallback(c)
    <2>1. /\ check' = [check EXCEPT ![c] = "reporting"]
          /\ seen' = seen /\ raced' = raced /\ running' \subseteq running
          /\ ~raced => running' = running \ {uid[c]}
      BY <1>3 DEF DeleteCallback, Write
    <2>2. /\ check' \in [Cmd -> Check] /\ check'[c] = "reporting"
          /\ \A x \in Cmd \ {c} : check'[x] = check[x]
      BY <1>1, <2>1 DEF Check
    <2>3. TypeOK'
      BY <1>1, <2>1, <2>2 DEF TypeOK
    <2>4. CreateCmd \subseteq Cmd
      BY DEF Cmd
    <2>5. Order'
      BY <1>1, <2>2, <2>4 DEF Order
    <2>6. Forgotten'
      BY <1>1, <2>1, <2>2, <2>4 DEF Forgotten, Order
    <2> QED
      BY <2>3, <2>5, <2>6
  <1>4. CASE ReportStatus(c)
    <2>1. /\ UNCHANGED <<running, seen, raced>>
          /\ check[c] = "reporting"
          /\ \E outcome \in {"reported", "lost"} : check' = [check EXCEPT ![c] = outcome]
      BY <1>4 DEF ReportStatus
    <2>2. /\ check' \in [Cmd -> Check] /\ check'[c] \in {"reported", "lost"}
          /\ \A x \in Cmd \ {c} : check'[x] = check[x]
      BY <1>1, <2>1 DEF Check
    <2>3. TypeOK'
      BY <1>1, <2>1, <2>2 DEF TypeOK
    <2>4. CreateCmd \subseteq Cmd
      BY DEF Cmd
    <2>5. Order'
      BY <1>1, <2>2, <2>4 DEF Order
    <2>6. Forgotten'
      BY <1>1, <2>1, <2>2, <2>4 DEF Forgotten
    <2> QED
      BY <2>3, <2>5, <2>6
  <1> QED
    BY <1>2, <1>3, <1>4 DEF CheckEnds

\* Blade comes to an end with something, hangs, or the agent is started again
\* with an empty map.
LEMMA SurroundingsKeep ==
    ASSUME BInv, (\E u \in CreateCmd : BladeActs(u)) \/ BladeHangs \/ AgentRestart
    PROVE  BInv'
  <1> USE DEF BInv
  <1>1. CASE (\E u \in CreateCmd : BladeActs(u)) \/ BladeHangs
    <2>1. /\ UNCHANGED <<kind, uid, pc, mutex, running, check, seen, told, raced>>
          /\ record' \in [CreateCmd -> Status] /\ hung' \in BOOLEAN
      BY <1>1 DEF BladeActs, BladeHangs, execVars, checkVars, TypeOK, Status
    <2> QED
      BY <2>1 DEF TypeOK, Order, Forgotten
  <1>2. CASE AgentRestart
    <2>1. pc' \in [Cmd -> PC] /\ pc \in [Cmd -> PC]
      BY <1>2 DEF AgentRestart, TypeOK, PC
    <2>2. TypeOK'
      BY <1>2, <2>1 DEF AgentRestart, TypeOK, Check
    <2>3. /\ uid \in [Cmd -> CreateCmd] /\ told \subseteq Cmd /\ CreateCmd \subseteq Cmd
      BY DEF TypeOK, Cmd
    <2>4. Order'
      BY <1>2, <2>3 DEF AgentRestart, Order
    <2>5. Forgotten'
      BY <1>2 DEF AgentRestart, Forgotten
    <2> QED
      BY <2>2, <2>4, <2>5
  <1> QED
    BY <1>1, <1>2

-----------------------------------------------------------------------------

\* The inductive invariant of the commands and their map.
THEOREM BladeInvariance == Spec => []BInv
  <1>1. BInv /\ UNCHANGED vars => BInv'
    BY DEF vars, execVars, checkVars, BInv, TypeOK, Order, Forgotten
  <1>2. BInv /\ [Next]_vars => BInv'
    BY <1>1, ExecKeeps, WriteRunningKeeps, HandlerKeeps, CheckKeeps, SurroundingsKeep
       DEF Next, HandlerStep
  <1> QED
    BY InitEstablishes, <1>2, PTL DEF Spec

\* Every reachable state is well typed; the keys of the map are uids.
THEOREM TypeCorrect == Spec => []TypeOK
  BY BladeInvariance, PTL DEF BInv

\* What is over is not kept as running (chaosblade.go:222 and 340), however
\* many commands and goroutines there are.
THEOREM OverIsForgotten == Spec => []ForgottenWhenOver
  <1>1. BInv => ForgottenWhenOver
    BY DEF BInv, Forgotten, ForgottenWhenOver
  <1> QED
    BY BladeInvariance, <1>1, PTL
=============================================================================
