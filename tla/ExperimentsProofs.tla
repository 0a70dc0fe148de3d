-------------------------- MODULE ExperimentsProofs --------------------------
(***************************************************************************)
(* Proofs about Experiments, and about AllExperiments at the end, for any  *)
(* number of requests, handlers, uids, pids and directories.               *)
(***************************************************************************)
EXTENDS AllExperimentsInv, TLAPS

USE DEF PC, Answer, Status, CmdType, Alive, Owns, Stored, HasStatus, IsLoad

\* The invariant holds before the first request.
LEMMA InitIInv == Init => IInv
  <1> SUFFICES ASSUME Init PROVE IInv
    OBVIOUS
  <1> USE DEF Init, TableInit
  <1>1. TypeOK
    BY DEF TypeOK, TableType
  <1>2. Stages /\ RowsHaveOwners /\ PidsAreUnique
    BY DEF Stages, RowsHaveOwners, PidsAreUnique
  <1>3. RowNamesLiveProcess /\ JobsAreAccurate
    BY DEF RowNamesLiveProcess, JobsAreAccurate
  <1>4. DestroyedIsDead /\ SuccessMeansDead
    BY DEF DestroyedIsDead, SuccessMeansDead
  <1> QED
    BY <1>1, <1>2, <1>3, <1>4 DEF IInv

(* What one statement does to the table. *)

\* An UPDATE changes at most the status of the one row it names
\* (UpdateExperimentModelByUid).
LEMMA UpdateLemma ==
  ASSUME TableType, NEW u \in Uid, NEW s \in Status,
         UpdateExperimentModelByUid(u, s)
  PROVE  /\ TableType'
         /\ \A v \in Uid : Stored(v) <=> Stored(v)'
         /\ \A v \in Uid : v # u => table'[v] = table[v]
         /\ \A v \in Uid : Stored(v) =>
               /\ table'[v].handle = table[v].handle
               /\ table'[v].cmdType = table[v].cmdType
         /\ Stored(u) => table'[u].status = s
  <1> USE DEF UpdateExperimentModelByUid, TableType
  <1>1. CASE ~Stored(u)
    BY <1>1
  <1>2. CASE Stored(u)
    <2> DEFINE r == [table[u] EXCEPT !.status = s]
    <2>1. table[u] \in Row
      BY <1>2
    <2>2. r \in Row /\ r.status = s /\ r.handle = table[u].handle
          /\ r.cmdType = table[u].cmdType
      BY <2>1 DEF Row
    <2>3. r # NoRow
      BY <2>2, NoRowAssumption
    <2>4. table' = [table EXCEPT ![u] = r]
      BY <1>2
    <2> HIDE DEF r
    <2> QED
      BY <1>2, <2>2, <2>3, <2>4
  <1> QED
    BY <1>1, <1>2

\* A create request that is accepted gets a uid; no row and no process changes
\* (CpuResolver, MemResolver).
LEMMA AcceptIInv ==
  ASSUME NEW e \in Req, NEW u \in Uid, IInv, Accept(e, u) PROVE IInv'
  <1> USE DEF IInv, Accept, GenerateUid, destroyVars
  <1>1. TypeOK'
    BY DEF TypeOK, TableType
  <1>2. Stages'
    BY DEF Stages, TypeOK
  <1>3. RowsHaveOwners'
    BY DEF RowsHaveOwners, TypeOK, TableType, Stages
  <1>4. PidsAreUnique'
    BY DEF PidsAreUnique, TypeOK, LivePids, Stages
  <1>5. RowNamesLiveProcess'
    BY DEF RowNamesLiveProcess, TypeOK, TableType, Stages, RowsHaveOwners
  <1>6. JobsAreAccurate'
    BY DEF JobsAreAccurate, TypeOK, TableType, Stages, RowsHaveOwners, RowNamesLiveProcess, PidsAreUnique
  <1>7. DestroyedIsDead'
    BY DEF DestroyedIsDead, TypeOK, TableType, Stages, RowsHaveOwners, JobsAreAccurate
  <1>8. SuccessMeansDead'
    BY DEF SuccessMeansDead, TypeOK, Stages, RowsHaveOwners, JobsAreAccurate, DestroyedIsDead
  <1> QED
    BY <1>1, <1>2, <1>3, <1>4, <1>5, <1>6, <1>7, <1>8

\* A refused request changes nothing the invariant speaks of.
LEMMA RejectIInv ==
  ASSUME NEW e \in Req, IInv, Reject(e) PROVE IInv'
  <1> USE DEF IInv, Reject, destroyVars
  <1>1. TypeOK'
    BY DEF TypeOK, TableType
  <1>2. Stages'
    BY DEF Stages, TypeOK
  <1>3. RowsHaveOwners'
    BY DEF RowsHaveOwners, TypeOK, TableType, Stages
  <1>4. PidsAreUnique'
    BY DEF PidsAreUnique, TypeOK, LivePids, Stages
  <1>5. RowNamesLiveProcess'
    BY DEF RowNamesLiveProcess, TypeOK, TableType, Stages, RowsHaveOwners
  <1>6. JobsAreAccurate'
    BY DEF JobsAreAccurate, TypeOK, TableType, Stages, RowsHaveOwners, RowNamesLiveProcess, PidsAreUnique
  <1>7. DestroyedIsDead'
    BY DEF DestroyedIsDead, TypeOK, TableType, Stages, RowsHaveOwners, JobsAreAccurate
  <1>8. SuccessMeansDead'
    BY DEF SuccessMeansDead, TypeOK, Stages, RowsHaveOwners, JobsAreAccurate, DestroyedIsDead
  <1> QED
    BY <1>1, <1>2, <1>3, <1>4, <1>5, <1>6, <1>7, <1>8

\* A helper starts under a pid that nobody has.
LEMMA SpawnIInv ==
  ASSUME NEW e \in Req, IInv, Spawn(e) PROVE IInv'
  <1> USE DEF IInv, Spawn, destroyVars
  <1>1. TypeOK'
    BY DEF TypeOK, TableType
  <1>2. Stages'
    BY DEF Stages, TypeOK
  <1>3. RowsHaveOwners'
    BY DEF RowsHaveOwners, TypeOK, TableType, Stages
  <1>4. PidsAreUnique'
    BY DEF PidsAreUnique, TypeOK, LivePids, Stages
  <1>5. RowNamesLiveProcess'
    BY DEF RowNamesLiveProcess, TypeOK, TableType, Stages, RowsHaveOwners
  <1>6. JobsAreAccurate'
    BY DEF JobsAreAccurate, TypeOK, TableType, Stages, RowsHaveOwners, RowNamesLiveProcess, PidsAreUnique
  <1>7. DestroyedIsDead'
    BY DEF DestroyedIsDead, TypeOK, TableType, Stages, RowsHaveOwners, JobsAreAccurate
  <1>8. SuccessMeansDead'
    BY DEF SuccessMeansDead, TypeOK, Stages, RowsHaveOwners, JobsAreAccurate, DestroyedIsDead
  <1> QED
    BY <1>1, <1>2, <1>3, <1>4, <1>5, <1>6, <1>7, <1>8

\* A helper that cannot be started leaves a request without a row.
LEMMA SpawnFailsIInv ==
  ASSUME NEW e \in Req, IInv, SpawnFails(e) PROVE IInv'
  <1> USE DEF IInv, SpawnFails, destroyVars
  <1>1. TypeOK'
    BY DEF TypeOK, TableType
  <1>2. Stages'
    BY DEF Stages, TypeOK
  <1>3. RowsHaveOwners'
    BY DEF RowsHaveOwners, TypeOK, TableType, Stages
  <1>4. PidsAreUnique'
    BY DEF PidsAreUnique, TypeOK, LivePids, Stages
  <1>5. RowNamesLiveProcess'
    BY DEF RowNamesLiveProcess, TypeOK, TableType, Stages, RowsHaveOwners
  <1>6. JobsAreAccurate'
    BY DEF JobsAreAccurate, TypeOK, TableType, Stages, RowsHaveOwners, RowNamesLiveProcess, PidsAreUnique
  <1>7. DestroyedIsDead'
    BY DEF DestroyedIsDead, TypeOK, TableType, Stages, RowsHaveOwners, JobsAreAccurate
  <1>8. SuccessMeansDead'
    BY DEF SuccessMeansDead, TypeOK, Stages, RowsHaveOwners, JobsAreAccurate, DestroyedIsDead
  <1> QED
    BY <1>1, <1>2, <1>3, <1>4, <1>5, <1>6, <1>7, <1>8

\* The INSERT gives a row to a helper that has none, or is refused.
LEMMA RecordIInv ==
  ASSUME NEW e \in Req, NEW type \in {"cpu", "mem"},
         type = IF e \in CpuReq THEN "cpu" ELSE "mem",
         IInv, Record(e, type)
  PROVE  IInv'
  <1> USE DEF IInv
  <1>1. CASE WriteFails /\ UNCHANGED inserted
    <2> USE <1>1 DEF Record, WriteFails, destroyVars
    <2>1. TypeOK'
      BY DEF TypeOK, TableType
    <2>2. Stages' /\ RowsHaveOwners' /\ PidsAreUnique'
      BY DEF Stages, RowsHaveOwners, PidsAreUnique, TypeOK
    <2>3. RowNamesLiveProcess' /\ JobsAreAccurate'
      BY DEF RowNamesLiveProcess, JobsAreAccurate, Stages, TypeOK
    <2>4. DestroyedIsDead' /\ SuccessMeansDead'
      BY DEF DestroyedIsDead, SuccessMeansDead, Stages, TypeOK
    <2> QED
      BY <2>1, <2>2, <2>3, <2>4
  <1>2. CASE /\ \E r \in Row :
                  /\ r = [status |-> "Created", cmdType |-> type, handle |-> pid[e]]
                  /\ InsertExperimentModel(uid[e], r)
             /\ inserted' = [inserted EXCEPT ![e] = TRUE]
    <2> PICK r \in Row :
              /\ r = [status |-> "Created", cmdType |-> type, handle |-> pid[e]]
              /\ InsertExperimentModel(uid[e], r)
      BY <1>2
    <2>0. r.status = "Created" /\ r.cmdType = type /\ r.handle = pid[e]
      OBVIOUS
    <2>1. uid[e] \in Uid /\ ~inserted[e]
      BY DEF Record, Stages, TypeOK
    <2>2. /\ TableType'
          /\ ~Stored(uid[e]) /\ r # NoRow /\ table'[uid[e]] = r
          /\ \A v \in Uid : v # uid[e] => table'[v] = table[v]
      BY <2>1, NoRowAssumption DEF TypeOK, TableType, InsertExperimentModel
    <2> USE <1>2, <2>0, <2>1, <2>2 DEF Record, destroyVars
    <2>3. \A x \in Req : Owns(x, uid[e])' <=> x = e
      BY DEF RowsHaveOwners, TypeOK
    <2>4. TypeOK'
      BY DEF TypeOK
    <2>5. Stages'
      BY DEF Stages, TypeOK
    <2>6. RowsHaveOwners'
      BY <2>3 DEF RowsHaveOwners, TypeOK, Stages
    <2>7. PidsAreUnique'
      BY DEF PidsAreUnique, TypeOK
    <2>8. RowNamesLiveProcess'
      BY <2>3 DEF RowNamesLiveProcess, TypeOK, Stages
    <2>9. JobsAreAccurate'
      BY <2>3 DEF JobsAreAccurate, TypeOK, Stages
    <2>10. DestroyedIsDead'
      BY <2>3 DEF DestroyedIsDead, TypeOK, Stages
    <2>11. SuccessMeansDead'
      <3> SUFFICES ASSUME NEW d \in DestroyReq, NEW x \in Req \ Guarded,
                          answer[d] \in {"success", "already"},
                          Owns(x, target[d])'
                   PROVE  ~Alive(x)'
        BY DEF SuccessMeansDead
      <3>1. Owns(x, target[d]) /\ x # e
        BY DEF JobsAreAccurate, TypeOK
      <3> QED
        BY <3>1 DEF SuccessMeansDead, TypeOK
    <2> QED
      BY <2>4, <2>5, <2>6, <2>7, <2>8, <2>9, <2>10, <2>11
  <1>3. [status |-> "Created", cmdType |-> type, handle |-> pid[e]] \in Row
    BY PidAssumption DEF Row, PidsAreUnique, Record
  <1> QED
    BY <1>1, <1>2, <1>3 DEF Record

\* The Success of a timer may reach the row of another helper that drew the
\* same uid; it never makes a row say Destroyed.
LEMMA TimerMarkIInv ==
  ASSUME NEW e \in Req, IInv, TimerMark(e) PROVE IInv'
  <1> USE DEF IInv
  <1>1. uid[e] \in Uid
    BY DEF TimerMark, Stages
  <1>2. /\ TableType'
        /\ \A v \in Uid : Stored(v) <=> Stored(v)'
        /\ \A v \in Uid : v # uid[e] => table'[v] = table[v]
        /\ \A v \in Uid : Stored(v) =>
              /\ table'[v].handle = table[v].handle
              /\ table'[v].cmdType = table[v].cmdType
        /\ \/ UNCHANGED table
           \/ Stored(uid[e]) => table'[uid[e]].status = "Success"
    BY <1>1, UpdateLemma DEF TypeOK, TableType, TimerMark, WriteFails,
       UpdateExperimentModelByUid
  <1> USE <1>1, <1>2 DEF TimerMark, helperVars, destroyVars
  <1>3. TypeOK'
    BY DEF TypeOK
  <1>4. Stages'
    BY DEF Stages, TypeOK
  <1>5. RowsHaveOwners'
    BY DEF RowsHaveOwners
  <1>6. PidsAreUnique'
    BY DEF PidsAreUnique, TypeOK
  <1>7. RowNamesLiveProcess'
    BY DEF RowNamesLiveProcess, Stages
  <1>8. JobsAreAccurate'
    BY DEF JobsAreAccurate, TypeOK
  <1>9. DestroyedIsDead'
    BY DEF DestroyedIsDead, JobsAreAccurate, TypeOK
  <1>10. SuccessMeansDead'
    BY DEF SuccessMeansDead, JobsAreAccurate, TypeOK
  <1> QED
    BY <1>3, <1>4, <1>5, <1>6, <1>7, <1>8, <1>9, <1>10

\* A helper that kills itself frees its pid.
LEMMA TimerKillIInv ==
  ASSUME NEW e \in Req, IInv, TimerKill(e) PROVE IInv'
  <1> USE DEF IInv, TimerKill, Die, destroyVars
  <1>1. TypeOK'
    BY DEF TypeOK, TableType
  <1>2. Stages'
    BY DEF Stages, TypeOK
  <1>3. RowsHaveOwners'
    BY DEF RowsHaveOwners, TypeOK, TableType, Stages
  <1>4. PidsAreUnique'
    BY DEF PidsAreUnique, TypeOK, LivePids, Stages
  <1>5. RowNamesLiveProcess'
    BY DEF RowNamesLiveProcess, TypeOK, TableType, Stages, RowsHaveOwners
  <1>6. JobsAreAccurate'
    BY DEF JobsAreAccurate, TypeOK, TableType, Stages, RowsHaveOwners, RowNamesLiveProcess, PidsAreUnique
  <1>7. DestroyedIsDead'
    BY DEF DestroyedIsDead, TypeOK, TableType, Stages, RowsHaveOwners, JobsAreAccurate
  <1>8. SuccessMeansDead'
    BY DEF SuccessMeansDead, TypeOK, Stages, RowsHaveOwners, JobsAreAccurate, DestroyedIsDead
  <1> QED
    BY <1>1, <1>2, <1>3, <1>4, <1>5, <1>6, <1>7, <1>8

\* A helper may die at any moment: a pid that is read from its row is then
\* stale, which JobsAreAccurate allows.
LEMMA HelperDiesIInv ==
  ASSUME NEW e \in Req, IInv, HelperDies(e) PROVE IInv'
  <1> USE DEF IInv, HelperDies, Die, destroyVars
  <1>1. TypeOK'
    BY DEF TypeOK, TableType
  <1>2. Stages'
    BY DEF Stages, TypeOK
  <1>3. RowsHaveOwners'
    BY DEF RowsHaveOwners, TypeOK, TableType, Stages
  <1>4. PidsAreUnique'
    BY DEF PidsAreUnique, TypeOK, LivePids, Stages
  <1>5. RowNamesLiveProcess'
    BY DEF RowNamesLiveProcess, TypeOK, TableType, Stages, RowsHaveOwners
  <1>6. JobsAreAccurate'
    BY DEF JobsAreAccurate, TypeOK, TableType, Stages, RowsHaveOwners, RowNamesLiveProcess, PidsAreUnique
  <1>7. DestroyedIsDead'
    BY DEF DestroyedIsDead, TypeOK, TableType, Stages, RowsHaveOwners, JobsAreAccurate
  <1>8. SuccessMeansDead'
    BY DEF SuccessMeansDead, TypeOK, Stages, RowsHaveOwners, JobsAreAccurate, DestroyedIsDead
  <1> QED
    BY <1>1, <1>2, <1>3, <1>4, <1>5, <1>6, <1>7, <1>8

\* A destroy handler copies the pid from the row of its target.
LEMMA DestroyQueryIInv ==
  ASSUME NEW d \in DestroyReq, NEW u \in Uid, IInv, DestroyQuery(d, u) PROVE IInv'
  <1> USE DEF IInv, DestroyQuery, QueryExperimentModelByUid, AlreadyDestroyed, Respond, Row, helperVars
  <1>0. \A row \in QueryExperimentModelByUid(u) : row # NoRow =>
           row = table[u] /\ row.handle \in Handle
    BY DEF TypeOK, TableType
  <1>1. TypeOK'
    BY <1>0 DEF TypeOK, TableType
  <1>2. Stages'
    BY DEF Stages, TypeOK
  <1>3. RowsHaveOwners'
    BY DEF RowsHaveOwners, TypeOK, TableType, Stages
  <1>4. PidsAreUnique'
    BY DEF PidsAreUnique, TypeOK, LivePids, Stages
  <1>5. RowNamesLiveProcess'
    BY DEF RowNamesLiveProcess, TypeOK, TableType, Stages, RowsHaveOwners
  <1>6. JobsAreAccurate'
    BY DEF JobsAreAccurate, TypeOK, TableType, Stages, RowsHaveOwners, RowNamesLiveProcess, PidsAreUnique
  <1>7. DestroyedIsDead'
    BY DEF DestroyedIsDead, TypeOK, TableType, Stages, RowsHaveOwners, JobsAreAccurate
  <1>8. SuccessMeansDead'
    BY DEF SuccessMeansDead, TypeOK, Stages, RowsHaveOwners, JobsAreAccurate, DestroyedIsDead
  <1> QED
    BY <1>1, <1>2, <1>3, <1>4, <1>5, <1>6, <1>7, <1>8

\* The kill: if the target still lives it is the process that dies, since its
\* pid is the copied one and pids are unique.
LEMMA ExperimentDestroyIInv ==
  ASSUME NEW d \in DestroyReq, IInv, ExperimentDestroy(d) PROVE IInv'
  <1> USE DEF IInv, ExperimentDestroy, KillSucceeds, KillFails, Die
  <1>1. TypeOK'
    BY DEF TypeOK, TableType
  <1>2. Stages'
    BY DEF Stages, TypeOK
  <1>3. RowsHaveOwners'
    BY DEF RowsHaveOwners, TypeOK, TableType, Stages
  <1>4. PidsAreUnique'
    BY DEF PidsAreUnique, TypeOK, LivePids, Stages
  <1>5. RowNamesLiveProcess'
    BY DEF RowNamesLiveProcess, TypeOK, TableType, Stages, RowsHaveOwners
  <1>6. JobsAreAccurate'
    BY DEF JobsAreAccurate, TypeOK, TableType, Stages, RowsHaveOwners, RowNamesLiveProcess, PidsAreUnique
  <1>7. DestroyedIsDead'
    BY DEF DestroyedIsDead, TypeOK, TableType, Stages, RowsHaveOwners, JobsAreAccurate
  <1>8. SuccessMeansDead'
    BY DEF SuccessMeansDead, TypeOK, Stages, RowsHaveOwners, JobsAreAccurate, DestroyedIsDead
  <1> QED
    BY <1>1, <1>2, <1>3, <1>4, <1>5, <1>6, <1>7, <1>8

\* Destroyed is written only when the target is gone.
LEMMA DestroyUpdateIInv ==
  ASSUME NEW d \in DestroyReq, IInv, DestroyUpdate(d) PROVE IInv'
  <1> USE DEF IInv
  <1>1. target[d] \in Uid
    BY DEF DestroyUpdate, JobsAreAccurate
  <1>2. /\ TableType'
        /\ \A v \in Uid : Stored(v) <=> Stored(v)'
        /\ \A v \in Uid : v # target[d] => table'[v] = table[v]
        /\ \A v \in Uid : Stored(v) =>
              /\ table'[v].handle = table[v].handle
              /\ table'[v].cmdType = table[v].cmdType
        /\ \/ UNCHANGED table
           \/ Stored(target[d]) => table'[target[d]].status = "Destroyed"
    BY <1>1, UpdateLemma DEF TypeOK, TableType, DestroyUpdate, WriteFails,
       UpdateExperimentModelByUid
  <1> USE <1>1, <1>2 DEF DestroyUpdate, helperVars, destroyVars
  <1>3. TypeOK'
    BY DEF TypeOK
  <1>4. Stages'
    BY DEF Stages, TypeOK
  <1>5. RowsHaveOwners'
    BY DEF RowsHaveOwners
  <1>6. PidsAreUnique'
    BY DEF PidsAreUnique, TypeOK
  <1>7. RowNamesLiveProcess'
    BY DEF RowNamesLiveProcess, Stages
  <1>8. JobsAreAccurate'
    BY DEF JobsAreAccurate, TypeOK
  <1>9. DestroyedIsDead'
    BY DEF DestroyedIsDead, JobsAreAccurate, TypeOK
  <1>10. SuccessMeansDead'
    BY DEF SuccessMeansDead, JobsAreAccurate, TypeOK
  <1> QED
    BY <1>3, <1>4, <1>5, <1>6, <1>7, <1>8, <1>9, <1>10

\* A restart of the agent ends its goroutines and nothing else.
LEMMA AgentRestartIInv ==
  ASSUME IInv, AgentRestart PROVE IInv'
  <1> USE DEF IInv, AgentRestart
  <1>1. TypeOK'
    BY DEF TypeOK, TableType
  <1>2. Stages'
    BY DEF Stages, TypeOK
  <1>3. RowsHaveOwners'
    BY DEF RowsHaveOwners, TypeOK, TableType, Stages
  <1>4. PidsAreUnique'
    BY DEF PidsAreUnique, TypeOK, LivePids, Stages
  <1>5. RowNamesLiveProcess'
    BY DEF RowNamesLiveProcess, TypeOK, TableType, Stages, RowsHaveOwners
  <1>6. JobsAreAccurate'
    BY DEF JobsAreAccurate, TypeOK, TableType, Stages, RowsHaveOwners, RowNamesLiveProcess, PidsAreUnique
  <1>7. DestroyedIsDead'
    BY DEF DestroyedIsDead, TypeOK, TableType, Stages, RowsHaveOwners, JobsAreAccurate
  <1>8. SuccessMeansDead'
    BY DEF SuccessMeansDead, TypeOK, Stages, RowsHaveOwners, JobsAreAccurate, DestroyedIsDead
  <1> QED
    BY <1>1, <1>2, <1>3, <1>4, <1>5, <1>6, <1>7, <1>8

\* Other processes take only free pids.
LEMMA ForeignStartsIInv ==
  ASSUME NEW p \in Pid, IInv, ForeignStarts(p) PROVE IInv'
  <1> USE DEF IInv, ForeignStarts, helperVars, destroyVars
  <1>1. TypeOK'
    BY DEF TypeOK, TableType
  <1>2. Stages'
    BY DEF Stages, TypeOK
  <1>3. RowsHaveOwners'
    BY DEF RowsHaveOwners, TypeOK, TableType, Stages
  <1>4. PidsAreUnique'
    BY DEF PidsAreUnique, TypeOK, LivePids, Stages
  <1>5. RowNamesLiveProcess'
    BY DEF RowNamesLiveProcess, TypeOK, TableType, Stages, RowsHaveOwners
  <1>6. JobsAreAccurate'
    BY DEF JobsAreAccurate, TypeOK, TableType, Stages, RowsHaveOwners, RowNamesLiveProcess, PidsAreUnique
  <1>7. DestroyedIsDead'
    BY DEF DestroyedIsDead, TypeOK, TableType, Stages, RowsHaveOwners, JobsAreAccurate
  <1>8. SuccessMeansDead'
    BY DEF SuccessMeansDead, TypeOK, Stages, RowsHaveOwners, JobsAreAccurate, DestroyedIsDead
  <1> QED
    BY <1>1, <1>2, <1>3, <1>4, <1>5, <1>6, <1>7, <1>8

\* Other processes free only their own pids.
LEMMA ForeignEndsIInv ==
  ASSUME NEW p \in Pid, IInv, ForeignEnds(p) PROVE IInv'
  <1> USE DEF IInv, ForeignEnds, helperVars, destroyVars
  <1>1. TypeOK'
    BY DEF TypeOK, TableType
  <1>2. Stages'
    BY DEF Stages, TypeOK
  <1>3. RowsHaveOwners'
    BY DEF RowsHaveOwners, TypeOK, TableType, Stages
  <1>4. PidsAreUnique'
    BY DEF PidsAreUnique, TypeOK, LivePids, Stages
  <1>5. RowNamesLiveProcess'
    BY DEF RowNamesLiveProcess, TypeOK, TableType, Stages, RowsHaveOwners
  <1>6. JobsAreAccurate'
    BY DEF JobsAreAccurate, TypeOK, TableType, Stages, RowsHaveOwners, RowNamesLiveProcess, PidsAreUnique
  <1>7. DestroyedIsDead'
    BY DEF DestroyedIsDead, TypeOK, TableType, Stages, RowsHaveOwners, JobsAreAccurate
  <1>8. SuccessMeansDead'
    BY DEF SuccessMeansDead, TypeOK, Stages, RowsHaveOwners, JobsAreAccurate, DestroyedIsDead
  <1> QED
    BY <1>1, <1>2, <1>3, <1>4, <1>5, <1>6, <1>7, <1>8

\* Every step keeps the invariant.
LEMMA NextIInv == IInv /\ [Next]_vars => IInv'
  <1> SUFFICES ASSUME IInv, [Next]_vars PROVE IInv'
    OBVIOUS
  <1>1. ASSUME NEW e \in Req, NEW u \in Uid,
               CpuResolver(e, u) \/ MemResolver(e, u)
        PROVE  IInv'
    BY <1>1, AcceptIInv DEF CpuResolver, MemResolver
  <1>2. ASSUME NEW e \in Req, Reject(e) PROVE IInv'
    BY <1>2, RejectIInv
  <1>3. ASSUME NEW e \in Req, Spawn(e) PROVE IInv'
    BY <1>3, SpawnIInv
  <1>4. ASSUME NEW e \in Req, SpawnFails(e) PROVE IInv'
    BY <1>4, SpawnFailsIInv
  <1>5. ASSUME NEW e \in Req, CpuRun(e) PROVE IInv'
    <2>1. e \in CpuReq /\ Record(e, "cpu")
      BY <1>5 DEF CpuRun
    <2> QED
      BY <2>1, RecordIInv
  <1>6. ASSUME NEW e \in Req, MemRun(e) PROVE IInv'
    <2>1. e \notin CpuReq /\ Record(e, "mem")
      BY <1>6, RequestAssumption DEF MemRun
    <2> QED
      BY <2>1, RecordIInv
  <1>7. ASSUME NEW e \in Req, TimerMark(e) PROVE IInv'
    BY <1>7, TimerMarkIInv
  <1>8. ASSUME NEW e \in Req, TimerKill(e) PROVE IInv'
    BY <1>8, TimerKillIInv
  <1>9. ASSUME NEW e \in Req, HelperDies(e) PROVE IInv'
    BY <1>9, HelperDiesIInv
  <1>10. ASSUME NEW d \in DestroyReq, NEW u \in Uid, DestroyQuery(d, u) PROVE IInv'
    BY <1>10, DestroyQueryIInv
  <1>11. ASSUME NEW d \in DestroyReq, ExperimentDestroy(d) PROVE IInv'
    BY <1>11, ExperimentDestroyIInv
  <1>12. ASSUME NEW d \in DestroyReq, DestroyUpdate(d) PROVE IInv'
    BY <1>12, DestroyUpdateIInv
  <1>13. CASE AgentRestart
    BY <1>13, AgentRestartIInv
  <1>14. ASSUME NEW p \in Pid, ForeignStarts(p) PROVE IInv'
    BY <1>14, ForeignStartsIInv
  <1>15. ASSUME NEW p \in Pid, ForeignEnds(p) PROVE IInv'
    BY <1>15, ForeignEndsIInv
  <1>16. CASE UNCHANGED vars
    BY <1>16 DEF IInv, TypeOK, TableType, Stages, RowsHaveOwners, PidsAreUnique,
       RowNamesLiveProcess, JobsAreAccurate, DestroyedIsDead, SuccessMeansDead,
       vars, helperVars, destroyVars
  <1> QED
    BY <1>1, <1>2, <1>3, <1>4, <1>5, <1>6, <1>7, <1>8, <1>9, <1>10, <1>11,
       <1>12, <1>13, <1>14, <1>15, <1>16 DEF Next, HelperStep

-----------------------------------------------------------------------------
(* The theorems *)

\* The inductive invariant holds in every reachable state.
THEOREM Invariance == Spec => []IInv
  BY InitIInv, NextIInv, PTL DEF Spec

\* Type correctness.
THEOREM TypeCorrect == Spec => []TypeOK
  <1>1. IInv => TypeOK
    BY DEF IInv
  <1> QED
    BY <1>1, Invariance, PTL

\* A row that says Destroyed never stands for a running load, for any number
\* of requests, destroy handlers and pids, any reuse of pids, any draw of
\* uids and any failing statement.
THEOREM NoDestroyedLoadRuns == Spec => []DestroyedIsDead
  <1>1. IInv => DestroyedIsDead
    BY DEF IInv
  <1> QED
    BY <1>1, Invariance, PTL

\* Whoever is answered that a destroy worked can rely on the load being gone.
THEOREM DestroyAnswersAreTrue == Spec => []SuccessMeansDead
  <1>1. IInv => SuccessMeansDead
    BY DEF IInv
  <1> QED
    BY <1>1, Invariance, PTL

\* The row of a running load always leads to its process.
THEOREM RowsLeadToProcesses == Spec => []RowNamesLiveProcess
  <1>1. IInv => RowNamesLiveProcess
    BY DEF IInv
  <1> QED
    BY <1>1, Invariance, PTL

-----------------------------------------------------------------------------
(* Uids that do not repeat *)

\* The stronger invariant holds before the first request.
LEMMA InitUInv == Init => UInv
  BY InitIInv DEF UInv, Init, TableInit, UidsAreUnique, StatusFollowsTimer, OnlyLoads

\* A step of a helper or a handler that writes no row, seen by UInv.
LEMMA QuietUInv ==
  ASSUME UInv, UNCHANGED <<table, uid, inserted>>,
         \A e \in Req : (Alive(e)' => Alive(e)) \/ ~inserted[e],
         \A e \in Req : marked'[e] = marked[e]
  PROVE  UidsAreUnique' /\ StatusFollowsTimer'
  BY DEF UInv, UidsAreUnique, StatusFollowsTimer

\* Which steps write to the table, and what they write.
LEMMA TableSteps ==
  ASSUME IInv, [Next]_vars
  PROVE  \/ UNCHANGED table
         \/ \E e \in Req, r \in Row :
               /\ pc[e] = "starting" /\ pc' = [pc EXCEPT ![e] = "burning"]
               /\ UNCHANGED uid
               /\ inserted' = [inserted EXCEPT ![e] = TRUE]
               /\ r.status = "Created" /\ r.cmdType # "script"
               /\ InsertExperimentModel(uid[e], r)
         \/ \E e \in Req :
               /\ Alive(e) /\ ~marked[e] /\ uid[e] \in Uid
               /\ UNCHANGED <<pc, uid, inserted>>
               /\ UpdateExperimentModelByUid(uid[e], "Success")
         \/ \E d \in DestroyReq :
               /\ dpc[d] = "update" /\ target[d] \in Uid /\ Stored(target[d])
               /\ \A e \in Req \ Guarded : Owns(e, target[d]) => ~Alive(e)
               /\ UNCHANGED <<pc, uid, inserted>>
               /\ UpdateExperimentModelByUid(target[d], "Destroyed")
  <1> USE DEF helperVars, destroyVars
  <1>a. TypeOK /\ Stages /\ PidsAreUnique /\ JobsAreAccurate
    BY DEF IInv
  <1>1. ASSUME NEW e \in Req, NEW type \in {"cpu", "mem"}, Record(e, type),
               ~UNCHANGED table
        PROVE  \E r \in Row :
                 /\ pc[e] = "starting" /\ pc' = [pc EXCEPT ![e] = "burning"]
                 /\ UNCHANGED uid
                 /\ inserted' = [inserted EXCEPT ![e] = TRUE]
                 /\ r.status = "Created" /\ r.cmdType # "script"
                 /\ InsertExperimentModel(uid[e], r)
    <2> DEFINE r == [status |-> "Created", cmdType |-> type, handle |-> pid[e]]
    <2>1. r \in Row /\ r.status = "Created" /\ r.cmdType # "script"
      BY <1>1, <1>a, PidAssumption DEF Row, Record, PidsAreUnique
    <2>2. /\ InsertExperimentModel(uid[e], r) /\ UNCHANGED uid
          /\ inserted' = [inserted EXCEPT ![e] = TRUE]
          /\ pc[e] = "starting" /\ pc' = [pc EXCEPT ![e] = "burning"]
      BY <1>1 DEF Record, WriteFails
    <2> HIDE DEF r
    <2> QED
      BY <2>1, <2>2
  <1>2. ASSUME NEW e \in Req, TimerMark(e), ~UNCHANGED table
        PROVE  /\ Alive(e) /\ ~marked[e] /\ uid[e] \in Uid
               /\ UNCHANGED <<pc, uid, inserted>>
               /\ UpdateExperimentModelByUid(uid[e], "Success")
    BY <1>2, <1>a DEF TimerMark, WriteFails, Stages
  <1>3. ASSUME NEW d \in DestroyReq, DestroyUpdate(d), ~UNCHANGED table
        PROVE  /\ dpc[d] = "update" /\ target[d] \in Uid /\ Stored(target[d])
               /\ \A e \in Req \ Guarded : Owns(e, target[d]) => ~Alive(e)
               /\ UNCHANGED <<pc, uid, inserted>>
               /\ UpdateExperimentModelByUid(target[d], "Destroyed")
    BY <1>3, <1>a DEF DestroyUpdate, WriteFails, JobsAreAccurate
  <1>4. \/ UNCHANGED table
        \/ \E e \in Req : CpuRun(e) \/ MemRun(e) \/ TimerMark(e)
        \/ \E d \in DestroyReq : DestroyUpdate(d)
    BY DEF Next, HelperStep, CpuResolver, MemResolver, Accept, Reject, Spawn,
       SpawnFails, TimerKill, HelperDies, DestroyQuery, ExperimentDestroy,
       AgentRestart, ForeignStarts, ForeignEnds, vars
  <1>5. \A e \in Req : CpuRun(e) \/ MemRun(e) =>
            \E type \in {"cpu", "mem"} : Record(e, type)
    BY DEF CpuRun, MemRun
  <1> QED
    BY <1>1, <1>2, <1>3, <1>4, <1>5

\* Agents without scripts store no row of a script.
LEMMA NextOnlyLoads ==
  ASSUME IInv, OnlyLoads, [Next]_vars
  PROVE  OnlyLoads'
  <1>a. TableType /\ Stages
    BY DEF IInv, TypeOK
  <1>1. CASE UNCHANGED table
    BY <1>1 DEF OnlyLoads
  <1>2. ASSUME NEW e \in Req, NEW r \in Row, pc[e] = "starting",
               r.cmdType # "script", InsertExperimentModel(uid[e], r)
        PROVE  OnlyLoads'
    <2>1. uid[e] \in Uid
      BY <1>2, <1>a DEF Stages
    <2>2. /\ table'[uid[e]] = r
          /\ \A v \in Uid : v # uid[e] => table'[v] = table[v]
      BY <1>2, <1>a, <2>1 DEF InsertExperimentModel, TableType
    <2> QED
      BY <1>2, <2>1, <2>2 DEF OnlyLoads
  <1>3. ASSUME NEW v \in Uid, NEW s \in Status, UpdateExperimentModelByUid(v, s)
        PROVE  OnlyLoads'
    BY <1>3, <1>a, UpdateLemma DEF OnlyLoads
  <1> QED
    BY <1>1, <1>2, <1>3, TableSteps

\* Every step keeps the stronger invariant, if uids do not repeat.
LEMMA NextUInv ==
  ASSUME Collide = FALSE, ReadErrors = FALSE, UInv, [Next]_vars
  PROVE  UInv'
  <1>1. IInv'
    BY NextIInv DEF UInv
  <1>o. OnlyLoads'
    BY NextOnlyLoads DEF UInv
  <1> SUFFICES UidsAreUnique' /\ StatusFollowsTimer'
    BY <1>1, <1>o DEF UInv
  <1> USE DEF helperVars, destroyVars
  <1>a. TypeOK /\ TableType /\ Stages /\ RowsHaveOwners /\ JobsAreAccurate
    BY DEF UInv, IInv, TypeOK
  <1>2. ASSUME NEW e \in Req, NEW u \in Uid, Accept(e, u)
        PROVE  UidsAreUnique' /\ StatusFollowsTimer'
    <2>1. \A x \in Req : uid[x] # u
      BY <1>2 DEF Accept, GenerateUid, Drawn, QueryExperimentModelByUid
    <2>2. UidsAreUnique'
      BY <1>2, <1>a, <2>1 DEF UInv, UidsAreUnique, Accept, TypeOK
    <2>3. StatusFollowsTimer'
      BY <1>2, <1>a DEF UInv, StatusFollowsTimer, Accept, TypeOK, Stages
    <2> QED
      BY <2>2, <2>3
  <1>3. ASSUME NEW e \in Req,
               \/ Reject(e) \/ Spawn(e) \/ SpawnFails(e)
               \/ TimerKill(e) \/ HelperDies(e)
        PROVE  UidsAreUnique' /\ StatusFollowsTimer'
    <2>1. UNCHANGED <<table, uid, inserted, marked>>
      BY <1>3 DEF Reject, Spawn, SpawnFails, TimerKill, HelperDies
    <2>2. \A x \in Req : (Alive(x)' => Alive(x)) \/ ~inserted[x]
      BY <1>3, <1>a DEF Reject, Spawn, SpawnFails, TimerKill, HelperDies, Die,
         TypeOK, Stages
    <2> QED
      BY <2>1, <2>2, QuietUInv
  <1>4. ASSUME NEW e \in Req, NEW type \in {"cpu", "mem"}, Record(e, type)
        PROVE  UidsAreUnique' /\ StatusFollowsTimer'
    <2>1. /\ uid[e] \in Uid /\ ~inserted[e] /\ pid[e] \in Handle
          /\ pc' = [pc EXCEPT ![e] = "burning"] /\ UNCHANGED <<uid, pid, marked>>
      BY <1>4, <1>a, PidAssumption
      DEF Record, Stages, TypeOK, UInv, IInv, PidsAreUnique
    <2>2. \A x \in Req : (Alive(x)' => Alive(x)) \/ ~inserted[x]
      BY <1>a, <2>1 DEF TypeOK
    <2>3. CASE UNCHANGED <<table, inserted>>
      BY <2>1, <2>2, <2>3, QuietUInv
    <2>4. ASSUME NEW r \in Row, r.status = "Created",
                 InsertExperimentModel(uid[e], r),
                 inserted' = [inserted EXCEPT ![e] = TRUE]
          PROVE  UidsAreUnique' /\ StatusFollowsTimer'
      <3>1. /\ r # NoRow /\ table'[uid[e]] = r
            /\ \A v \in Uid : v # uid[e] => table'[v] = table[v]
        BY <1>a, <2>1, <2>4, NoRowAssumption DEF InsertExperimentModel, TableType
      <3>2. \A x \in Req : inserted[x] => uid[x] # uid[e] /\ uid[x] \in Uid
        BY <1>a, <2>1, <2>4 DEF RowsHaveOwners, InsertExperimentModel, Stages
      <3>3. UidsAreUnique'
        BY <2>1 DEF UInv, UidsAreUnique
      <3>4. ASSUME NEW x \in Req \ Guarded, inserted[x]', Alive(x)', ~marked[x]'
            PROVE  HasStatus(uid[x], "Created")'
        <4>1. CASE x = e
          BY <4>1, <3>1, <2>1, <2>4
        <4>2. CASE x # e
          <5>1. inserted[x] /\ Alive(x) /\ ~marked[x]
            BY <4>2, <3>4, <2>1, <2>2, <2>4, <1>a DEF TypeOK
          <5> QED
            BY <5>1, <3>1, <3>2, <2>1 DEF UInv, StatusFollowsTimer
        <4> QED
          BY <4>1, <4>2
      <3>5. \A v \in Uid : ~HasStatus(v, "Error")'
        BY <2>1, <2>4, <3>1 DEF UInv, StatusFollowsTimer
      <3> QED
        BY <3>3, <3>4, <3>5 DEF StatusFollowsTimer
    <2>5. [status |-> "Created", cmdType |-> type, handle |-> pid[e]] \in Row
      BY <2>1 DEF Row
    <2> QED
      BY <1>4, <2>3, <2>4, <2>5 DEF Record, WriteFails
  <1>5. ASSUME NEW e \in Req, TimerMark(e)
        PROVE  UidsAreUnique' /\ StatusFollowsTimer'
    <2>1. uid[e] \in Uid /\ marked' = [marked EXCEPT ![e] = TRUE]
      BY <1>5, <1>a DEF TimerMark, Stages
    <2>2. /\ \A v \in Uid : v # uid[e] => table'[v] = table[v]
          /\ \/ table' = table
             \/ /\ Stored(uid[e]) => table'[uid[e]].status = "Success"
                /\ \A v \in Uid : Stored(v) <=> Stored(v)'
      BY <1>5, <1>a, <2>1, UpdateLemma
      DEF TimerMark, WriteFails, UpdateExperimentModelByUid
    <2>e. \A v \in Uid : ~HasStatus(v, "Error")'
      BY <2>1, <2>2 DEF UInv, StatusFollowsTimer
    <2>3. \A x \in Req \ {e} : uid[x] \in Uid => uid[x] # uid[e]
      BY <2>1, UidAssumption DEF UInv, UidsAreUnique
    <2> QED
      BY <1>5, <1>a, <2>1, <2>2, <2>3, <2>e
      DEF TimerMark, UInv, UidsAreUnique, StatusFollowsTimer, TypeOK, Stages
  <1>6. ASSUME NEW d \in DestroyReq, NEW u \in Uid, DestroyQuery(d, u)
        PROVE  UidsAreUnique' /\ StatusFollowsTimer'
    BY <1>6, QuietUInv DEF DestroyQuery
  <1>7. ASSUME NEW d \in DestroyReq, ExperimentDestroy(d)
        PROVE  UidsAreUnique' /\ StatusFollowsTimer'
    <2>1. \A x \in Req : Alive(x)' => Alive(x)
      BY <1>7, <1>a DEF ExperimentDestroy, Die, TypeOK
    <2> QED
      BY <1>7, <2>1, QuietUInv DEF ExperimentDestroy
  <1>8. ASSUME NEW d \in DestroyReq, DestroyUpdate(d)
        PROVE  UidsAreUnique' /\ StatusFollowsTimer'
    <2>1. target[d] \in Uid /\ \A x \in Req \ Guarded : Owns(x, target[d]) => ~Alive(x)
      BY <1>8, <1>a DEF DestroyUpdate, JobsAreAccurate
    <2>2. /\ \A v \in Uid : v # target[d] => table'[v] = table[v]
          /\ \/ table' = table
             \/ /\ Stored(target[d]) => table'[target[d]].status = "Destroyed"
                /\ \A v \in Uid : Stored(v) <=> Stored(v)'
      BY <1>8, <1>a, <2>1, UpdateLemma
      DEF DestroyUpdate, WriteFails, UpdateExperimentModelByUid
    <2>e. \A v \in Uid : ~HasStatus(v, "Error")'
      BY <2>1, <2>2 DEF UInv, StatusFollowsTimer
    <2> QED
      BY <1>8, <1>a, <2>1, <2>2, <2>e
      DEF DestroyUpdate, UInv, UidsAreUnique, StatusFollowsTimer, TypeOK, Stages
  <1>9. CASE AgentRestart
    BY <1>9, QuietUInv DEF AgentRestart
  <1>10. ASSUME NEW p \in Pid, ForeignStarts(p) \/ ForeignEnds(p)
         PROVE  UidsAreUnique' /\ StatusFollowsTimer'
    BY <1>10, QuietUInv DEF ForeignStarts, ForeignEnds
  <1>11. CASE UNCHANGED vars
    BY <1>11, QuietUInv DEF vars
  <1> QED
    BY <1>2, <1>3, <1>4, <1>5, <1>6, <1>7, <1>8, <1>9, <1>10, <1>11
    DEF Next, HelperStep, CpuResolver, MemResolver, CpuRun, MemRun

\* The invariant of the runs whose uids do not repeat.
THEOREM UniqueInvariance ==
  ASSUME Collide = FALSE, ReadErrors = FALSE
  PROVE  Spec => []UInv
  <1>1. UInv /\ [Next]_vars => UInv'
    BY NextUInv
  <1> QED
    BY <1>1, InitUInv, PTL DEF Spec

\* Once a row of a load that can be opened says Destroyed it says so for ever.
THEOREM DestroyedForGood ==
  ASSUME Collide = FALSE, ReadErrors = FALSE
  PROVE  Spec => DestroyedIsFinal
  <1>1. ASSUME UInv, [Next]_vars, NEW u \in Uid, Open(u), HasStatus(u, "Destroyed")
        PROVE  HasStatus(u, "Destroyed")'
    <2>a. /\ TableType /\ RowsHaveOwners /\ DestroyedIsDead /\ Stages
      BY <1>1 DEF UInv, IInv, TypeOK
    <2>1. CASE UNCHANGED table
      BY <1>1, <2>1
    <2>2. ASSUME NEW e \in Req, NEW r \in Row, InsertExperimentModel(uid[e], r)
          PROVE  HasStatus(u, "Destroyed")'
      BY <1>1, <2>2, <2>a DEF InsertExperimentModel, TableType
    <2>3. ASSUME NEW e \in Req, Alive(e), uid[e] \in Uid,
                 UpdateExperimentModelByUid(uid[e], "Success")
          PROVE  HasStatus(u, "Destroyed")'
      <3>1. PICK x \in Req \ Guarded : Owns(x, u)
        BY <1>1, <2>a DEF RowsHaveOwners, UInv, OnlyLoads, Open
      <3>2. ~Alive(x)
        BY <1>1, <2>a, <3>1 DEF DestroyedIsDead
      <3>3. uid[e] # u
        BY <1>1, <2>3, <3>1, <3>2, UidAssumption DEF UInv, UidsAreUnique
      <3>4. table'[u] = table[u]
        BY <2>a, <2>3, <3>3, UpdateLemma DEF UpdateExperimentModelByUid
      <3> QED
        BY <1>1, <3>4
    <2>4. ASSUME NEW v \in Uid, UpdateExperimentModelByUid(v, "Destroyed")
          PROVE  HasStatus(u, "Destroyed")'
      BY <1>1, <2>4, <2>a, UpdateLemma DEF UpdateExperimentModelByUid
    <2> QED
      BY <1>1, <2>1, <2>2, <2>3, <2>4, TableSteps DEF UInv
  <1>2. UInv /\ [Next]_vars =>
          [\A u \in Uid : Open(u) /\ HasStatus(u, "Destroyed") => HasStatus(u, "Destroyed")']_vars
    BY <1>1
  <1> QED
    BY <1>2, UniqueInvariance, PTL DEF Spec, DestroyedIsFinal

-----------------------------------------------------------------------------
(* The promise *)

Recorded(u) == IF Open(u) THEN table[u].status ELSE "Absent"
Running(u)  == \E e \in Req \ Guarded : Owns(e, u) /\ Alive(e)

\* How a step of the promise shows in the recorded status and the running
\* loads, uid by uid.
Others(u) == \A v \in Uid \ {u} :
    Recorded(v)' = Recorded(v) /\ (Running(v)' <=> Running(v))

Begins(u)  == Recorded(u) = "Absent" /\ Recorded(u)' = "Created" /\ Running(u)'
Expires(u) == /\ Recorded(u) = "Created" /\ Recorded(u)' = "Success"
              /\ Running(u) /\ Running(u)'
Stops(u)   == Recorded(u)' = Recorded(u) /\ Running(u) /\ ~Running(u)'
Destroys(u) == /\ Recorded(u) \in {"Created", "Success"}
               /\ Recorded(u)' = "Destroyed"
               /\ ~Running(u) /\ ~Running(u)'

\* Promise!Next, spelled out for one uid: what it asks of the row and of the
\* load under that uid.
LEMMA PromiseByUid ==
  ASSUME \/ \A v \in Uid : Recorded(v)' = Recorded(v) /\ (Running(v)' <=> Running(v))
         \/ \E u \in Uid :
               Others(u) /\ (Begins(u) \/ Expires(u) \/ Stops(u) \/ Destroys(u))
  PROVE  Promise!Next \/ UNCHANGED Promise!promiseVars
  <1> DEFINE phase == [u \in Uid |-> Recorded(u)]
             live  == {u \in Uid : Running(u)}
  <1>a. \A v \in Uid : phase[v] = Recorded(v) /\ (v \in live <=> Running(v))
    OBVIOUS
  <1>b. \A v \in Uid : phase'[v] = Recorded(v)' /\ (v \in live' <=> Running(v)')
    OBVIOUS
  <1>c. /\ phase = [v \in Uid |-> phase[v]] /\ phase' = [v \in Uid |-> phase'[v]]
        /\ live \subseteq Uid /\ live' \subseteq Uid
    OBVIOUS
  <1> HIDE DEF phase, live
  <1>1. ASSUME \A v \in Uid : Recorded(v)' = Recorded(v) /\ (Running(v)' <=> Running(v))
        PROVE  UNCHANGED Promise!promiseVars
    <2>1. phase' = phase /\ live' = live
      BY <1>1, <1>a, <1>b, <1>c
    <2> QED
      BY <2>1 DEF Promise!promiseVars, phase, live, Recorded, Running
  <1>2. ASSUME NEW u \in Uid, Others(u), Begins(u)
        PROVE  Promise!Next
    <2>1. phase' = [phase EXCEPT ![u] = "Created"]
      BY <1>2, <1>a, <1>b, <1>c DEF Others, Begins
    <2>2. live' = live \cup {u}
      BY <1>2, <1>a, <1>b, <1>c DEF Others, Begins
    <2>3. Promise!Begin(u)
      BY <1>2, <2>1, <2>2 DEF Begins, Promise!Begin, phase, live, Recorded, Running
    <2> QED
      BY <2>3 DEF Promise!Next
  <1>3. ASSUME NEW u \in Uid, Others(u), Expires(u)
        PROVE  Promise!Next
    <2>1. phase' = [phase EXCEPT ![u] = "Success"]
      BY <1>3, <1>a, <1>b, <1>c DEF Others, Expires
    <2>2. live' = live
      BY <1>3, <1>a, <1>b, <1>c DEF Others, Expires
    <2>3. Promise!Expire(u)
      BY <1>3, <2>1, <2>2 DEF Expires, Promise!Expire, phase, live, Recorded, Running
    <2> QED
      BY <2>3 DEF Promise!Next
  <1>4. ASSUME NEW u \in Uid, Others(u), Stops(u)
        PROVE  Promise!Next
    <2>1. phase' = phase
      BY <1>4, <1>a, <1>b, <1>c DEF Others, Stops
    <2>2. live' = live \ {u}
      BY <1>4, <1>a, <1>b, <1>c DEF Others, Stops
    <2>3. Promise!Stop(u)
      BY <1>4, <2>1, <2>2 DEF Stops, Promise!Stop, phase, live, Recorded, Running
    <2> QED
      BY <2>3 DEF Promise!Next
  <1>5. ASSUME NEW u \in Uid, Others(u), Destroys(u)
        PROVE  Promise!Next
    <2>1. phase' = [phase EXCEPT ![u] = "Destroyed"]
      BY <1>5, <1>a, <1>b, <1>c DEF Others, Destroys
    <2>2. live' = live
      BY <1>5, <1>a, <1>b, <1>c DEF Others, Destroys
    <2>3. Promise!Destroy(u)
      BY <1>5, <2>1, <2>2 DEF Destroys, Promise!Destroy, phase, live, Recorded, Running
    <2> QED
      BY <2>3 DEF Promise!Next
  <1> QED
    BY <1>1, <1>2, <1>3, <1>4, <1>5

Unseen  == \A v \in Uid : Recorded(v)' = Recorded(v) /\ (Running(v)' <=> Running(v))
Seen(u) == Others(u) /\ (Begins(u) \/ Expires(u) \/ Stops(u) \/ Destroys(u))

\* A row that stays where it is has the owner it had.
LEMMA OpenStays ==
  ASSUME UNCHANGED <<uid, inserted>>, NEW v \in Uid, Stored(v)' <=> Stored(v)
  PROVE  Open(v)' <=> Open(v)
  BY DEF Open

\* Every step of the system is a step of the promise for one uid, or unseen.
LEMMA StepShows ==
  ASSUME UInv, [Next]_vars
  PROVE  Unseen \/ \E u \in Uid : Seen(u)
  <1>a. /\ TypeOK /\ TableType /\ Stages /\ RowsHaveOwners /\ DestroyedIsDead
        /\ JobsAreAccurate
    BY DEF UInv, IInv, TypeOK
  <1>b. \A e \in Req : inserted[e] => uid[e] \in Uid /\ Stored(uid[e])
    BY <1>a DEF Stages, RowsHaveOwners
  <1>1. ASSUME UNCHANGED <<table, uid, inserted>>,
               \A e \in Req : inserted[e] => (Alive(e)' <=> Alive(e))
        PROVE  Unseen
    BY <1>1 DEF Unseen, Recorded, Running, Open
  <1>2. ASSUME NEW e \in Req, Alive(e), Die(e), UNCHANGED <<table, uid, inserted>>
        PROVE  Unseen \/ \E u \in Uid : Seen(u)
    <2>1. \A x \in Req \ {e} : Alive(x)' <=> Alive(x)
      BY <1>2, <1>a DEF Die, TypeOK
    <2>2. ~Alive(e)'
      BY <1>2, <1>a DEF Die, TypeOK
    <2>3. \A v \in Uid : Recorded(v)' = Recorded(v)
      BY <1>2 DEF Recorded, Open
    <2>4. CASE ~inserted[e] \/ e \in Guarded
      BY <1>2, <2>1, <2>3, <2>4 DEF Unseen, Running
    <2>5. CASE inserted[e] /\ e \notin Guarded
      <3>1. PICK w \in Uid : w = uid[e]
        BY <1>b, <2>5
      <3>2. Running(w) /\ ~Running(w)'
        BY <1>2, <1>a, <2>1, <2>2, <2>5, <3>1 DEF Running, RowsHaveOwners
      <3>3. Stops(w)
        BY <2>3, <3>2 DEF Stops
      <3>4. Others(w)
        BY <1>2, <2>1, <2>3, <3>1 DEF Others, Running
      <3> QED
        BY <3>3, <3>4 DEF Seen
    <2> QED
      BY <2>4, <2>5
  <1>3. ASSUME NEW e \in Req, NEW r \in Row,
               pc[e] = "starting", pc' = [pc EXCEPT ![e] = "burning"],
               UNCHANGED uid, inserted' = [inserted EXCEPT ![e] = TRUE],
               r.status = "Created", InsertExperimentModel(uid[e], r)
        PROVE  Unseen \/ \E u \in Uid : Seen(u)
    <2>1. uid[e] \in Uid
      BY <1>3, <1>a DEF Stages
    <2>0. PICK w \in Uid : w = uid[e]
      BY <2>1
    <2>2. /\ ~Stored(w) /\ r # NoRow /\ table'[w] = r
          /\ \A v \in Uid : v # w => table'[v] = table[v]
      BY <1>3, <1>a, <2>0, NoRowAssumption DEF InsertExperimentModel, TableType
    <2>3. \A x \in Req \ {e} : /\ inserted'[x] = inserted[x]
                              /\ Alive(x)' <=> Alive(x)
      BY <1>3, <1>a DEF TypeOK
    <2>4. inserted'[e] /\ Alive(e)'
      BY <1>3, <1>a DEF TypeOK
    <2>5. \A v \in Uid \ {w} : Open(v)' <=> Open(v)
      BY <1>3, <2>0, <2>2, <2>3, GuardedAssumption DEF Open
    <2>6. \A v \in Uid \ {w} : Recorded(v)' = Recorded(v)
      BY <2>2, <2>5 DEF Recorded
    <2>7. Recorded(w) = "Absent"
      BY <2>2 DEF Recorded, Open
    <2>8. CASE e \in Guarded
      <3>1. ~Open(w)'
        BY <1>3, <2>0, <2>4, <2>8 DEF Open
      <3>2. Recorded(w)' = "Absent"
        BY <3>1 DEF Recorded
      <3>3. \A v \in Uid : Running(v)' <=> Running(v)
        BY <1>3, <2>3, <2>8 DEF Running
      <3> QED
        BY <2>0, <2>6, <2>7, <3>2, <3>3 DEF Unseen
    <2>9. CASE e \notin Guarded
      <3>1. Open(w)'
        <4>1. Stored(w)'
          BY <2>2
        <4>2. \A x \in Guarded : ~inserted[x] \/ uid[x] # w
          BY <1>b, <2>2, GuardedAssumption
        <4>3. \A x \in Guarded : inserted'[x] = inserted[x] /\ uid'[x] = uid[x]
          <5>2. \A x \in Guarded : inserted'[x] = inserted[x]
            <6>1. \A x \in Req : x # e => inserted'[x] = inserted[x]
              BY <1>3, <1>a DEF TypeOK
            <6> TAKE x \in Guarded
            <6>2. x \in Req /\ x # e
              BY <2>9, GuardedAssumption
            <6> QED
              BY <6>1, <6>2, Zenon
          <5>3. \A x \in Guarded : uid'[x] = uid[x]
            BY <1>3, Zenon
          <5> QED
            BY <5>2, <5>3, Zenon
        <4> QED
          BY <1>3, <4>1, <4>2, <4>3 DEF Open
      <3>2. Recorded(w)' = "Created"
        BY <1>3, <2>2, <3>1 DEF Recorded
      <3>3. Running(w)'
        BY <1>3, <2>0, <2>4, <2>9 DEF Running
      <3>4. Others(w)
        BY <2>0, <2>3, <2>6, <1>3 DEF Others, Running
      <3> QED
        <4>1. Begins(w)
          BY <2>7, <3>2, <3>3 DEF Begins
        <4> QED
          BY <3>4, <4>1 DEF Seen
    <2> QED
      BY <2>8, <2>9
  <1>4. ASSUME NEW e \in Req, Alive(e), ~marked[e], uid[e] \in Uid,
               UNCHANGED <<pc, uid, inserted>>,
               UpdateExperimentModelByUid(uid[e], "Success")
        PROVE  Unseen \/ \E u \in Uid : Seen(u)
    <2>1. CASE ~Stored(uid[e])
      BY <1>4, <2>1 DEF UpdateExperimentModelByUid, Unseen, Recorded, Running, Open
    <2>2. CASE Stored(uid[e])
      <3>1. inserted[e]
        BY <1>4, <1>a, <2>2, UidAssumption
        DEF RowsHaveOwners, UInv, UidsAreUnique, OnlyLoads
      <3>2. /\ Stored(uid[e])' /\ table'[uid[e]].status = "Success"
            /\ \A v \in Uid : v # uid[e] => table'[v] = table[v]
        BY <1>4, <1>a, <2>2, UpdateLemma DEF UpdateExperimentModelByUid
      <3>3. \A v \in Uid : Stored(v)' <=> Stored(v)
        BY <1>4, <1>a, UpdateLemma DEF UpdateExperimentModelByUid
      <3>4. \A v \in Uid : Open(v)' <=> Open(v)
        BY <1>4, <3>3, OpenStays
      <3>5. \A v \in Uid : Running(v)' <=> Running(v)
        BY <1>4 DEF Running
      <3>6. Others(uid[e])
        BY <3>2, <3>4, <3>5 DEF Others, Recorded
      <3>7. CASE e \in Guarded
        <4>1. ~Open(uid[e])
          BY <3>1, <3>7 DEF Open
        <4> QED
          BY <3>4, <3>5, <3>6, <4>1 DEF Unseen, Others, Recorded
      <3>8. CASE e \notin Guarded
        <4>1. Open(uid[e])
          BY <1>4, <1>a, <2>2, <3>1, <3>8, GuardedAssumption DEF Open, RowsHaveOwners
        <4>2. HasStatus(uid[e], "Created")
          BY <1>4, <3>1, <3>8 DEF UInv, StatusFollowsTimer
        <4>3. Running(uid[e])
          BY <1>4, <3>1, <3>8 DEF Running
        <4>4. Expires(uid[e])
          BY <1>4, <3>2, <3>4, <3>5, <4>1, <4>2, <4>3 DEF Expires, Recorded
        <4> QED
          BY <1>4, <3>6, <4>4 DEF Seen
      <3> QED
        BY <3>7, <3>8
    <2> QED
      BY <2>1, <2>2
  <1>5. ASSUME NEW d \in DestroyReq, target[d] \in Uid, Stored(target[d]),
               \A e \in Req \ Guarded : Owns(e, target[d]) => ~Alive(e),
               UNCHANGED <<pc, uid, inserted>>,
               UpdateExperimentModelByUid(target[d], "Destroyed")
        PROVE  Unseen \/ \E u \in Uid : Seen(u)
    <2> DEFINE t == target[d]
    <2>0. t \in Uid /\ Stored(t) /\ ~Running(t)
      BY <1>5 DEF Running
    <2>1. /\ table'[t] # NoRow /\ table'[t].status = "Destroyed"
          /\ \A v \in Uid : v # t => table'[v] = table[v]
      BY <1>5, <1>a, UpdateLemma DEF UpdateExperimentModelByUid
    <2>2. \A v \in Uid : Running(v)' <=> Running(v)
      BY <1>5 DEF Running
    <2> HIDE DEF t
    <2>3. \A v \in Uid : Open(v)' <=> Open(v)
      <3>1. \A v \in Uid : Stored(v)' <=> Stored(v)
        BY <2>0, <2>1
      <3> QED
        BY <1>5, <3>1, OpenStays
    <2>4. PICK w \in Uid : w = t
      BY <2>0
    <2>5. \A v \in Uid \ {w} : Recorded(v)' = Recorded(v)
      BY <2>1, <2>3, <2>4 DEF Recorded
    <2>6. CASE ~Open(w)
      BY <2>2, <2>3, <2>5, <2>6 DEF Unseen, Recorded
    <2>7. CASE Open(w)
      <3>1. Recorded(w) = table[w].status /\ table[w].status \in Status
        BY <2>0, <2>4, <2>7, <1>a DEF Recorded, TableType, Row
      <3>2. Recorded(w) # "Error"
        BY <2>0, <2>4, <3>1 DEF UInv, StatusFollowsTimer
      <3>3. Recorded(w)' = "Destroyed"
        BY <2>1, <2>3, <2>4, <2>7 DEF Recorded
      <3>4. CASE Recorded(w) = "Destroyed"
        BY <2>2, <2>5, <3>3, <3>4 DEF Unseen
      <3>5. CASE Recorded(w) \in {"Created", "Success"}
        BY <2>0, <2>2, <2>4, <2>5, <3>3, <3>5 DEF Seen, Others, Destroys
      <3> QED
        BY <3>1, <3>2, <3>4, <3>5
    <2> QED
      BY <2>6, <2>7
  <1> DEFINE Quiet == /\ UNCHANGED <<table, uid, inserted>>
                      /\ \A e \in Req : inserted[e] => (Alive(e)' <=> Alive(e))
             Dies  == \E e \in Req : /\ Alive(e) /\ Die(e)
                                    /\ UNCHANGED <<table, uid, inserted>>
  <1>6. CASE UNCHANGED table
    <2> USE DEF helperVars, destroyVars
    <2>1. ASSUME NEW e \in Req, NEW u \in Uid, Accept(e, u)
          PROVE  Unseen
      <3>1. \A x \in Req : inserted[x] => uid'[x] = uid[x] /\ (Alive(x)' <=> Alive(x))
        BY <2>1, <1>a DEF Accept, Stages, TypeOK
      <3> QED
        BY <2>1, <3>1, GuardedAssumption DEF Accept, Unseen, Recorded, Running, Open
    <2>2. ASSUME NEW e \in Req, Reject(e) \/ Spawn(e) \/ SpawnFails(e)
          PROVE  Quiet
      BY <2>2, <1>a DEF Reject, Spawn, SpawnFails, Stages, TypeOK
    <2>3. ASSUME NEW e \in Req, NEW type \in {"cpu", "mem"}, Record(e, type)
          PROVE  Quiet
      <3>1. /\ uid[e] \in Uid /\ ~inserted[e] /\ pid[e] \in Handle
            /\ pc' = [pc EXCEPT ![e] = "burning"] /\ UNCHANGED uid
        BY <2>3, <1>a, PidAssumption DEF Record, Stages, TypeOK, UInv, IInv, PidsAreUnique
      <3>2. \A x \in Req : inserted[x] => (Alive(x)' <=> Alive(x))
        BY <1>a, <3>1 DEF TypeOK
      <3>3. ASSUME NEW r \in Row, InsertExperimentModel(uid[e], r)
            PROVE  FALSE
        BY <1>6, <1>a, <3>1, <3>3, NoRowAssumption DEF InsertExperimentModel, TableType
      <3>4. [status |-> "Created", cmdType |-> type, handle |-> pid[e]] \in Row
        BY <3>1 DEF Row
      <3>5. UNCHANGED inserted
        BY <2>3, <3>3, <3>4 DEF Record
      <3> QED
        BY <1>6, <3>1, <3>2, <3>5
    <2>4. ASSUME NEW e \in Req, TimerMark(e)
          PROVE  Quiet
      BY <1>6, <2>4 DEF TimerMark
    <2>5. ASSUME NEW e \in Req, TimerKill(e) \/ HelperDies(e)
          PROVE  Dies
      BY <2>5 DEF TimerKill, HelperDies
    <2>6. ASSUME NEW d \in DestroyReq, NEW u \in Uid, DestroyQuery(d, u)
          PROVE  Quiet
      BY <2>6 DEF DestroyQuery
    <2>7. ASSUME NEW d \in DestroyReq, ExperimentDestroy(d)
          PROVE  Quiet \/ Dies
      BY <2>7 DEF ExperimentDestroy
    <2>8. ASSUME NEW d \in DestroyReq, DestroyUpdate(d)
          PROVE  Quiet
      BY <1>6, <2>8 DEF DestroyUpdate
    <2>9. AgentRestart => Quiet
      BY <1>a DEF AgentRestart, Stages, TypeOK
    <2>10. ASSUME NEW p \in Pid, ForeignStarts(p) \/ ForeignEnds(p)
           PROVE  Quiet
      BY <2>10 DEF ForeignStarts, ForeignEnds
    <2>11. UNCHANGED vars => Quiet
      BY DEF vars
    <2>12. Unseen \/ Quiet \/ Dies
      <3> HIDE DEF Quiet, Dies
      <3> QED
        BY <2>1, <2>2, <2>3, <2>4, <2>5, <2>6, <2>7, <2>8, <2>9, <2>10, <2>11
        DEF Next, HelperStep, CpuResolver, MemResolver, CpuRun, MemRun
    <2> QED
      BY <1>1, <1>2, <2>12
  <1>7. CASE ~UNCHANGED table
    BY <1>3, <1>4, <1>5, <1>7, TableSteps DEF UInv
  <1> QED
    BY <1>6, <1>7

\* The recorded status and the running loads keep ExperimentPromise: a load
\* begins once and with its row, only a running load reports Success, and
\* Destroyed comes after the load and stays.
THEOREM PromiseKept ==
  ASSUME Collide = FALSE, ReadErrors = FALSE
  PROVE  Spec => KeepsPromise
  <1>1. Init => Promise!Init
    BY DEF Init, TableInit, Promise!Init, Open
  <1>2. UInv /\ [Next]_vars => [Promise!Next]_(Promise!promiseVars)
    BY StepShows, PromiseByUid DEF Unseen, Seen
  <1> QED
    BY <1>1, <1>2, UniqueInvariance, PTL DEF Spec, KeepsPromise, Promise!Spec

-----------------------------------------------------------------------------
(* Loads and scripts over one table: what a step of a load leaves alone *)

\* A step of the loads makes no row a script's, nor does it touch the
\* directory in one; and it marks none Destroyed.
LEMMA LoadTable ==
  ASSUME IInv, SwitchHolds, Next
  PROVE  \A u \in Uid :
            /\ IsScript(u)' <=> IsScript(u)
            /\ IsScript(u) => table'[u].handle = table[u].handle
            /\ IsScript(u) /\ HasStatus(u, "Destroyed")' => HasStatus(u, "Destroyed")
  <1> USE DEF IsScript
  <1>a. TableType /\ Stages
    BY DEF IInv, TypeOK
  <1>1. CASE UNCHANGED table
    BY <1>1
  <1>2. ASSUME NEW e \in Req, NEW r \in Row, pc[e] = "starting",
               r.cmdType # "script", InsertExperimentModel(uid[e], r)
        PROVE  \A u \in Uid :
            /\ IsScript(u)' <=> IsScript(u)
            /\ IsScript(u) => table'[u].handle = table[u].handle
            /\ IsScript(u) /\ HasStatus(u, "Destroyed")' => HasStatus(u, "Destroyed")
    <2>1. uid[e] \in Uid
      BY <1>2, <1>a DEF Stages
    <2>2. /\ ~Stored(uid[e]) /\ table'[uid[e]] = r
          /\ \A v \in Uid : v # uid[e] => table'[v] = table[v]
      BY <1>2, <1>a, <2>1 DEF InsertExperimentModel, TableType
    <2> QED
      BY <1>2, <2>1, <2>2
  <1>3. ASSUME NEW v \in Uid, UpdateExperimentModelByUid(v, "Success")
        PROVE  \A u \in Uid :
            /\ IsScript(u)' <=> IsScript(u)
            /\ IsScript(u) => table'[u].handle = table[u].handle
            /\ IsScript(u) /\ HasStatus(u, "Destroyed")' => HasStatus(u, "Destroyed")
    BY <1>3, <1>a, UpdateLemma
  <1>4. ASSUME NEW v \in Uid, UpdateExperimentModelByUid(v, "Destroyed"),
               ~IsScript(v)
        PROVE  \A u \in Uid :
            /\ IsScript(u)' <=> IsScript(u)
            /\ IsScript(u) => table'[u].handle = table[u].handle
            /\ IsScript(u) /\ HasStatus(u, "Destroyed")' => HasStatus(u, "Destroyed")
    BY <1>4, <1>a, UpdateLemma
  <1>5. \A d \in DestroyReq : dpc[d] = "update" => ~IsScript(target[d])
    BY DEF SwitchHolds
  <1> HIDE DEF IsScript
  <1> QED
    BY <1>1, <1>2, <1>3, <1>4, <1>5, TableSteps

\* A handler that a step leaves alone, or that is at work on a load.
LeftAlone(d) ==
    /\ dpc'[d] = dpc[d] /\ target'[d] = target[d]
    /\ victim'[d] = victim[d] /\ answer'[d] = answer[d]
AtLoad(d) ==
    sdpc[d] = "idle" /\ target'[d] \in Uid /\ ~IsScript(target'[d])

\* A step of the loads keeps what the scripts rely on.
LEMMA LoadFrame ==
  ASSUME AllInv, Next, UNCHANGED <<fileVars, sdpc>>,
         \A d \in DestroyReq : LeftAlone(d) \/ AtLoad(d)
  PROVE  AllInv'
  <1> USE DEF fileVars
  <1>a. IInv /\ ScriptTypes /\ ScriptStages /\ ScriptRows /\ SwitchHolds
        /\ RemovedIsGone /\ JobsAreAccurate /\ TypeOK
    BY DEF AllInv, IInv
  <1>b. \A u \in Uid :
            /\ IsScript(u)' <=> IsScript(u)
            /\ IsScript(u) => table'[u].handle = table[u].handle
            /\ IsScript(u) /\ HasStatus(u, "Destroyed")' => HasStatus(u, "Destroyed")
    BY <1>a, LoadTable
  <1>1. IInv'
    BY <1>a, NextIInv
  <1>2. ScriptTypes'
    BY <1>a DEF ScriptTypes
  <1>3. ScriptStages'
    BY <1>a DEF ScriptStages
  <1>4. ScriptRows'
    BY <1>a, <1>b DEF ScriptRows
  <1>5. SwitchHolds'
    <2> SUFFICES ASSUME NEW d \in DestroyReq
                 PROVE  /\ dpc'[d] # "idle" => ~IsScript(target[d])'
                        /\ sdpc[d] # "idle" =>
                              /\ dpc'[d] = "idle" /\ answer'[d] = "none"
                              /\ target'[d] \in Uid /\ IsScript(target[d])'
                              /\ victim'[d] = table'[target'[d]].handle
      BY DEF SwitchHolds
    <2>1. CASE AtLoad(d)
      BY <2>1, <1>b DEF AtLoad
    <2>2. CASE LeftAlone(d)
      <3>1. dpc[d] # "idle" => target[d] \in Uid
        BY <1>a DEF JobsAreAccurate, TypeOK
      <3> QED
        BY <2>2, <3>1, <1>a, <1>b DEF LeftAlone, SwitchHolds
    <2> QED
      BY <2>1, <2>2
  <1>6. RemovedIsGone'
    <2> SUFFICES ASSUME NEW s \in ScriptReq, recorded[s], S!Unshared(s),
                        Removed(scriptUid[s])'
                 PROVE  disk[dir[s]] = S!Nothing
      BY DEF RemovedIsGone, S!Unshared, S!Reaches, S!Nothing, S!Member
    <2>1. scriptUid[s] \in Uid /\ IsScript(scriptUid[s])
      BY <1>a DEF ScriptRows
    <2>2. Removed(scriptUid[s])
      BY <2>1, <1>b DEF Removed, LeftAlone, AtLoad
    <2> QED
      BY <2>2, <1>a DEF RemovedIsGone
  <1> QED
    BY <1>1, <1>2, <1>3, <1>4, <1>5, <1>6 DEF AllInv

\* Requests and helpers, and the other processes of the machine.
LEMMA LoadsAllInv ==
  ASSUME AllInv, Next, UNCHANGED <<fileVars, sdpc, destroyVars>>
  PROVE  AllInv'
  <1>1. \A d \in DestroyReq : LeftAlone(d)
    BY DEF LeftAlone, destroyVars
  <1> QED
    BY <1>1, LoadFrame

\* The destroy of a load, from the query to the update.
LEMMA LoadDestroyAllInv ==
  ASSUME AllInv, NEW d \in DestroyReq, UNCHANGED <<fileVars, sdpc>>,
         \/ \E u \in Uid :
               sdpc[d] = "idle" /\ ~IsScript(u) /\ DestroyQuery(d, u)
         \/ ExperimentDestroy(d)
         \/ DestroyUpdate(d)
  PROVE  AllInv'
  <1>a. TypeOK /\ JobsAreAccurate /\ SwitchHolds
    BY DEF AllInv, IInv
  <1>1. Next
    BY DEF Next
  <1>2. ASSUME NEW u \in Uid, sdpc[d] = "idle", ~IsScript(u), DestroyQuery(d, u)
        PROVE  \A x \in DestroyReq : LeftAlone(x) \/ AtLoad(x)
    <2>1. target'[d] = u
      BY <1>a, <1>2 DEF DestroyQuery, Respond, TypeOK
    <2>2. \A x \in DestroyReq \ {d} : LeftAlone(x)
      BY <1>a, <1>2 DEF DestroyQuery, Respond, TypeOK, LeftAlone
    <2> QED
      BY <1>2, <2>1, <2>2 DEF AtLoad
  <1>3. ASSUME ExperimentDestroy(d) \/ DestroyUpdate(d)
        PROVE  \A x \in DestroyReq : LeftAlone(x) \/ AtLoad(x)
    <2>1. dpc[d] \in {"kill", "update"} /\ UNCHANGED target
      BY <1>3 DEF ExperimentDestroy, DestroyUpdate, KillSucceeds, KillFails
    <2>2. AtLoad(d)
      BY <1>a, <2>1 DEF AtLoad, JobsAreAccurate, SwitchHolds, TypeOK, ScriptTypes
    <2>3. \A x \in DestroyReq \ {d} : LeftAlone(x)
      BY <1>a, <1>3 DEF ExperimentDestroy, DestroyUpdate, KillSucceeds,
         KillFails, TypeOK, LeftAlone
    <2> QED
      BY <2>2, <2>3
  <1> QED
    BY <1>1, <1>2, <1>3, LoadFrame

-----------------------------------------------------------------------------
(* What a step of a script leaves alone *)

\* A handler that is at work on a script.
AtScript(d) ==
    /\ dpc[d] = "idle"
    /\ target'[d] \in Uid
    /\ IsScript(target'[d])

\* Rows of loads, and what is a row of a script.
RowsLeftAlone ==
    /\ TableType'
    /\ \A u \in Uid : Stored(u) =>
          /\ Stored(u)'
          /\ table'[u].cmdType = table[u].cmdType
          /\ table'[u].handle = table[u].handle
          /\ IsLoad(u) /\ HasStatus(u, "Destroyed")' => HasStatus(u, "Destroyed")
    /\ \A u \in Uid : ~Stored(u) /\ Stored(u)' => IsScript(u)'

\* The scripts keep the invariant of the loads.
LEMMA ScriptFrame ==
  ASSUME IInv, RowsLeftAlone, UNCHANGED <<loadVars, dpc>>,
         target' \in [DestroyReq -> Uid \cup {NoUid}],
         victim' \in [DestroyReq -> Handle \cup {NoPid}],
         answer' \in [DestroyReq -> Answer],
         \A d \in DestroyReq : LeftAlone(d) \/ AtScript(d)
  PROVE  IInv'
  <1> USE DEF loadVars, helperVars
  <1>a. TypeOK /\ Stages /\ RowsHaveOwners /\ PidsAreUnique
        /\ RowNamesLiveProcess /\ JobsAreAccurate /\ DestroyedIsDead
        /\ SuccessMeansDead
    BY DEF IInv
  <1>b. \A u \in Uid : IsLoad(u)' <=> IsLoad(u)
    BY DEF RowsLeftAlone, IsScript
  <1>c. \A e \in Req : Owns(e, uid[e]) => IsLoad(uid[e])
    BY <1>a DEF RowsHaveOwners, Stages
  <1>d. \A e \in Req, u \in Uid : IsScript(u) => ~Owns(e, u)
    BY <1>a DEF RowsHaveOwners, IsScript
  <1>1. TypeOK'
    BY <1>a DEF TypeOK, RowsLeftAlone
  <1>2. Stages'
    BY <1>a DEF Stages
  <1>3. RowsHaveOwners'
    BY <1>a, <1>b DEF RowsHaveOwners
  <1>4. PidsAreUnique'
    BY <1>a DEF PidsAreUnique
  <1>5. RowNamesLiveProcess'
    BY <1>a, <1>c DEF RowNamesLiveProcess, RowsLeftAlone, Stages
  <1>6. JobsAreAccurate'
    <2> SUFFICES ASSUME NEW d \in DestroyReq
                 PROVE  /\ dpc[d] \in {"kill", "update"} =>
                              target'[d] \in Uid /\ Stored(target[d])'
                        /\ answer'[d] \in {"success", "already"} =>
                              target'[d] \in Uid /\ Stored(target[d])'
                        /\ \A e \in Req : Owns(e, target'[d]) /\ Alive(e) =>
                              /\ dpc[d] = "update" => e \in Guarded
                              /\ dpc[d] = "kill" => victim'[d] = pid[e]
      BY DEF JobsAreAccurate
    <2>1. CASE LeftAlone(d)
      BY <2>1, <1>a DEF JobsAreAccurate, LeftAlone, RowsLeftAlone
    <2>2. CASE AtScript(d)
      BY <2>2, <1>d DEF AtScript, RowsLeftAlone, IsScript
    <2> QED
      BY <2>1, <2>2
  <1>7. DestroyedIsDead'
    BY <1>a, <1>c DEF DestroyedIsDead, RowsLeftAlone
  <1>8. SuccessMeansDead'
    BY <1>a, <1>d DEF SuccessMeansDead, LeftAlone, AtScript
  <1> QED
    BY <1>1, <1>2, <1>3, <1>4, <1>5, <1>6, <1>7, <1>8 DEF IInv

\* Steps of scripts that reach neither the table nor a handler.
LEMMA ScriptQuiet ==
  ASSUME IInv, UNCHANGED <<table, loadVars, destroyVars>> PROVE IInv'
  BY NextIInv DEF vars, loadVars

\* Who reaches a directory does so for good.
LEMMA ReachGrows ==
  ASSUME UNCHANGED dir, \A x \in ScriptReq : archive[x] \subseteq archive'[x]
  PROVE  \A s \in ScriptReq : S!Unshared(s)' => S!Unshared(s)
  BY DEF S!Reaches, S!Unshared

\* A script moves on to another stage of its life, and that is all; should it
\* have downloaded its archive, it had none before.
LEMMA ScriptProgress ==
  ASSUME AllInv, NEW s \in ScriptReq, NEW stage \in S!PC,
         script' = [script EXCEPT ![s] = stage],
         stage # "new",
         stage # "failed" => dir[s] \in Dir,
         stage \in {"insert", "ready", "running", "report"} => scriptUid[s] \in Uid,
         recorded[s] =>
            stage \notin {"download", "untar", "list", "named", "insert"},
         archive' \in [ScriptReq -> SUBSET S!Entry],
         \A x \in ScriptReq : archive[x] \subseteq archive'[x],
         \A x \in ScriptReq : archive'[x] = archive[x] \/ (x = s /\ stage = "untar"),
         stage # "download",
         UNCHANGED <<scriptUid, dir, recorded, disk, table, loadVars,
                     destroyVars, sdpc>>
  PROVE  AllInv'
  <1>a. IInv /\ ScriptTypes /\ ScriptStages /\ ScriptRows /\ SwitchHolds
        /\ RemovedIsGone
    BY DEF AllInv
  <1>1. IInv'
    BY <1>a, ScriptQuiet
  <1>2. ScriptTypes'
    BY <1>a DEF ScriptTypes
  <1>3. ScriptStages'
    BY <1>a DEF ScriptStages, ScriptTypes
  <1>4. ScriptRows' /\ SwitchHolds'
    BY <1>a DEF ScriptRows, SwitchHolds, IsScript, destroyVars
  <1>5. RemovedIsGone'
    <2>1. \A x \in ScriptReq : S!Unshared(x)' => S!Unshared(x)
      BY ReachGrows
    <2>2. \A u : Removed(u)' => Removed(u)
      BY DEF Removed, destroyVars
    <2> QED
      BY <1>a, <2>1, <2>2 DEF RemovedIsGone, S!Nothing, S!Member
  <1> QED
    BY <1>1, <1>2, <1>3, <1>4, <1>5 DEF AllInv

\* The steps that only move a script on.
LEMMA ScriptMovesOn ==
  ASSUME AllInv, NEW s \in ScriptReq, UNCHANGED <<loadVars, dpc>>,
         \/ S!Download(s) \/ S!UnTarEnds(s) \/ S!Fails(s) \/ S!List(s)
         \/ S!WrongFormat(s) \/ S!Start(s) \/ S!Exit(s)
  PROVE  AllInv'
  <1>a. ScriptTypes /\ ScriptStages
    BY DEF AllInv
  <1> USE DEF S!Goto, S!diskVars, S!destroyVars
  <1>0. UNCHANGED <<scriptUid, dir, recorded, disk, table, loadVars,
                    destroyVars, sdpc>>
    BY DEF S!Download, S!UnTarEnds, S!Fails, S!List, S!WrongFormat, S!Start,
       S!Exit, destroyVars
  <1>1. \E stage \in {"untar", "list", "failed", "named", "running", "report"} :
           /\ script' = [script EXCEPT ![s] = stage]
           /\ stage = "untar" => script[s] = "download"
           /\ stage = "list" => script[s] = "untar"
           /\ stage = "named" => script[s] = "list"
           /\ stage = "running" => script[s] = "ready"
           /\ stage = "report" => script[s] = "running"
    BY DEF S!Download, S!UnTarEnds, S!Fails, S!List, S!WrongFormat, S!Start, S!Exit
  <1>2. PICK stage \in {"untar", "list", "failed", "named", "running", "report"} :
           /\ script' = [script EXCEPT ![s] = stage]
           /\ stage = "untar" => script[s] = "download"
           /\ stage = "list" => script[s] = "untar"
           /\ stage = "named" => script[s] = "list"
           /\ stage = "running" => script[s] = "ready"
           /\ stage = "report" => script[s] = "running"
    BY <1>1
  <1>3. stage \in S!PC /\ stage # "new"
    BY DEF S!PC
  <1>4. stage # "failed" => dir[s] \in Dir
    BY <1>a, <1>2 DEF ScriptStages
  <1>5. stage \in {"insert", "ready", "running", "report"} => scriptUid[s] \in Uid
    BY <1>a, <1>2 DEF ScriptStages
  <1>6. recorded[s] => stage \notin {"download", "untar", "list", "named", "insert"}
    BY <1>a, <1>2 DEF ScriptStages
  <1>7. /\ archive' \in [ScriptReq -> SUBSET S!Entry]
        /\ \A x \in ScriptReq : archive[x] \subseteq archive'[x]
        /\ \A x \in ScriptReq : archive'[x] = archive[x] \/ (x = s /\ stage = "untar")
    <2>1. CASE UNCHANGED archive
      BY <1>a, <2>1 DEF ScriptTypes
    <2>2. CASE S!Download(s)
      <3>1. script[s] = "download" /\ script'[s] = "untar" /\ archive[s] = {}
        BY <1>a, <2>2 DEF S!Download, ScriptTypes, ScriptStages
      <3>2. stage = "untar"
        BY <1>2, <1>a, <3>1 DEF ScriptTypes
      <3>3. PICK a \in Archives : archive' = [archive EXCEPT ![s] = a]
        BY <2>2 DEF S!Download
      <3>4. a \in SUBSET S!Entry
        BY KindAssumption
      <3> QED
        BY <1>a, <3>1, <3>2, <3>3, <3>4 DEF ScriptTypes
    <2> QED
      BY <2>1, <2>2 DEF S!UnTarEnds, S!Fails, S!List, S!WrongFormat, S!Start, S!Exit
  <1> QED
    BY <1>0, <1>2, <1>3, <1>4, <1>5, <1>6, <1>7, ScriptProgress

\* A request that is given a directory has no row; should others have been
\* given the same one, they shared it with nobody before.
LEMMA MkDirAllInv ==
  ASSUME AllInv, NEW s \in ScriptReq, NEW t \in Dir,
         UNCHANGED <<loadVars, dpc>>, S!MkDir(s, t)
  PROVE  AllInv'
  <1> USE DEF S!MkDir, S!Goto, S!destroyVars
  <1>a. IInv /\ ScriptTypes /\ ScriptStages /\ ScriptRows /\ SwitchHolds
        /\ RemovedIsGone
    BY DEF AllInv
  <1>1. IInv'
    BY <1>a, ScriptQuiet DEF destroyVars
  <1>2. ScriptTypes'
    BY <1>a DEF ScriptTypes, S!PC
  <1>3. ScriptStages'
    BY <1>a DEF ScriptStages, ScriptTypes
  <1>4. ~recorded[s] /\ dir[s] = NoPid
    BY <1>a DEF ScriptStages
  <1>5. ScriptRows' /\ SwitchHolds'
    BY <1>a, <1>4 DEF ScriptRows, SwitchHolds, IsScript, ScriptTypes
  <1>6. RemovedIsGone'
    <2> SUFFICES ASSUME NEW x \in ScriptReq, recorded[x], S!Unshared(x)',
                        Removed(scriptUid[x])
                 PROVE  disk[dir[x]] = S!Nothing /\ dir'[x] = dir[x]
      BY DEF RemovedIsGone, Removed, S!Nothing, S!Member
    <2>1. x # s /\ dir'[x] = dir[x]
      BY <1>4, <1>a DEF ScriptTypes
    <2>2. \A y \in ScriptReq \ {x} : ~S!Reaches(y, dir[x])
      <3>1. dir[x] \in Dir
        BY <1>a DEF ScriptRows
      <3>2. \A y \in ScriptReq \ {s} : dir'[y] = dir[y]
        BY <1>a DEF ScriptTypes
      <3> QED
        BY <2>1, <1>4, <3>1, <3>2, KindAssumption DEF S!Unshared, S!Reaches
    <2> QED
      BY <2>1, <2>2, <1>a DEF RemovedIsGone, S!Unshared
  <1> QED
    BY <1>1, <1>2, <1>3, <1>5, <1>6 DEF AllInv

\* What is unpacked goes to the directory of a request without a row, or to
\* one its archive leads to.
LEMMA UnTarAllInv ==
  ASSUME AllInv, NEW s \in ScriptReq, NEW m \in archive[s],
         UNCHANGED <<loadVars, dpc>>, S!UnTar(s, m)
  PROVE  AllInv'
  <1>a. IInv /\ ScriptTypes /\ ScriptStages /\ ScriptRows /\ SwitchHolds
        /\ RemovedIsGone
    BY DEF AllInv
  <1>b. /\ script[s] = "untar"
        /\ UNCHANGED <<table, script, scriptUid, dir, archive, recorded>>
        /\ UNCHANGED <<sdpc, target, victim, answer>>
    BY Zenon DEF S!UnTar, S!scriptVars, S!destroyVars
  <1>1. IInv'
    BY <1>a, <1>b, ScriptQuiet DEF destroyVars
  <1>2. ~recorded[s] /\ dir[s] \in Dir /\ m \in S!Entry
    BY <1>a, <1>b DEF ScriptStages, ScriptTypes
  <1>3. \/ UNCHANGED disk
        \/ \E t \in Dir, n \in S!Member :
              /\ S!Reaches(s, t)
              /\ disk' = [disk EXCEPT ![t][n] = @ \cup {s}]
    <2>1. CASE m.form = "s/n"
      BY <2>1 DEF S!UnTar
    <2>2. CASE m.form # "s/n"
      <3>1. S!Landing(s, m) \in Dir /\ m.n \in S!Member /\ S!Reaches(s, S!Landing(s, m))
        BY <1>2, <2>2 DEF S!Entry, S!Landing, S!Reaches
      <3>2. disk' = [disk EXCEPT ![S!Landing(s, m)][m.n] = @ \cup {s}]
        BY <2>2 DEF S!UnTar
      <3> QED
        BY <3>1, <3>2
    <2> QED
      BY <2>1, <2>2
  <1>4. ScriptTypes'
    <2>1. disk' \in [Dir -> [S!Member -> SUBSET ScriptReq]]
      <3>1. disk \in [Dir -> [S!Member -> SUBSET ScriptReq]]
        BY <1>a DEF ScriptTypes
      <3> QED
        BY <1>3, <3>1
    <2> QED
      BY <1>a, <1>b, <2>1 DEF ScriptTypes
  <1>5. ScriptStages' /\ ScriptRows' /\ SwitchHolds'
    BY <1>a, <1>b DEF ScriptStages, ScriptRows, SwitchHolds, IsScript, loadVars
  <1>6. RemovedIsGone'
    <2> SUFFICES ASSUME NEW x \in ScriptReq, recorded[x], S!Unshared(x),
                        Removed(scriptUid[x])
                 PROVE  disk'[dir[x]] = S!Nothing
      BY <1>b DEF RemovedIsGone, Removed, S!Unshared, S!Reaches, S!Nothing, S!Member
    <2>1. ~S!Reaches(s, dir[x]) /\ dir[x] \in Dir
      BY <1>a, <1>2 DEF S!Unshared, ScriptRows
    <2>2. disk'[dir[x]] = disk[dir[x]]
      BY <1>a, <1>3, <2>1 DEF ScriptTypes
    <2> QED
      BY <2>2, <1>a DEF RemovedIsGone
  <1> QED
    BY <1>1, <1>4, <1>5, <1>6 DEF AllInv

\* A request that is given a uid has no row yet.
LEMMA NameAllInv ==
  ASSUME AllInv, NEW s \in ScriptReq, NEW u \in Uid, Name(s, u)
  PROVE  AllInv'
  <1> USE DEF Name, S!Name, S!Goto, S!diskVars, S!destroyVars
  <1>a. IInv /\ ScriptTypes /\ ScriptStages /\ ScriptRows /\ SwitchHolds
        /\ RemovedIsGone
    BY DEF AllInv
  <1>1. IInv'
    BY <1>a, ScriptQuiet DEF destroyVars
  <1>2. ScriptTypes'
    BY <1>a DEF ScriptTypes, S!PC
  <1>3. ScriptStages'
    BY <1>a DEF ScriptStages, ScriptTypes
  <1>4. ~recorded[s]
    BY <1>a DEF ScriptStages
  <1>5. ScriptRows' /\ SwitchHolds'
    BY <1>a, <1>4 DEF ScriptRows, SwitchHolds, IsScript, ScriptTypes
  <1>6. RemovedIsGone'
    <2> SUFFICES ASSUME NEW x \in ScriptReq, recorded[x], S!Unshared(x),
                        Removed(scriptUid'[x])
                 PROVE  disk[dir[x]] = S!Nothing
      BY DEF RemovedIsGone, Removed, S!Unshared, S!Reaches, S!Nothing, S!Member
    <2>1. scriptUid'[x] = scriptUid[x]
      BY <1>4, <1>a DEF ScriptTypes
    <2> QED
      BY <2>1, <1>a DEF RemovedIsGone
  <1> QED
    BY <1>1, <1>2, <1>3, <1>5, <1>6 DEF AllInv

\* The INSERT of a script gives it the row, or is refused; a uid that a load
\* has taken is not free, whoever was given it first.
LEMMA InsertAllInv ==
  ASSUME AllInv, NEW s \in ScriptReq, UNCHANGED <<loadVars, dpc>>, S!Insert(s)
  PROVE  AllInv'
  <1> USE DEF S!Goto, S!diskVars, S!destroyVars
  <1>a. IInv /\ ScriptTypes /\ ScriptStages /\ ScriptRows /\ SwitchHolds
        /\ RemovedIsGone /\ TypeOK /\ JobsAreAccurate
    BY DEF AllInv, IInv
  <1>b. /\ script[s] = "insert" /\ script' = [script EXCEPT ![s] = "ready"]
        /\ scriptUid[s] \in Uid /\ dir[s] \in Dir /\ ~recorded[s]
        /\ UNCHANGED <<scriptUid, dir, archive, disk, destroyVars, sdpc>>
    BY <1>a DEF S!Insert, ScriptStages, destroyVars
  <1>1. CASE UNCHANGED <<table, recorded>>
    <2>1. "ready" \in S!PC
      BY DEF S!PC
    <2> QED
      BY <1>1, <1>a, <1>b, <2>1, ScriptProgress DEF ScriptTypes
  <1>2. ASSUME NEW r \in Row, r.status = "Created", r.cmdType = "script",
               r.handle = dir[s], InsertExperimentModel(scriptUid[s], r),
               recorded' = [recorded EXCEPT ![s] = TRUE]
        PROVE  AllInv'
    <2>1. /\ TableType' /\ ~Stored(scriptUid[s]) /\ r # NoRow
          /\ table'[scriptUid[s]] = r
          /\ \A v \in Uid : v # scriptUid[s] => table'[v] = table[v]
      BY <1>a, <1>b, <1>2, NoRowAssumption DEF InsertExperimentModel, TableType, TypeOK
    <2>2. IInv'
      <3>1. RowsLeftAlone
        BY <1>2, <2>1 DEF RowsLeftAlone, IsScript
      <3>2. \A d \in DestroyReq : LeftAlone(d)
        BY <1>b DEF LeftAlone, destroyVars
      <3> QED
        BY <1>a, <1>b, <3>1, <3>2, ScriptFrame DEF TypeOK, destroyVars
    <2>3. recorded'[s] /\ \A x \in ScriptReq \ {s} : recorded'[x] = recorded[x]
      BY <1>a, <1>2 DEF ScriptTypes
    <2>4. ScriptTypes'
      BY <1>a, <1>b, <1>2 DEF ScriptTypes, S!PC
    <2>5. ScriptStages'
      BY <1>a, <1>b, <2>3 DEF ScriptStages, ScriptTypes
    <2>6. ScriptRows'
      BY <1>a, <1>b, <1>2, <2>1, <2>3 DEF ScriptRows, IsScript
    <2>7. SwitchHolds'
      <3>1. \A d \in DestroyReq : dpc[d] # "idle" =>
               target[d] \in Uid /\ target[d] # scriptUid[s]
        BY <1>a, <2>1 DEF JobsAreAccurate, TypeOK
      <3>2. \A d \in DestroyReq : sdpc[d] # "idle" => target[d] # scriptUid[s]
        BY <1>a, <2>1 DEF SwitchHolds, IsScript
      <3> QED
        BY <1>a, <1>b, <2>1, <3>1, <3>2 DEF SwitchHolds, IsScript, destroyVars
    <2>8. RemovedIsGone'
      <3> SUFFICES ASSUME NEW x \in ScriptReq, recorded'[x], S!Unshared(x),
                          Removed(scriptUid[x])'
                   PROVE  disk[dir[x]] = S!Nothing
        BY <1>b DEF RemovedIsGone, S!Unshared, S!Reaches, S!Nothing, S!Member
      <3>1. x # s
        <4>1. ~HasStatus(scriptUid[s], "Destroyed")'
          BY <1>b, <1>2, <2>1
        <4>2. ~Removed(scriptUid[s])'
          BY <1>a, <1>b, <2>1, <4>1
          DEF Removed, JobsAreAccurate, SwitchHolds, IsScript, destroyVars
        <4> QED
          BY <4>2
      <3>2. recorded[x] /\ scriptUid[x] \in Uid /\ scriptUid[x] # scriptUid[s]
        BY <1>a, <2>1, <2>3, <3>1 DEF ScriptRows, IsScript
      <3>3. Removed(scriptUid[x])
        BY <1>b, <2>1, <3>2 DEF Removed, destroyVars
      <3> QED
        BY <1>a, <3>2, <3>3 DEF RemovedIsGone
    <2> QED
      BY <2>2, <2>4, <2>5, <2>6, <2>7, <2>8 DEF AllInv
  <1>3. [status |-> "Created", cmdType |-> "script", handle |-> dir[s]] \in Row
    BY <1>b, KindAssumption DEF Row
  <1>4. PICK r \in Row : /\ r = [status |-> "Created", cmdType |-> "script", handle |-> dir[s]]
                         /\ r.status = "Created" /\ r.cmdType = "script"
                         /\ r.handle = dir[s]
    BY <1>3
  <1> QED
    BY <1>1, <1>2, <1>4
    DEF S!Insert, S!WriteFails, S!InsertExperimentModel, S!Stored, InsertExperimentModel

\* The report of a script may reach the row of a load or of another script
\* under the same uid, but it says Success or Error.
LEMMA ReportAllInv ==
  ASSUME AllInv, NEW s \in ScriptReq, UNCHANGED <<loadVars, dpc>>, S!Report(s)
  PROVE  AllInv'
  <1> USE DEF S!Goto, S!diskVars, S!destroyVars
  <1>a. IInv /\ ScriptTypes /\ ScriptStages /\ ScriptRows /\ SwitchHolds
        /\ RemovedIsGone /\ TypeOK /\ TableType /\ JobsAreAccurate
    BY DEF AllInv, IInv, TypeOK
  <1>b. /\ scriptUid[s] \in Uid /\ dir[s] \in Dir
        /\ UNCHANGED <<scriptUid, dir, archive, recorded, disk, destroyVars, sdpc>>
    BY <1>a DEF S!Report, ScriptStages, destroyVars
  <1>c. PICK stage \in {"done", "failed"} : script' = [script EXCEPT ![s] = stage]
    BY DEF S!Report
  <1>1. CASE UNCHANGED table
    <2>1. stage \in S!PC
      BY DEF S!PC
    <2> QED
      BY <1>1, <1>a, <1>b, <1>c, <2>1, ScriptProgress DEF ScriptTypes
  <1>2. ASSUME NEW out \in {"Success", "Error"},
               UpdateExperimentModelByUid(scriptUid[s], out)
        PROVE  AllInv'
    <2>1. /\ TableType'
          /\ \A v \in Uid : Stored(v) <=> Stored(v)'
          /\ \A v \in Uid : v # scriptUid[s] => table'[v] = table[v]
          /\ \A v \in Uid : Stored(v) =>
                /\ table'[v].handle = table[v].handle
                /\ table'[v].cmdType = table[v].cmdType
          /\ Stored(scriptUid[s]) => table'[scriptUid[s]].status = out
      BY <1>a, <1>b, <1>2, UpdateLemma
    <2>2. IInv'
      <3>1. RowsLeftAlone
        BY <2>1 DEF RowsLeftAlone
      <3>2. \A d \in DestroyReq : LeftAlone(d)
        BY <1>b DEF LeftAlone, destroyVars
      <3> QED
        BY <1>a, <1>b, <3>1, <3>2, ScriptFrame DEF TypeOK, destroyVars
    <2>3. ScriptTypes' /\ ScriptStages'
      BY <1>a, <1>b, <1>c DEF ScriptTypes, ScriptStages, S!PC
    <2>4. \A u \in Uid : /\ IsScript(u)' <=> IsScript(u)
                         /\ IsScript(u) => table'[u].handle = table[u].handle
                         /\ HasStatus(u, "Destroyed")' => HasStatus(u, "Destroyed")
      BY <2>1 DEF IsScript
    <2>5. ScriptRows'
      BY <1>a, <1>b, <2>4 DEF ScriptRows
    <2>6. SwitchHolds'
      <3>1. \A d \in DestroyReq : dpc[d] # "idle" => target[d] \in Uid
        BY <1>a DEF JobsAreAccurate, TypeOK
      <3> QED
        BY <1>a, <1>b, <2>4, <3>1 DEF SwitchHolds, destroyVars
    <2>7. RemovedIsGone'
      <3> SUFFICES ASSUME NEW x \in ScriptReq, recorded[x], S!Unshared(x),
                          Removed(scriptUid[x])'
                   PROVE  disk[dir[x]] = S!Nothing
        BY <1>b DEF RemovedIsGone, S!Unshared, S!Reaches, S!Nothing, S!Member
      <3>1. Removed(scriptUid[x])
        BY <1>a, <1>b, <2>4 DEF Removed, ScriptRows, destroyVars
      <3> QED
        BY <1>a, <3>1 DEF RemovedIsGone
    <2> QED
      BY <2>2, <2>3, <2>5, <2>6, <2>7 DEF AllInv
  <1> QED
    BY <1>1, <1>2
    DEF S!Report, S!WriteFails, S!UpdateExperimentModelByUid, S!Stored,
        UpdateExperimentModelByUid

\* The destroy of a script reads the row of the script and takes its case.
LEMMA ScriptQueryAllInv ==
  ASSUME AllInv, NEW d \in DestroyReq, NEW u \in Uid, UNCHANGED <<loadVars, dpc>>,
         dpc[d] = "idle", sdpc[d] = "idle", IsScript(u), S!DestroyQuery(d, u)
  PROVE  AllInv'
  <1>a. IInv /\ ScriptTypes /\ ScriptStages /\ ScriptRows /\ SwitchHolds
        /\ RemovedIsGone /\ TypeOK /\ TableType
    BY DEF AllInv, IInv, TypeOK
  <1>b. UNCHANGED <<table, script, scriptUid, dir, archive, recorded, disk>>
    BY DEF S!DestroyQuery, S!scriptVars, S!diskVars
  <1>c. /\ table[u] # NoRow /\ table[u].handle \in Handle
        /\ \A row \in S!QueryExperimentModelByUid(u) : row # NoRow => row = table[u]
    BY <1>a DEF IsScript, TableType, Row, S!QueryExperimentModelByUid
  <1>d. /\ target' = [target EXCEPT ![d] = u]
        /\ \/ /\ UNCHANGED <<sdpc, victim>>
              /\ \E a \in {"notFound", "panic"} : answer' = [answer EXCEPT ![d] = a]
           \/ /\ UNCHANGED <<sdpc, victim>>
              /\ answer' = [answer EXCEPT ![d] = "already"]
              /\ table[u].status = "Destroyed"
           \/ /\ sdpc' = [sdpc EXCEPT ![d] = "remove"]
              /\ victim' = [victim EXCEPT ![d] = table[u].handle]
              /\ answer' = [answer EXCEPT ![d] = "none"]
    BY <1>c DEF S!DestroyQuery, S!Respond
  <1>e. \A x \in DestroyReq \ {d} : LeftAlone(x) /\ sdpc'[x] = sdpc[x]
    BY <1>a, <1>d DEF LeftAlone, TypeOK, ScriptTypes
  <1>1. IInv'
    <2>1. RowsLeftAlone
      BY <1>a, <1>b DEF RowsLeftAlone, TableType
    <2>2. /\ target' \in [DestroyReq -> Uid \cup {NoUid}]
          /\ victim' \in [DestroyReq -> Handle \cup {NoPid}]
          /\ answer' \in [DestroyReq -> Answer]
      BY <1>a, <1>c, <1>d DEF TypeOK
    <2>3. LeftAlone(d) \/ AtScript(d)
      BY <1>a, <1>c, <1>d, <2>2 DEF AtScript, LeftAlone, TypeOK
    <2> QED
      BY <1>a, <1>e, <2>1, <2>2, <2>3, ScriptFrame
  <1>2. ScriptTypes' /\ ScriptStages' /\ ScriptRows'
    BY <1>a, <1>b, <1>d DEF ScriptTypes, ScriptStages, ScriptRows, IsScript
  <1>3. SwitchHolds'
    BY <1>a, <1>b, <1>d, <1>e DEF SwitchHolds, LeftAlone, IsScript, TypeOK, ScriptTypes
  <1>4. RemovedIsGone'
    BY <1>a, <1>b, <1>d, <1>e
    DEF RemovedIsGone, Removed, LeftAlone, S!Unshared, S!Reaches, S!Nothing, S!Member, IsScript,
        TypeOK, ScriptTypes
  <1> QED
    BY <1>1, <1>2, <1>3, <1>4 DEF AllInv

\* The removal: the directory is that of the row, hence of the script.
LEMMA RemoveAllAllInv ==
  ASSUME AllInv, NEW d \in DestroyReq, UNCHANGED <<loadVars, dpc>>, S!RemoveAll(d)
  PROVE  AllInv'
  <1>a. IInv /\ ScriptTypes /\ ScriptStages /\ ScriptRows /\ SwitchHolds
        /\ RemovedIsGone /\ TypeOK /\ TableType
    BY DEF AllInv, IInv, TypeOK
  <1>b. /\ UNCHANGED <<table, script, scriptUid, dir, archive, recorded, target, victim>>
        /\ sdpc[d] = "remove"
    BY DEF S!RemoveAll, S!scriptVars
  <1>c. \/ /\ disk' = [disk EXCEPT ![victim[d]] = S!Nothing]
           /\ sdpc' = [sdpc EXCEPT ![d] = "update"]
           /\ UNCHANGED answer
        \/ /\ \E gone \in SUBSET S!Member :
                disk' = [disk EXCEPT ![victim[d]] =
                            [n \in S!Member |-> IF n \in gone THEN {} ELSE @[n]]]
           /\ sdpc' = [sdpc EXCEPT ![d] = "idle"]
           /\ answer' = [answer EXCEPT ![d] = "error"]
    BY DEF S!RemoveAll
  <1>d. /\ dpc[d] = "idle" /\ target[d] \in Uid /\ IsScript(target[d])
        /\ victim[d] = table[target[d]].handle /\ victim[d] \in Handle
    BY <1>a, <1>b DEF SwitchHolds, IsScript, TableType, Row
  <1>e. \A x \in DestroyReq \ {d} : LeftAlone(x) /\ sdpc'[x] = sdpc[x]
    BY <1>a, <1>b, <1>c DEF LeftAlone, TypeOK, ScriptTypes
  <1>f. S!Nothing \in [S!Member -> SUBSET ScriptReq]
    BY DEF S!Nothing
  <1>g. /\ disk' \in [Dir -> [S!Member -> SUBSET ScriptReq]]
        /\ \A t \in Dir : t # victim[d] => disk'[t] = disk[t]
        /\ sdpc'[d] = "update" => \A t \in Dir : t = victim[d] => disk'[t] = S!Nothing
        /\ \A t \in Dir : disk[t] = S!Nothing => disk'[t] = S!Nothing
    <2>1. CASE disk' = [disk EXCEPT ![victim[d]] = S!Nothing]
      BY <1>a, <1>f, <2>1 DEF ScriptTypes
    <2>2. ASSUME NEW gone \in SUBSET S!Member,
                 disk' = [disk EXCEPT ![victim[d]] =
                            [n \in S!Member |-> IF n \in gone THEN {} ELSE @[n]]],
                 sdpc' = [sdpc EXCEPT ![d] = "idle"]
          PROVE  /\ disk' \in [Dir -> [S!Member -> SUBSET ScriptReq]]
                 /\ \A t \in Dir : t # victim[d] => disk'[t] = disk[t]
                 /\ sdpc'[d] # "update"
                 /\ \A t \in Dir : disk[t] = S!Nothing => disk'[t] = S!Nothing
      BY <1>a, <2>2 DEF ScriptTypes, S!Nothing
    <2> QED
      BY <1>c, <2>1, <2>2
  <1>1. IInv'
    <2>1. RowsLeftAlone
      BY <1>a, <1>b DEF RowsLeftAlone, TableType
    <2>2. answer' \in [DestroyReq -> Answer]
      BY <1>a, <1>c DEF TypeOK
    <2>3. AtScript(d)
      BY <1>b, <1>d, <2>2 DEF AtScript
    <2> QED
      BY <1>a, <1>b, <1>e, <2>1, <2>2, <2>3, ScriptFrame DEF TypeOK
  <1>2. ScriptTypes' /\ ScriptStages' /\ ScriptRows'
    BY <1>a, <1>b, <1>c, <1>g DEF ScriptTypes, ScriptStages, ScriptRows, IsScript
  <1>3. SwitchHolds'
    BY <1>a, <1>b, <1>c, <1>d, <1>e
    DEF SwitchHolds, LeftAlone, IsScript, TypeOK, ScriptTypes
  <1>4. RemovedIsGone'
    <2> SUFFICES ASSUME NEW x \in ScriptReq, recorded[x], S!Unshared(x),
                        Removed(scriptUid[x])'
                 PROVE  disk'[dir[x]] = S!Nothing
      BY <1>b DEF RemovedIsGone, S!Unshared, S!Reaches, S!Nothing, S!Member
    <2>1. scriptUid[x] \in Uid /\ dir[x] \in Dir /\ table[scriptUid[x]].handle = dir[x]
      BY <1>a DEF ScriptRows
    <2>2. CASE Removed(scriptUid[x])
      BY <1>a, <1>g, <2>1, <2>2 DEF RemovedIsGone
    <2>3. CASE ~Removed(scriptUid[x])
      <3>1. target[d] = scriptUid[x] /\ sdpc'[d] = "update"
        BY <1>a, <1>b, <1>c, <1>e, <2>3 DEF Removed, LeftAlone, TypeOK
      <3> QED
        BY <1>d, <1>g, <2>1, <3>1
    <2> QED
      BY <2>2, <2>3
  <1> QED
    BY <1>1, <1>2, <1>3, <1>4 DEF AllInv

\* Destroyed is written to the row of the script whose files were removed.
LEMMA ScriptUpdateAllInv ==
  ASSUME AllInv, NEW d \in DestroyReq, UNCHANGED <<loadVars, dpc>>, S!DestroyUpdate(d)
  PROVE  AllInv'
  <1>a. IInv /\ ScriptTypes /\ ScriptStages /\ ScriptRows /\ SwitchHolds
        /\ RemovedIsGone /\ TypeOK /\ TableType /\ JobsAreAccurate
    BY DEF AllInv, IInv, TypeOK
  <1>b. /\ UNCHANGED <<script, scriptUid, dir, archive, recorded, disk, target, victim>>
        /\ sdpc[d] = "update" /\ sdpc' = [sdpc EXCEPT ![d] = "idle"]
        /\ answer' = [answer EXCEPT ![d] = "success"]
    BY DEF S!DestroyUpdate, S!scriptVars, S!diskVars
  <1>c. dpc[d] = "idle" /\ target[d] \in Uid /\ IsScript(target[d])
    BY <1>a, <1>b DEF SwitchHolds
  <1>d. /\ TableType'
        /\ \A v \in Uid : Stored(v) <=> Stored(v)'
        /\ \A v \in Uid : v # target[d] => table'[v] = table[v]
        /\ \A v \in Uid : Stored(v) =>
              /\ table'[v].handle = table[v].handle
              /\ table'[v].cmdType = table[v].cmdType
    <2>1. CASE UNCHANGED table
      BY <1>a, <2>1 DEF TableType
    <2>2. CASE UpdateExperimentModelByUid(target[d], "Destroyed")
      BY <1>a, <1>c, <2>2, UpdateLemma
    <2>3. UNCHANGED table \/ UpdateExperimentModelByUid(target[d], "Destroyed")
      BY DEF S!DestroyUpdate, S!WriteFails, S!UpdateExperimentModelByUid, S!Stored,
         UpdateExperimentModelByUid
    <2> QED
      BY <2>1, <2>2, <2>3
  <1>e. \A x \in DestroyReq \ {d} : LeftAlone(x) /\ sdpc'[x] = sdpc[x]
    BY <1>a, <1>b DEF LeftAlone, TypeOK, ScriptTypes
  <1>f. \A u \in Uid : /\ IsScript(u)' <=> IsScript(u)
                       /\ IsScript(u) => table'[u].handle = table[u].handle
    BY <1>d DEF IsScript
  <1>1. IInv'
    <2>1. RowsLeftAlone
      BY <1>c, <1>d DEF RowsLeftAlone, IsScript
    <2>2. answer' \in [DestroyReq -> Answer]
      BY <1>a, <1>b DEF TypeOK
    <2>3. AtScript(d)
      BY <1>b, <1>c DEF AtScript
    <2> QED
      BY <1>a, <1>b, <1>e, <2>1, <2>2, <2>3, ScriptFrame DEF TypeOK
  <1>2. ScriptTypes' /\ ScriptStages'
    BY <1>a, <1>b DEF ScriptTypes, ScriptStages
  <1>3. ScriptRows'
    BY <1>a, <1>b, <1>f DEF ScriptRows
  <1>4. SwitchHolds'
    <2>1. \A x \in DestroyReq : dpc[x] # "idle" => target[x] \in Uid
      BY <1>a DEF JobsAreAccurate, TypeOK
    <2> QED
      BY <1>a, <1>b, <1>e, <1>f, <2>1
      DEF SwitchHolds, LeftAlone, TypeOK, ScriptTypes
  <1>5. RemovedIsGone'
    <2> SUFFICES ASSUME NEW x \in ScriptReq, recorded[x], S!Unshared(x),
                        Removed(scriptUid[x])'
                 PROVE  disk[dir[x]] = S!Nothing
      BY <1>b DEF RemovedIsGone, S!Unshared, S!Reaches, S!Nothing, S!Member
    <2>1. scriptUid[x] \in Uid
      BY <1>a DEF ScriptRows
    <2>2. CASE target[d] = scriptUid[x]
      BY <1>a, <1>b, <2>2 DEF Removed, RemovedIsGone
    <2>3. CASE target[d] # scriptUid[x]
      <3>1. Removed(scriptUid[x])
        BY <1>b, <1>d, <1>e, <2>1, <2>3 DEF Removed, LeftAlone
      <3> QED
        BY <1>a, <3>1 DEF RemovedIsGone
    <2> QED
      BY <2>2, <2>3
  <1> QED
    BY <1>1, <1>2, <1>3, <1>4, <1>5 DEF AllInv

\* The agent takes requests, scripts and handlers of all kinds with it.
LEMMA AgentGoesDownAllInv ==
  ASSUME AllInv, AgentGoesDown PROVE AllInv'
  <1> USE DEF AgentGoesDown, S!AgentRestart, S!diskVars
  <1>a. IInv /\ ScriptTypes /\ ScriptStages /\ ScriptRows /\ SwitchHolds
        /\ RemovedIsGone
    BY DEF AllInv
  <1>1. IInv'
    BY <1>a, AgentRestartIInv
  <1>2. ScriptTypes'
    BY <1>a DEF ScriptTypes, S!PC
  <1>3. ScriptStages'
    BY <1>a DEF ScriptStages
  <1>4. ScriptRows'
    BY <1>a DEF ScriptRows, IsScript
  <1>5. SwitchHolds'
    BY DEF SwitchHolds, AgentRestart
  <1>6. RemovedIsGone'
    BY <1>a DEF RemovedIsGone, Removed, S!Unshared, S!Reaches, S!Nothing, S!Member
  <1> QED
    BY <1>1, <1>2, <1>3, <1>4, <1>5, <1>6 DEF AllInv

-----------------------------------------------------------------------------
(* The invariant of all experiments *)

\* Before the first request.
LEMMA InitAllInv == AllInit => AllInv
  <1> SUFFICES ASSUME AllInit PROVE AllInv
    OBVIOUS
  <1> USE DEF AllInit, S!Init
  <1>1. IInv
    BY InitIInv
  <1>2. ScriptTypes
    BY DEF ScriptTypes, S!PC, S!Nothing
  <1>3. ScriptStages /\ ScriptRows /\ SwitchHolds /\ RemovedIsGone
    BY DEF ScriptStages, ScriptRows, SwitchHolds, RemovedIsGone, Init
  <1> QED
    BY <1>1, <1>2, <1>3 DEF AllInv

\* Every step of every kind of experiment.
LEMMA NextAllInv == AllInv /\ [AllNext]_allVars => AllInv'
  <1> SUFFICES ASSUME AllInv, [AllNext]_allVars PROVE AllInv'
    OBVIOUS
  <1>1. ASSUME NEW e \in Req, NEW u \in Uid, Create(e, u) PROVE AllInv'
    <2>1. Next /\ UNCHANGED <<fileVars, sdpc, destroyVars>>
      BY <1>1 DEF Create, Next, CpuResolver, MemResolver, Accept
    <2> QED
      BY <2>1, LoadsAllInv
  <1>2. ASSUME NEW s \in ScriptReq, NEW u \in Uid, Name(s, u) PROVE AllInv'
    BY <1>2, NameAllInv
  <1>3. ASSUME NEW e \in Req, LoadStep(e) PROVE AllInv'
    <2>1. Next /\ UNCHANGED <<fileVars, sdpc, destroyVars>>
      BY <1>3 DEF LoadStep, Next, Reject, Spawn, SpawnFails, HelperStep,
         CpuRun, MemRun, Record, TimerMark, TimerKill, HelperDies
    <2> QED
      BY <2>1, LoadsAllInv
  <1>4. ASSUME NEW s \in ScriptReq, ScriptStep(s) PROVE AllInv'
    BY <1>4, MkDirAllInv, ScriptMovesOn, UnTarAllInv, InsertAllInv, ReportAllInv
    DEF ScriptStep
  <1>5. ASSUME NEW d \in DestroyReq, NEW u \in Uid, DestroyBegins(d, u) PROVE AllInv'
    BY <1>5, LoadDestroyAllInv, ScriptQueryAllInv DEF DestroyBegins, Choose
  <1>6. ASSUME NEW d \in DestroyReq, DestroyGoesOn(d) PROVE AllInv'
    BY <1>6, LoadDestroyAllInv, RemoveAllAllInv, ScriptUpdateAllInv
    DEF DestroyGoesOn
  <1>7. CASE AgentGoesDown
    BY <1>7, AgentGoesDownAllInv
  <1>8. ASSUME NEW p \in Pid, Foreign(p) PROVE AllInv'
    <2>1. Next /\ UNCHANGED <<fileVars, sdpc, destroyVars>>
      BY <1>8 DEF Foreign, Next, ForeignStarts, ForeignEnds
    <2> QED
      BY <2>1, LoadsAllInv
  <1>9. CASE UNCHANGED allVars
    <2>1. IInv'
      BY <1>9, NextIInv DEF AllInv, allVars
    <2>2. /\ ScriptTypes' /\ ScriptStages' /\ ScriptRows' /\ SwitchHolds'
          /\ RemovedIsGone'
      BY <1>9 DEF AllInv, ScriptTypes, ScriptStages, ScriptRows, SwitchHolds,
         RemovedIsGone, Removed, IsScript, S!Unshared, S!Reaches, S!Nothing, S!Member,
         allVars, vars, fileVars, helperVars, destroyVars
    <2> QED
      BY <2>1, <2>2 DEF AllInv
  <1> QED
    BY <1>1, <1>2, <1>3, <1>4, <1>5, <1>6, <1>7, <1>8, <1>9 DEF AllNext

\* The inductive invariant holds in every state that the requests, helpers,
\* scripts and destroys of one agent reach.
THEOREM AllInvariance == AllSpec => []AllInv
  BY InitAllInv, NextAllInv, PTL DEF AllSpec

\* A script keeps the row that leads to its directory, and a destroy that is
\* said to have worked has emptied it, though loads and scripts write to one
\* table under uids that may repeat.
THEOREM ScriptsAreGone == AllSpec => []ScriptDestroyedIsGone
  <1>1. AllInv => ScriptDestroyedIsGone
    BY DEF AllInv, ScriptRows, RemovedIsGone, Removed, ScriptDestroyedIsGone
  <1> QED
    BY <1>1, AllInvariance, PTL

\* Nor do scripts spoil what holds of loads alone: with their rows and reports
\* in the same table, a row of a load that says Destroyed is true ...
THEOREM NoDestroyedLoadRunsAmongScripts == AllSpec => []DestroyedIsDead
  <1>1. AllInv => DestroyedIsDead
    BY DEF AllInv, IInv
  <1> QED
    BY <1>1, AllInvariance, PTL

\* ... so is the answer of a destroy, though the handlers serve both kinds ...
THEOREM AnswersAreTrueAmongScripts == AllSpec => []SuccessMeansDead
  <1>1. AllInv => SuccessMeansDead
    BY DEF AllInv, IInv
  <1> QED
    BY <1>1, AllInvariance, PTL

\* ... and the row of a running load leads to its process, whatever uid a
\* script has drawn.
THEOREM RowsLeadToProcessesAmongScripts == AllSpec => []RowNamesLiveProcess
  <1>1. AllInv => RowNamesLiveProcess
    BY DEF AllInv, IInv
  <1> QED
    BY <1>1, AllInvariance, PTL
=============================================================================
