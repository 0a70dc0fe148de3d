---------------------------- MODULE ScriptsProofs ----------------------------
(* Script experiments with any number of requests, destroy handlers,        *)
(* directories and archives.                                                *)
EXTENDS Scripts, TLAPS

\* A request gets its directory first, then its file, its uid and its row; its
\* outcome is known when it reports.
Stages ==
    \A e \in ScriptReq :
        /\ dir[e] = NoDir => pc[e] \in {"new", "failed"}
        /\ pc[e] = "new" => dir[e] = NoDir
        /\ pc[e] \in {"new", "download"} => archive[e] = {}
        /\ inserted[e] => pc[e] \notin {"new", "download", "untar", "list", "named", "insert"}
        /\ pc[e] \in {"insert", "ready", "running", "report"} => uid[e] # NoUid
        /\ pc[e] \in {"named", "insert", "ready"} => file[e] # ""
        /\ pc[e] \in {"new", "download", "untar", "list", "named", "insert", "ready", "running"}
           => exit[e] = "none"
        /\ pc[e] = "report" => exit[e] # "none"

\* A row has one owner, whose directory it names.
Rows ==
    /\ \A u \in Uid : Stored(u) => \E e \in ScriptReq : Owns(e, u)
    /\ \A e \in ScriptReq : inserted[e] =>
          /\ uid[e] \in Uid /\ Stored(uid[e])
          /\ table[uid[e]].handle = dir[e] /\ dir[e] \in Dir
    /\ \A e, x \in ScriptReq : inserted[e] /\ inserted[x] /\ uid[e] = uid[x] => e = x

\* Only those who reach a directory are in its files, and only they are in what
\* is run from it.
Files ==
    /\ \A s \in Dir, n \in Member : \A x \in disk[s][n] : Reaches(x, s)
    /\ \A e \in ScriptReq : \A x \in ran[e] : Reaches(x, dir[e]) /\ dir[e] \in Dir

\* A destroy handler at work has copied the directory from a row that is there.
Jobs ==
    \A d \in DestroyReq :
        /\ dpc[d] # "idle" => /\ target[d] \in Uid /\ Stored(target[d])
                              /\ victim[d] \in Dir /\ victim[d] = table[target[d]].handle
                              /\ answer[d] = "none"
        /\ answer[d] = "success" => target[d] \in Uid /\ Stored(target[d])

\* The directory is empty from the removal on.
Clean ==
    \A d \in DestroyReq, e \in ScriptReq :
        /\ dpc[d] = "update" \/ answer[d] = "success"
        /\ Owns(e, target[d])
        /\ Unshared(e)
        => disk[dir[e]] = Nothing

SInv == TypeOK /\ Stages /\ Rows /\ Files /\ Jobs /\ Clean

\* Uids that are drawn differ, if they are looked up by queries that do not
\* break off and the generator does not repeat itself.
UidsDiffer ==
    \A e, x \in ScriptReq : uid[e] = uid[x] /\ uid[e] # NoUid => e = x

SUInv == SInv /\ UidsDiffer /\ StatusTellsOutcome

-----------------------------------------------------------------------------

USE DEF Stored, HasStatus, Owns

\* There are no requests, no rows and no files at first.
LEMMA InitEstablishes == Init => SInv /\ UidsDiffer /\ StatusTellsOutcome
  <1> SUFFICES ASSUME Init PROVE SInv /\ UidsDiffer /\ StatusTellsOutcome
    OBVIOUS
  <1> USE DEF Init, TableInit
  <1>1. TypeOK
    BY DEF TypeOK, TableType, PC, Nothing
  <1>2. Stages /\ Rows /\ Files
    BY DirAssumption, UidAssumption DEF Stages, Rows, Files, Nothing
  <1>3. Jobs /\ Clean /\ UidsDiffer /\ StatusTellsOutcome
    BY DEF Jobs, Clean, UidsDiffer, StatusTellsOutcome
  <1> QED
    BY <1>1, <1>2, <1>3 DEF SInv

\* Who reaches a directory does so for good.
LEMMA ReachGrows ==
    ASSUME UNCHANGED dir, \A x \in ScriptReq : archive[x] \subseteq archive'[x]
    PROVE  /\ \A x \in ScriptReq : \A t : Reaches(x, t) => Reaches(x, t)'
           /\ \A e \in ScriptReq : Unshared(e)' => Unshared(e)
  BY DEF Reaches, Unshared

\* A step that changes neither rows nor owners nor directories keeps what is
\* said of them.
LEMMA FrameKeeps ==
    ASSUME SInv, UNCHANGED <<table, uid, dir, inserted, diskVars, destroyVars>>,
           \A x \in ScriptReq : archive[x] \subseteq archive'[x]
    PROVE  Rows' /\ Jobs' /\ Clean'
  <1> USE DEF SInv, diskVars, destroyVars
  <1>1. Rows'
    BY DEF Rows
  <1>2. Jobs'
    BY DEF Jobs
  <1>3. Clean'
    <2>1. \A e \in ScriptReq : Unshared(e)' => Unshared(e)
      BY ReachGrows
    <2> QED
      BY <2>1 DEF Clean
  <1> QED
    BY <1>1, <1>2, <1>3

\* The steps of a request up to its uid and around the run of its file, which
\* reads from nowhere but its own directory.
LEMMA ProgressKeeps ==
    ASSUME SInv, NEW e \in ScriptReq,
           \/ Download(e) \/ UnTarEnds(e) \/ Fails(e) \/ List(e)
           \/ WrongFormat(e) \/ Start(e) \/ Exit(e)
    PROVE  /\ SInv'
           /\ UNCHANGED <<table, uid, inserted>>
           /\ StatusTellsOutcome => StatusTellsOutcome'
  <1> USE DEF SInv, Goto, diskVars, destroyVars
  <1>1. UNCHANGED <<table, uid, dir, inserted, diskVars, destroyVars>>
    BY DEF Download, UnTarEnds, Fails, List, WrongFormat, Start, Exit
  <1>0. \A x \in ScriptReq : archive[x] \subseteq archive'[x]
    <2>1. CASE Download(e)
      <3>1. archive[e] = {}
        BY <2>1 DEF Download, Stages
      <3>2. \A x \in ScriptReq \ {e} : archive'[x] = archive[x]
        BY <2>1 DEF Download, TypeOK
      <3> QED
        BY <3>1, <3>2
    <2>2. CASE ~Download(e)
      BY <2>2 DEF UnTarEnds, Fails, List, WrongFormat, Start, Exit
    <2> QED
      BY <2>1, <2>2
  <1>2. Rows' /\ Jobs' /\ Clean'
    BY <1>0, <1>1, FrameKeeps
  <1>3. \A x \in ScriptReq : \A t : Reaches(x, t) => Reaches(x, t)'
    BY <1>0, <1>1, ReachGrows
  <1>p. pc \in [ScriptReq -> PC]
    BY DEF TypeOK
  <1>l. archive \in [ScriptReq -> SUBSET Entry]
    BY DEF TypeOK
  <1>f. file \in [ScriptReq -> Member \cup {""}]
    BY DEF TypeOK
  <1>r. ran \in [ScriptReq -> SUBSET ScriptReq]
    BY DEF TypeOK
  <1>x. exit \in [ScriptReq -> {"none", "ok", "fail"}]
    BY DEF TypeOK
  <1>d. dir \in [ScriptReq -> Dir \cup {NoDir}] /\ disk \in [Dir -> [Member -> SUBSET ScriptReq]]
    BY DEF TypeOK
  <1>4. CASE Download(e) \/ UnTarEnds(e) \/ Fails(e)
    <2>1. /\ pc[e] \in {"new", "download", "untar", "named"}
          /\ \E stage \in {"untar", "list", "failed"} :
                /\ pc' = [pc EXCEPT ![e] = stage]
                /\ pc[e] = "new" => stage = "failed"
          /\ \/ archive' = archive
             \/ \E set \in SUBSET Entry : archive' = [archive EXCEPT ![e] = set]
          /\ UNCHANGED <<file, ran, exit>>
      BY <1>4, ArchivesAssumption, Zenon DEF Download, UnTarEnds, Fails
    <2>2. /\ pc' \in [ScriptReq -> PC] /\ pc'[e] \in {"untar", "list", "failed"}
          /\ pc[e] = "new" => pc'[e] = "failed"
          /\ \A x \in ScriptReq \ {e} : pc'[x] = pc[x] /\ archive'[x] = archive[x]
          /\ archive' \in [ScriptReq -> SUBSET Entry]
      <3>1. PICK stage \in {"untar", "list", "failed"} :
               /\ pc' = [pc EXCEPT ![e] = stage]
               /\ pc[e] = "new" => stage = "failed"
        BY <2>1
      <3>2. stage \in PC
        BY DEF PC
      <3>3. /\ archive' \in [ScriptReq -> SUBSET Entry]
            /\ \A x \in ScriptReq \ {e} : archive'[x] = archive[x]
        BY <1>l, <2>1
      <3> QED
        BY <1>p, <3>1, <3>2, <3>3
    <2>3. TypeOK'
      BY <1>1, <2>1, <2>2 DEF TypeOK, TableType
    <2>4. Stages'
      BY <1>1, <2>1, <2>2 DEF Stages
    <2>5. Files'
      BY <1>1, <1>3, <1>d, <1>r, <2>1 DEF Files
    <2> QED
      BY <1>1, <1>2, <2>1, <2>3, <2>4, <2>5 DEF StatusTellsOutcome
  <1>5. CASE List(e)
    <2>1. /\ pc[e] = "list"
          /\ \E stage \in {"named", "failed"} :
                /\ pc' = [pc EXCEPT ![e] = stage]
                /\ \/ stage = "failed" /\ file' = file
                   \/ \E m \in Member : file' = [file EXCEPT ![e] = m]
          /\ UNCHANGED <<archive, ran, exit>>
      <3>1. ListDir(dir[e]) \in Member \cup {""}
        BY DEF ListDir, Member
      <3>2. \A recover \in BOOLEAN, main \in Member : FileToRun(recover, main) \in Member
        BY DEF FileToRun, Member
      <3> QED
        BY <1>5, <3>1, <3>2 DEF List
    <2>2. /\ pc' \in [ScriptReq -> PC] /\ pc'[e] \in {"named", "failed"}
          /\ \A x \in ScriptReq \ {e} : pc'[x] = pc[x] /\ file'[x] = file[x]
          /\ file' \in [ScriptReq -> Member \cup {""}]
          /\ pc'[e] = "named" => file'[e] # ""
      <3>1. "" \notin Member
        BY DEF Member
      <3>2. PICK stage \in {"named", "failed"} :
               /\ pc' = [pc EXCEPT ![e] = stage]
               /\ \/ stage = "failed" /\ file' = file
                  \/ \E m \in Member : file' = [file EXCEPT ![e] = m]
        BY <2>1
      <3>3. pc' \in [ScriptReq -> PC] /\ pc'[e] = stage /\ \A x \in ScriptReq \ {e} : pc'[x] = pc[x]
        BY <1>p, <3>2 DEF PC
      <3>4. CASE stage = "failed" /\ file' = file
        BY <1>f, <3>2, <3>3, <3>4
      <3>5. ASSUME NEW m \in Member, file' = [file EXCEPT ![e] = m]
            PROVE  /\ file' \in [ScriptReq -> Member \cup {""}] /\ file'[e] = m
                   /\ \A x \in ScriptReq \ {e} : file'[x] = file[x]
        BY <1>f, <3>5
      <3> QED
        BY <3>1, <3>2, <3>3, <3>4, <3>5
    <2>3. TypeOK'
      BY <1>1, <2>1, <2>2 DEF TypeOK, TableType
    <2>4. Stages'
      BY <1>1, <2>1, <2>2 DEF Stages
    <2>5. Files'
      BY <1>1, <1>3, <1>d, <1>r, <2>1 DEF Files
    <2> QED
      BY <1>1, <1>2, <2>1, <2>3, <2>4, <2>5 DEF StatusTellsOutcome
  <1>6. CASE WrongFormat(e) \/ Start(e)
    <2>1. /\ pc[e] = "ready"
          /\ \E stage \in {"running", "failed"} : pc' = [pc EXCEPT ![e] = stage]
          /\ \/ ran' = ran
             \/ \E set \in SUBSET disk[dir[e]][file[e]] : ran' = [ran EXCEPT ![e] = set]
          /\ UNCHANGED <<archive, file, exit>>
      BY <1>6 DEF WrongFormat, Start
    <2>2. /\ pc' \in [ScriptReq -> PC] /\ pc'[e] \in {"running", "failed"}
          /\ \A x \in ScriptReq \ {e} : pc'[x] = pc[x]
      <3>1. {"running", "failed"} \subseteq PC
        BY DEF PC
      <3> QED
        BY <1>p, <2>1, <3>1
    <2>3. dir[e] \in Dir /\ file[e] \in Member
      BY <1>d, <1>f, <2>1 DEF Stages
    <2>4. /\ disk[dir[e]][file[e]] \in SUBSET ScriptReq
          /\ \A x \in disk[dir[e]][file[e]] : Reaches(x, dir[e])
      <3>1. disk[dir[e]][file[e]] \in SUBSET ScriptReq
        BY <1>d, <2>3
      <3>2. \A x \in disk[dir[e]][file[e]] : Reaches(x, dir[e])
        BY <2>3, Zenon DEF Files
      <3> QED
        BY <3>1, <3>2
    <2>5. /\ ran' \in [ScriptReq -> SUBSET ScriptReq]
          /\ \A x \in ScriptReq : ran'[x] = ran[x] \/ (x = e /\ ran'[x] \subseteq disk[dir[e]][file[e]])
      <3>1. CASE ran' = ran
        BY <1>r, <3>1
      <3>2. ASSUME NEW set \in SUBSET disk[dir[e]][file[e]], ran' = [ran EXCEPT ![e] = set]
            PROVE  /\ ran' \in [ScriptReq -> SUBSET ScriptReq] /\ ran'[e] = set
                   /\ \A x \in ScriptReq \ {e} : ran'[x] = ran[x]
        <4>1. set \in SUBSET ScriptReq
          BY <2>4
        <4> QED
          BY <1>r, <3>2, <4>1
      <3> QED
        BY <2>1, <3>1, <3>2
    <2>6. TypeOK'
      BY <1>1, <2>1, <2>2, <2>5 DEF TypeOK, TableType
    <2>7. Stages'
      BY <1>1, <2>1, <2>2 DEF Stages
    <2>8. Files'
      BY <1>1, <1>3, <1>d, <1>r, <2>3, <2>4, <2>5 DEF Files
    <2> QED
      BY <1>1, <1>2, <2>1, <2>6, <2>7, <2>8 DEF StatusTellsOutcome
  <1>7. CASE Exit(e)
    <2>1. /\ pc[e] = "running"
          /\ pc' = [pc EXCEPT ![e] = "report"]
          /\ \E outcome \in {"ok", "fail"} : exit' = [exit EXCEPT ![e] = outcome]
          /\ UNCHANGED <<archive, file, ran>>
      BY <1>7, Zenon DEF Exit
    <2>2. /\ pc' \in [ScriptReq -> PC] /\ pc'[e] = "report"
          /\ \A x \in ScriptReq \ {e} : pc'[x] = pc[x] /\ exit'[x] = exit[x]
          /\ exit' \in [ScriptReq -> {"none", "ok", "fail"}] /\ exit'[e] # "none"
          /\ exit[e] = "none"
      <3>1. "report" \in PC
        BY DEF PC
      <3>2. exit[e] = "none"
        BY <2>1 DEF Stages
      <3>3. PICK outcome \in {"ok", "fail"} : exit' = [exit EXCEPT ![e] = outcome]
        BY <2>1
      <3> QED
        BY <1>p, <1>x, <2>1, <3>1, <3>2, <3>3
    <2>3. TypeOK'
      BY <1>1, <2>1, <2>2 DEF TypeOK, TableType
    <2>4. Stages'
      BY <1>1, <2>1, <2>2 DEF Stages
    <2>5. Files'
      BY <1>1, <1>3, <1>d, <1>r, <2>1 DEF Files
    <2>6. StatusTellsOutcome => StatusTellsOutcome'
      BY <1>1, <2>2 DEF StatusTellsOutcome
    <2> QED
      BY <1>1, <1>2, <2>3, <2>4, <2>5, <2>6
  <1> QED
    BY <1>4, <1>5, <1>6, <1>7

\* A request makes its directory or finds it: whoever shares it then has not
\* been alone in it since.
LEMMA MkDirKeeps ==
    ASSUME SInv, NEW e \in ScriptReq, NEW s \in Dir, MkDir(e, s)
    PROVE  SInv' /\ (StatusTellsOutcome => StatusTellsOutcome')
  <1> USE DEF SInv
  <1>1. /\ pc[e] = "new" /\ pc' = [pc EXCEPT ![e] = "download"]
        /\ dir' = [dir EXCEPT ![e] = s]
        /\ present' = present \cup {s}
        /\ UNCHANGED <<table, uid, archive, file, inserted, ran, exit, disk>>
        /\ UNCHANGED <<dpc, target, victim, answer>>
    BY Zenon DEF MkDir, Goto, destroyVars
  <1>2. /\ pc' \in [ScriptReq -> PC] /\ pc'[e] = "download"
        /\ \A x \in ScriptReq \ {e} : pc'[x] = pc[x]
    <2>1. pc \in [ScriptReq -> PC]
      BY DEF TypeOK
    <2> QED
      BY <1>1, <2>1 DEF PC
  <1>3. /\ dir' \in [ScriptReq -> Dir \cup {NoDir}] /\ dir'[e] = s
        /\ \A x \in ScriptReq \ {e} : dir'[x] = dir[x]
    <2>1. dir \in [ScriptReq -> Dir \cup {NoDir}]
      BY DEF TypeOK
    <2> QED
      BY <1>1, <2>1
  <1>4. dir[e] = NoDir /\ ~inserted[e] /\ exit[e] = "none"
    BY <1>1 DEF Stages
  <1>5. TypeOK'
    BY <1>1, <1>2, <1>3 DEF TypeOK, TableType
  <1>6. Stages'
    BY <1>1, <1>2, <1>3, <1>4, DirAssumption DEF Stages
  <1>7. Rows'
    BY <1>1, <1>3, <1>4 DEF Rows
  <1>8. Files'
    <2>1. /\ \A r \in Dir, n \in Member : disk[r][n] \subseteq ScriptReq
          /\ \A x \in ScriptReq : ran[x] \subseteq ScriptReq
      <3>1. /\ disk \in [Dir -> [Member -> SUBSET ScriptReq]]
            /\ ran \in [ScriptReq -> SUBSET ScriptReq]
        BY DEF TypeOK
      <3> QED
        BY <3>1
    <2>2. \A x \in ScriptReq : dir[x] \in Dir => dir'[x] = dir[x]
      BY <1>3, <1>4, DirAssumption
    <2>3. \A r \in Dir : \A x \in ScriptReq : Reaches(x, r) => Reaches(x, r)'
      BY <1>1, <2>2 DEF Reaches
    <2>4. \A r \in Dir, n \in Member : \A x \in disk'[r][n] : Reaches(x, r)'
      BY <1>1, <2>1, <2>3 DEF Files
    <2>5. \A y \in ScriptReq : \A x \in ran'[y] : Reaches(x, dir[y])' /\ dir'[y] \in Dir
      BY <1>1, <2>1, <2>2, <2>3 DEF Files
    <2> QED
      BY <2>4, <2>5 DEF Files
  <1>9. Jobs'
    BY <1>1 DEF Jobs
  <1>10. Clean'
    <2>1. \A x \in ScriptReq : inserted[x] => dir'[x] = dir[x] /\ (Unshared(x)' => Unshared(x))
      BY <1>1, <1>3, <1>4, DirAssumption DEF Unshared, Reaches, Rows
    <2> QED
      BY <1>1, <2>1 DEF Clean
  <1>11. StatusTellsOutcome => StatusTellsOutcome'
    BY <1>1 DEF StatusTellsOutcome
  <1> QED
    BY <1>5, <1>6, <1>7, <1>8, <1>9, <1>10, <1>11

\* A request that unpacks reaches where it writes, and has no row yet, so it
\* spoils nobody's cleaning up.
LEMMA UnTarKeeps ==
    ASSUME SInv, NEW e \in ScriptReq, NEW m \in archive[e], UnTar(e, m)
    PROVE  SInv' /\ (StatusTellsOutcome => StatusTellsOutcome')
  <1> USE DEF SInv
  <1>1. /\ pc[e] = "untar"
        /\ UNCHANGED <<table, pc, uid, dir, archive, file, inserted, ran, exit>>
        /\ UNCHANGED <<dpc, target, victim, answer>>
    BY Zenon DEF UnTar, scriptVars, destroyVars
  <1>2. dir[e] \in Dir /\ ~inserted[e]
    BY <1>1 DEF Stages, TypeOK
  <1>3. disk \in [Dir -> [Member -> SUBSET ScriptReq]] /\ present \in SUBSET Dir
    BY DEF TypeOK
  <1>4. m \in Entry
    BY DEF TypeOK
  <1>5. CASE m.form = "s/n"
    <2>1. m.s \in Dir
      BY <1>4, <1>5 DEF Entry
    <2>2. present' \in SUBSET Dir /\ UNCHANGED disk
      BY <1>3, <1>5, <2>1 DEF UnTar
    <2>3. TypeOK'
      BY <1>1, <2>2 DEF TypeOK, TableType
    <2>4. Stages' /\ Rows' /\ Jobs'
      BY <1>1 DEF Stages, Rows, Jobs
    <2>5. Files' /\ Clean'
      BY <1>1, <2>2 DEF Files, Clean, Unshared, Reaches
    <2> QED
      BY <1>1, <2>3, <2>4, <2>5 DEF StatusTellsOutcome
  <1>6. CASE m.form # "s/n"
    <2> DEFINE t == Landing(e, m)
    <2>1. t \in Dir /\ m.n \in Member /\ Reaches(e, t)
      BY <1>2, <1>4, <1>6 DEF Entry, Landing, Reaches
    <2>2. disk' = [disk EXCEPT ![t][m.n] = @ \cup {e}] /\ UNCHANGED present
      BY <1>6 DEF UnTar
    <2> HIDE DEF t
    <2>3. /\ disk' \in [Dir -> [Member -> SUBSET ScriptReq]]
          /\ \A s \in Dir \ {t} : disk'[s] = disk[s]
          /\ \A n \in Member : disk'[t][n] \subseteq disk[t][n] \cup {e}
      BY <1>3, <2>1, <2>2
    <2>4. TypeOK'
      BY <1>1, <2>2, <2>3 DEF TypeOK, TableType
    <2>5. Stages' /\ Rows' /\ Jobs'
      BY <1>1 DEF Stages, Rows, Jobs
    <2>6. Files'
      BY <1>1, <2>1, <2>3 DEF Files, Reaches
    <2>7. Clean'
      <3>1. \A x \in ScriptReq : inserted[x] /\ Unshared(x) => dir[x] \in Dir \ {t}
        BY <1>2, <2>1 DEF Unshared, Rows
      <3> QED
        BY <1>1, <2>3, <3>1 DEF Clean, Unshared, Reaches
    <2> QED
      BY <1>1, <2>4, <2>5, <2>6, <2>7 DEF StatusTellsOutcome
  <1> QED
    BY <1>5, <1>6

\* A uid is drawn before the request has a row.
LEMMA NameKeeps ==
    ASSUME SInv, NEW e \in ScriptReq, NEW u \in Uid, Name(e, u)
    PROVE  SInv' /\ (StatusTellsOutcome => StatusTellsOutcome')
  <1> USE DEF SInv
  <1>1. /\ pc[e] = "named" /\ pc' = [pc EXCEPT ![e] = "insert"]
        /\ uid' = [uid EXCEPT ![e] = u]
        /\ UNCHANGED <<table, dir, archive, file, inserted, ran, exit, disk, present>>
        /\ UNCHANGED <<dpc, target, victim, answer>>
    BY Zenon DEF Name, Goto, destroyVars, diskVars
  <1>2. /\ pc' \in [ScriptReq -> PC] /\ pc'[e] = "insert"
        /\ \A x \in ScriptReq \ {e} : pc'[x] = pc[x]
    <2>1. pc \in [ScriptReq -> PC]
      BY DEF TypeOK
    <2> QED
      BY <1>1, <2>1 DEF PC
  <1>3. /\ uid' \in [ScriptReq -> Uid \cup {NoUid}] /\ uid'[e] = u /\ u # NoUid
        /\ \A x \in ScriptReq \ {e} : uid'[x] = uid[x]
    <2>1. uid \in [ScriptReq -> Uid \cup {NoUid}]
      BY DEF TypeOK
    <2> QED
      BY <1>1, <2>1, UidAssumption
  <1>4. ~inserted[e]
    BY <1>1 DEF Stages
  <1>5. TypeOK'
    BY <1>1, <1>2, <1>3 DEF TypeOK, TableType
  <1>6. Stages'
    BY <1>1, <1>2, <1>3, <1>4 DEF Stages
  <1>7. \A x \in ScriptReq : \A v : inserted'[x] /\ uid'[x] = v <=> inserted[x] /\ uid[x] = v
    BY <1>1, <1>3, <1>4
  <1>8. Rows'
    BY <1>1, <1>3, <1>4 DEF Rows
  <1>9. Files' /\ Jobs'
    BY <1>1 DEF Files, Reaches, Jobs
  <1>10. Clean'
    BY <1>1, <1>7 DEF Clean, Unshared, Reaches
  <1>11. StatusTellsOutcome => StatusTellsOutcome'
    BY <1>1, <1>7 DEF StatusTellsOutcome
  <1> QED
    BY <1>5, <1>6, <1>8, <1>9, <1>10, <1>11

-----------------------------------------------------------------------------

\* An UPDATE changes at most the status of the row it names.
LEMMA UpdateLemma ==
    ASSUME TableType, NEW u \in Uid, NEW s \in Status,
           UpdateExperimentModelByUid(u, s) \/ WriteFails
    PROVE  /\ TableType'
           /\ \A v \in Uid : Stored(v)' <=> Stored(v)
           /\ \A v \in Uid : v # u => table'[v] = table[v]
           /\ \A v \in Uid : Stored(v) => table'[v].handle = table[v].handle
           /\ \/ \A v \in Uid : table'[v] = table[v]
              \/ Stored(u) /\ table'[u].status = s
  <1> USE DEF TableType
  <1>1. CASE UpdateExperimentModelByUid(u, s) /\ Stored(u)
    <2> DEFINE r == [table[u] EXCEPT !.status = s]
    <2>1. table[u] \in Row
      BY <1>1
    <2>2. r \in Row /\ r.status = s /\ r.handle = table[u].handle
      BY <2>1 DEF Row
    <2>3. r # NoRow
      BY <2>2, NoRowAssumption
    <2>4. table' = [table EXCEPT ![u] = r]
      BY <1>1 DEF UpdateExperimentModelByUid
    <2> HIDE DEF r
    <2> QED
      BY <1>1, <2>2, <2>3, <2>4
  <1>2. CASE UNCHANGED table
    BY <1>2
  <1> QED
    BY <1>1, <1>2 DEF UpdateExperimentModelByUid, WriteFails

\* What such a write leaves as it was.
LEMMA UpdateKeeps ==
    ASSUME SInv, NEW u \in Uid, NEW s \in Status,
           UpdateExperimentModelByUid(u, s) \/ WriteFails,
           UNCHANGED <<uid, dir, inserted, diskVars, target, victim>>
    PROVE  TableType' /\ Rows'
           /\ \A v \in Uid : Stored(v) => Stored(v)' /\ table'[v].handle = table[v].handle
  <1> USE DEF SInv
  <1>1. TableType
    BY DEF TypeOK
  <1>2. /\ TableType'
        /\ \A v \in Uid : Stored(v)' <=> Stored(v)
        /\ \A v \in Uid : Stored(v) => table'[v].handle = table[v].handle
    BY <1>1, UpdateLemma
  <1>3. UNCHANGED <<uid, dir, inserted>>
    OBVIOUS
  <1>4. Rows'
    BY <1>2, <1>3 DEF Rows
  <1> QED
    BY <1>2, <1>4

\* The row of a request names its directory, and no row has its uid before.
LEMMA InsertKeeps ==
    ASSUME SInv, NEW e \in ScriptReq, Insert(e)
    PROVE  /\ SInv' /\ UNCHANGED uid
           /\ StatusTellsOutcome => StatusTellsOutcome'
  <1> USE DEF SInv
  <1> DEFINE row == [status |-> "Created", cmdType |-> "script", handle |-> dir[e]]
  <1>1. /\ pc[e] = "insert" /\ pc' = [pc EXCEPT ![e] = "ready"]
        /\ UNCHANGED <<uid, dir, archive, file, ran, exit, disk, present>>
        /\ UNCHANGED <<dpc, target, victim, answer>>
        /\ \/ /\ ~Stored(uid[e]) /\ table' = [table EXCEPT ![uid[e]] = row]
              /\ inserted' = [inserted EXCEPT ![e] = TRUE]
           \/ UNCHANGED <<table, inserted>>
    BY Zenon DEF Insert, Goto, destroyVars, diskVars, InsertExperimentModel, WriteFails
  <1>2. /\ pc' \in [ScriptReq -> PC] /\ pc'[e] = "ready"
        /\ \A x \in ScriptReq \ {e} : pc'[x] = pc[x]
    <2>1. pc \in [ScriptReq -> PC]
      BY DEF TypeOK
    <2> QED
      BY <1>1, <2>1 DEF PC
  <1>3. dir[e] \in Dir /\ uid[e] \in Uid /\ ~inserted[e]
    BY <1>1 DEF Stages, TypeOK
  <1>4. row \in Row /\ row # NoRow /\ row.handle = dir[e] /\ row.status = "Created"
    BY <1>3, DirAssumption, NoRowAssumption DEF Row, Status, CmdType
  <1>5. CASE UNCHANGED <<table, inserted>>
    <2>1. TypeOK'
      BY <1>1, <1>2, <1>5 DEF TypeOK, TableType
    <2>2. Stages'
      BY <1>1, <1>2, <1>5 DEF Stages
    <2>3. UNCHANGED <<table, uid, dir, inserted, diskVars, destroyVars>>
      BY <1>1, <1>5 DEF diskVars, destroyVars
    <2>4. Files' /\ (StatusTellsOutcome => StatusTellsOutcome')
      BY <1>1, <1>5 DEF Files, Reaches, StatusTellsOutcome
    <2> QED
      BY <1>1, <2>1, <2>2, <2>3, <2>4, FrameKeeps
  <1>6. CASE /\ ~Stored(uid[e]) /\ table' = [table EXCEPT ![uid[e]] = row]
             /\ inserted' = [inserted EXCEPT ![e] = TRUE]
    <2> HIDE DEF row
    <2>1. /\ table \in [Uid -> Row \cup {NoRow}] /\ inserted \in [ScriptReq -> BOOLEAN]
      BY DEF TypeOK, TableType
    <2>2. /\ TableType' /\ table'[uid[e]] = row
          /\ \A v \in Uid \ {uid[e]} : table'[v] = table[v]
      BY <1>3, <1>4, <1>6, <2>1 DEF TableType
    <2>3. /\ inserted' \in [ScriptReq -> BOOLEAN] /\ inserted'[e]
          /\ \A x \in ScriptReq \ {e} : inserted'[x] = inserted[x]
      BY <1>6, <2>1
    <2>4. TypeOK'
      BY <1>1, <1>2, <2>2, <2>3 DEF TypeOK
    <2>5. Stages'
      <3>1. \A x \in ScriptReq : inserted'[x] =>
               pc'[x] \notin {"new", "download", "untar", "list", "named", "insert"}
        BY <1>2, <2>3 DEF Stages
      <3> QED
        BY <1>1, <1>2, <3>1 DEF Stages
    <2>6. \A x \in ScriptReq : inserted[x] => uid[x] # uid[e]
      BY <1>6 DEF Rows
    <2>7. Rows'
      <3>1. \A u \in Uid : Stored(u)' => \E x \in ScriptReq : Owns(x, u)'
        BY <1>1, <2>2, <2>3 DEF Rows
      <3>2. \A x \in ScriptReq : inserted'[x] =>
               /\ uid'[x] \in Uid /\ Stored(uid[x])'
               /\ table'[uid'[x]].handle = dir'[x] /\ dir'[x] \in Dir
        BY <1>1, <1>3, <1>4, <2>2, <2>3, <2>6 DEF Rows
      <3>3. \A x, y \in ScriptReq : inserted'[x] /\ inserted'[y] /\ uid'[x] = uid'[y] => x = y
        BY <1>1, <2>3, <2>6 DEF Rows
      <3> QED
        BY <1>1, <3>1, <3>2, <3>3 DEF Rows
    <2>8. Files'
      BY <1>1 DEF Files, Reaches
    <2>9. Jobs'
      BY <1>1, <1>6, <2>2 DEF Jobs
    <2>10. Clean'
      <3>1. \A d \in DestroyReq : dpc[d] = "update" \/ answer[d] = "success" => target[d] # uid[e]
        BY <1>6 DEF Jobs
      <3> QED
        BY <1>1, <2>3, <3>1 DEF Clean, Unshared, Reaches
    <2>11. StatusTellsOutcome => StatusTellsOutcome'
      BY <1>1, <1>4, <2>2, <2>3, <2>6 DEF StatusTellsOutcome
    <2> QED
      BY <1>1, <2>4, <2>5, <2>7, <2>8, <2>9, <2>10, <2>11
  <1> QED
    BY <1>1, <1>5, <1>6

\* The report of a run writes into the row of its uid.  If uids differ, that
\* row is its own.
LEMMA ReportKeeps ==
    ASSUME SInv, NEW e \in ScriptReq, Report(e)
    PROVE  /\ SInv' /\ UNCHANGED uid
           /\ SUInv => StatusTellsOutcome'
  <1> USE DEF SInv
  <1>1. /\ pc[e] = "report"
        /\ \E stage \in {"done", "failed"} : pc' = [pc EXCEPT ![e] = stage]
        /\ UNCHANGED <<uid, dir, archive, file, inserted, ran, exit, disk, present>>
        /\ UNCHANGED <<dpc, target, victim, answer>>
        /\ \/ UpdateExperimentModelByUid(uid[e], IF exit[e] = "ok" THEN "Success" ELSE "Error")
           \/ WriteFails
    BY Zenon DEF Report, Goto, destroyVars, diskVars
  <1>2. /\ pc' \in [ScriptReq -> PC] /\ pc'[e] \in {"done", "failed"}
        /\ \A x \in ScriptReq \ {e} : pc'[x] = pc[x]
    <2>1. pc \in [ScriptReq -> PC] /\ {"done", "failed"} \subseteq PC
      BY DEF TypeOK, PC
    <2> QED
      BY <1>1, <2>1
  <1>3. uid[e] \in Uid /\ exit[e] \in {"ok", "fail"}
    BY <1>1 DEF Stages, TypeOK
  <1> DEFINE s == IF exit[e] = "ok" THEN "Success" ELSE "Error"
  <1>4. s \in Status
    BY DEF Status
  <1>5. UNCHANGED <<uid, dir, inserted, diskVars, target, victim>>
    BY <1>1 DEF diskVars
  <1>6. UpdateExperimentModelByUid(uid[e], s) \/ WriteFails
    BY <1>1
  <1>7. s = "Success" => exit[e] = "ok"
    OBVIOUS
  <1>8. s = "Error" => exit[e] = "fail"
    BY <1>3
  <1> HIDE DEF s
  <1>9. /\ TableType' /\ Rows'
        /\ \A v \in Uid : Stored(v) => Stored(v)' /\ table'[v].handle = table[v].handle
    BY <1>3, <1>4, <1>5, <1>6, UpdateKeeps
  <1>10. TypeOK'
    BY <1>1, <1>2, <1>9 DEF TypeOK
  <1>11. Stages'
    BY <1>1, <1>2 DEF Stages
  <1>12. Files' /\ Jobs'
    BY <1>1, <1>9 DEF Files, Reaches, Jobs
  <1>13. Clean'
    BY <1>1 DEF Clean, Unshared, Reaches
  <1>14. ASSUME SUInv PROVE StatusTellsOutcome'
    <2>1. TableType
      BY DEF TypeOK
    <2>2. /\ \A v \in Uid : Stored(v)' <=> Stored(v)
          /\ \A v \in Uid : v # uid[e] => table'[v] = table[v]
          /\ \/ \A v \in Uid : table'[v] = table[v]
             \/ Stored(uid[e]) /\ table'[uid[e]].status = s
      BY <1>3, <1>4, <1>6, <2>1, UpdateLemma
    <2>3. \A x \in ScriptReq : uid[x] = uid[e] => x = e
      BY <1>3, <1>14, UidAssumption DEF SUInv, UidsDiffer
    <2> QED
      BY <1>1, <1>7, <1>8, <1>14, <2>2, <2>3 DEF SUInv, StatusTellsOutcome
  <1>15. UNCHANGED uid
    BY <1>1
  <1> QED
    BY <1>9, <1>10, <1>11, <1>12, <1>13, <1>14, <1>15, Zenon

\* A destroy handler copies the directory of a row that is there.
LEMMA DestroyQueryKeeps ==
    ASSUME SInv, NEW d \in DestroyReq, NEW u \in Uid, DestroyQuery(d, u)
    PROVE  SInv'
  <1> USE DEF SInv
  <1>1. /\ dpc[d] = "idle"
        /\ UNCHANGED <<table, pc, uid, dir, archive, file, inserted, ran, exit, disk, present>>
        /\ target' = [target EXCEPT ![d] = u]
    BY Zenon DEF DestroyQuery, Respond, scriptVars, diskVars
  <1>2. /\ dpc \in [DestroyReq -> {"idle", "remove", "update"}]
        /\ target \in [DestroyReq -> Uid \cup {NoUid}]
        /\ victim \in [DestroyReq -> Dir \cup {NoDir}]
        /\ answer \in [DestroyReq ->
                        {"none", "success", "already", "notFound", "error", "panic"}]
    BY DEF TypeOK
  <1>3. target' \in [DestroyReq -> Uid \cup {NoUid}] /\ target'[d] = u
        /\ \A c \in DestroyReq \ {d} : target'[c] = target[c]
    BY <1>1, <1>2
  <1>4. CASE \E a \in {"notFound", "panic", "already"} : Respond(d, u, a)
    <2>1. /\ UNCHANGED <<dpc, victim>>
          /\ \E a \in {"notFound", "panic", "already"} : answer' = [answer EXCEPT ![d] = a]
      BY <1>4, Zenon DEF Respond
    <2>2. /\ answer' \in [DestroyReq ->
                           {"none", "success", "already", "notFound", "error", "panic"}]
          /\ answer'[d] \notin {"none", "success"}
          /\ \A c \in DestroyReq \ {d} : answer'[c] = answer[c]
      BY <1>2, <2>1
    <2>3. TypeOK'
      BY <1>1, <1>3, <2>1, <2>2 DEF TypeOK, TableType
    <2>4. Jobs'
      BY <1>1, <1>3, <2>1, <2>2 DEF Jobs
    <2>5. Clean'
      BY <1>1, <1>3, <2>1, <2>2 DEF Clean, Unshared, Reaches
    <2>6. Stages' /\ Rows'
      BY <1>1 DEF Stages, Rows
    <2>7. Files'
      BY <1>1 DEF Files, Reaches
    <2> QED
      BY <2>3, <2>4, <2>5, <2>6, <2>7
  <1>5. CASE /\ Stored(u)
             /\ dpc' = [dpc EXCEPT ![d] = "remove"]
             /\ victim' = [victim EXCEPT ![d] = table[u].handle]
             /\ answer' = [answer EXCEPT ![d] = "none"]
    <2>1. table[u].handle \in Dir
      BY <1>5 DEF Rows
    <2>2. /\ dpc' \in [DestroyReq -> {"idle", "remove", "update"}] /\ dpc'[d] = "remove"
          /\ victim' \in [DestroyReq -> Dir \cup {NoDir}] /\ victim'[d] = table[u].handle
          /\ answer' \in [DestroyReq ->
                           {"none", "success", "already", "notFound", "error", "panic"}]
          /\ answer'[d] = "none"
          /\ \A c \in DestroyReq \ {d} :
                dpc'[c] = dpc[c] /\ victim'[c] = victim[c] /\ answer'[c] = answer[c]
      BY <1>2, <1>5, <2>1
    <2>3. TypeOK'
      BY <1>1, <1>3, <2>2 DEF TypeOK, TableType
    <2>4. Jobs'
      BY <1>1, <1>3, <1>5, <2>1, <2>2 DEF Jobs
    <2>5. Clean'
      BY <1>1, <1>3, <2>2 DEF Clean, Unshared, Reaches
    <2>6. Stages' /\ Rows'
      BY <1>1 DEF Stages, Rows
    <2>7. Files'
      BY <1>1 DEF Files, Reaches
    <2> QED
      BY <2>3, <2>4, <2>5, <2>6, <2>7
  <1>6. \/ \E a \in {"notFound", "panic", "already"} : Respond(d, u, a)
        \/ /\ Stored(u)
           /\ dpc' = [dpc EXCEPT ![d] = "remove"]
           /\ victim' = [victim EXCEPT ![d] = table[u].handle]
           /\ answer' = [answer EXCEPT ![d] = "none"]
    BY DEF DestroyQuery, QueryExperimentModelByUid
  <1> QED
    BY <1>4, <1>5, <1>6

\* The removal empties the directory of the row, or gives up; what it removes
\* belonged to those who share the directory.
LEMMA RemoveAllKeeps ==
    ASSUME SInv, NEW d \in DestroyReq, RemoveAll(d)
    PROVE  SInv'
  <1> USE DEF SInv
  <1>1. /\ dpc[d] = "remove"
        /\ UNCHANGED <<table, pc, uid, dir, archive, file, inserted, ran, exit>>
        /\ UNCHANGED <<target, victim>>
    BY Zenon DEF RemoveAll, scriptVars
  <1>2. /\ dpc \in [DestroyReq -> {"idle", "remove", "update"}]
        /\ answer \in [DestroyReq ->
                        {"none", "success", "already", "notFound", "error", "panic"}]
        /\ disk \in [Dir -> [Member -> SUBSET ScriptReq]]
        /\ present \in SUBSET Dir
    BY DEF TypeOK
  <1>3. /\ victim[d] \in Dir /\ target[d] \in Uid /\ Stored(target[d]) /\ answer[d] = "none"
        /\ victim[d] = table[target[d]].handle
    BY <1>1 DEF Jobs
  <1>4. /\ \E files \in [Member -> SUBSET ScriptReq] :
              /\ disk' = [disk EXCEPT ![victim[d]] = files]
              /\ \A n \in Member : files[n] \subseteq disk[victim[d]][n]
        /\ present' \in SUBSET Dir
        /\ \/ /\ dpc' = [dpc EXCEPT ![d] = "update"] /\ answer' = answer
              /\ disk' = [disk EXCEPT ![victim[d]] = Nothing]
           \/ /\ dpc' = [dpc EXCEPT ![d] = "idle"]
              /\ answer' = [answer EXCEPT ![d] = "error"]
    <2>1. CASE /\ disk' = [disk EXCEPT ![victim[d]] = Nothing]
               /\ present' = present \ {victim[d]}
               /\ dpc' = [dpc EXCEPT ![d] = "update"]
               /\ answer' = answer
      <3>1. Nothing \in [Member -> SUBSET ScriptReq] /\ \A n \in Member : Nothing[n] = {}
        BY DEF Nothing
      <3>2. present' \in SUBSET Dir
        BY <1>2, <2>1
      <3>3. \A n \in Member : Nothing[n] \subseteq disk[victim[d]][n]
        BY <3>1
      <3> QED
        BY <2>1, <3>1, <3>2, <3>3
    <2>2. ASSUME NEW gone \in SUBSET Member,
                 disk' = [disk EXCEPT ![victim[d]] =
                             [n \in Member |-> IF n \in gone THEN {} ELSE @[n]]],
                 dpc' = [dpc EXCEPT ![d] = "idle"],
                 answer' = [answer EXCEPT ![d] = "error"],
                 present' = present
          PROVE  /\ \E files \in [Member -> SUBSET ScriptReq] :
                       /\ disk' = [disk EXCEPT ![victim[d]] = files]
                       /\ \A n \in Member : files[n] \subseteq disk[victim[d]][n]
                 /\ present' \in SUBSET Dir
      <3> DEFINE files == [n \in Member |-> IF n \in gone THEN {} ELSE disk[victim[d]][n]]
      <3>1. disk' = [disk EXCEPT ![victim[d]] = files]
        BY <1>2, <1>3, <2>2
      <3>2. /\ files \in [Member -> SUBSET ScriptReq]
            /\ \A n \in Member : files[n] \subseteq disk[victim[d]][n]
        BY <1>2, <1>3
      <3> HIDE DEF files
      <3> QED
        BY <1>2, <2>2, <3>1, <3>2
    <2> QED
      BY <2>1, <2>2 DEF RemoveAll
  <1>5. PICK files \in [Member -> SUBSET ScriptReq] :
           /\ disk' = [disk EXCEPT ![victim[d]] = files]
           /\ \A n \in Member : files[n] \subseteq disk[victim[d]][n]
    BY <1>4
  <1>6. /\ disk' \in [Dir -> [Member -> SUBSET ScriptReq]] /\ disk'[victim[d]] = files
        /\ \A s \in Dir \ {victim[d]} : disk'[s] = disk[s]
    BY <1>2, <1>3, <1>5
  <1>7. /\ dpc' \in [DestroyReq -> {"idle", "remove", "update"}]
        /\ answer' \in [DestroyReq ->
                         {"none", "success", "already", "notFound", "error", "panic"}]
        /\ \A c \in DestroyReq \ {d} : dpc'[c] = dpc[c] /\ answer'[c] = answer[c]
        /\ \/ dpc'[d] = "idle" /\ answer'[d] = "error"
           \/ dpc'[d] = "update" /\ answer'[d] = "none" /\ files = Nothing
    <2>1. CASE /\ dpc' = [dpc EXCEPT ![d] = "update"] /\ answer' = answer
               /\ disk' = [disk EXCEPT ![victim[d]] = Nothing]
      <3>1. files = Nothing
        BY <1>2, <1>3, <1>6, <2>1
      <3> QED
        BY <1>2, <1>3, <2>1, <3>1
    <2>2. CASE /\ dpc' = [dpc EXCEPT ![d] = "idle"]
               /\ answer' = [answer EXCEPT ![d] = "error"]
      BY <1>2, <2>2
    <2> QED
      BY <1>4, <2>1, <2>2
  <1>8. TypeOK'
    BY <1>1, <1>4, <1>6, <1>7 DEF TypeOK, TableType
  <1>9. Stages' /\ Rows'
    BY <1>1 DEF Stages, Rows
  <1>10. Files'
    <2>1. \A s \in Dir, n \in Member : disk'[s][n] \subseteq disk[s][n]
      BY <1>5, <1>6
    <2> QED
      BY <1>1, <2>1 DEF Files, Reaches
  <1>11. Jobs'
    BY <1>1, <1>3, <1>7 DEF Jobs
  <1>12. Clean'
    <2>1. \A n \in Member : Nothing[n] = {}
      BY DEF Nothing
    <2>2. disk[victim[d]] = Nothing => files = Nothing
      BY <1>5, <2>1 DEF Nothing
    <2>3. \A e \in ScriptReq : inserted[e] => dir[e] \in Dir
      BY DEF Rows
    <2>4. \A e \in ScriptReq : disk[dir[e]] = Nothing /\ inserted[e] => disk'[dir[e]] = Nothing
      BY <1>6, <2>2, <2>3
    <2>5. \A e \in ScriptReq : Owns(e, target[d]) => dir[e] = victim[d]
      BY <1>3 DEF Rows
    <2> QED
      BY <1>1, <1>6, <1>7, <2>4, <2>5 DEF Clean, Unshared, Reaches
  <1> QED
    BY <1>8, <1>9, <1>10, <1>11, <1>12

\* Destroyed is written, or not, when the directory is gone.
LEMMA DestroyUpdateKeeps ==
    ASSUME SInv, NEW d \in DestroyReq, DestroyUpdate(d)
    PROVE  SInv' /\ (StatusTellsOutcome => StatusTellsOutcome')
  <1> USE DEF SInv
  <1>1. /\ dpc[d] = "update"
        /\ UNCHANGED <<pc, uid, dir, archive, file, inserted, ran, exit, disk, present>>
        /\ UNCHANGED <<target, victim>>
        /\ dpc' = [dpc EXCEPT ![d] = "idle"]
        /\ answer' = [answer EXCEPT ![d] = "success"]
        /\ UpdateExperimentModelByUid(target[d], "Destroyed") \/ WriteFails
    BY Zenon DEF DestroyUpdate, scriptVars, diskVars
  <1>2. target[d] \in Uid /\ Stored(target[d]) /\ TableType /\ "Destroyed" \in Status
    BY <1>1 DEF Jobs, TypeOK, Status
  <1>3. /\ dpc' \in [DestroyReq -> {"idle", "remove", "update"}] /\ dpc'[d] = "idle"
        /\ answer' \in [DestroyReq ->
                         {"none", "success", "already", "notFound", "error", "panic"}]
        /\ answer'[d] = "success"
        /\ \A c \in DestroyReq \ {d} : dpc'[c] = dpc[c] /\ answer'[c] = answer[c]
    <2>1. /\ dpc \in [DestroyReq -> {"idle", "remove", "update"}]
          /\ answer \in [DestroyReq ->
                          {"none", "success", "already", "notFound", "error", "panic"}]
      BY DEF TypeOK
    <2> QED
      BY <1>1, <2>1
  <1>4. UNCHANGED <<uid, dir, inserted, diskVars, target, victim>>
    BY <1>1 DEF diskVars
  <1>5. /\ TableType' /\ Rows'
        /\ \A v \in Uid : Stored(v) => Stored(v)' /\ table'[v].handle = table[v].handle
    BY <1>1, <1>2, <1>4, UpdateKeeps
  <1>6. TypeOK'
    BY <1>1, <1>3, <1>5 DEF TypeOK
  <1>7. Stages'
    BY <1>1 DEF Stages
  <1>11. Files'
    BY <1>1 DEF Files, Reaches
  <1>8. Jobs'
    BY <1>1, <1>2, <1>3, <1>5 DEF Jobs
  <1>9. Clean'
    BY <1>1, <1>3 DEF Clean, Unshared, Reaches
  <1>10. ASSUME StatusTellsOutcome PROVE StatusTellsOutcome'
    <2>1. /\ \A v \in Uid : Stored(v)' <=> Stored(v)
          /\ \A v \in Uid : v # target[d] => table'[v] = table[v]
          /\ \/ \A v \in Uid : table'[v] = table[v]
             \/ table'[target[d]].status = "Destroyed"
      BY <1>1, <1>2, UpdateLemma
    <2> QED
      BY <1>1, <1>10, <2>1 DEF StatusTellsOutcome
  <1> QED
    BY <1>5, <1>6, <1>7, <1>8, <1>9, <1>10, <1>11

\* A restart loses the requests at work; rows and directories stay.
LEMMA RestartKeeps ==
    ASSUME SInv, AgentRestart
    PROVE  SInv' /\ (StatusTellsOutcome => StatusTellsOutcome')
  <1> USE DEF SInv
  <1>1. /\ UNCHANGED <<table, uid, dir, archive, file, inserted, ran, exit, disk, present>>
        /\ UNCHANGED <<target, victim, answer>>
        /\ dpc' = [d \in DestroyReq |-> "idle"]
        /\ pc' = [e \in ScriptReq |->
                     IF pc[e] \in {"new", "done", "failed"} THEN pc[e] ELSE "lost"]
    BY Zenon DEF AgentRestart, diskVars
  <1>2. pc' \in [ScriptReq -> PC]
    <2>1. pc \in [ScriptReq -> PC] /\ "lost" \in PC
      BY DEF TypeOK, PC
    <2> QED
      BY <1>1, <2>1
  <1>3. \A e \in ScriptReq : pc'[e] = pc[e] \/ (pc'[e] = "lost" /\ pc[e] # "new" /\ pc[e] # "failed")
    BY <1>1
  <1>4. TypeOK'
    BY <1>1, <1>2 DEF TypeOK, TableType
  <1>5. Stages'
    BY <1>1, <1>3 DEF Stages
  <1>6. Rows' /\ Files' /\ Jobs'
    BY <1>1 DEF Rows, Files, Reaches, Jobs
  <1>7. Clean'
    BY <1>1 DEF Clean, Unshared, Reaches
  <1>8. StatusTellsOutcome => StatusTellsOutcome'
    BY <1>1 DEF StatusTellsOutcome
  <1> QED
    BY <1>4, <1>5, <1>6, <1>7, <1>8

-----------------------------------------------------------------------------

\* Nothing happens in a stuttering step.
LEMMA StutterKeeps ==
    ASSUME SInv, UNCHANGED vars
    PROVE  SInv' /\ (StatusTellsOutcome => StatusTellsOutcome')
  <1> USE DEF SInv
  <1>1. /\ UNCHANGED <<table, pc, uid, dir, archive, file, inserted, ran, exit, disk, present>>
        /\ UNCHANGED <<dpc, target, victim, answer>>
    BY Zenon DEF vars, scriptVars, diskVars, destroyVars
  <1>2. TypeOK' /\ Stages' /\ Rows'
    BY <1>1 DEF TypeOK, TableType, Stages, Rows
  <1>3. Files'
    BY <1>1 DEF Files, Reaches
  <1>4. Jobs' /\ Clean'
    BY <1>1 DEF Jobs, Clean, Unshared, Reaches
  <1>5. StatusTellsOutcome => StatusTellsOutcome'
    BY <1>1 DEF StatusTellsOutcome
  <1> QED
    BY <1>2, <1>3, <1>4, <1>5

\* The inductive invariant of the scripts.
THEOREM ScriptInvariance == Spec => []SInv
  <1>1. ASSUME SInv, [Next]_vars PROVE SInv'
    <2>1. ASSUME NEW e \in ScriptReq, AgentStep(e) \/ Exit(e) PROVE SInv'
      BY <1>1, <2>1, MkDirKeeps, UnTarKeeps, NameKeeps, InsertKeeps, ReportKeeps,
         ProgressKeeps, Zenon DEF AgentStep
    <2> QED
      BY <1>1, <2>1, DestroyQueryKeeps, RemoveAllKeeps, DestroyUpdateKeeps, RestartKeeps,
         StutterKeeps, Zenon DEF Next
  <1> QED
    BY InitEstablishes, <1>1, PTL DEF Spec

\* Every reachable state is well typed.
THEOREM TypeCorrect == Spec => []TypeOK
  BY ScriptInvariance, PTL DEF SInv

\* A request that has its second for itself, with no archive of another that
\* leads there, runs nothing but what it has unpacked (script.go:56-130).
THEOREM OwnFilesAreRun == Spec => []UnsharedRunsItsOwn
  <1>1. SInv => UnsharedRunsItsOwn
    <2> SUFFICES ASSUME SInv, NEW e \in ScriptReq, dir[e] # NoDir, Unshared(e),
                        NEW x \in ran[e]
                 PROVE  x = e
      BY DEF UnsharedRunsItsOwn
    <2>1. x \in ScriptReq /\ Reaches(x, dir[e])
      BY DEF SInv, Files, TypeOK
    <2> QED
      BY <2>1 DEF Unshared
  <1> QED
    BY ScriptInvariance, <1>1, PTL

\* A destroy that answers success has left nothing of the script behind
\* (destroy.go:57-68).
THEOREM DestroysCleanUp == Spec => []DestroyCleansUp
  <1>1. SInv => DestroyCleansUp
    BY DEF SInv, Clean, DestroyCleansUp
  <1> QED
    BY ScriptInvariance, <1>1, PTL

-----------------------------------------------------------------------------
(* With uids that do not repeat *)

\* Two requests never draw the same uid.
LEMMA UidsStayDifferent ==
    ASSUME Collide = FALSE, ReadErrors = FALSE, SInv, UidsDiffer, [Next]_vars
    PROVE  UidsDiffer'
  <1>1. CASE UNCHANGED uid
    BY <1>1 DEF UidsDiffer
  <1>2. ASSUME NEW e \in ScriptReq, NEW u \in Uid, Name(e, u) PROVE UidsDiffer'
    <2>1. uid' = [uid EXCEPT ![e] = u]
      BY <1>2 DEF Name
    <2>2. uid \in [ScriptReq -> Uid \cup {NoUid}]
      BY DEF SInv, TypeOK
    <2>3. \A x \in ScriptReq : uid[x] # u
      BY <1>2 DEF Name, GenerateUid, Drawn, QueryExperimentModelByUid
    <2> QED
      BY <2>1, <2>2, <2>3 DEF UidsDiffer
  <1>3. UNCHANGED uid \/ \E e \in ScriptReq, u \in Uid : Name(e, u)
    <2>1. ASSUME NEW e \in ScriptReq, AgentStep(e) \/ Exit(e)
          PROVE  UNCHANGED uid \/ \E u \in Uid : Name(e, u)
      BY <2>1 DEF AgentStep, MkDir, Download, UnTarEnds, Fails, List, UnTar, Insert,
                  WrongFormat, Start, Report, Exit, scriptVars
    <2>2. ASSUME NEW d \in DestroyReq,
                 RemoveAll(d) \/ DestroyUpdate(d) \/ \E u \in Uid : DestroyQuery(d, u)
          PROVE  UNCHANGED uid
      BY <2>2 DEF RemoveAll, DestroyUpdate, DestroyQuery, scriptVars
    <2>3. CASE AgentRestart \/ UNCHANGED vars
      BY <2>3 DEF AgentRestart, vars, scriptVars
    <2> QED
      BY <2>1, <2>2, <2>3, Zenon DEF Next
  <1> QED
    BY <1>1, <1>2, <1>3

\* The inductive invariant with unique uids.
THEOREM UniqueScriptInvariance ==
    ASSUME Collide = FALSE, ReadErrors = FALSE PROVE Spec => []SUInv
  <1>1. ASSUME SUInv, [Next]_vars PROVE SUInv'
    <2>1. SInv /\ UidsDiffer /\ StatusTellsOutcome
      BY <1>1 DEF SUInv
    <2>2. UidsDiffer'
      BY <1>1, <2>1, UidsStayDifferent
    <2>3. ASSUME NEW e \in ScriptReq, AgentStep(e) \/ Exit(e)
          PROVE  SInv' /\ StatusTellsOutcome'
      BY <1>1, <2>1, <2>3, MkDirKeeps, UnTarKeeps, NameKeeps, InsertKeeps, ReportKeeps,
         ProgressKeeps, Zenon DEF AgentStep
    <2>4. ASSUME NEW d \in DestroyReq, NEW u \in Uid, DestroyQuery(d, u)
          PROVE  SInv' /\ StatusTellsOutcome'
      BY <2>1, <2>4, DestroyQueryKeeps DEF DestroyQuery, scriptVars, StatusTellsOutcome
    <2>5. ASSUME NEW d \in DestroyReq, RemoveAll(d)
          PROVE  SInv' /\ StatusTellsOutcome'
      BY <2>1, <2>5, RemoveAllKeeps DEF RemoveAll, scriptVars, StatusTellsOutcome
    <2>6. SInv' /\ StatusTellsOutcome'
      BY <1>1, <2>1, <2>3, <2>4, <2>5, DestroyUpdateKeeps, RestartKeeps, StutterKeeps, Zenon
         DEF Next
    <2> QED
      BY <2>2, <2>6 DEF SUInv
  <1>2. Init => SUInv
    BY InitEstablishes DEF SUInv
  <1> QED
    BY <1>1, <1>2, PTL DEF Spec

\* Success and Error in a row are about the run of its own script
\* (script.go:130-146).
THEOREM StatusTellsTruth ==
    ASSUME Collide = FALSE, ReadErrors = FALSE PROVE Spec => []StatusTellsOutcome
  <1>1. SUInv => StatusTellsOutcome
    BY DEF SUInv
  <1> QED
    BY UniqueScriptInvariance, <1>1, PTL

\* Destroyed is overwritten by nothing but the report of the script's own run
\* (destroy.go:67, script.go:132 and 146).
THEOREM OwnReportsOverwrite ==
    ASSUME Collide = FALSE, ReadErrors = FALSE PROVE Spec => OnlyOwnReportOverwrites
  <1>1. ASSUME SUInv, [Next]_vars, NEW u \in Uid,
               HasStatus(u, "Destroyed"), ~HasStatus(u, "Destroyed")'
        PROVE  \E e \in ScriptReq : Owns(e, u) /\ pc[e] = "report" /\ pc'[e] # "report"
    <2>1. SInv /\ UidsDiffer
      BY <1>1 DEF SUInv
    <2>2. ASSUME NEW e \in ScriptReq, Insert(e) PROVE FALSE
      <3>1. uid[e] \in Uid
        BY <2>1, <2>2 DEF Insert, SInv, Stages, TypeOK
      <3>2. \A v \in Uid : Stored(v) => table'[v] = table[v]
        BY <2>1, <2>2, <3>1 DEF Insert, InsertExperimentModel, WriteFails, SInv, TypeOK, TableType
      <3> QED
        BY <1>1, <3>2
    <2>3. ASSUME NEW d \in DestroyReq, DestroyUpdate(d) PROVE FALSE
      <3>1. target[d] \in Uid /\ TableType /\ "Destroyed" \in Status
        BY <2>1, <2>3 DEF DestroyUpdate, SInv, Jobs, TypeOK, Status
      <3>2. UpdateExperimentModelByUid(target[d], "Destroyed") \/ WriteFails
        BY <2>3 DEF DestroyUpdate
      <3>3. /\ \A v \in Uid : Stored(v)' <=> Stored(v)
            /\ \A v \in Uid : v # target[d] => table'[v] = table[v]
            /\ \/ \A v \in Uid : table'[v] = table[v]
               \/ Stored(target[d]) /\ table'[target[d]].status = "Destroyed"
        BY <3>1, <3>2, UpdateLemma
      <3> QED
        BY <1>1, <3>3
    <2>4. ASSUME NEW e \in ScriptReq, Report(e)
          PROVE  Owns(e, u) /\ pc[e] = "report" /\ pc'[e] # "report"
      <3>1. /\ pc[e] = "report" /\ uid[e] \in Uid /\ TableType /\ pc'[e] # "report"
            /\ {"Success", "Error"} \subseteq Status
        BY <2>1, <2>4 DEF Report, Goto, SInv, Stages, TypeOK, Status
      <3>2. \E s \in Status : UpdateExperimentModelByUid(uid[e], s) \/ WriteFails
        BY <2>4, <3>1 DEF Report
      <3>3. \A v \in Uid : v # uid[e] => table'[v] = table[v]
        BY <3>1, <3>2, UpdateLemma
      <3>4. u = uid[e]
        BY <1>1, <3>3
      <3>5. PICK x \in ScriptReq : Owns(x, u)
        BY <1>1, <2>1 DEF SInv, Rows
      <3>6. x = e
        BY <2>1, <3>1, <3>4, <3>5, UidAssumption DEF UidsDiffer
      <3> QED
        BY <3>1, <3>5, <3>6
    <2>5. \/ UNCHANGED table
          \/ \E e \in ScriptReq : Insert(e) \/ Report(e)
          \/ \E d \in DestroyReq : DestroyUpdate(d)
      <3>1. ASSUME NEW e \in ScriptReq, AgentStep(e) \/ Exit(e)
            PROVE  UNCHANGED table \/ Insert(e) \/ Report(e)
        BY <3>1 DEF AgentStep, MkDir, Download, UnTarEnds, Fails, List, UnTar, Name,
                    WrongFormat, Start, Exit
      <3>2. ASSUME NEW d \in DestroyReq, RemoveAll(d) \/ \E v \in Uid : DestroyQuery(d, v)
            PROVE  UNCHANGED table
        BY <3>2 DEF RemoveAll, DestroyQuery
      <3>3. CASE AgentRestart \/ UNCHANGED vars
        BY <3>3 DEF AgentRestart, vars
      <3> QED
        BY <1>1, <3>1, <3>2, <3>3, Zenon DEF Next
    <2> QED
      BY <1>1, <2>2, <2>3, <2>4, <2>5
  <1> DEFINE Overwritten ==
          \A u \in Uid : HasStatus(u, "Destroyed") /\ ~HasStatus(u, "Destroyed")' =>
             \E e \in ScriptReq : Owns(e, u) /\ pc[e] = "report" /\ pc'[e] # "report"
  <1>2. SUInv /\ [Next]_vars => [Overwritten]_vars
    BY <1>1
  <1>3. OnlyOwnReportOverwrites <=> [][Overwritten]_vars
    BY PTL DEF OnlyOwnReportOverwrites
  <1> QED
    BY UniqueScriptInvariance, <1>2, <1>3, PTL DEF Spec
=============================================================================
