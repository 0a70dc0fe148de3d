--------------------------- MODULE AgentConnProofs ---------------------------
(* What AgentConn guarantees about keys and heartbeats, for any set of key   *)
(* pairs and any capacity of the list of outcomes.                           *)
EXTENDS AgentConn, TLAPS

\* The registration has stored the pair in the file.
Recorded == {"recorded", "ak", "akDone", "sk", "registered"}

\* How far the registration is tells what the globals hold: nobody else
\* assigns them.
KeysFollow ==
    /\ reg \in Recorded => granted \in Pair /\ cert = granted
    /\ grantedCid = "none" => cid = "none"
    /\ reg \in {"begin", "sent"} => cid = "none"
    /\ reg \in Recorded \cup {"cid"} /\ grantedCid = "set" => cid = "set"
    /\ ak = IF reg = "ak" THEN Torn
            ELSE IF reg \in {"akDone", "sk", "registered"} THEN granted ELSE Empty
    /\ sk = IF reg = "sk" THEN Torn ELSE IF reg = "registered" THEN granted ELSE Empty

\* An access key that a heartbeat has read is the one that stays; one that
\* has passed the check of both keys belongs to a registered agent.
BeatFollows ==
    /\ hb \in {"akRead", "skRead"} /\ request.ak # Empty =>
          request.ak \in Pair /\ request.ak = ak
    /\ hb = "skRead" => request.ak # Empty
    /\ hb \in {"skRead", "sent"} => reg = "registered"

CInv ==
    /\ TypeOK
    /\ KeysFollow
    /\ BeatFollows
    /\ SignedWithOnePair
    /\ SuccessNeedsRegistration

-----------------------------------------------------------------------------

\* The list of outcomes keeps its capacity, and holds nothing but what it
\* held and the new outcome.
LEMMA PutKeeps ==
    ASSUME NEW list \in Seq(BOOLEAN), Len(list) <= Cap, NEW v \in BOOLEAN
    PROVE  /\ Put(list, v) \in Seq(BOOLEAN) /\ Len(Put(list, v)) <= Cap
           /\ \A i \in DOMAIN Put(list, v) :
                 Put(list, v)[i] => v \/ \E j \in DOMAIN list : list[j]
  <1> DEFINE longer == Append(list, v)
  <1>1. /\ longer \in Seq(BOOLEAN) /\ Len(longer) = Len(list) + 1
        /\ \A i \in 1 .. Len(list) : longer[i] = list[i]
        /\ longer[Len(list) + 1] = v
    OBVIOUS
  <1>2. CASE Len(longer) > Cap
    <2>1. Put(list, v) = Tail(longer)
      BY <1>2 DEF Put
    <2>2. /\ Tail(longer) \in Seq(BOOLEAN) /\ Len(Tail(longer)) = Len(list)
          /\ \A i \in 1 .. Len(list) : Tail(longer)[i] = longer[i + 1]
      BY <1>1
    <2>3. \A i \in 1 .. Len(list) : longer[i + 1] => v \/ \E j \in DOMAIN list : list[j]
      <3> SUFFICES ASSUME NEW i \in 1 .. Len(list), longer[i + 1]
                   PROVE  v \/ \E j \in DOMAIN list : list[j]
        OBVIOUS
      <3>1. CASE i = Len(list)
        BY <1>1, <3>1
      <3>2. CASE i # Len(list)
        <4>1. i + 1 \in 1 .. Len(list)
          BY <3>2
        <4> QED
          BY <1>1, <4>1
      <3> QED
        BY <3>1, <3>2
    <2> QED
      BY <2>1, <2>2, <2>3
  <1>3. CASE ~(Len(longer) > Cap)
    <2>1. Put(list, v) = longer
      BY <1>3 DEF Put
    <2>2. Len(longer) <= Cap
      BY <1>1, <1>3, CapAssumption
    <2> QED
      BY <1>1, <2>1, <2>2
  <1> QED
    BY <1>2, <1>3

\* A process that starts for the first time has no keys, no cid and no file.
LEMMA InitEstablishes == Init => CInv
  BY CapAssumption DEF Init, CInv, TypeOK, KeysFollow, BeatFollows, SignedWithOnePair,
     SuccessNeedsRegistration, Recorded, RegPC, HbPC, Key, Beat, NoBeat

\* The registration and the process: no step of theirs changes a heartbeat.
RegStep ==
    \/ RegistrationStep \/ ConnectRefused \/ ConnectPanics
    \/ \E p \in Key : ConnectAnswered(p)
    \/ Crash \/ Restart

\* Every step of the registration is the next one of its order, and the
\* heartbeats keep what they have read.
LEMMA RegStepKeeps == CInv /\ RegStep => CInv'
  <1> SUFFICES ASSUME CInv, RegStep PROVE CInv'
    OBVIOUS
  <1> USE DEF CInv
  <1>1. CASE RegistrationStep \/ ConnectRefused
    <2>1. UNCHANGED <<hb, request, received, snapshots>>
      BY <1>1 DEF RegistrationStep, Connect, SetCid, RecordSecretKeyToFile, AssignKeys,
         ConnectRefused, hbVars, keyVars
    <2>2. TypeOK'
      BY <1>1, <2>1 DEF RegistrationStep, Connect, SetCid, RecordSecretKeyToFile, AssignKeys,
         ConnectRefused, hbVars, keyVars, TypeOK, RegPC, Key
    <2>3. KeysFollow'
      BY <1>1, PairAssumption DEF RegistrationStep, Connect, SetCid, RecordSecretKeyToFile,
         AssignKeys, ConnectRefused, hbVars, keyVars, KeysFollow, Recorded, TypeOK, Key
    <2>4. reg # "registered" /\ (request.ak = ak => ak \notin Pair \/ ak' = ak)
      BY <1>1, PairAssumption DEF RegistrationStep, Connect, SetCid, RecordSecretKeyToFile,
         AssignKeys, ConnectRefused, keyVars, KeysFollow, Recorded
    <2>5. BeatFollows'
      BY <2>1, <2>4 DEF BeatFollows
    <2>6. SuccessNeedsRegistration'
      BY <2>1, <2>4 DEF SuccessNeedsRegistration
    <2> QED
      BY <2>1, <2>2, <2>3, <2>5, <2>6 DEF SignedWithOnePair
  <1>2. CASE ConnectPanics \/ Crash
    BY <1>2 DEF ConnectPanics, Crash, keyVars, hbVars, TypeOK, KeysFollow, BeatFollows,
       SignedWithOnePair, SuccessNeedsRegistration
  <1>3. CASE \E p \in Key : ConnectAnswered(p)
    BY <1>3 DEF ConnectAnswered, keyVars, hbVars, TypeOK, RegPC, KeysFollow, Recorded,
       BeatFollows, SignedWithOnePair, SuccessNeedsRegistration
  <1>4. CASE Restart
    BY <1>4, CapAssumption DEF Restart, Fresh, TypeOK, RegPC, HbPC, Key, Beat, NoBeat,
       KeysFollow, Recorded, BeatFollows, SignedWithOnePair, SuccessNeedsRegistration
  <1> QED
    BY <1>1, <1>2, <1>3, <1>4 DEF RegStep

\* The outcome of a heartbeat is a success only if the agent is registered.
LEMMA OutcomeKeeps ==
    ASSUME CInv, NEW success \in BOOLEAN, RecordOutcome(success),
           success => reg = "registered",
           UNCHANGED <<up, reg, granted, grantedCid, keyVars, received>>
    PROVE  CInv'
  <1> USE DEF CInv
  <1>1. /\ snapshots' \in Seq(BOOLEAN) /\ Len(snapshots') <= Cap
        /\ \A i \in DOMAIN snapshots' :
              snapshots'[i] => success \/ \E j \in DOMAIN snapshots : snapshots[j]
    BY PutKeeps DEF RecordOutcome, TypeOK
  <1>2. SuccessNeedsRegistration'
    BY <1>1 DEF SuccessNeedsRegistration
  <1>3. hb' = "waiting" /\ request' = NoBeat
    BY DEF RecordOutcome
  <1>4. TypeOK'
    BY <1>1, <1>3 DEF TypeOK, keyVars, HbPC, NoBeat, Beat, Key
  <1> QED
    BY <1>2, <1>3, <1>4 DEF KeysFollow, BeatFollows, SignedWithOnePair, keyVars, NoBeat

\* A heartbeat reads the keys in the order in which they are assigned, so one
\* that finds a secret key finds the pair's.
LEMMA HeartbeatKeeps ==
    ASSUME CInv,
           \/ NewRequest \/ HeartbeatStep \/ HeartbeatPanics
           \/ \E success \in BOOLEAN : HeartbeatAnswered(success)
    PROVE  CInv'
  <1> USE DEF CInv
  <1>1. CASE NewRequest
    <2>1. request' \in Beat
      BY <1>1 DEF NewRequest, Beat, NoBeat, Key
    <2>2. TypeOK'
      BY <1>1, <2>1 DEF NewRequest, keyVars, TypeOK, HbPC
    <2> QED
      BY <1>1, <2>2 DEF NewRequest, keyVars, KeysFollow, BeatFollows,
         SignedWithOnePair, SuccessNeedsRegistration
  <1>2. CASE HeartbeatPanics
    BY <1>2 DEF HeartbeatPanics, keyVars, TypeOK, HbPC, KeysFollow, BeatFollows,
       SignedWithOnePair, SuccessNeedsRegistration
  <1>3. CASE GetAccessKey
    <2>1. Reads(ak) \in Key /\ (Reads(ak) # Empty => Reads(ak) \in Pair /\ Reads(ak) = ak)
      BY PairAssumption DEF Reads, TypeOK, Key
    <2>2. request'.ak = Reads(ak) /\ request' \in Beat
      BY <1>3, <2>1 DEF GetAccessKey, TypeOK, Beat
    <2> QED
      BY <1>3, <2>1, <2>2 DEF GetAccessKey, keyVars, TypeOK, HbPC, KeysFollow,
         BeatFollows, SignedWithOnePair, SuccessNeedsRegistration
  <1>4. CASE GetSecureKey
    <2>1. CASE request.ak = Empty \/ Reads(sk) = Empty
      BY <1>4, <2>1, OutcomeKeeps DEF GetSecureKey
    <2>2. CASE ~(request.ak = Empty \/ Reads(sk) = Empty)
      <3>1. reg = "registered"
        BY <2>2 DEF Reads, KeysFollow
      <3> QED
        BY <1>4, <2>2, <3>1 DEF GetSecureKey, keyVars, TypeOK, HbPC, KeysFollow,
           BeatFollows, SignedWithOnePair, SuccessNeedsRegistration
    <2> QED
      BY <2>1, <2>2
  <1>5. CASE SignAndSend
    <2>1. /\ reg = "registered" /\ ak = granted /\ sk = granted /\ granted \in Pair
          /\ request.ak = granted
      BY <1>5 DEF SignAndSend, KeysFollow, Recorded, BeatFollows
    <2>2. Sign = granted
      BY <2>1, PairAssumption DEF Sign, Reads
    <2>3. request' \in Beat /\ request'.ak = granted /\ request'.sk = granted
      BY <1>5, <2>1, <2>2 DEF SignAndSend, TypeOK, Beat, Key
    <2>4. received' \in SUBSET Beat /\ SignedWithOnePair'
      BY <1>5, <2>1, <2>3 DEF SignAndSend, SignedWithOnePair, TypeOK
    <2> QED
      BY <1>5, <2>1, <2>3, <2>4 DEF SignAndSend, keyVars, TypeOK, HbPC, KeysFollow,
         BeatFollows, SuccessNeedsRegistration
  <1>6. ASSUME NEW success \in BOOLEAN, HeartbeatAnswered(success) PROVE CInv'
    BY <1>6, OutcomeKeeps DEF HeartbeatAnswered, BeatFollows
  <1> QED
    BY <1>1, <1>2, <1>3, <1>4, <1>5, <1>6 DEF HeartbeatStep

\* Nothing changes in a stuttering step.
LEMMA StutterKeeps == CInv /\ UNCHANGED vars => CInv'
  BY DEF CInv, vars, keyVars, hbVars, TypeOK, KeysFollow, BeatFollows, SignedWithOnePair,
     SuccessNeedsRegistration

-----------------------------------------------------------------------------

\* The inductive invariant of the connection.
THEOREM ConnInvariance == Spec => []CInv
  <1>1. CInv /\ [Next]_vars => CInv'
    BY RegStepKeeps, HeartbeatKeeps, StutterKeeps DEF Next, RegStep
  <1> QED
    BY InitEstablishes, <1>1, PTL DEF Spec

\* Every reachable state of the agent's connection is well typed, and the
\* list of outcomes never outgrows its capacity (limitedlist.go:31).
THEOREM TypeCorrect == Spec => []TypeOK
  BY ConnInvariance, PTL DEF CInv

\* Every heartbeat that reaches the server is signed with the secret key that
\* was issued with its access key (auth.go:90, interceptor.go:91-105).
THEOREM SignedWithIssuedPair == Spec => []SignedWithOnePair
  BY ConnInvariance, PTL DEF CInv

\* A key that a heartbeat can read is on disk (auth.go:76-93).
THEOREM KeysAreOnDisk == Spec => []KeysInUseAreOnDisk
  <1>1. CInv => KeysInUseAreOnDisk
    BY PairAssumption DEF CInv, KeysFollow, Recorded, KeysInUseAreOnDisk
  <1> QED
    BY ConnInvariance, <1>1, PTL

\* What is recorded as a success was sent by a registered agent.
THEOREM SuccessesAreRegistered == Spec => []SuccessNeedsRegistration
  BY ConnInvariance, PTL DEF CInv

\* A heartbeat that is begun when there is an access key carries a cid exactly
\* if the answer that granted the key has one.
THEOREM BeatsCarryCid == Spec => NewBeatsCarryCid
  <1> DEFINE Carries == hb = "waiting" /\ hb' = "built" /\ ak \in Pair => (request'.cid <=> grantedCid = "set")
  <1>1. CInv /\ [Next]_vars => [Carries]_vars
    <2> SUFFICES ASSUME CInv, Next, hb = "waiting", hb' = "built", ak \in Pair
                 PROVE  request'.cid <=> grantedCid = "set"
      OBVIOUS
    <2>1. IF grantedCid = "set" THEN cid = "set" ELSE cid = "none"
      BY PairAssumption DEF CInv, KeysFollow, Recorded, TypeOK
    <2>2. NewRequest
      BY DEF Next, RegistrationStep, Connect, SetCid, RecordSecretKeyToFile, AssignKeys,
         ConnectRefused, ConnectPanics, ConnectAnswered, HeartbeatStep, GetAccessKey,
         GetSecureKey, SignAndSend, HeartbeatPanics, HeartbeatAnswered, RecordOutcome,
         Crash, Restart, Fresh, hbVars
    <2> QED
      BY <2>1, <2>2 DEF NewRequest, NoBeat
  <1> QED
    BY ConnInvariance, <1>1, PTL DEF Spec, NewBeatsCarryCid
=============================================================================
