---------------------------- MODULE ShutdownProofs ----------------------------
(* The order in which a process ends, for any number of close notices that  *)
(* are under way.                                                           *)
EXTENDS Shutdown, TLAPS

Past == {"waited", "hold", "closing", "dumping", "exited"}

\* Wait closes wgDone when main comes past it, the goroutine of pkg/tools is
\* done only after that, and a helper never gets there.
GInv ==
    /\ TypeOK
    /\ wgDone => main \in Past
    /\ appGo = "done" => wgDone
    /\ role = "helper" => busy /\ ~wgDone /\ main \in {"starting", "waiting", "exited"}

\* A process starts before Wait, a helper with its load.
LEMMA InitEstablishes == Init => GInv
  <1>1. 0 \in 0 .. MaxPosts
    BY MaxPostsAssumption
  <1> QED
    BY <1>1, Zenon DEF Init, GInv, Past, TypeOK, MainPC, AppPC, Signal

\* Signals, and the goroutine of pkg/tools, which looks at wgDone.
LEMMA AppKeeps ==
    ASSUME GInv, AppStep \/ \E sig \in Signal : Deliver(sig)
    PROVE  GInv'
  <1>1. CASE AppListens \/ AppCloses \/ AppDone \/ TimerFires
    <2>1. UNCHANGED <<role, main, cause, holdSig, busy, wgDone, posts, told>>
      BY <1>1, Zenon DEF AppListens, AppCloses, AppDone, TimerFires
    <2>2. /\ appGo' \in AppPC /\ appSig' \in {"none", "TERM"}
          /\ appGo' = "done" => wgDone
      BY <1>1 DEF AppListens, AppCloses, AppDone, TimerFires, GInv, TypeOK, AppPC
    <2> QED
      BY <2>1, <2>2, Zenon DEF GInv, TypeOK
  <1>2. CASE GraceTimeout
    BY <1>2 DEF GraceTimeout, Exit, Runs, GInv, Past, TypeOK, MainPC
  <1>3. ASSUME NEW sig \in Signal, Deliver(sig) PROVE GInv'
    <2>1. holdSig' \in Signal \cup {"none"} /\ appSig' \in {"none", "TERM"}
      BY <1>3 DEF Deliver, Offer, Exit, GInv, TypeOK, Signal
    <2>2. CASE UNCHANGED <<main, cause>>
      BY <1>3, <2>1, <2>2 DEF Deliver, GInv, TypeOK
    <2>3. CASE main' = "exited" /\ cause' = "default action"
      BY <1>3, <2>1, <2>3 DEF Deliver, GInv, Past, TypeOK, MainPC
    <2> QED
      BY <1>3, <2>2, <2>3 DEF Deliver, Exit
  <1> QED
    BY <1>1, <1>2, <1>3 DEF AppStep

\* The main goroutine: Wait closes wgDone, Hold and Shutdown come after it.
LEMMA MainKeeps == GInv /\ MainStep => GInv'
  <1> SUFFICES ASSUME GInv, MainStep PROVE GInv'
    OBVIOUS
  <1>1. CASE Wait
    BY <1>1 DEF Wait, GInv, Past, TypeOK, MainPC
  <1>2. CASE WaitReturns
    BY <1>2 DEF WaitReturns, Exit, GInv, Past, TypeOK, MainPC
  <1>3. CASE Hold
    BY <1>3 DEF Hold, GInv, Past, TypeOK, MainPC
  <1>4. CASE HoldTakes
    <2>0. posts \in 0 .. MaxPosts /\ posts' = IF posts < MaxPosts THEN posts + 1 ELSE posts
      BY <1>4, Zenon DEF HoldTakes, GInv, TypeOK
    <2>1. posts' \in 0 .. MaxPosts
      BY <2>0, MaxPostsAssumption
    <2> QED
      BY <1>4, <2>1 DEF HoldTakes, GInv, Past, TypeOK, MainPC
  <1>5. CASE ShutdownEnds
    BY <1>5 DEF ShutdownEnds, Exit, GInv, Past, TypeOK, MainPC
  <1> QED
    BY <1>1, <1>2, <1>3, <1>4, <1>5 DEF MainStep

\* Requests, helpers, the listener and the notices.
LEMMA OthersKeep ==
    ASSUME GInv, CreateRequest \/ HelpersEnd \/ ListenerFails \/ PostEnds
    PROVE  GInv'
  <1>1. CASE CreateRequest
    BY <1>1 DEF CreateRequest, GInv, TypeOK
  <1>2. CASE HelpersEnd
    BY <1>2 DEF HelpersEnd, Runs, GInv, Past, TypeOK, MainPC
  <1>3. CASE ListenerFails
    BY <1>3 DEF ListenerFails, handlerErr, Exit, Runs, GInv, Past, TypeOK, MainPC
  <1>4. CASE PostEnds
    <2>0. posts \in 0 .. MaxPosts /\ posts' = posts - 1 /\ posts > 0
      BY <1>4, Zenon DEF PostEnds, GInv, TypeOK
    <2>1. posts' \in 0 .. MaxPosts /\ posts # 0
      BY <2>0, MaxPostsAssumption
    <2>2. told' \in BOOLEAN
      BY <1>4, Zenon DEF PostEnds, GInv, TypeOK
    <2> QED
      BY <1>4, <2>1, <2>2, Zenon DEF PostEnds, GInv, TypeOK
  <1> QED
    BY <1>1, <1>2, <1>3, <1>4

-----------------------------------------------------------------------------

\* The inductive invariant of a process that ends.
THEOREM ShutdownInvariance == Spec => []GInv
  <1>1. ASSUME GInv, UNCHANGED vars PROVE GInv'
    <2>1. /\ role' = role /\ main' = main /\ cause' = cause /\ appGo' = appGo
          /\ appSig' = appSig /\ holdSig' = holdSig /\ busy' = busy /\ wgDone' = wgDone
          /\ posts' = posts /\ told' = told
      BY <1>1, Zenon DEF vars
    <2> QED
      BY <1>1, <2>1, Zenon DEF GInv, TypeOK
  <1>2. GInv /\ [Next]_vars => GInv'
    BY <1>1, AppKeeps, MainKeeps, OthersKeep DEF Next, Ended
  <1> QED
    BY InitEstablishes, <1>2, PTL DEF Spec

\* Every reachable state is well typed; a full channel loses the signal
\* (signal.go:16, app.go:67).
THEOREM TypeCorrect == Spec => []TypeOK
  BY ShutdownInvariance, PTL DEF GInv

\* A process that has seen a SIGTERM off is an agent past Wait (app.go:84).
THEOREM SurvivorsArePastWait == Spec => []SurvivorIsPastWait
  <1>1. GInv => SurvivorIsPastWait
    BY DEF GInv, TypeOK, Past, SurvivorIsPastWait
  <1> QED
    BY ShutdownInvariance, <1>1, PTL
=============================================================================
