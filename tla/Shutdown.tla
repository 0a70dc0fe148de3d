------------------------------ MODULE Shutdown ------------------------------
(***************************************************************************)
(* How a process of the project ends on a signal.  Every binary links      *)
(* pkg/tools, whose init starts a goroutine that waits for SIGTERM; the    *)
(* agent's main (chaos_agent.go) runs tools.Wait and then tools.Hold,      *)
(* which waits for signals of its own.  Wait waits for what tools.Go has   *)
(* started: in a helper the load, which has no end; in the agent the       *)
(* goroutines that have started helpers and wait for them, if a create     *)
(* request has come before Wait.  SIGINT is handled like SIGTERM.  Kills   *)
(* that a process cannot notice are left out.                              *)
(***************************************************************************)
EXTENDS Naturals

CONSTANT MaxPosts   \* bound: from here on, close notices under way are not
                    \* counted any more

ASSUME MaxPostsAssumption == MaxPosts \in Nat \ {0}

VARIABLES
    role,       \* "agent" or "helper"
    main,       \* the main goroutine: see MainPC
    cause,      \* why the process ended
    appGo,      \* closeAppWhenAnExitSignalIsEncountered: see AppPC
    appSig,     \* its channel, of capacity 1
    holdSig,    \* the channel of Hold, of capacity 1
    busy,       \* does a goroutine of tools.Go run?
    wgDone,     \* has tools.Wait closed app.wgDone?
    posts,      \* goroutines of Shutdown that are telling the server
    told        \* external: the server has been told that the agent closes

vars == <<role, main, cause, appGo, appSig, holdSig, busy, wgDone, posts, told>>

\* "waiting" and "woken" are in Wait, "waited" is before Hold; in "closing"
\* and "dumping" Shutdown sleeps, for a SIGTERM and for a SIGQUIT.
MainPC == {"starting", "waiting", "woken", "waited", "hold", "closing",
           "dumping", "exited"}

\* "grace" is in the select, "overdue" after the choice of the timer.
AppPC == {"new", "listening", "grace", "overdue", "done"}

Signal == {"TERM", "QUIT"}

\* Types; each signal channel holds at most one signal.
TypeOK ==
    /\ role \in {"agent", "helper"}
    /\ main \in MainPC
    /\ cause \in {"none", "default action", "grace timeout", "panic", "listener", "hold"}
    /\ appGo \in AppPC
    /\ appSig \in {"none", "TERM"}
    /\ holdSig \in Signal \cup {"none"}
    /\ busy \in BOOLEAN
    /\ wgDone \in BOOLEAN
    /\ posts \in 0 .. MaxPosts
    /\ told \in BOOLEAN

Init ==
    /\ role \in {"agent", "helper"}
    /\ main = "starting"
    /\ cause = "none"
    /\ appGo = "new"
    /\ appSig = "none"
    /\ holdSig = "none"
    /\ busy = (role = "helper")
    /\ wgDone = FALSE
    /\ posts = 0
    /\ told = FALSE

Runs == main # "exited"

Exit(why) ==
    /\ main' = "exited"
    /\ cause' = why

-----------------------------------------------------------------------------
(* Signals *)

AppNotified == appGo # "new"
HoldNotified == main \in {"hold", "closing", "dumping"}

\* A channel that is full loses the signal.
Offer(channel, sig) == IF channel = "none" THEN sig ELSE channel

\* The runtime offers a signal to every channel notified of it; if there is
\* none, the default action ends the process.
Deliver(sig) ==
    /\ Runs
    /\ IF HoldNotified \/ (AppNotified /\ sig = "TERM")
       THEN /\ holdSig' = IF HoldNotified THEN Offer(holdSig, sig) ELSE holdSig
            /\ appSig' = IF AppNotified /\ sig = "TERM" THEN Offer(appSig, sig) ELSE appSig
            /\ UNCHANGED <<main, cause>>
       ELSE Exit("default action") /\ UNCHANGED <<holdSig, appSig>>
    /\ UNCHANGED <<role, appGo, busy, wgDone, posts, told>>

\* The goroutine of init: Notify, take one signal, Close, then wait for
\* wgDone or for the timer.
AppListens ==
    /\ Runs /\ appGo = "new"
    /\ appGo' = "listening"
    /\ UNCHANGED <<role, main, cause, appSig, holdSig, busy, wgDone, posts, told>>

AppCloses ==
    /\ Runs /\ appGo = "listening" /\ appSig = "TERM"
    /\ appGo' = "grace"
    /\ appSig' = "none"
    /\ UNCHANGED <<role, main, cause, holdSig, busy, wgDone, posts, told>>

AppDone ==
    /\ Runs /\ appGo = "grace" /\ wgDone
    /\ appGo' = "done"
    /\ UNCHANGED <<role, main, cause, appSig, holdSig, busy, wgDone, posts, told>>

\* 30 s have passed.  If wgDone is closed, too, the select takes either.  What
\* Close cancels, nobody in the project looks at.
TimerFires ==
    /\ Runs /\ appGo = "grace"
    /\ appGo' = "overdue"
    /\ UNCHANGED <<role, main, cause, appSig, holdSig, busy, wgDone, posts, told>>

\* The stack is printed, then the process exits, whatever main has come to
\* meanwhile: Hold may have begun to tell the server.
GraceTimeout ==
    /\ Runs /\ appGo = "overdue"
    /\ Exit("grace timeout")
    /\ UNCHANGED <<role, appGo, appSig, holdSig, busy, wgDone, posts, told>>

-----------------------------------------------------------------------------
(* main *)

\* The listener is up before main waits: a create request starts a helper
\* with tools.Go.
CreateRequest ==
    /\ role = "agent" /\ Runs /\ ~busy
    /\ busy' = TRUE
    /\ UNCHANGED <<role, main, cause, appGo, appSig, holdSig, wgDone, posts, told>>

\* The last helper of the agent is gone.
HelpersEnd ==
    /\ role = "agent" /\ Runs /\ busy
    /\ busy' = FALSE
    /\ main' = IF main = "waiting" THEN "woken" ELSE main
    /\ UNCHANGED <<role, cause, appGo, appSig, holdSig, wgDone, posts, told>>

\* Mutant: Go counts what it starts in the new goroutine, too late for Wait.
WaitTooEarly ==
    /\ main = "starting"
    /\ main' = "waited"
    /\ wgDone' = TRUE
    /\ UNCHANGED <<role, cause, appGo, appSig, holdSig, busy, posts, told>>

\* Wait returns at once if nothing runs; it closes wgDone.
Wait ==
    /\ main = "starting"
    /\ main' = IF busy THEN "waiting" ELSE "waited"
    /\ wgDone' = ~busy
    /\ UNCHANGED <<role, cause, appGo, appSig, holdSig, busy, posts, told>>

\* A WaitGroup that is used again before Wait has returned panics.
WaitReturns ==
    /\ main = "woken"
    /\ IF busy THEN Exit("panic") /\ UNCHANGED wgDone
               ELSE main' = "waited" /\ wgDone' = TRUE /\ UNCHANGED cause
    /\ UNCHANGED <<role, appGo, appSig, holdSig, busy, posts, told>>

Hold ==
    /\ main = "waited"
    /\ main' = "hold"
    /\ UNCHANGED <<role, cause, appGo, appSig, holdSig, busy, wgDone, posts, told>>

\* The pid file (not modelled) gets -1, and the agent ends at once.
handlerErr == Exit("listener")

\* http.ListenAndServe returns.
ListenerFails ==
    /\ role = "agent" /\ Runs
    /\ handlerErr
    /\ UNCHANGED <<role, appGo, appSig, holdSig, busy, wgDone, posts, told>>

\* Hold takes a signal and calls Shutdown: a goroutine posts the close
\* notice while Shutdown sleeps for 2 s.
HoldTakes ==
    /\ main = "hold" /\ holdSig # "none"
    /\ posts' = IF posts < MaxPosts THEN posts + 1 ELSE posts
    /\ main' = IF holdSig = "TERM" THEN "closing" ELSE "dumping"
    /\ holdSig' = "none"
    /\ UNCHANGED <<role, cause, appGo, appSig, busy, wgDone, told>>

\* The notice arrives, or fails (no keys, no connection).
PostEnds ==
    /\ Runs /\ posts > 0
    /\ posts' = posts - 1
    /\ told' \in {told, TRUE}
    /\ UNCHANGED <<role, main, cause, appGo, appSig, holdSig, busy, wgDone>>

\* Mutant: the loop goes on after a SIGTERM.
ShutdownEndsInLoop ==
    /\ main \in {"closing", "dumping"}
    /\ main' = "hold"
    /\ UNCHANGED <<role, cause, appGo, appSig, holdSig, busy, wgDone, posts, told>>

\* The sleep is over, whether or not the notice has been answered.
ShutdownEnds ==
    /\ \/ main = "closing" /\ Exit("hold")
       \/ main = "dumping" /\ main' = "hold" /\ UNCHANGED cause
    /\ UNCHANGED <<role, appGo, appSig, holdSig, busy, wgDone, posts, told>>

MainStep == Wait \/ WaitReturns \/ Hold \/ HoldTakes \/ ShutdownEnds

AppStep == AppListens \/ AppCloses \/ AppDone \/ TimerFires \/ GraceTimeout

Ended == ~Runs /\ UNCHANGED vars

Next ==
    \/ \E sig \in Signal : Deliver(sig)
    \/ AppStep \/ MainStep
    \/ CreateRequest \/ HelpersEnd
    \/ ListenerFails \/ PostEnds
    \/ Ended

Spec == Init /\ [][Next]_vars

\* Both goroutines are scheduled, sleeps and timers end; a notice that is
\* sent may stay unanswered for ever, and a helper may run for ever.
FairSpec == Spec /\ WF_vars(AppStep) /\ WF_vars(MainStep)

-----------------------------------------------------------------------------
(* Properties *)

\* A process whose first SIGTERM has been seen off without ending it is an
\* agent that has come past Wait, where Hold listens for the next one
\* (app.go:84).  It is never a helper, which has no Hold: the WaitGroup counts
\* its load before Wait looks at it (app.go:31).
SurvivorIsPastWait ==
    appGo = "done" =>
        /\ role = "agent" /\ wgDone
        /\ main \in {"waited", "hold", "closing", "dumping", "exited"}

\* A SIGTERM that Hold has been offered ends the agent; one that the goroutine
\* of pkg/tools has been offered ends a helper, although its load never stops,
\* and an agent that does not come past Wait.
OfferedTermEnds ==
    /\ holdSig = "TERM" ~> ~Runs
    /\ appSig = "TERM" ~> ~Runs \/ (role = "agent" /\ wgDone)
=============================================================================
