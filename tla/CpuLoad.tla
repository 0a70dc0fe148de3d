------------------------------- MODULE CpuLoad -------------------------------
(***************************************************************************)
(* How a cpu helper burns: CpuStart starts a worker per cpu and then       *)
(* measures, about once a second, how far the use of the machine is from   *)
(* the target, and sends the difference to the workers through a channel   *)
(* with room for one offset per worker.  A worker iterates: it burns for   *)
(* its quota q and sleeps for s.  s is computed once, when the worker      *)
(* starts; the later `ds` of its loop is another variable.                 *)
(*                                                                         *)
(* What the machine reports is external: it holds the load of this helper  *)
(* and of everything else, over all cores, of which the workers may use    *)
(* only some.  Iterations take the time q and s add up to; a machine that  *)
(* stalls for seconds is left out.  So is <-ctx.Done(), which is never     *)
(* ready (see Experiments).                                                *)
(***************************************************************************)
EXTENDS Integers, Sequences, FiniteSets

CONSTANTS
    Worker,     \* one burn goroutine per cpu asked for
    Period,     \* a second, in units of q
    Target,     \* the busy share of a second that is asked for
    Uses,       \* what the machine may report: busy shares of a second
    MaxQ,       \* bound: a quota that is larger is not told apart
    MaxRounds   \* bound: rounds are counted up to here

ASSUME WorkerAssumption == IsFiniteSet(Worker) /\ Worker # {}
ASSUME TargetAssumption == Period \in Nat \ {0} /\ Target \in 1 .. Period
ASSUME UsesAssumption == Uses \subseteq 0 .. Period
ASSUME BoundAssumption == MaxQ \in Nat /\ MaxQ > 5 * Period /\ MaxRounds \in Nat

VARIABLES
    producer,   \* CpuStart: "measure" or "send"
    offset,     \* the difference it has measured last
    toSend,     \* how many workers it has still to send it to
    quota,      \* the channel
    worker,     \* where each burn is: see WorkerPC
    q, s,       \* its quota and its sleep
    rounds      \* ghost: measurements of the producer

workerVars == <<worker, q, s>>
vars == <<producer, offset, toSend, quota, workerVars, rounds>>

WorkerPC == {"starting", "select", "busy", "returned"}

N == Cardinality(Worker)

\* Types, and the channel never holds more than an offset per worker.
TypeOK ==
    /\ producer \in {"measure", "send"}
    /\ offset \in Target - Period .. Target
    /\ toSend \in 0 .. N
    /\ quota \in Seq(Target - Period .. Target) /\ Len(quota) <= N
    /\ worker \in [Worker -> WorkerPC]
    /\ q \in [Worker -> Target - Period .. MaxQ]
    /\ s \in [Worker -> 0 .. 2 * Period]
    /\ rounds \in 0 .. MaxRounds

Init ==
    /\ producer = "measure"
    /\ offset = 0
    /\ toSend = 0
    /\ quota = <<>>
    /\ worker = [w \in Worker |-> "starting"]
    /\ q = [w \in Worker |-> 0]
    /\ s = [w \in Worker |-> 0]
    /\ rounds = 0

-----------------------------------------------------------------------------

AtLeast0(n) == IF n < 0 THEN 0 ELSE n
AtMostMaxQ(n) == IF n > MaxQ THEN MaxQ ELSE n

\* The machine is watched for a second; the difference may be negative.
getQuota == {Target - used : used \in Uses}

\* The loop of CpuStart has no end ...
Measure ==
    /\ producer = "measure"
    /\ offset' \in getQuota
    /\ toSend' = N
    /\ producer' = "send"
    /\ rounds' = IF rounds < MaxRounds THEN rounds + 1 ELSE rounds
    /\ UNCHANGED <<quota, workerVars>>

\* Mutant: the channel has room for one offset more.
SendOneMore ==
    /\ producer = "send"
    /\ Len(quota) <= N
    /\ quota' = Append(quota, offset)
    /\ toSend' = toSend - 1
    /\ producer' = IF toSend = 1 THEN "measure" ELSE "send"
    /\ UNCHANGED <<offset, workerVars, rounds>>

\* ... and blocks while the channel is full.
Send ==
    /\ producer = "send"
    /\ Len(quota) < N
    /\ quota' = Append(quota, offset)
    /\ toSend' = toSend - 1
    /\ producer' = IF toSend = 1 THEN "measure" ELSE "send"
    /\ UNCHANGED <<offset, workerVars, rounds>>

\* A worker measures for itself before its loop, and keeps a negative quota.
Start(w) ==
    /\ worker[w] = "starting"
    /\ \E first \in getQuota :
          /\ q' = [q EXCEPT ![w] = first]
          /\ s' = [s EXCEPT ![w] = AtLeast0(Period - first)]
    /\ worker' = [worker EXCEPT ![w] = "select"]
    /\ UNCHANGED <<producer, offset, toSend, quota, rounds>>

\* Mutant: only a worker that does not burn takes an offset.
TakeWhenIdle(w) ==
    /\ worker[w] = "select"
    /\ quota # <<>>
    /\ q[w] <= 0
    /\ q' = [q EXCEPT ![w] = AtLeast0(q[w] + Head(quota))]
    /\ quota' = Tail(quota)
    /\ UNCHANGED <<producer, offset, toSend, worker, s, rounds>>

\* select takes an offset if there is one.
Take(w) ==
    /\ worker[w] = "select"
    /\ quota # <<>>
    /\ q' = [q EXCEPT ![w] = AtMostMaxQ(AtLeast0(q[w] + Head(quota)))]
    /\ quota' = Tail(quota)
    /\ UNCHANGED <<producer, offset, toSend, worker, s, rounds>>

\* default: burn and sleep.
Burn(w) ==
    /\ worker[w] = "select"
    /\ quota = <<>>
    /\ worker' = [worker EXCEPT ![w] = "busy"]
    /\ UNCHANGED <<producer, offset, toSend, quota, q, s, rounds>>

Iteration(w) == AtLeast0(q[w]) + s[w]

\* Mutant: the second of the minute is compared with 0.
LongerThan5Short(w) == Iteration(w) > Period

\* More than 5 s, as told by the seconds of two clock readings.
LongerThan5(w) == Iteration(w) > 5 * Period

\* An iteration ends.  The worker may return after a long one: the seconds
\* wrap around at the full minute, where none looks long.
Iterated(w) ==
    /\ worker[w] = "busy"
    /\ \/ worker' = [worker EXCEPT ![w] = "select"]
       \/ LongerThan5(w) /\ worker' = [worker EXCEPT ![w] = "returned"]
    /\ UNCHANGED <<producer, offset, toSend, quota, q, s, rounds>>

CpuStart == Measure \/ Send

burn(w) == Start(w) \/ Take(w) \/ Burn(w) \/ Iterated(w)

\* No worker is left and the channel is full: the process lives on.
Stalled ==
    /\ \A w \in Worker : worker[w] = "returned"
    /\ producer = "send" /\ Len(quota) = N
    /\ UNCHANGED vars

Next == CpuStart \/ (\E w \in Worker : burn(w)) \/ Stalled

Spec == Init /\ [][Next]_vars

\* The goroutines are scheduled, bursts and sleeps end.
FairSpec == Spec /\ WF_vars(CpuStart) /\ \A w \in Worker : WF_vars(burn(w))

-----------------------------------------------------------------------------
(* Properties *)

\* A load that is asked for runs for some rounds at least, whatever the
\* machine reports and however the workers share the offsets: no worker
\* returns before all the offsets of so many rounds, given to one worker, can
\* have made an iteration take more than 5 s (cpu_main.go:118-151).  A worker
\* starts with iterations of a second, or of up to two if the target is
\* exceeded then, in which case its first offset is lost.
LoadHoldsAtFirst ==
    \A w \in Worker :
        worker[w] = "returned" /\ rounds < MaxRounds
        => \/ N * rounds * Target > 4 * Period
           \/ N * rounds * Target > 3 * Period + 2 * Target

\* The producer is never blocked for good while a worker is left to take its
\* offsets, although workers look at the channel only between iterations.
ProducerIsServed ==
    producer = "send" /\ Len(quota) = N
    ~> \/ Len(quota) < N
       \/ \A w \in Worker : worker[w] = "returned"
=============================================================================
