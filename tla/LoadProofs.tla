------------------------------ MODULE LoadProofs ------------------------------
(***************************************************************************)
(* The two loads of a helper: how long a cpu helper burns, for any number  *)
(* of workers and any percentage, and how much a mem helper takes, for     *)
(* machines, percentages and rates of any size.                            *)
(***************************************************************************)
EXTENDS CpuLoad, MemLoad, FiniteSetTheorems, TLAPS

-----------------------------------------------------------------------------
(* The cpu load *)

\* What the producer has still to send in this round, and what the workers
\* have taken in all (as long as rounds are counted).
Pending == IF producer = "send" THEN toSend ELSE 0
Taken == N * rounds - Pending - Len(quota)

\* The producer counts down to 1.
CountsDown == producer = "send" => toSend \in 1 .. N

\* Nobody has taken what has not been sent; and an iteration has grown since
\* the start of its worker by what has been taken, even if one worker took it
\* all, or its negative quota has swallowed an offset.
Growth ==
    rounds < MaxRounds =>
    /\ Taken >= 0
    /\ \A w \in Worker : worker[w] \in {"select", "busy"} =>
          /\ s[w] <= 2 * Period - Target
          /\ \/ q[w] + s[w] <= Period + Target * Taken
             \/ q[w] <= Target * (Taken - 1)

LInv == TypeOK /\ CountsDown /\ Growth /\ LoadHoldsAtFirst

-----------------------------------------------------------------------------

\* The constants, and what may be measured.
LEMMA ConstantsAre ==
    /\ N \in Nat \ {0} /\ Period \in Nat \ {0} /\ Target \in 1 .. Period
    /\ MaxQ \in Nat /\ MaxQ > 5 * Period /\ MaxRounds \in Nat
    /\ \A m \in getQuota : m \in Target - Period .. Target
  <1>1. N \in Nat \ {0}
    BY WorkerAssumption, FS_CardinalityType, FS_EmptySet DEF N
  <1>2. \A m \in getQuota : m \in Target - Period .. Target
    BY TargetAssumption, UsesAssumption DEF getQuota
  <1> QED
    BY <1>1, <1>2, TargetAssumption, BoundAssumption

\* A product with a positive factor grows with the other one, and by that
\* factor at a step.
LEMMA Products ==
    ASSUME NEW t \in Nat
    PROVE  /\ \A a, b \in Int : a <= b => t * a <= t * b
           /\ \A a \in Int : t * (a + 1) = t * a + t
           /\ \A a \in Int : t * a \in Int
  <1>1. ASSUME NEW a \in Int, NEW b \in Int, a <= b PROVE t * a <= t * b
    <2>1. b - a \in Nat
      BY <1>1
    <2>2. t * (b - a) >= 0
      BY <2>1
    <2>3. t * b = t * a + t * (b - a)
      OBVIOUS
    <2> QED
      BY <2>2, <2>3
  <1>2. \A a \in Int : t * (a + 1) = t * a + t
    OBVIOUS
  <1>3. \A a \in Int : t * a \in Int
    OBVIOUS
  <1> QED
    BY <1>1, <1>2, <1>3

\* Nothing has been sent and nobody has started.
LEMMA InitEstablishes == Init => LInv
  <1> SUFFICES ASSUME Init PROVE LInv
    OBVIOUS
  <1> USE ConstantsAre DEF Init
  <1>1. TypeOK
    BY DEF TypeOK, WorkerPC
  <1>2. CountsDown /\ LoadHoldsAtFirst
    BY DEF CountsDown, LoadHoldsAtFirst
  <1>3. Taken = 0
    BY DEF Taken, Pending
  <1>4. Growth
    BY <1>3 DEF Growth
  <1> QED
    BY <1>1, <1>2, <1>4 DEF LInv

\* The producer never puts more into the channel than it holds.
LEMMA ProducerKeepsType ==
    ASSUME TypeOK, CountsDown, CpuStart PROVE TypeOK' /\ CountsDown'
  <1> USE ConstantsAre
  <1>1. CASE Measure
    <2>1. /\ offset' \in Target - Period .. Target /\ toSend' = N /\ producer' = "send"
          /\ rounds' \in 0 .. MaxRounds
          /\ UNCHANGED <<quota, worker, q, s>>
      BY <1>1 DEF Measure, workerVars, TypeOK
    <2>2. toSend' \in 1 .. N
      BY <2>1
    <2> QED
      BY <2>1, <2>2 DEF TypeOK, CountsDown
  <1>2. CASE Send
    <2>1. /\ toSend \in 1 .. N /\ Len(quota) < N
          /\ quota \in Seq(Target - Period .. Target)
          /\ offset \in Target - Period .. Target
          /\ quota' = Append(quota, offset) /\ toSend' = toSend - 1
          /\ producer' = IF toSend = 1 THEN "measure" ELSE "send"
          /\ UNCHANGED <<offset, worker, q, s, rounds>>
      BY <1>2 DEF Send, workerVars, TypeOK, CountsDown
    <2>2. quota' \in Seq(Target - Period .. Target) /\ Len(quota') = Len(quota) + 1
      BY <2>1
    <2>3. /\ Len(quota') <= N /\ toSend' \in 0 .. N
          /\ producer' = "send" => toSend' \in 1 .. N
      BY <2>1, <2>2
    <2> QED
      BY <2>1, <2>2, <2>3 DEF TypeOK, CountsDown
  <1> QED
    BY <1>1, <1>2 DEF CpuStart

\* The quota of a worker stays between the least measurement and the bound.
LEMMA WorkerKeepsType ==
    ASSUME TypeOK, CountsDown, NEW w \in Worker, burn(w) PROVE TypeOK' /\ CountsDown'
  <1> USE ConstantsAre
  <1>1. /\ worker \in [Worker -> WorkerPC]
        /\ q \in [Worker -> Target - Period .. MaxQ]
        /\ s \in [Worker -> 0 .. 2 * Period]
        /\ quota \in Seq(Target - Period .. Target) /\ Len(quota) <= N
    BY DEF TypeOK
  <1>2. CASE Start(w)
    <2>1. PICK first \in getQuota :
             /\ q' = [q EXCEPT ![w] = first]
             /\ s' = [s EXCEPT ![w] = AtLeast0(Period - first)]
      BY <1>2 DEF Start
    <2>2. first \in Target - Period .. MaxQ /\ AtLeast0(Period - first) \in 0 .. 2 * Period
      BY DEF AtLeast0
    <2>3. q' \in [Worker -> Target - Period .. MaxQ] /\ s' \in [Worker -> 0 .. 2 * Period]
      BY <1>1, <2>1, <2>2
    <2>4. worker' \in [Worker -> WorkerPC]
      BY <1>1, <1>2 DEF Start, WorkerPC
    <2> QED
      BY <1>2, <2>3, <2>4 DEF Start, TypeOK, CountsDown
  <1>3. CASE Take(w)
    <2>1. quota # <<>> /\ q' = [q EXCEPT ![w] = AtMostMaxQ(AtLeast0(q[w] + Head(quota)))]
      BY <1>3 DEF Take
    <2>2. Head(quota) \in Target - Period .. Target
      BY <1>1, <2>1
    <2>3. AtMostMaxQ(AtLeast0(q[w] + Head(quota))) \in Target - Period .. MaxQ
      BY <1>1, <2>2 DEF AtMostMaxQ, AtLeast0
    <2>4. q' \in [Worker -> Target - Period .. MaxQ]
      BY <1>1, <2>1, <2>3
    <2>5. quota' \in Seq(Target - Period .. Target) /\ Len(quota') <= N
      BY <1>1, <1>3, <2>1 DEF Take
    <2> QED
      BY <1>3, <2>4, <2>5 DEF Take, TypeOK, CountsDown
  <1>4. CASE Burn(w) \/ Iterated(w)
    <2>1. worker' \in [Worker -> WorkerPC]
      BY <1>1, <1>4 DEF Burn, Iterated, WorkerPC
    <2> QED
      BY <1>4, <2>1 DEF Burn, Iterated, TypeOK, CountsDown
  <1> QED
    BY <1>2, <1>3, <1>4 DEF burn

\* A round adds to what is pending what it adds to what is sent, and a send
\* moves an offset into the channel: nobody has taken more.
LEMMA ProducerKeepsGrowth ==
    ASSUME LInv, CpuStart PROVE Growth' /\ LoadHoldsAtFirst'
  <1> USE ConstantsAre DEF LInv
  <1>1. /\ UNCHANGED <<worker, q, s>>
        /\ rounds \in Nat /\ rounds' \in Nat /\ rounds <= rounds' /\ Len(quota) \in Nat
    BY DEF CpuStart, Measure, Send, workerVars, TypeOK
  <1>2. rounds' < MaxRounds => rounds < MaxRounds /\ Taken' = Taken
    <2>1. CASE Measure
      <3>1. /\ producer = "measure" /\ producer' = "send" /\ toSend' = N
            /\ UNCHANGED quota
            /\ rounds' < MaxRounds => rounds < MaxRounds /\ rounds' = rounds + 1
        BY <2>1 DEF Measure, TypeOK
      <3>2. Pending = 0 /\ Pending' = N
        BY <3>1 DEF Pending
      <3>3. N * (rounds + 1) = N * rounds + N
        BY <1>1, Products
      <3>4. N * rounds \in Int
        BY <1>1, Products
      <3> QED
        BY <1>1, <3>1, <3>2, <3>3, <3>4 DEF Taken
    <2>2. CASE Send
      <3>1. /\ producer = "send" /\ toSend \in 1 .. N /\ toSend' = toSend - 1
            /\ producer' = IF toSend = 1 THEN "measure" ELSE "send"
            /\ Len(quota') = Len(quota) + 1
            /\ rounds' = rounds
        BY <2>2 DEF Send, TypeOK, CountsDown
      <3>2. Pending = toSend /\ Pending' = toSend - 1
        BY <3>1 DEF Pending
      <3>3. N * rounds \in Int
        BY <1>1, Products
      <3> QED
        BY <1>1, <3>1, <3>2, <3>3 DEF Taken
    <2> QED
      BY <2>1, <2>2 DEF CpuStart
  <1>3. Growth'
    BY <1>1, <1>2 DEF Growth
  <1>4. LoadHoldsAtFirst'
    <2>1. N * rounds <= N * rounds' /\ N * rounds \in Int /\ N * rounds' \in Int
      <3>1. N \in Nat /\ rounds \in Int /\ rounds' \in Int
        BY <1>1
      <3> QED
        BY ONLY <1>1, <3>1, Products
    <2>2. Target * (N * rounds) <= Target * (N * rounds')
      BY <2>1, Products
    <2>3. N * rounds * Target <= N * rounds' * Target
      BY <2>1, <2>2
    <2>4. N * rounds * Target \in Int /\ N * rounds' * Target \in Int
      BY <2>1
    <2> SUFFICES ASSUME NEW w \in Worker, worker[w] = "returned", rounds' < MaxRounds
                 PROVE  \/ N * rounds' * Target > 4 * Period
                        \/ N * rounds' * Target > 3 * Period + 2 * Target
      BY <1>1 DEF LoadHoldsAtFirst
    <2>5. \/ N * rounds * Target > 4 * Period
          \/ N * rounds * Target > 3 * Period + 2 * Target
      BY <1>2 DEF LoadHoldsAtFirst
    <2> QED
      BY <2>3, <2>4, <2>5
  <1> QED
    BY <1>3, <1>4

\* A worker that starts has iterations of a period, or, if its quota is
\* negative, of less than two.
LEMMA StartKeepsGrowth ==
    ASSUME LInv, NEW w \in Worker, Start(w) PROVE Growth' /\ LoadHoldsAtFirst'
  <1> USE ConstantsAre DEF LInv
  <1>1. PICK first \in getQuota :
           /\ q' = [q EXCEPT ![w] = first]
           /\ s' = [s EXCEPT ![w] = AtLeast0(Period - first)]
    BY DEF Start
  <1>2. /\ q'[w] = first /\ s'[w] = Period - first
        /\ worker'[w] = "select"
        /\ \A x \in Worker \ {w} : q'[x] = q[x] /\ s'[x] = s[x] /\ worker'[x] = worker[x]
        /\ UNCHANGED <<producer, toSend, quota, rounds>>
    BY <1>1 DEF Start, AtLeast0, TypeOK
  <1>3. Taken' = Taken
    BY <1>2 DEF Taken, Pending
  <1>4. LoadHoldsAtFirst'
    BY <1>2 DEF LoadHoldsAtFirst
  <1>5. Growth'
    <2> SUFFICES ASSUME rounds < MaxRounds, Taken >= 0 PROVE Growth'
      BY <1>2 DEF Growth
    <2>1. Taken \in Int
      <3>1. /\ rounds \in Int /\ Len(quota) \in Int /\ Pending \in Int
        BY DEF TypeOK, Pending
      <3> QED
        BY <3>1, Products DEF Taken
    <2>2. Target * Taken >= 0
      <3>1. Target * 0 <= Target * Taken
        BY <2>1, Products
      <3> QED
        BY <3>1
    <2>3. Target * Taken \in Int
      BY <2>1, Products
    <2>4. q'[w] + s'[w] <= Period + Target * Taken /\ s'[w] <= 2 * Period - Target
      BY <1>2, <2>2, <2>3
    <2> QED
      BY <1>2, <1>3, <2>4 DEF Growth
  <1> QED
    BY <1>4, <1>5

\* Taking an offset is one more that is taken.
LEMMA TakeKeepsGrowth ==
    ASSUME LInv, NEW w \in Worker, Take(w) PROVE Growth' /\ LoadHoldsAtFirst'
  <1> USE ConstantsAre DEF LInv
  <1>1. /\ quota # <<>> /\ quota \in Seq(Target - Period .. Target)
        /\ quota' = Tail(quota)
        /\ q' = [q EXCEPT ![w] = AtMostMaxQ(AtLeast0(q[w] + Head(quota)))]
        /\ worker[w] = "select"
        /\ UNCHANGED <<producer, toSend, worker, s, rounds>>
    BY DEF Take, TypeOK
  <1>2. Head(quota) \in Target - Period .. Target /\ Len(quota') = Len(quota) - 1
        /\ Len(quota) \in Nat
    BY <1>1
  <1>3. /\ q \in [Worker -> Target - Period .. MaxQ]
        /\ s \in [Worker -> 0 .. 2 * Period]
        /\ rounds \in Nat /\ Pending \in Int
    BY DEF TypeOK, Pending
  <1>4. Taken \in Int /\ Taken' = Taken + 1
    <2>1. N * rounds \in Int
      BY <1>3, Products
    <2>2. Pending' = Pending
      BY <1>1 DEF Pending
    <2> QED
      BY <1>1, <1>2, <1>3, <2>1, <2>2 DEF Taken
  <1>5. LoadHoldsAtFirst'
    BY <1>1 DEF LoadHoldsAtFirst
  <1>6. Growth'
    <2> SUFFICES ASSUME rounds < MaxRounds, Taken >= 0 PROVE Growth'
      BY <1>1 DEF Growth
    <2> DEFINE had == Target * Taken
               has == Target * (Taken + 1)
               less == Target * (Taken - 1)
    <2>1. had \in Int /\ has = had + Target /\ less = had - Target /\ had >= 0
      <3>1. Target * Taken \in Int /\ Target * (Taken + 1) = Target * Taken + Target
        BY <1>4, Products
      <3>2. Target * ((Taken - 1) + 1) = Target * (Taken - 1) + Target
        BY <1>4, Products
      <3>3. Target * 0 <= Target * Taken /\ Target * (Taken - 1) \in Int
        BY <1>4, Products
      <3>4. (Taken - 1) + 1 = Taken
        BY <1>4
      <3> QED
        BY <3>1, <3>2, <3>3, <3>4
    <2>2. \A x \in Worker : worker[x] \in {"select", "busy"} =>
             /\ s[x] <= 2 * Period - Target
             /\ q[x] + s[x] <= Period + had \/ q[x] <= less
      BY DEF Growth
    <2>3. Taken' >= 0 /\ Target * Taken' = has /\ Target * (Taken' - 1) = had
      BY <1>4
    <2> HIDE DEF had, has, less
    <2>4. /\ q'[w] = AtMostMaxQ(AtLeast0(q[w] + Head(quota)))
          /\ \A x \in Worker \ {w} : q'[x] = q[x]
      BY <1>1, <1>3
    <2>5. q'[w] + s[w] <= Period + has \/ q'[w] <= had
      <3>1. q[w] \in Int /\ s[w] \in Int /\ q'[w] \in Int
            /\ (q'[w] <= q[w] + Target \/ q'[w] <= 0)
        BY <1>2, <1>3, <2>4 DEF AtMostMaxQ, AtLeast0
      <3>2. q[w] + s[w] <= Period + had \/ q[w] <= less
        BY <1>1, <2>2
      <3> QED
        BY <2>1, <3>1, <3>2
    <2>6. \A x \in Worker : worker[x] \in {"select", "busy"} =>
             /\ s[x] <= 2 * Period - Target
             /\ q'[x] + s[x] <= Period + has \/ q'[x] <= had
      <3> SUFFICES ASSUME NEW x \in Worker, worker[x] \in {"select", "busy"}
                   PROVE  /\ s[x] <= 2 * Period - Target
                          /\ q'[x] + s[x] <= Period + has \/ q'[x] <= had
        OBVIOUS
      <3>1. CASE x = w
        BY <2>2, <2>5, <3>1
      <3>2. CASE x # w
        BY <1>3, <2>1, <2>2, <2>4, <3>2
      <3> QED
        BY <3>1, <3>2
    <2> QED
      BY <1>1, <2>3, <2>6 DEF Growth
  <1> QED
    BY <1>5, <1>6

\* A worker returns only when so much has been taken.
LEMMA IterationKeepsGrowth ==
    ASSUME LInv, NEW w \in Worker, Burn(w) \/ Iterated(w) PROVE Growth' /\ LoadHoldsAtFirst'
  <1> USE ConstantsAre DEF LInv
  <1>1. UNCHANGED <<producer, toSend, quota, q, s, rounds>>
    BY DEF Burn, Iterated
  <1>2. worker[w] \in {"select", "busy"}
    BY DEF Burn, Iterated
  <1>3. /\ \A x \in Worker \ {w} : worker'[x] = worker[x]
        /\ \/ worker'[w] \in {"select", "busy"}
           \/ worker'[w] = "returned" /\ LongerThan5(w)
    BY DEF Burn, Iterated, TypeOK
  <1>4. Taken' = Taken
    BY <1>1 DEF Taken, Pending
  <1>5. Growth'
    BY <1>1, <1>2, <1>3, <1>4 DEF Growth
  <1>6. ASSUME LongerThan5(w), rounds < MaxRounds
        PROVE  \/ N * rounds * Target > 4 * Period
               \/ N * rounds * Target > 3 * Period + 2 * Target
    <2>1. /\ q[w] \in Int /\ s[w] \in Int /\ s[w] <= 2 * Period - Target /\ Taken >= 0
          /\ \/ q[w] + s[w] <= Period + Target * Taken
             \/ q[w] <= Target * (Taken - 1)
      BY <1>2, <1>6 DEF Growth, TypeOK
    <2>2. q[w] + s[w] > 5 * Period
      BY <1>6, <2>1 DEF LongerThan5, Iteration, AtLeast0
    <2>3. /\ rounds \in Nat /\ Pending \in Nat /\ Len(quota) \in Nat /\ N * rounds \in Int
      <3>1. rounds \in Nat /\ Pending \in Nat /\ Len(quota) \in Nat
        BY DEF TypeOK, Pending
      <3> QED
        BY <3>1, Products
    <2>4. Taken \in Int /\ Taken <= N * rounds
      BY <2>3 DEF Taken
    <2>5. /\ Target * Taken <= Target * (N * rounds)
          /\ Target * ((Taken - 1) + 1) = Target * (Taken - 1) + Target
          /\ (Taken - 1) + 1 = Taken
          /\ Target * Taken \in Int /\ Target * (Taken - 1) \in Int
          /\ Target * (N * rounds) \in Int
      BY <2>3, <2>4, Products
    <2>6. \/ Target * (N * rounds) > 4 * Period
          \/ Target * (N * rounds) > 3 * Period + 2 * Target
      BY <2>1, <2>2, <2>5
    <2>7. Target * (N * rounds) = N * rounds * Target
      BY <2>3
    <2> QED
      BY <2>6, <2>7
  <1>7. LoadHoldsAtFirst'
    BY <1>1, <1>3, <1>6 DEF LoadHoldsAtFirst
  <1> QED
    BY <1>5, <1>7

-----------------------------------------------------------------------------

\* The inductive invariant of the load.
THEOREM LoadInvariance == Spec => []LInv
  <1>1. ASSUME LInv, UNCHANGED vars PROVE LInv'
    <2>1. UNCHANGED <<producer, offset, toSend, quota, worker, q, s, rounds>>
      BY <1>1 DEF vars, workerVars
    <2>2. TypeOK' /\ CountsDown'
      BY <1>1, <2>1 DEF LInv, TypeOK, CountsDown
    <2>3. Taken' = Taken
      BY <2>1 DEF Taken, Pending
    <2>4. Growth' /\ LoadHoldsAtFirst'
      BY <1>1, <2>1, <2>3 DEF LInv, Growth, LoadHoldsAtFirst
    <2> QED
      BY <2>2, <2>4 DEF LInv
  <1>2. ASSUME LInv, NEW w \in Worker, burn(w) PROVE LInv'
    <2>1. TypeOK' /\ CountsDown'
      BY <1>2, WorkerKeepsType DEF LInv
    <2>2. Growth' /\ LoadHoldsAtFirst'
      BY <1>2, StartKeepsGrowth, TakeKeepsGrowth, IterationKeepsGrowth DEF burn
    <2> QED
      BY <2>1, <2>2 DEF LInv
  <1>3. ASSUME LInv, CpuStart PROVE LInv'
    BY <1>3, ProducerKeepsType, ProducerKeepsGrowth DEF LInv
  <1>4. LInv /\ [Next]_vars => LInv'
    BY <1>1, <1>2, <1>3 DEF Next, Stalled
  <1> QED
    BY InitEstablishes, <1>4, PTL DEF Spec

\* Every reachable state is well typed: the channel never holds more than an
\* offset per worker (cpu_main.go:79-89).
THEOREM CpuTypeCorrect == Spec => []TypeOK
  BY LoadInvariance, PTL DEF LInv

\* No worker returns before the offsets of so many rounds can have made an
\* iteration take more than 5 s (cpu_main.go:118-151).
THEOREM LoadHolds == Spec => []LoadHoldsAtFirst
  BY LoadInvariance, PTL DEF LInv

-----------------------------------------------------------------------------
(* The mem load *)

\* What is taken at once is no more than is above the reserve, than the rate,
\* and, up to the rate, than a tenth of what is above the reserve.
LEMMA FillBounds ==
    ASSUME NEW expect \in Int
    PROVE  /\ FillMem(expect) \in Nat
           /\ FillMem(expect) <= MemRate
           /\ expect <= MemRate /\ FillMem(expect) > 0 => 10 * FillMem(expect) <= expect
           /\ FillMem(expect) > 0 => FillMem(expect) <= expect
  <1>1. CASE expect > MemRate
    BY <1>1, RateAssumption DEF FillMem
  <1>2. CASE expect <= MemRate /\ expect > 0
    BY <1>2, RateAssumption DEF FillMem
  <1>3. CASE expect <= 0
    BY <1>3, RateAssumption DEF FillMem
  <1> QED
    BY <1>1, <1>2, <1>3, RateAssumption

\* The capacities append may choose have room for what they shall hold, and
\* are at most five quarters of that and three quarters of the threshold.
LEMMA GrownHolds ==
    ASSUME NEW n \in Nat, cap \in Nat, cap < n, NEW c \in Grown(n)
    PROVE  /\ c \in Nat /\ c >= n
           /\ 4 * c <= 5 * n + 3 * Threshold
  <1>1. Threshold \in Nat
    BY ThresholdAssumption
  <1>2. CASE cap < Threshold /\ n <= 2 * cap
    BY <1>1, <1>2 DEF Grown
  <1>3. CASE ~(cap < Threshold /\ n <= 2 * cap)
    BY <1>1, <1>3 DEF Grown
  <1> QED
    BY <1>2, <1>3

\* The sizes a measurement computes are integers.
LEMMA MeasuresAreInts ==
    ASSUME MemTypeOK
    PROVE  Free \in Int /\ Reserved \in Int /\ ExpectMem \in Int
  <1>1. others \in Nat
    BY OtherUseAssumption DEF MemTypeOK
  <1>2. Free \in Int
    BY <1>1, TotalAssumption DEF MemTypeOK, Free
  <1>3. Total * (100 - MemPercent) \in Int
    BY TotalAssumption, PercentAssumption
  <1>4. Reserved \in Int
    BY <1>3 DEF Reserved, MB
  <1> QED
    BY <1>2, <1>4 DEF ExpectMem, MB

\* Every reachable state of the load is well typed (mem_main.go:83-130).
THEOREM MemTypeCorrect == MemSpec => []MemTypeOK
  <1>1. MemInit => MemTypeOK
    BY DEF MemInit, MemTypeOK
  <1>2. MemTypeOK /\ [MemNext]_memVars => MemTypeOK'
    <2> SUFFICES ASSUME MemTypeOK, [MemNext]_memVars PROVE MemTypeOK'
      OBVIOUS
    <2>1. CASE Tick
      <3> DEFINE n == MB * FillMem(ExpectMem)
      <3>1. n \in Nat
        BY FillBounds, MeasuresAreInts DEF MB
      <3>2. CASE NeedsNewSlice(ExpectMem, n)
        BY <2>1, <3>1, <3>2 DEF Tick, MemTypeOK
      <3>3. CASE ~NeedsNewSlice(ExpectMem, n) /\ cap - len >= n
        BY <2>1, <3>1, <3>3 DEF Tick, MemTypeOK
      <3>4. CASE ~NeedsNewSlice(ExpectMem, n) /\ ~(cap - len >= n)
        <4>1. len + n \in Nat /\ cap \in Nat /\ cap < len + n
          BY <3>1, <3>4 DEF MemTypeOK
        <4>2. cap' \in Grown(len + n) /\ len' = len + n /\ garbage' = garbage + cap
          BY <2>1, <3>4 DEF Tick
        <4>3. cap' \in Nat /\ cap' >= len + n
          BY <4>1, <4>2, GrownHolds
        <4> QED
          BY <2>1, <3>1, <3>4, <4>2, <4>3 DEF Tick, MemTypeOK
      <3> QED
        BY <3>2, <3>3, <3>4
    <2>2. CASE Collect
      BY <2>2 DEF Collect, MemTypeOK
    <2>3. CASE OthersChange
      BY <2>3 DEF OthersChange, MemTypeOK
    <2>4. CASE UNCHANGED memVars
      BY <2>4 DEF memVars, MemTypeOK
    <2> QED
      BY <2>1, <2>2, <2>3, <2>4 DEF MemNext
  <1> QED
    BY <1>1, <1>2, PTL DEF MemSpec

\* What a growing slice of length l in a capacity of c, with n more blocks, may
\* leave of f free blocks, when less than e MB are above a reserve of r MB.
LEMMA GrowthIsBounded ==
    ASSUME NEW f \in Int, NEW e \in Int, NEW r \in Int, NEW rate \in Nat, NEW t \in Nat,
           NEW l \in Nat, NEW c \in Nat, NEW n \in Nat, NEW new \in Nat,
           8 * (e + r) <= f, l <= c, (5 * c) \div 4 < 8 * e, n <= 8 * rate,
           4 * new <= 5 * (l + n) + 3 * t
    PROVE  f - new >= 8 * r - 10 * rate - (3 * t) \div 4
  <1>1. 5 * l < 32 * e
    OBVIOUS
  <1>2. 4 * new < 32 * e + 40 * rate + 3 * t
    BY <1>1
  <1>3. 4 * (f - new - 8 * r + 10 * rate) + 3 * t > 0
    BY <1>2
  <1> DEFINE x == f - new - 8 * r + 10 * rate
             y == 3 * t
  <1>4. x \in Int /\ y \in Int /\ 4 * x + y > 0
    BY <1>3
  <1>5. x >= -(y \div 4)
    <2> HIDE DEF x, y
    <2> QED
      BY <1>4
  <1> QED
    BY <1>5

\* A tick that makes the load larger takes the machine at most five quarters
\* of the rate and three quarters of the threshold below the reserve, however
\* long the slice is that it copies (mem_main.go:104-125).
THEOREM ReserveIsSpared == MemSpec => TickSparesTheReserve
  <1> DEFINE Bound == MB * Reserved - 10 * MemRate - (3 * Threshold) \div 4
             Spares == cap' # cap => Free' >= Bound
  <1>1. MemTypeOK /\ [MemNext]_memVars => [Spares]_memVars
    <2> SUFFICES ASSUME MemTypeOK, MemNext PROVE Spares
      OBVIOUS
    <2>0. Reserved \in Int /\ ExpectMem \in Int /\ Free \in Int
      BY MeasuresAreInts
    <2>1. CASE Tick
      <3> DEFINE fill == FillMem(ExpectMem)
                 n == MB * fill
      <3>1. fill \in Nat /\ fill > 0 /\ fill <= MemRate /\ fill <= ExpectMem
        BY <2>0, <2>1, FillBounds DEF Tick, MB
      <3>2. 8 * (ExpectMem + Reserved) <= Free
        BY <2>0 DEF ExpectMem, MB
      <3>3. n \in Nat /\ n = 8 * fill
        BY <3>1 DEF MB
      <3>4. MemRate \in Nat /\ MemRate > 0 /\ Threshold \in Nat
        BY RateAssumption, ThresholdAssumption
      <3>5. full \in Nat /\ len \in Nat /\ cap \in Nat /\ len <= cap /\ garbage \in Nat
            /\ others \in Nat
        BY OtherUseAssumption DEF MemTypeOK
      <3>6. CASE full' = full + cap /\ cap' = n /\ UNCHANGED <<garbage, others>>
        <4>1. Free' = Free - n
          BY <3>3, <3>5, <3>6, TotalAssumption DEF Free
        <4> HIDE DEF fill, n
        <4> QED
          BY <4>1, <2>0, <3>1, <3>2, <3>3, <3>4 DEF MB
      <3>7. CASE cap' = cap
        BY <3>7
      <3>8. CASE /\ ~NeedsNewSlice(ExpectMem, n) /\ ~(cap - len >= n)
                 /\ cap' \in Grown(len + n) /\ garbage' = garbage + cap
                 /\ UNCHANGED <<full, others>>
        <4> HIDE DEF fill, n
        <4>0. len + n \in Nat /\ cap < len + n
          BY <3>3, <3>5, <3>8
        <4>1. cap' \in Nat /\ 4 * cap' <= 5 * (len + n) + 3 * Threshold
          BY <4>0, <3>5, <3>8, GrownHolds
        <4>2. Free' = Free - cap'
          BY <4>1, <3>5, <3>8, TotalAssumption DEF Free
        <4>3. (5 * cap) \div 4 < 8 * ExpectMem
          BY <2>0, <3>3, <3>5, <3>8 DEF NeedsNewSlice, MB
        <4>4. n <= 8 * MemRate
          BY <3>1, <3>3, <3>4
        <4>5. Free - cap' >= 8 * Reserved - 10 * MemRate - (3 * Threshold) \div 4
          BY <4>1, <4>3, <4>4, <2>0, <3>2, <3>3, <3>4, <3>5, GrowthIsBounded
        <4> QED
          BY <4>2, <4>5 DEF MB
      <3> QED
        BY <2>1, <3>6, <3>7, <3>8 DEF Tick
    <2>2. CASE Collect
      BY <2>2 DEF Collect
    <2>3. CASE OthersChange
      BY <2>3 DEF OthersChange
    <2> QED
      BY <2>1, <2>2, <2>3 DEF MemNext
  <1>2. MemTypeOK /\ [MemNext]_memVars => [cap' # cap =>
            Free' >= MB * Reserved - 10 * MemRate - (3 * Threshold) \div 4]_memVars
    BY <1>1
  <1> QED
    BY <1>2, MemTypeCorrect, PTL DEF MemSpec, TickSparesTheReserve
=============================================================================
