------------------------------- MODULE MemLoad -------------------------------
(***************************************************************************)
(* How a mem helper takes memory: the loop `starts` of mem_main.go looks   *)
(* once a second at the free memory of the machine and allocates a part    *)
(* of what is free above the reserve, the share that the load shall leave. *)
(* It keeps its blocks in slices and never gives any of them back.         *)
(*                                                                         *)
(* Memory is counted in blocks of 128 KB, eight to an MB.  What append     *)
(* does is external: a slice without room for more moves to a larger one,  *)
(* and the memory of the old one is garbage until the runtime returns it   *)
(* to the machine.  A Block holds no pointers, so the runtime clears what  *)
(* the larger slice has beyond its length: from then on the machine is     *)
(* without its whole capacity.                                             *)
(*                                                                         *)
(* A measurement that fails changes nothing, and <-ctx.Done() is never     *)
(* ready (see Experiments).                                                *)
(***************************************************************************)
EXTENDS Integers

CONSTANTS
    Total,          \* the memory of the machine, in blocks
    MemPercent,     \* the percentage asked for; the resolver makes 0 a 100
    MemRate,        \* the most that is taken at once, in MB (100)
    Threshold,      \* the capacity below which append may double a slice
                    \* (256; 1024 before Go 1.18)
    OtherUse        \* what the rest of the machine may use, in blocks

ASSUME TotalAssumption == Total \in Nat
ASSUME PercentAssumption == MemPercent \in 1 .. 100
ASSUME RateAssumption == MemRate \in Nat \ {0}
ASSUME ThresholdAssumption == Threshold \in Nat
ASSUME OtherUseAssumption == OtherUse \subseteq Nat

VARIABLES
    len, cap,       \* the last slice of cache
    full,           \* the capacity of the slices before it
    garbage,        \* blocks the runtime has not returned yet
    others          \* what the rest of the machine uses

memVars == <<len, cap, full, garbage, others>>

MB == 8

\* Types, and no slice is longer than its capacity.
MemTypeOK ==
    /\ cap \in Nat /\ len \in 0 .. cap
    /\ full \in Nat
    /\ garbage \in Nat
    /\ others \in OtherUse

MemInit ==
    /\ len = 0 /\ cap = 0
    /\ full = 0
    /\ garbage = 0
    /\ others \in OtherUse

-----------------------------------------------------------------------------

\* What the machine has free; below 0 is what it has paged out.
Free == Total - others - full - cap - garbage

\* The reserve in whole MB.
Reserved == ((Total * (100 - MemPercent)) \div 100) \div MB

\* calculateMemSize: MB above the reserve; may be negative.
ExpectMem == Free \div MB - Reserved

\* Mutant: what is left below the rate is not taken.
FillNothingSmall(expect) == IF expect > MemRate THEN MemRate ELSE 0

\* The MB to take; 0 for none.
FillMem(expect) ==
    CASE expect > MemRate       -> MemRate
      [] expect \in 1 .. MemRate -> expect \div 10
      [] expect < 1             -> 0

\* Mutant: a slice grows whatever its copy takes.
GrowAlways(expect, n) == FALSE

\* The slice has no room for n more blocks, and one that has grown by a
\* quarter would take more than may be taken.
NeedsNewSlice(expect, n) ==
    /\ cap - len < n
    /\ (5 * cap) \div 4 >= MB * expect

\* Mutant: append grows by a quarter, needed or not.
GrownByQuarter(n) == {(5 * cap) \div 4}

\* External: the capacities append may give a slice that has to hold n blocks:
\* twice the old one if that is small, else by a quarter and some until it fits.
Grown(n) ==
    n .. (IF cap < Threshold /\ n <= 2 * cap THEN 2 * cap
          ELSE (5 * n) \div 4 + (3 * Threshold) \div 4)

-----------------------------------------------------------------------------

\* Case <-ticker.C.
Tick ==
    LET n == MB * FillMem(ExpectMem) IN
    /\ n > 0
    /\ \/ /\ NeedsNewSlice(ExpectMem, n)
          /\ full' = full + cap
          /\ len' = n
          /\ cap' = n
          /\ UNCHANGED garbage
       \/ /\ ~NeedsNewSlice(ExpectMem, n)
          /\ len' = len + n
          /\ IF cap - len >= n
             THEN UNCHANGED <<cap, garbage>>
             ELSE cap' \in Grown(len + n) /\ garbage' = garbage + cap
          /\ UNCHANGED full
    /\ UNCHANGED others

\* External: the runtime returns the memory of the slices that have moved.
Collect ==
    /\ garbage > 0
    /\ garbage' = 0
    /\ UNCHANGED <<len, cap, full, others>>

\* External: other processes take and release memory that is there.
OthersChange ==
    /\ others' \in OtherUse \ {others}
    /\ others' <= Total - full - cap - garbage
    /\ UNCHANGED <<len, cap, full, garbage>>

MemNext == Tick \/ Collect \/ OthersChange

\* The ticker ticks and the runtime returns what it does not need.
MemSpec == MemInit /\ [][MemNext]_memVars /\ WF_memVars(Tick) /\ WF_memVars(Collect)

-----------------------------------------------------------------------------
(* Properties *)

\* A tick that makes the load larger takes the machine at most five quarters of the
\* rate and three quarters of the threshold below the reserve (149 MB, though
\* only 100 MB are taken at a time), until the slice that has moved is returned.
\* The test of a quarter (mem_main.go:110) is what bounds this: without it a
\* slice of any length might be copied, with both copies in memory.
TickSparesTheReserve ==
    [][cap' # cap => Free' >= MB * Reserved - 10 * MemRate - (3 * Threshold) \div 4]_memVars

\* When the rest of the machine comes to rest, the load comes to within 10 MB
\* of the percentage, or the others leave it no room.
LoadSettles ==
    <>[][UNCHANGED others]_memVars => <>[](ExpectMem < 10)
=============================================================================
