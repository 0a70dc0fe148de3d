------------------------ MODULE ExperimentQueryProofs ------------------------
(***************************************************************************)
(* What ExperimentQuery.cfg checks of the status command and of the        *)
(* requests, for every number of experiments, clients and entries of a     *)
(* page.                                                                   *)
(*                                                                         *)
(* The filter reads the table row by row.  What it finds is known by       *)
(* induction over the rows (SetInduction: by the least row that            *)
(* contradicts it): a matching row comes at the number of the matching     *)
(* ones before it.  The order turns that number into its rank, and LIMIT   *)
(* cuts a window of ranks.  A walk keeps what it has seen the first rows   *)
(* of the table, or, in descending order, everything else among the rows   *)
(* it has not come to (QInv).                                              *)
(***************************************************************************)
EXTENDS ExperimentQuery, SequenceTheorems, FiniteSetTheorems, WellFoundedInduction, TLAPS

\* Induction over the natural numbers, for a set.
LEMMA SetInduction ==
    ASSUME NEW S, 0 \in S, \A n \in Nat : n \in S => n + 1 \in S
    PROVE  Nat \subseteq S
  <1> DEFINE T == {n \in Nat : n \notin S}
  <1> SUFFICES ASSUME T # {} PROVE FALSE
    OBVIOUS
  <1> DEFINE R == OpToRel(<, Nat)
  <1>1. IsWellFoundedOn(R, Nat)
    BY NatLessThanWellFounded
  <1>2. T \subseteq Nat
    OBVIOUS
  <1>h. HIDE DEF R, T
  <1>3. PICK x \in T : \A y \in T : ~ (<<y, x>> \in R)
    BY <1>1, <1>2, WFMin
  <1> USE DEF R, T
  <1>4. x # 0 /\ x \in Nat
    OBVIOUS
  <1>5. x - 1 \in Nat /\ x - 1 < x
    BY <1>4
  <1>6. <<x - 1, x>> \in R
    BY <1>4, <1>5 DEF OpToRel
  <1>7. x - 1 \notin T
    BY <1>3, <1>6
  <1> QED
    BY <1>4, <1>5, <1>7

\* f holds, for every n up to L, what is found in the first n rows of list.
IsReading(f, status, list, L) ==
    f = [n \in 0 .. L |->
            IF n = 0 THEN <<>>
            ELSE IF Matches(status, list[n]) THEN Append(f[n - 1], list[n])
            ELSE f[n - 1]]

\* Reading the table row by row is well defined.
LEMMA ReadingExists ==
    ASSUME NEW status, NEW list, NEW L \in Nat
    PROVE  \E f : IsReading(f, status, list, L)
  <1> DEFINE Step(s, n) == IF Matches(status, list[n]) THEN Append(s, list[n]) ELSE s
             Reads(f, k) == f = [n \in 0 .. k |-> IF n = 0 THEN <<>> ELSE Step(f[n - 1], n)]
             S == {k \in Nat : \E f : Reads(f, k)}
  <1>1. 0 \in S
    <2> DEFINE f == [n \in 0 .. 0 |-> <<>>]
    <2>1. Reads(f, 0)
      <3> HIDE DEF Step
      <3> QED OBVIOUS
    <2> QED BY <2>1
  <1>2. ASSUME NEW k \in Nat, k \in S PROVE k + 1 \in S
    <2> HIDE DEF Step
    <2>1. PICK f : Reads(f, k)
      BY <1>2
    <2> DEFINE g == [n \in 0 .. k + 1 |-> IF n <= k THEN f[n] ELSE Step(f[k], n)]
    <2>2. ASSUME NEW n \in 0 .. k + 1
          PROVE  g[n] = IF n = 0 THEN <<>> ELSE Step(g[n - 1], n)
      <3>1. CASE n <= k
        <4>1. n \in 0 .. k /\ g[n] = f[n] /\ (n # 0 => g[n - 1] = f[n - 1])
          BY <3>1
        <4>2. f[n] = IF n = 0 THEN <<>> ELSE Step(f[n - 1], n)
          BY <2>1, <4>1
        <4> QED
          BY <4>1, <4>2
      <3>2. CASE n = k + 1
        BY <3>2
      <3> QED
        BY <3>1, <3>2
    <2>3. Reads(g, k + 1)
      <3> DEFINE h == [n \in 0 .. k + 1 |-> IF n = 0 THEN <<>> ELSE Step(g[n - 1], n)]
      <3>1. \A n \in 0 .. k + 1 : g[n] = h[n]
        BY <2>2
      <3>2. g = h
        BY <3>1
      <3> QED
        BY <3>2
    <2>4. \E h : Reads(h, k + 1)
      <3> HIDE DEF g, Reads
      <3> QED
        BY <2>3
    <2> QED
      BY <2>4
  <1>3. L \in S
    <2> HIDE DEF S
    <2> QED BY <1>1, <1>2, SetInduction
  <1> QED
    BY <1>3 DEF IsReading

-----------------------------------------------------------------------------
(* What a listing shows *)

\* The matching rows among those from the first on to the n-th, and after it.
Upto(status, n) == {j \in 1 .. n : Matches(status, rows[j])}

\* One row more.
LEMMA UptoGrows ==
    ASSUME NEW status, NEW n \in Nat
    PROVE  /\ IsFiniteSet(Upto(status, n)) /\ Cardinality(Upto(status, n)) \in Nat
           /\ Cardinality(Upto(status, 0)) = 0
           /\ Cardinality(Upto(status, n + 1)) =
                 Cardinality(Upto(status, n)) + (IF Matches(status, rows[n + 1]) THEN 1 ELSE 0)
  <1>1. IsFiniteSet(Upto(status, n)) /\ Cardinality(Upto(status, n)) \in Nat
    <2>1. Upto(status, n) \subseteq 1 .. n
      BY DEF Upto
    <2>2. IsFiniteSet(1 .. n)
      BY FS_Interval
    <2> QED
      BY <2>1, <2>2, FS_Subset, FS_CardinalityType
  <1>2. Upto(status, 0) = {}
    BY DEF Upto
  <1>3. CASE Matches(status, rows[n + 1])
    <2>1. Upto(status, n + 1) = Upto(status, n) \cup {n + 1} /\ n + 1 \notin Upto(status, n)
      BY <1>3 DEF Upto
    <2>2. Cardinality(Upto(status, n) \cup {n + 1}) = Cardinality(Upto(status, n)) + 1
      BY <1>1, <2>1, FS_AddElement
    <2> QED
      BY <1>1, <1>2, <1>3, <2>1, <2>2, FS_EmptySet
  <1>4. CASE ~Matches(status, rows[n + 1])
    <2>1. Upto(status, n + 1) = Upto(status, n)
      BY <1>4 DEF Upto
    <2> QED
      BY <1>1, <1>2, <1>4, <2>1, FS_EmptySet
  <1> QED
    BY <1>3, <1>4

\* list holds the matching ones of the first n rows, in their order.
IsFiltered(status, n, list) ==
    /\ list \in Seq(RowSet)
    /\ Len(list) = Cardinality(Upto(status, n))
    /\ \A k \in 1 .. Len(list) : \E i \in 1 .. n :
          /\ Matches(status, rows[i])
          /\ list[k] = rows[i]
          /\ Cardinality(Upto(status, i - 1)) = k - 1
    /\ \A i \in 1 .. n : Matches(status, rows[i]) =>
          /\ Cardinality(Upto(status, i - 1)) + 1 \in 1 .. Len(list)
          /\ list[Cardinality(Upto(status, i - 1)) + 1] = rows[i]

\* The next row is skipped, or comes last.
LEMMA FilterStep ==
    ASSUME rows \in Seq(RowSet), NEW status, NEW n \in Nat, n + 1 <= Len(rows),
           NEW list, IsFiltered(status, n, list)
    PROVE  IsFiltered(status, n + 1, IF Matches(status, rows[n + 1])
                                     THEN Append(list, rows[n + 1]) ELSE list)
  <1> DEFINE c(i) == Cardinality(Upto(status, i))
  <1>1. c(n) \in Nat /\ c(n + 1) = c(n) + (IF Matches(status, rows[n + 1]) THEN 1 ELSE 0)
    BY UptoGrows
  <1>2. rows[n + 1] \in RowSet
    BY ElementOfSeq
  <1>3. /\ list \in Seq(RowSet) /\ Len(list) = c(n)
        /\ \A k \in 1 .. Len(list) : \E i \in 1 .. n :
              Matches(status, rows[i]) /\ list[k] = rows[i] /\ c(i - 1) = k - 1
        /\ \A i \in 1 .. n : Matches(status, rows[i]) =>
              c(i - 1) + 1 \in 1 .. Len(list) /\ list[c(i - 1) + 1] = rows[i]
    BY DEF IsFiltered
  <1>4. (n + 1) - 1 = n
    OBVIOUS
  <1>5. CASE ~Matches(status, rows[n + 1])
    <2>1. Len(list) = c(n + 1)
      BY <1>1, <1>3, <1>5
    <2>2. \A k \in 1 .. Len(list) : \E i \in 1 .. n + 1 :
             Matches(status, rows[i]) /\ list[k] = rows[i] /\ c(i - 1) = k - 1
      <3> HIDE DEF c
      <3> SUFFICES ASSUME NEW k \in 1 .. Len(list)
                   PROVE  \E i \in 1 .. n + 1 :
                             Matches(status, rows[i]) /\ list[k] = rows[i] /\ c(i - 1) = k - 1
        OBVIOUS
      <3>1. PICK i \in 1 .. n : Matches(status, rows[i]) /\ list[k] = rows[i] /\ c(i - 1) = k - 1
        BY <1>3
      <3>2. i \in 1 .. n + 1
        OBVIOUS
      <3> QED
        BY <3>1, <3>2
    <2>3. \A i \in 1 .. n + 1 : Matches(status, rows[i]) =>
             c(i - 1) + 1 \in 1 .. Len(list) /\ list[c(i - 1) + 1] = rows[i]
      <3> HIDE DEF c
      <3>1. \A i \in 1 .. n + 1 : i # n + 1 => i \in 1 .. n
        OBVIOUS
      <3> QED
        BY <1>3, <1>5, <3>1
    <2> QED
      BY <1>3, <1>5, <2>1, <2>2, <2>3 DEF IsFiltered
  <1>6. CASE Matches(status, rows[n + 1])
    <2> DEFINE more == Append(list, rows[n + 1])
    <2>1. /\ more \in Seq(RowSet) /\ Len(more) = Len(list) + 1 /\ Len(list) \in Nat
          /\ \A k \in 1 .. Len(list) : more[k] = list[k]
          /\ more[Len(list) + 1] = rows[n + 1]
      BY <1>2, <1>3, AppendProperties, LenProperties
    <2> HIDE DEF more
    <2>2. Len(more) = c(n + 1)
      BY <1>1, <1>3, <1>6, <2>1
    <2> HIDE DEF c
    <2>3. \A k \in 1 .. Len(more) : \E i \in 1 .. n + 1 :
             Matches(status, rows[i]) /\ more[k] = rows[i] /\ c(i - 1) = k - 1
      <3> SUFFICES ASSUME NEW k \in 1 .. Len(more)
                   PROVE  \E i \in 1 .. n + 1 :
                             Matches(status, rows[i]) /\ more[k] = rows[i] /\ c(i - 1) = k - 1
        OBVIOUS
      <3>1. CASE k \in 1 .. Len(list)
        <4>1. PICK i \in 1 .. n :
                  Matches(status, rows[i]) /\ list[k] = rows[i] /\ c(i - 1) = k - 1
          BY <1>3, <3>1
        <4>2. i \in 1 .. n + 1
          OBVIOUS
        <4> QED
          BY <2>1, <3>1, <4>1, <4>2
      <3>2. CASE k = Len(list) + 1
        <4>1. n + 1 \in 1 .. n + 1 /\ c((n + 1) - 1) = k - 1
          BY <1>1, <1>3, <1>4, <3>2
        <4> QED
          BY <1>6, <2>1, <3>2, <4>1
      <3> QED
        BY <2>1, <3>1, <3>2
    <2>4. \A i \in 1 .. n + 1 : Matches(status, rows[i]) =>
             c(i - 1) + 1 \in 1 .. Len(more) /\ more[c(i - 1) + 1] = rows[i]
      <3> SUFFICES ASSUME NEW i \in 1 .. n + 1, Matches(status, rows[i])
                   PROVE  c(i - 1) + 1 \in 1 .. Len(more) /\ more[c(i - 1) + 1] = rows[i]
        OBVIOUS
      <3>1. CASE i \in 1 .. n
        <4>1. c(i - 1) + 1 \in 1 .. Len(list) /\ list[c(i - 1) + 1] = rows[i]
          BY <1>3, <3>1
        <4> QED
          BY <2>1, <4>1
      <3>2. CASE i = n + 1
        BY <1>1, <1>3, <1>4, <2>1, <3>2
      <3> QED
        BY <3>1, <3>2
    <2> QED
      BY <1>6, <2>1, <2>2, <2>3, <2>4 DEF IsFiltered, c, more
  <1> QED
    BY <1>5, <1>6

\* The listing without a limit holds all that match, oldest first.
LEMMA WhereFilters ==
    ASSUME rows \in Seq(RowSet), NEW status
    PROVE  IsFiltered(status, Len(rows), Where(status))
  <1> DEFINE L == Len(rows)
             Reading(f) == IsReading(f, status, rows, L)
  <1>1. L \in Nat
    BY LenProperties
  <1>2. \E f : Reading(f)
    BY <1>1, ReadingExists
  <1> DEFINE f == CHOOSE x : Reading(x)
  <1>3. Where(status) = f[L]
    BY DEF Where, IsReading
  <1>4. Reading(f)
    <2> HIDE DEF Reading
    <2> QED
      BY <1>2
  <1> HIDE DEF L, f
  <1> DEFINE S == {n \in Nat : n <= L => IsFiltered(status, n, f[n])}
  <1>5. 0 \in S
    <2>1. f[0] = <<>>
      BY <1>1, <1>4 DEF IsReading
    <2>2. IsFiltered(status, 0, <<>>)
      <3>1. Cardinality(Upto(status, 0)) = 0
        BY UptoGrows
      <3> QED
        BY <3>1 DEF IsFiltered
    <2> QED
      BY <2>1, <2>2
  <1>6. ASSUME NEW n \in Nat, n \in S PROVE n + 1 \in S
    <2> SUFFICES ASSUME n + 1 <= L PROVE IsFiltered(status, n + 1, f[n + 1])
      BY <1>1
    <2>1. IsFiltered(status, n, f[n])
      BY <1>1, <1>6
    <2>2. n + 1 \in 0 .. L /\ n + 1 # 0 /\ (n + 1) - 1 = n
      BY <1>1
    <2>3. f[n + 1] = IF Matches(status, rows[n + 1]) THEN Append(f[n], rows[n + 1]) ELSE f[n]
      BY <1>4, <2>2 DEF IsReading
    <2> QED
      BY <2>1, <2>3, FilterStep DEF L
  <1>7. L \in S
    <2> HIDE DEF S
    <2> QED
      BY <1>1, <1>5, <1>6, SetInduction
  <1>8. L <= L
    BY <1>1
  <1> QED
    BY <1>3, <1>7, <1>8 DEF L

\* A window starts after the first rows and has so many of those that follow,
\* or all of them.
LEMMA WindowIs ==
    ASSUME NEW S, NEW list \in Seq(S), NEW from \in Nat, NEW count \in Int,
           NEW page, page = Window(from, count, list)
    PROVE  /\ page \in Seq(S)
           /\ \A k \in 1 .. Len(page) :
                 /\ from + k \in 1 .. Len(list)
                 /\ page[k] = list[from + k]
                 /\ count < 0 \/ k <= count
           /\ \A k \in Nat \ {0} :
                 from + k <= Len(list) /\ (count < 0 \/ k <= count) => k \in 1 .. Len(page)
  <1>1. Len(list) \in Nat /\ \A i \in 1 .. Len(list) : list[i] \in S
    BY LenProperties, ElementOfSeq
  <1> DEFINE last == IF count < 0 \/ from + count > Len(list) THEN Len(list) ELSE from + count
  <1>2. last \in Int /\ last <= Len(list) /\ page = SubSeq(list, from + 1, last)
    BY <1>1 DEF Window
  <1>3. \A i \in from + 1 .. last : list[i] \in S
    BY <1>1, <1>2
  <1> HIDE DEF last
  <1>4. /\ page \in Seq(S)
        /\ Len(page) = IF from + 1 <= last THEN last - from ELSE 0
        /\ \A i \in 1 .. last - from : page[i] = list[from + i]
    <2>1. /\ from + 1 \in Int
          /\ last - (from + 1) + 1 = last - from
          /\ \A i \in Int : (from + 1) + i - 1 = from + i
      BY <1>2
    <2>2. /\ SubSeq(list, from + 1, last) \in Seq(S)
          /\ Len(SubSeq(list, from + 1, last)) = IF from + 1 <= last THEN last - (from + 1) + 1 ELSE 0
          /\ \A i \in 1 .. last - (from + 1) + 1 :
                SubSeq(list, from + 1, last)[i] = list[(from + 1) + i - 1]
      BY <1>2, <1>3, <2>1, SubSeqProperties
    <2> QED
      BY <1>2, <2>1, <2>2
  <1>5. /\ \A k \in 1 .. Len(page) : k \in 1 .. last - from
        /\ \A k \in Nat \ {0} : from + k <= last => k \in 1 .. Len(page)
    BY <1>2, <1>4
  <1>6. \A k \in Nat \ {0} :
           from + k <= last <=> from + k <= Len(list) /\ (count < 0 \/ k <= count)
    BY <1>1 DEF last
  <1>7. ASSUME NEW k \in 1 .. Len(page)
        PROVE  /\ from + k \in 1 .. Len(list)
               /\ page[k] = list[from + k]
               /\ count < 0 \/ k <= count
    <2>1. k \in Nat \ {0} /\ k \in 1 .. last - from
      BY <1>2, <1>5
    <2>2. from + k <= last
      BY <1>2, <2>1
    <2>3. from + k <= Len(list) /\ (count < 0 \/ k <= count)
      BY <1>6, <2>1, <2>2
    <2>4. page[k] = list[from + k]
      BY <1>4, <2>1
    <2>5. from + k \in 1 .. Len(list)
      BY <1>1, <2>1, <2>3
    <2> QED
      BY <2>3, <2>4, <2>5
  <1> QED
    BY <1>4, <1>5, <1>6, <1>7

-----------------------------------------------------------------------------
(* The order *)

\* The rank of a row is its distance from the end at which the listing starts.
LEMMA RankIs ==
    ASSUME rows \in Seq(RowSet), NEW status, NEW i \in DOMAIN rows,
           Matches(status, rows[i])
    PROVE  /\ Rank(i, status, TRUE) = Cardinality(Upto(status, i - 1))
           /\ Rank(i, status, FALSE) =
                 Cardinality(Upto(status, Len(rows))) - Cardinality(Upto(status, i - 1)) - 1
           /\ Cardinality(Upto(status, i - 1)) \in Nat /\ Rank(i, status, FALSE) \in Nat
           /\ Cardinality(Upto(status, Len(rows))) \in Nat
  <1>1. DOMAIN rows = 1 .. Len(rows) /\ Len(rows) \in Nat /\ i \in 1 .. Len(rows)
    BY LenProperties
  <1> DEFINE L == Len(rows)
             After == {j \in 1 .. L : Matches(status, rows[j]) /\ j > i}
  <1>2. Rank(i, status, TRUE) = Cardinality(Upto(status, i - 1))
    <2>1. \A j : j \in 1 .. i - 1 <=> j \in 1 .. Len(rows) /\ j < i
      BY <1>1
    <2>2. Upto(status, i - 1) = {j \in DOMAIN rows :
            (status = "" \/ rows[j].status = UpperFirst(status)) /\ (IF TRUE THEN j < i ELSE j > i)}
      BY <1>1, <2>1 DEF Upto, Matches
    <2> QED
      BY <2>2 DEF Rank
  <1>3. Rank(i, status, FALSE) = Cardinality(After)
    <2>1. After = {j \in DOMAIN rows :
            (status = "" \/ rows[j].status = UpperFirst(status)) /\ (IF FALSE THEN j < i ELSE j > i)}
      BY <1>1 DEF Matches
    <2> QED
      BY <2>1 DEF Rank
  <1>4. /\ IsFiniteSet(Upto(status, i)) /\ Cardinality(Upto(status, i)) \in Nat
        /\ Cardinality(Upto(status, i - 1)) \in Nat
        /\ IsFiniteSet(Upto(status, L)) /\ Cardinality(Upto(status, L)) \in Nat
        /\ Cardinality(Upto(status, i)) = Cardinality(Upto(status, i - 1)) + 1
    <2>1. i - 1 \in Nat /\ (i - 1) + 1 = i /\ i \in Nat
      BY <1>1
    <2> QED
      BY <1>1, <2>1, UptoGrows
  <1>5. /\ Upto(status, L) = Upto(status, i) \cup After
        /\ Upto(status, i) \cap After = {}
        /\ After \subseteq Upto(status, L)
    BY <1>1 DEF Upto
  <1>6. IsFiniteSet(After) /\ Cardinality(After) \in Nat
    BY <1>4, <1>5, FS_Subset, FS_CardinalityType
  <1>7. Cardinality(Upto(status, L)) = Cardinality(Upto(status, i)) + Cardinality(After)
    <2> HIDE DEF After
    <2>1. Cardinality(Upto(status, i) \cup After) =
            Cardinality(Upto(status, i)) + Cardinality(After) - Cardinality(Upto(status, i) \cap After)
      BY <1>4, <1>6, FS_Union
    <2>2. Cardinality(Upto(status, i) \cap After) = 0
      BY <1>5, FS_EmptySet
    <2>3. Cardinality(Upto(status, L)) = Cardinality(Upto(status, i) \cup After)
      BY <1>5
    <2> HIDE DEF L
    <2> QED
      BY <1>4, <1>6, <2>1, <2>2, <2>3
  <1> DEFINE after == Cardinality(After)
             before == Cardinality(Upto(status, i - 1))
             all == Cardinality(Upto(status, L))
  <1>8. after \in Nat /\ before \in Nat /\ all \in Nat /\ all = before + 1 + after
    BY <1>4, <1>6, <1>7
  <1>9. Rank(i, status, TRUE) = before /\ Rank(i, status, FALSE) = after
    BY <1>2, <1>3
  <1> HIDE DEF after, before, all
  <1>10. after = all - before - 1
    BY <1>8
  <1> QED
    BY <1>8, <1>9, <1>10 DEF before, all

\* Without a limit every matching row is at its rank, in either order.
LEMMA OrderShowsRanks ==
    ASSUME rows \in Seq(RowSet), NEW status, NEW asc \in BOOLEAN,
           NEW list, list = OrderBy(asc, Where(status))
    PROVE  /\ list \in Seq(RowSet)
           /\ \A k \in 1 .. Len(list) : \E i \in DOMAIN rows :
                 /\ Matches(status, rows[i])
                 /\ list[k] = rows[i]
                 /\ Rank(i, status, asc) = k - 1
           /\ \A i \in DOMAIN rows : Matches(status, rows[i]) =>
                 /\ Rank(i, status, asc) + 1 \in 1 .. Len(list)
                 /\ list[Rank(i, status, asc) + 1] = rows[i]
  <1> DEFINE up == Where(status)
             c(i) == Cardinality(Upto(status, i - 1))
             total == Cardinality(Upto(status, Len(rows)))
             down(i) == Rank(i, status, FALSE)
  <1>1. /\ up \in Seq(RowSet) /\ Len(up) = total
        /\ \A k \in 1 .. Len(up) : \E i \in 1 .. Len(rows) :
              Matches(status, rows[i]) /\ up[k] = rows[i] /\ c(i) = k - 1
        /\ \A i \in 1 .. Len(rows) : Matches(status, rows[i]) =>
              c(i) + 1 \in 1 .. Len(up) /\ up[c(i) + 1] = rows[i]
    BY WhereFilters DEF IsFiltered
  <1>2. DOMAIN rows = 1 .. Len(rows) /\ Len(up) \in Nat
        /\ \A k \in 1 .. Len(up) : up[k] \in RowSet
    BY <1>1, LenProperties, ElementOfSeq
  <1>3. \A i \in DOMAIN rows : Matches(status, rows[i]) =>
           /\ Rank(i, status, TRUE) = c(i)
           /\ down(i) = total - c(i) - 1
           /\ c(i) \in Nat
    BY RankIs
  <1> HIDE DEF up, c, total, down
  <1>4. CASE asc = TRUE
    <2>1. list = up
      BY <1>4 DEF OrderBy, up
    <2>2. ASSUME NEW k \in 1 .. Len(up)
          PROVE  \E i \in DOMAIN rows :
                    /\ Matches(status, rows[i])
                    /\ up[k] = rows[i]
                    /\ Rank(i, status, TRUE) = k - 1
      <3>1. PICK i \in 1 .. Len(rows) :
               Matches(status, rows[i]) /\ up[k] = rows[i] /\ c(i) = k - 1
        BY <1>1
      <3> QED
        BY <1>2, <1>3, <3>1
    <2>3. \A i \in DOMAIN rows : Matches(status, rows[i]) =>
             /\ Rank(i, status, TRUE) + 1 \in 1 .. Len(up)
             /\ up[Rank(i, status, TRUE) + 1] = rows[i]
      BY <1>1, <1>2, <1>3
    <2> QED
      BY <1>1, <1>4, <2>1, <2>2, <2>3
  <1>5. CASE asc = FALSE
    <2>1. list = [k \in 1 .. Len(up) |-> up[(Len(up) - k) + 1]]
      BY <1>5 DEF OrderBy, up, Reverse
    <2>2. \A k \in 1 .. Len(up) : (Len(up) - k) + 1 \in 1 .. Len(up)
      BY <1>2
    <2>3. /\ list \in Seq(RowSet) /\ Len(list) = Len(up)
          /\ \A k \in 1 .. Len(up) : list[k] = up[(Len(up) - k) + 1]
      BY <1>2, <2>1, <2>2
    <2>4. ASSUME NEW k \in 1 .. Len(list)
          PROVE  \E i \in DOMAIN rows :
                    /\ Matches(status, rows[i])
                    /\ list[k] = rows[i]
                    /\ down(i) = k - 1
      <3>0. PICK m \in 1 .. Len(up) : m = (Len(up) - k) + 1
        BY <2>2, <2>3
      <3>1. PICK i \in 1 .. Len(rows) :
               Matches(status, rows[i]) /\ up[m] = rows[i] /\ c(i) = m - 1
        BY <1>1
      <3>2. down(i) = k - 1
        <4>1. down(i) = Len(up) - c(i) - 1 /\ k \in 1 .. Len(up)
          BY <1>1, <1>2, <1>3, <2>3, <3>1
        <4>2. c(i) = Len(up) - k
          BY <1>2, <3>0, <3>1, <4>1
        <4> QED
          BY <1>2, <4>1, <4>2
      <3> QED
        BY <1>2, <2>3, <3>0, <3>1, <3>2
    <2>5. ASSUME NEW i \in DOMAIN rows, Matches(status, rows[i])
          PROVE  /\ down(i) + 1 \in 1 .. Len(list)
                 /\ list[down(i) + 1] = rows[i]
      <3>1. /\ c(i) + 1 \in 1 .. Len(up) /\ up[c(i) + 1] = rows[i]
            /\ down(i) = Len(up) - c(i) - 1 /\ c(i) \in Nat
        BY <1>1, <1>2, <1>3, <2>5
      <3>2. /\ down(i) + 1 \in 1 .. Len(up)
            /\ (Len(up) - (down(i) + 1)) + 1 = c(i) + 1
        BY <1>2, <3>1
      <3> QED
        BY <2>3, <3>1, <3>2
    <2> QED
      BY <1>5, <2>3, <2>4, <2>5 DEF down
  <1> QED
    BY <1>4, <1>5

-----------------------------------------------------------------------------
(* The request *)

\* A request for the status reaches SearchExperiments with what it asks for.
LEMMA StatusIsHandled ==
    ASSUME NEW uid, NEW status, NEW limit, NEW text
    PROVE  Handle(StatusRequest(uid, status, limit, text)) =
             [op |-> "status", uid |-> uid, status |-> status, asc |-> text,
              limit |-> IF limit = <<>> THEN <<10>> ELSE limit]
  <1> DEFINE r == StatusRequest(uid, status, limit, text)
  <1>1. /\ r.cmd = <<"status", "--type", "create">> /\ r.cmd2 = <<"status">>
        /\ r.uid = uid /\ r.status = status /\ r.limit = limit /\ r.asc = text
    BY DEF StatusRequest, NoParams
  <1> HIDE DEF r
  <1>2. FirstCmd(r) = "status"
    <2>1. ~MentionsDestroy(r.cmd)
      BY <1>1 DEF MentionsDestroy, Destroying
    <2> QED
      BY <1>1, <2>1 DEF FirstCmd
  <1>3. Handle(r) = StatusCommand(r)
    BY <1>1, <1>2 DEF Handle
  <1> QED
    BY <1>1, <1>3 DEF StatusCommand, r

\* text asks for the order asc.
Asks(text, asc) == asc \in BOOLEAN /\ (asc <=> text \in {"", "true"})

\* A walk's text asks for its order.
LEMMA TextAsks ==
    ASSUME NEW asc \in BOOLEAN PROVE Asks(TextOf(asc), asc)
  <1>1. CASE asc
    BY <1>1 DEF Asks, TextOf
  <1>2. CASE ~asc
    BY <1>2 DEF Asks, TextOf
  <1> QED
    BY <1>1, <1>2

\* The query is made in the order the text asks for.
LEMMA TextOfOrder ==
    ASSUME NEW status, NEW limit, NEW text, NEW asc, Asks(text, asc)
    PROVE  Found(status, limit, text \in {"", "true"}) = Found(status, limit, asc)
  <1>1. CASE asc
    BY <1>1 DEF Asks, Found, OrderBy
  <1>2. CASE ~asc
    BY <1>2 DEF Asks, Found, OrderBy
  <1> QED
    BY <1>1, <1>2

\* The limit that is read, and its offset and count.
ReadLimit(limit) == IF limit = <<>> THEN <<10>> ELSE limit
OffsetOf(limit) == IF Len(limit) = 2 THEN limit[1] ELSE 0
CountOf(limit) == IF limit = <<>> THEN 10 ELSE limit[Len(limit)]

\* What may answer a request without an uid.
Listings(status, limit, text) == Answers("", status, limit, text)

\* What the statement finds if it runs to its end.
IsFound(whole, status, limit, asc) == whole = Found(status, ReadLimit(limit), asc)

\* Every answer is a failure or the first entries of the list whole.
AreFirsts(answers, whole) ==
    \A answer \in answers :
        \/ answer.op = "fail"
        \/ /\ answer.op = "listing"
           /\ \E m \in 0 .. Len(whole) : answer.list = SubSeq(whole, 1, m)

\* There is an answer with the first entries of it, however many.
HoldFirsts(answers, whole) ==
    \A m \in 0 .. Len(whole) :
        \E answer \in answers : answer.op = "listing" /\ answer.list = SubSeq(whole, 1, m)

\* What answers a request without an uid: a failure, or the first entries of
\* what the statement finds.
LEMMA ListingAnswers ==
    ASSUME NEW status, NEW limit, NEW text, NEW asc, Asks(text, asc),
           NEW whole, IsFound(whole, status, limit, asc)
    PROVE  /\ AreFirsts(Listings(status, limit, text), whole)
           /\ HoldFirsts(Listings(status, limit, text), whole)
  <1> DEFINE command == [op |-> "status", uid |-> "", status |-> status, asc |-> text,
                         limit |-> ReadLimit(limit)]
             Listed(list) == [op |-> "listing", list |-> list]
  <1>1. Listings(status, limit, text) = SearchExperiments(command)
    BY StatusIsHandled DEF Listings, Answers, ReadLimit
  <1>2. /\ command.uid = "" /\ command.status = status /\ command.asc = text
        /\ command.limit = ReadLimit(limit)
    OBVIOUS
  <1> HIDE DEF command
  <1>3. SearchExperiments(command) =
          {Fail("GetStatusExecuteWrong")} \cup {Listed(list) : list \in Prefixes(whole)}
    <2>1. Found(status, ReadLimit(limit), text \in {"", "true"}) = whole
      BY TextOfOrder, Zenon DEF IsFound
    <2>2. QueryExperimentModels(command.status, command.limit, command.asc \in {"", "true"}) =
            Prefixes(whole)
      BY <1>2, <2>1, Zenon DEF QueryExperimentModels
    <2> QED
      BY <1>2, <2>2, Zenon DEF SearchExperiments
  <1>4. Prefixes(whole) = {SubSeq(whole, 1, m) : m \in 0 .. Len(whole)}
    BY DEF Prefixes
  <1>5. Fail("GetStatusExecuteWrong").op = "fail"
    BY DEF Fail
  <1>6. \A list : Listed(list).op = "listing" /\ Listed(list).list = list
    OBVIOUS
  <1> HIDE DEF Listed
  <1>7. ASSUME NEW answer \in Listings(status, limit, text)
        PROVE  \/ answer.op = "fail"
               \/ /\ answer.op = "listing"
                  /\ \E m \in 0 .. Len(whole) : answer.list = SubSeq(whole, 1, m)
    <2>1. CASE answer = Fail("GetStatusExecuteWrong")
      BY <1>5, <2>1
    <2>2. CASE \E list \in Prefixes(whole) : answer = Listed(list)
      <3>1. PICK list \in Prefixes(whole) : answer = Listed(list)
        BY <2>2
      <3>2. PICK m \in 0 .. Len(whole) : list = SubSeq(whole, 1, m)
        BY <1>4
      <3> QED
        BY <1>6, <3>1, <3>2
    <2> QED
      BY <1>1, <1>3, <2>1, <2>2, Zenon
  <1>8. ASSUME NEW m \in 0 .. Len(whole)
        PROVE  \E answer \in Listings(status, limit, text) :
                  answer.op = "listing" /\ answer.list = SubSeq(whole, 1, m)
    <2>1. PICK list \in Prefixes(whole) : list = SubSeq(whole, 1, m)
      BY <1>4
    <2>2. Listed(list) \in Listings(status, limit, text)
      BY <1>1, <1>3, Zenon
    <2> QED
      BY <1>6, <2>1, <2>2
  <1> QED
    BY <1>7, <1>8 DEF AreFirsts, HoldFirsts

\* The first m entries of a sequence.
LEMMA PrefixIs ==
    ASSUME NEW S, NEW whole \in Seq(S), NEW m \in 0 .. Len(whole),
           NEW page, page = SubSeq(whole, 1, m)
    PROVE  /\ page \in Seq(S) /\ Len(page) = m
           /\ \A k \in 1 .. m : page[k] = whole[k]
  <1>1. Len(whole) \in Nat /\ \A k \in 1 .. Len(whole) : whole[k] \in S
    BY LenProperties, ElementOfSeq
  <1>2. m \in Int /\ \A k \in 1 .. m : whole[k] \in S
    BY <1>1
  <1>3. /\ SubSeq(whole, 1, m) \in Seq(S)
        /\ Len(SubSeq(whole, 1, m)) = IF 1 <= m THEN m - 1 + 1 ELSE 0
        /\ \A i \in 1 .. m - 1 + 1 : SubSeq(whole, 1, m)[i] = whole[1 + i - 1]
    BY <1>2, SubSeqProperties
  <1>4. m - 1 + 1 = m /\ \A i \in Int : 1 + i - 1 = i
    BY <1>2
  <1> QED
    BY <1>2, <1>3, <1>4

\* A page shows the rows whose rank is in its window.
LEMMA PageShowsRanks ==
    ASSUME rows \in Seq(RowSet), NEW status, NEW asc \in BOOLEAN,
           NEW o \in Int, NEW c \in Int,
           NEW page, page = Limit(o, c, OrderBy(asc, Where(status)))
    PROVE  Range(UidsOf(page)) =
             {rows[i].uid : i \in {i \in DOMAIN rows :
                /\ Matches(status, rows[i])
                /\ Rank(i, status, asc) >= o
                /\ c < 0 \/ Rank(i, status, asc) < (IF o < 0 THEN 0 ELSE o) + c}}
  <1> DEFINE list == OrderBy(asc, Where(status))
             from == IF o < 0 THEN 0 ELSE o
             r(i) == Rank(i, status, asc)
             Shown(i) == /\ Matches(status, rows[i])
                         /\ r(i) >= o
                         /\ c < 0 \/ r(i) < from + c
  <1>1. /\ list \in Seq(RowSet)
        /\ \A k \in 1 .. Len(list) : \E i \in DOMAIN rows :
              Matches(status, rows[i]) /\ list[k] = rows[i] /\ r(i) = k - 1
        /\ \A i \in DOMAIN rows : Matches(status, rows[i]) =>
              r(i) + 1 \in 1 .. Len(list) /\ list[r(i) + 1] = rows[i]
    BY OrderShowsRanks
  <1>2. from \in Nat /\ page = Window(from, c, list)
    BY DEF Limit
  <1>3. \A i \in DOMAIN rows : Matches(status, rows[i]) => r(i) \in Nat
    <2>1. ASSUME NEW i \in DOMAIN rows, Matches(status, rows[i])
          PROVE  Rank(i, status, TRUE) \in Nat /\ Rank(i, status, FALSE) \in Nat
      BY <2>1, RankIs
    <2> QED
      BY <2>1
  <1>4. \A n \in Nat : n >= o <=> n >= from
    OBVIOUS
  <1> HIDE DEF list, from, r
  <1>5. /\ page \in Seq(RowSet)
        /\ \A k \in 1 .. Len(page) :
              /\ from + k \in 1 .. Len(list)
              /\ page[k] = list[from + k]
              /\ c < 0 \/ k <= c
        /\ \A k \in Nat \ {0} :
              from + k <= Len(list) /\ (c < 0 \/ k <= c) => k \in 1 .. Len(page)
    BY <1>1, <1>2, WindowIs
  <1>6. Len(list) \in Nat /\ DOMAIN page = 1 .. Len(page) /\ Len(page) \in Nat
    BY <1>1, <1>5, LenProperties
  <1>7. Range(UidsOf(page)) = {page[k].uid : k \in 1 .. Len(page)}
    BY <1>6 DEF Range, UidsOf
  <1>8. ASSUME NEW k \in 1 .. Len(page)
        PROVE  \E i \in DOMAIN rows : Shown(i) /\ page[k].uid = rows[i].uid
    <2>0. PICK m \in 1 .. Len(list) : m = from + k
      BY <1>5
    <2>1. PICK i \in DOMAIN rows :
             Matches(status, rows[i]) /\ list[m] = rows[i] /\ r(i) = m - 1
      BY <1>1
    <2>2. r(i) \in Nat /\ r(i) >= from /\ (c < 0 \/ r(i) < from + c)
      <3>1. c < 0 \/ k <= c
        BY <1>5
      <3> QED
        BY <1>2, <1>6, <2>0, <2>1, <3>1
    <2> QED
      BY <1>4, <1>5, <2>0, <2>1, <2>2
  <1>9. ASSUME NEW i \in DOMAIN rows, Shown(i)
        PROVE  \E k \in 1 .. Len(page) : page[k].uid = rows[i].uid
    <2>1. /\ r(i) \in Nat /\ r(i) >= from /\ (c < 0 \/ r(i) < from + c)
          /\ r(i) + 1 \in 1 .. Len(list) /\ list[r(i) + 1] = rows[i]
      BY <1>1, <1>3, <1>4, <1>9
    <2> DEFINE k == r(i) + 1 - from
    <2>2. k \in Nat \ {0} /\ from + k = r(i) + 1 /\ (c < 0 \/ k <= c)
      BY <1>2, <2>1
    <2>3. from + k <= Len(list)
      BY <1>6, <2>1, <2>2
    <2> HIDE DEF k
    <2>4. k \in 1 .. Len(page)
      BY <1>5, <2>2, <2>3
    <2> QED
      BY <1>5, <2>1, <2>2, <2>4
  <1>10. {page[k].uid : k \in 1 .. Len(page)} = {rows[i].uid : i \in {i \in DOMAIN rows : Shown(i)}}
    <2> HIDE DEF Shown
    <2>1. ASSUME NEW i \in {i \in DOMAIN rows : Shown(i)}
          PROVE  rows[i].uid \in {page[k].uid : k \in 1 .. Len(page)}
      BY <1>9
    <2>2. ASSUME NEW k \in 1 .. Len(page)
          PROVE  page[k].uid \in {rows[i].uid : i \in {i \in DOMAIN rows : Shown(i)}}
      <3>1. PICK i \in DOMAIN rows : Shown(i) /\ page[k].uid = rows[i].uid
        BY <1>8
      <3>2. i \in {j \in DOMAIN rows : Shown(j)}
        BY <3>1
      <3> QED
        BY <3>1, <3>2
    <2> QED
      BY <2>1, <2>2
  <1> QED
    BY <1>7, <1>10 DEF from, r

\* What a page of the walk is the first entries of.
LEMMA PageOfWalk ==
    ASSUME NEW status, NEW asc, NEW offset \in Nat
    PROVE  Found(status, <<offset, Count>>, asc) =
             Window(offset, Count, OrderBy(asc, Where(status)))
  <1>1. <<offset, Count>> # <<>> /\ Len(<<offset, Count>>) = 2
    OBVIOUS
  <1>2. NaN \notin {offset, Count} /\ Count \in Nat
    BY NaNAssumption, CountAssumption
  <1>3. Found(status, <<offset, Count>>, asc) =
           Limit(offset, Count, OrderBy(asc, Where(status)))
    BY <1>1, <1>2 DEF Found
  <1> QED
    BY <1>3 DEF Limit

\* It is a sequence of rows.
LEMMA PageIsTyped ==
    ASSUME rows \in Seq(RowSet), NEW status, NEW asc \in BOOLEAN, NEW offset \in Nat
    PROVE  Found(status, <<offset, Count>>, asc) \in Seq(RowSet)
  <1>1. OrderBy(asc, Where(status)) \in Seq(RowSet)
    BY OrderShowsRanks
  <1>2. Count \in Int
    BY CountAssumption
  <1>3. Window(offset, Count, OrderBy(asc, Where(status))) \in Seq(RowSet)
    BY <1>1, <1>2, WindowIs
  <1> QED
    BY <1>3, PageOfWalk

\* page holds the first entries of whole.
Begins(page, whole) ==
    /\ page \in Seq(RowSet) /\ Len(page) <= Len(whole)
    /\ \A k \in 1 .. Len(page) : page[k] = whole[k]

\* So do its first m entries.
LEMMA PrefixBegins ==
    ASSUME NEW whole \in Seq(RowSet), NEW m \in 0 .. Len(whole),
           NEW list, list = SubSeq(whole, 1, m)
    PROVE  Begins(list, whole)
  <1>1. Len(whole) \in Nat
    BY LenProperties
  <1>2. list \in Seq(RowSet) /\ Len(list) = m /\ \A k \in 1 .. m : list[k] = whole[k]
    BY PrefixIs
  <1> QED
    BY <1>1, <1>2 DEF Begins

\* What a walk is answered: a failure, or the first entries of its page.
LEMMA WalkIsAnswered ==
    ASSUME rows \in Seq(RowSet), NEW status, NEW asc, NEW offset \in Nat,
           NEW limit, limit = <<offset, Count>>, NEW text, Asks(text, asc),
           NEW whole, whole = Found(status, limit, asc),
           NEW answer, answer \in Listings(status, limit, text)
    PROVE  answer.op = "fail" \/ (answer.op = "listing" /\ Begins(answer.list, whole))
  <1>1. whole \in Seq(RowSet)
    <2>1. asc \in BOOLEAN
      BY DEF Asks
    <2> QED
      BY <2>1, PageIsTyped
  <1>2. limit = ReadLimit(limit)
    BY DEF ReadLimit
  <1>3. IsFound(whole, status, limit, asc)
    BY <1>2, Zenon DEF IsFound
  <1>4. AreFirsts(Listings(status, limit, text), whole)
    BY <1>3, ListingAnswers
  <1>5. \/ answer.op = "fail"
        \/ /\ answer.op = "listing"
           /\ \E m \in 0 .. Len(whole) : answer.list = SubSeq(whole, 1, m)
    BY <1>4, Zenon DEF AreFirsts
  <1> QED
    BY <1>1, <1>5, PrefixBegins, Zenon

\* The uids of a listing.
LEMMA UidsAre ==
    ASSUME NEW list \in Seq(RowSet)
    PROVE  /\ UidsOf(list) \in Seq(Uid) /\ Len(UidsOf(list)) = Len(list)
           /\ \A k \in 1 .. Len(list) : UidsOf(list)[k] = list[k].uid
           /\ Range(UidsOf(list)) \in SUBSET Uid
  <1>1. DOMAIN list = 1 .. Len(list) /\ Len(list) \in Nat
    BY LenProperties
  <1>2. \A k \in 1 .. Len(list) : list[k].uid \in Uid
    <2>1. \A k \in 1 .. Len(list) : list[k] \in RowSet
      BY ElementOfSeq
    <2> QED
      BY <2>1 DEF RowSet
  <1> QED
    BY <1>1, <1>2 DEF UidsOf, Range

-----------------------------------------------------------------------------
(* The walks *)

\* An experiment has one row.
RowsDiffer ==
    \A i, j \in DOMAIN rows : rows[i].uid = rows[j].uid => i = j

\* The walks through the whole listing, in either order.
Ascends(w) == walk[w].status = "" /\ walk[w].asc
Descends(w) == walk[w].status = "" /\ ~walk[w].asc

\* An ascending walk has seen the first rows of the table, in their order, as
\* many as it has skipped; once its last page was not full, all that were
\* there when it began.
AscendingInv ==
    \A w \in Walker : Ascends(w) =>
        /\ Len(walk[w].seen) <= Len(rows)
        /\ \A k \in 1 .. Len(walk[w].seen) : walk[w].seen[k] = rows[k].uid
        /\ walk[w].phase = "fetching" => walk[w].offset = Len(walk[w].seen)
        /\ walk[w].first \subseteq Range(UidsOf(rows))
        /\ walk[w].phase = "done" => walk[w].first \subseteq Range(walk[w].seen)

\* What the descending walk v knows of the table list: there is a row, the one
\* with number c, up to which none has been seen and behind which none that was
\* there when the walk began is left out, and the walk has not skipped it.
Behind(v, list, c) ==
    /\ v.first \subseteq Range(UidsOf(list))
    /\ Range(v.seen) \subseteq Range(UidsOf(list))
    /\ \A i \in DOMAIN list : list[i].uid \in Range(v.seen) => c < i
    /\ \A i \in DOMAIN list :
          list[i].uid \in v.first => i <= c \/ list[i].uid \in Range(v.seen)
    /\ v.phase = "fetching" => c = 0 \/ c + v.offset <= Len(list)
    /\ v.phase = "done" => c = 0

DescendingInv ==
    \A w \in Walker : Descends(w) => \E c \in Nat : Behind(walk[w], rows, c)

QInv == TypeOK /\ RowsDiffer /\ AscendingInv /\ DescendingInv

\* The empty table, before any walk.
LEMMA InitEstablishes == Init => QInv
  <1> SUFFICES ASSUME Init PROVE QInv
    OBVIOUS
  <1>1. <<>> \in Seq(Uid) /\ <<>> \in Seq(RowSet) /\ Len(<<>>) = 0
    BY EmptySeq
  <1>2. TypeOK
    BY <1>1 DEF Init, TypeOK, Walk, Phase, StatusText
  <1>3. \A n : n \in 1 .. 0 => FALSE
    OBVIOUS
  <1>4. /\ rows = <<>>
        /\ \A w \in Walker : /\ walk[w].first = {} /\ walk[w].phase = "idle"
                             /\ walk[w].seen = <<>>
    BY DEF Init
  <1>5. DOMAIN rows = 1 .. Len(rows) /\ Len(rows) = 0
    BY <1>1, <1>4, LenProperties
  <1>6. RowsDiffer
    BY <1>3, <1>5 DEF RowsDiffer
  <1>7. AscendingInv
    <2>1. \A w \in Walker : Len(walk[w].seen) = 0
      BY <1>1, <1>4
    <2> QED
      BY <1>3, <1>4, <1>5, <2>1 DEF AscendingInv
  <1>8. DescendingInv
    <2>1. \A w \in Walker : ~Descends(w)
      BY Zenon DEF Init, Descends
    <2> QED
      BY <2>1 DEF DescendingInv
  <1> QED
    BY <1>2, <1>6, <1>7, <1>8 DEF QInv

\* A new experiment comes last: nobody's first rows change.
LEMMA InsertKeeps ==
    ASSUME QInv, NEW u \in Uid, Insert(u) PROVE QInv'
  <1> DEFINE row == [uid |-> u, status |-> "Created"]
  <1>1. row \in RowSet /\ row.uid = u
    BY DEF RowSet, Status
  <1>2. rows \in Seq(RowSet) /\ rows' = Append(rows, row) /\ UNCHANGED walk
    BY DEF QInv, TypeOK, Insert
  <1> HIDE DEF row
  <1>3. /\ rows' \in Seq(RowSet) /\ Len(rows') = Len(rows) + 1 /\ Len(rows) \in Nat
        /\ \A i \in 1 .. Len(rows) : rows'[i] = rows[i]
        /\ rows'[Len(rows) + 1].uid = u
    BY <1>1, <1>2, AppendProperties, LenProperties
  <1>4. DOMAIN rows = 1 .. Len(rows) /\ DOMAIN rows' = 1 .. Len(rows) + 1
    BY <1>2, <1>3, LenProperties
  <1>5. \A i \in 1 .. Len(rows) : rows[i].uid # u
    BY <1>4 DEF Insert, Range, UidsOf
  <1>6. TypeOK'
    BY <1>2, <1>3 DEF QInv, TypeOK
  <1>7. RowsDiffer'
    BY <1>3, <1>4, <1>5 DEF QInv, RowsDiffer
  <1>8. Range(UidsOf(rows)) \subseteq Range(UidsOf(rows'))
    BY <1>3, <1>4 DEF Range, UidsOf
  <1>9. AscendingInv'
    <2> SUFFICES ASSUME NEW w \in Walker, Ascends(w)
                 PROVE  /\ Len(walk[w].seen) <= Len(rows')
                        /\ \A k \in 1 .. Len(walk[w].seen) : walk[w].seen[k] = rows'[k].uid
                        /\ walk[w].phase = "fetching" => walk[w].offset = Len(walk[w].seen)
                        /\ walk[w].first \subseteq Range(UidsOf(rows'))
                        /\ walk[w].phase = "done" => walk[w].first \subseteq Range(walk[w].seen)
      BY <1>2 DEF AscendingInv, Ascends
    <2>1. Len(walk[w].seen) \in Nat
      <3>1. walk[w].seen \in Seq(Uid)
        BY DEF QInv, TypeOK, Walk
      <3> QED
        BY <3>1, LenProperties
    <2>2. /\ Len(walk[w].seen) <= Len(rows)
          /\ \A k \in 1 .. Len(walk[w].seen) : walk[w].seen[k] = rows[k].uid
          /\ walk[w].phase = "fetching" => walk[w].offset = Len(walk[w].seen)
          /\ walk[w].first \subseteq Range(UidsOf(rows))
          /\ walk[w].phase = "done" => walk[w].first \subseteq Range(walk[w].seen)
      BY DEF QInv, AscendingInv
    <2>3. \A k \in 1 .. Len(walk[w].seen) : k \in 1 .. Len(rows)
      BY <1>3, <2>1, <2>2
    <2>4. Len(walk[w].seen) <= Len(rows')
      BY <1>3, <2>1, <2>2
    <2> QED
      BY <1>3, <1>8, <2>2, <2>3, <2>4
  <1>10. DescendingInv'
    <2> SUFFICES ASSUME NEW w \in Walker, Descends(w)
                 PROVE  \E c \in Nat : Behind(walk[w], rows', c)
      BY <1>2 DEF DescendingInv, Descends
    <2>1. PICK c \in Nat : Behind(walk[w], rows, c)
      BY DEF QInv, DescendingInv
    <2>2. walk[w].offset \in Nat
      BY DEF QInv, TypeOK, Walk
    <2>3. u \notin Range(UidsOf(rows))
      BY DEF Insert
    <2>4. \A i \in DOMAIN rows' : i \in DOMAIN rows \/ rows'[i].uid = u
      BY <1>3, <1>4
    <2>5. \A i \in DOMAIN rows : rows'[i].uid = rows[i].uid
      BY <1>3, <1>4
    <2>6. u \notin walk[w].first /\ u \notin Range(walk[w].seen)
      BY <2>1, <2>3 DEF Behind
    <2>7. \A i \in DOMAIN rows' : rows'[i].uid \in Range(walk[w].seen) => c < i
      BY <2>1, <2>4, <2>5, <2>6 DEF Behind
    <2>8. \A i \in DOMAIN rows' :
             rows'[i].uid \in walk[w].first => i <= c \/ rows'[i].uid \in Range(walk[w].seen)
      BY <2>1, <2>4, <2>5, <2>6 DEF Behind
    <2>9. \A offset \in Nat : c + offset <= Len(rows) => c + offset <= Len(rows')
      BY <1>3
    <2>10. Behind(walk[w], rows', c)
      BY <1>8, <2>1, <2>2, <2>7, <2>8, <2>9 DEF Behind
    <2> QED
      BY <2>10
  <1> QED
    BY <1>6, <1>7, <1>9, <1>10 DEF QInv

\* A row that changes its status keeps its place and its uid.
LEMMA UpdateKeeps ==
    ASSUME QInv, NEW n \in DOMAIN rows, NEW s \in Status, Update(n, s) PROVE QInv'
  <1> DEFINE row == [rows[n] EXCEPT !.status = s]
  <1>1. rows \in Seq(RowSet) /\ rows' = [rows EXCEPT ![n] = row] /\ UNCHANGED walk
    BY DEF QInv, TypeOK, Update
  <1>2. DOMAIN rows = 1 .. Len(rows) /\ Len(rows) \in Nat
    BY <1>1, LenProperties
  <1>3. row \in RowSet /\ row.uid = rows[n].uid
    <2>1. rows[n] \in RowSet
      BY <1>1, <1>2, ElementOfSeq
    <2> QED
      BY <2>1 DEF RowSet
  <1> HIDE DEF row
  <1>4. /\ rows' \in Seq(RowSet) /\ Len(rows') = Len(rows) /\ DOMAIN rows' = DOMAIN rows
        /\ \A i \in 1 .. Len(rows) : rows'[i].uid = rows[i].uid
    BY <1>1, <1>2, <1>3, ExceptSeq
  <1>5. TypeOK'
    BY <1>1, <1>4 DEF QInv, TypeOK
  <1>6. RowsDiffer'
    BY <1>2, <1>4 DEF QInv, RowsDiffer
  <1>7. UidsOf(rows') = UidsOf(rows)
    BY <1>2, <1>4 DEF UidsOf
  <1>8. AscendingInv'
    <2> SUFFICES ASSUME NEW w \in Walker, Ascends(w)
                 PROVE  /\ Len(walk[w].seen) <= Len(rows')
                        /\ \A k \in 1 .. Len(walk[w].seen) : walk[w].seen[k] = rows'[k].uid
                        /\ walk[w].phase = "fetching" => walk[w].offset = Len(walk[w].seen)
                        /\ walk[w].first \subseteq Range(UidsOf(rows'))
                        /\ walk[w].phase = "done" => walk[w].first \subseteq Range(walk[w].seen)
      BY <1>1 DEF AscendingInv, Ascends
    <2>1. Len(walk[w].seen) \in Nat
      <3>1. walk[w].seen \in Seq(Uid)
        BY DEF QInv, TypeOK, Walk
      <3> QED
        BY <3>1, LenProperties
    <2>2. Len(walk[w].seen) <= Len(rows)
      BY DEF QInv, AscendingInv
    <2>3. \A k \in 1 .. Len(walk[w].seen) : k \in 1 .. Len(rows)
      BY <1>2, <2>1, <2>2
    <2> QED
      BY <1>4, <1>7, <2>2, <2>3 DEF QInv, AscendingInv
  <1>9. DescendingInv'
    <2> SUFFICES ASSUME NEW w \in Walker, Descends(w)
                 PROVE  \E c \in Nat : Behind(walk[w], rows', c)
      BY <1>1 DEF DescendingInv, Descends
    <2>1. PICK c \in Nat : Behind(walk[w], rows, c)
      BY DEF QInv, DescendingInv
    <2>2. \A i \in DOMAIN rows : rows'[i].uid = rows[i].uid
      BY <1>2, <1>4
    <2>3. Behind(walk[w], rows', c)
      BY <1>4, <1>7, <2>1, <2>2 DEF Behind
    <2> QED
      BY <2>3
  <1> QED
    BY <1>5, <1>6, <1>8, <1>9 DEF QInv

\* A walk begins with nothing seen and everything to come.
LEMMA BeginKeeps ==
    ASSUME QInv, NEW w \in Walker, NEW status \in StatusText, NEW asc \in BOOLEAN,
           Begin(w, status, asc)
    PROVE  QInv'
  <1> DEFINE new == [phase |-> "fetching", status |-> status, asc |-> asc,
                     offset |-> 0, seen |-> <<>>, first |-> Range(UidsOf(Where(status)))]
  <1>1. walk' = [walk EXCEPT ![w] = new] /\ UNCHANGED rows
    BY DEF Begin
  <1>2. rows \in Seq(RowSet) /\ walk \in [Walker -> Walk]
    BY DEF QInv, TypeOK
  <1>3. Where(status) \in Seq(RowSet)
    BY <1>2, WhereFilters DEF IsFiltered
  <1>4. new \in Walk
    <2>1. Range(UidsOf(Where(status))) \in SUBSET Uid
      BY <1>3, UidsAre
    <2>2. <<>> \in Seq(Uid)
      BY EmptySeq
    <2> QED
      BY <2>1, <2>2 DEF Walk, Phase
  <1>5. /\ new.phase = "fetching" /\ new.status = status /\ new.asc = asc /\ new.offset = 0
        /\ new.seen = <<>> /\ new.first = Range(UidsOf(Where(status)))
    OBVIOUS
  <1> HIDE DEF new
  <1>6. walk'[w] = new /\ \A x \in Walker \ {w} : walk'[x] = walk[x]
    BY <1>1, <1>2
  <1>7. TypeOK' /\ RowsDiffer'
    BY <1>1, <1>2, <1>4 DEF QInv, TypeOK, RowsDiffer
  <1>8. /\ Len(rows) \in Nat /\ DOMAIN rows = 1 .. Len(rows) /\ Len(<<>>) = 0
        /\ DOMAIN Where(status) = 1 .. Len(Where(status))
    BY <1>2, <1>3, LenProperties
  <1>9. \A u \in new.first : \E i \in 1 .. Len(rows) : rows[i].uid = u
    <2> SUFFICES ASSUME NEW k \in 1 .. Len(Where(status))
                 PROVE  \E i \in 1 .. Len(rows) : rows[i].uid = Where(status)[k].uid
      BY <1>5, <1>8 DEF Range, UidsOf
    <2>1. PICK i \in 1 .. Len(rows) : Where(status)[k] = rows[i]
      BY <1>2, WhereFilters DEF IsFiltered
    <2> QED
      BY <2>1
  <1>10. AscendingInv'
    <2> SUFFICES ASSUME NEW x \in Walker, Ascends(x)'
                 PROVE  /\ Len(walk'[x].seen) <= Len(rows)
                        /\ \A k \in 1 .. Len(walk'[x].seen) : walk'[x].seen[k] = rows[k].uid
                        /\ walk'[x].phase = "fetching" => walk'[x].offset = Len(walk'[x].seen)
                        /\ walk'[x].first \subseteq Range(UidsOf(rows))
                        /\ walk'[x].phase = "done" => walk'[x].first \subseteq Range(walk'[x].seen)
      BY <1>1 DEF AscendingInv
    <2>1. CASE x = w
      <3>1. new.first \subseteq Range(UidsOf(rows))
        BY <1>8, <1>9 DEF Range, UidsOf
      <3> QED
        BY <1>5, <1>6, <1>8, <2>1, <3>1
    <2>2. CASE x # w
      <3>1. walk'[x] = walk[x] /\ Ascends(x)
        BY <1>6, <2>2 DEF Ascends
      <3> QED
        BY <3>1 DEF QInv, AscendingInv
    <2> QED
      BY <2>1, <2>2
  <1>11. DescendingInv'
    <2> SUFFICES ASSUME NEW x \in Walker, Descends(x)'
                 PROVE  \E c \in Nat : Behind(walk'[x], rows, c)
      BY <1>1 DEF DescendingInv
    <2>1. CASE x = w
      <3>1. new.first \subseteq Range(UidsOf(rows)) /\ Range(new.seen) = {}
        <4>1. new.first \subseteq Range(UidsOf(rows))
          BY <1>8, <1>9 DEF Range, UidsOf
        <4>2. Range(<<>>) = {}
          BY DEF Range
        <4> QED
          BY <1>5, <4>1, <4>2
      <3>2. Len(rows) + 0 = Len(rows) /\ \A i \in DOMAIN rows : i <= Len(rows)
        BY <1>8
      <3>3. Behind(new, rows, Len(rows))
        BY <1>5, <1>8, <3>1, <3>2 DEF Behind
      <3> QED
        BY <1>6, <1>8, <2>1, <3>3
    <2>2. CASE x # w
      <3>1. walk'[x] = walk[x] /\ Descends(x)
        BY <1>6, <2>2 DEF Descends
      <3> QED
        BY <3>1 DEF QInv, DescendingInv
    <2> QED
      BY <2>1, <2>2
  <1> QED
    BY <1>7, <1>10, <1>11 DEF QInv

\* The whole listing in either order.
Oldest == OrderBy(TRUE, Where(""))
Latest == OrderBy(FALSE, Where(""))

\* The listing without a filter is the table itself, or the table reversed.
LEMMA WholeTable ==
    ASSUME rows \in Seq(RowSet)
    PROVE  /\ Oldest \in Seq(RowSet) /\ Len(Oldest) = Len(rows)
           /\ \A k \in 1 .. Len(rows) : Oldest[k] = rows[k]
           /\ Latest \in Seq(RowSet) /\ Len(Latest) = Len(rows)
           /\ \A k \in 1 .. Len(rows) : Latest[k] = rows[(Len(rows) - k) + 1]
  <1> DEFINE up == Where("")
  <1>1. Len(rows) \in Nat
    BY LenProperties
  <1>2. \A n \in Nat : Cardinality(Upto("", n)) = n
    <2> SUFFICES ASSUME NEW n \in Nat PROVE Cardinality(Upto("", n)) = n
      OBVIOUS
    <2>1. Upto("", n) = 1 .. n
      BY DEF Upto, Matches
    <2>2. Cardinality(1 .. n) = IF 1 > n THEN 0 ELSE n - 1 + 1
      BY FS_Interval
    <2>3. Cardinality(Upto("", n)) = Cardinality(1 .. n)
      BY <2>1
    <2>4. (IF 1 > n THEN 0 ELSE n - 1 + 1) = n
      OBVIOUS
    <2> QED
      BY <2>2, <2>3, <2>4
  <1>3. up \in Seq(RowSet) /\ Len(up) = Len(rows)
    BY <1>1, <1>2, WhereFilters DEF IsFiltered
  <1>4. ASSUME NEW k \in 1 .. Len(rows) PROVE up[k] = rows[k]
    <2>1. Cardinality(Upto("", k - 1)) + 1 = k
      <3>1. PICK m \in Nat : m = k - 1
        BY <1>1
      <3>2. Cardinality(Upto("", k - 1)) = m
        BY <1>2, <3>1
      <3>3. m + 1 = k
        BY <1>1, <3>1
      <3> QED
        BY <3>2, <3>3
    <2>2. Matches("", rows[k])
      BY DEF Matches
    <2> QED
      BY <2>1, <2>2, WhereFilters DEF IsFiltered
  <1> HIDE DEF up
  <1>5. OrderBy(TRUE, up) = up
    BY DEF OrderBy
  <1>6. OrderBy(FALSE, up) = [k \in 1 .. Len(up) |-> up[(Len(up) - k) + 1]]
    BY DEF OrderBy, Reverse
  <1> DEFINE down == OrderBy(FALSE, up)
  <1>7. down = [k \in 1 .. Len(rows) |-> up[(Len(rows) - k) + 1]]
    BY <1>3, <1>6
  <1> HIDE DEF down
  <1>8. \A k \in 1 .. Len(rows) :
           /\ (Len(rows) - k) + 1 \in 1 .. Len(rows)
           /\ up[(Len(rows) - k) + 1] \in RowSet
    BY <1>1, <1>3, ElementOfSeq
  <1>9. down \in Seq(RowSet) /\ Len(down) = Len(rows)
    BY <1>1, <1>7, <1>8
  <1>10. \A k \in 1 .. Len(rows) : down[k] = rows[(Len(rows) - k) + 1]
    BY <1>4, <1>7, <1>8
  <1> QED
    BY <1>3, <1>4, <1>5, <1>9, <1>10 DEF up, down, Oldest, Latest

\* The entries of a page, its length and what it is cut from.
LEMMA PageReads ==
    ASSUME rows \in Seq(RowSet), NEW offset \in Nat, NEW list \in Seq(RowSet),
           Len(list) = Len(rows),
           NEW whole, whole = Window(offset, Count, list), NEW page, Begins(page, whole)
    PROVE  /\ Len(page) \in Nat /\ Len(whole) \in Nat /\ Len(whole) <= Count
           /\ \A k \in 1 .. Len(page) :
                 offset + k \in 1 .. Len(rows) /\ page[k] = list[offset + k]
           /\ Len(page) = 0 \/ offset + Len(page) <= Len(rows)
           /\ Len(page) <= Len(whole)
           /\ Len(whole) < Count => offset + Len(whole) >= Len(rows)
           /\ UidsOf(page) \in Seq(Uid) /\ Len(UidsOf(page)) = Len(page)
           /\ \A k \in 1 .. Len(page) : UidsOf(page)[k] = page[k].uid
  <1> DEFINE p == Len(page)
             n == Len(whole)
             L == Len(rows)
  <1>1. L \in Nat /\ Count \in Nat \ {0} /\ Count \in Int
    BY CountAssumption, LenProperties
  <1>2. /\ whole \in Seq(RowSet)
        /\ \A k \in 1 .. n :
              /\ offset + k \in 1 .. L
              /\ whole[k] = list[offset + k]
              /\ Count < 0 \/ k <= Count
        /\ \A k \in Nat \ {0} : offset + k <= L /\ (Count < 0 \/ k <= Count) => k \in 1 .. n
    BY <1>1, WindowIs
  <1>3. page \in Seq(RowSet) /\ p <= n /\ \A k \in 1 .. p : page[k] = whole[k]
    BY DEF Begins
  <1>4. p \in Nat /\ n \in Nat
    BY <1>2, <1>3, LenProperties
  <1>5. /\ UidsOf(page) \in Seq(Uid) /\ Len(UidsOf(page)) = p
        /\ \A k \in 1 .. p : UidsOf(page)[k] = page[k].uid
    BY <1>3, UidsAre
  <1> HIDE DEF p, n, L
  <1>6. \A k \in 1 .. p : k \in 1 .. n
    BY <1>3, <1>4
  <1>7. \A k \in 1 .. p : offset + k \in 1 .. L /\ page[k] = list[offset + k]
    BY <1>2, <1>3, <1>6
  <1>8. p = 0 \/ offset + p <= L
    <2>1. CASE p # 0
      <3>1. p \in 1 .. p
        BY <1>4, <2>1
      <3>2. offset + p \in 1 .. L
        BY <1>7, <3>1
      <3> QED
        BY <1>1, <3>2
    <2> QED
      BY <2>1
  <1>9. n <= Count
    <2>1. CASE n # 0
      <3>1. n \in 1 .. n
        BY <1>4, <2>1
      <3>2. Count < 0 \/ n <= Count
        BY <1>2, <3>1
      <3> QED
        BY <1>1, <3>2
    <2> QED
      BY <1>1, <2>1
  <1>10. n < Count => offset + n >= L
    <2> SUFFICES ASSUME n < Count, ~(offset + n >= L) PROVE FALSE
      OBVIOUS
    <2>1. n + 1 \in Nat \ {0} /\ offset + (n + 1) <= L /\ n + 1 <= Count
      BY <1>1, <1>4
    <2>2. n + 1 \in 1 .. n
      BY <1>2, <2>1
    <2> QED
      BY <1>4, <2>2
  <1> QED
    BY <1>3, <1>4, <1>5, <1>7, <1>8, <1>9, <1>10 DEF p, n, L

\* What has been seen after one page more.
Longer(seen, page) == seen \o UidsOf(page)

\* The next page of an ascending walk continues where the last one ended.
LEMMA AscendingPage ==
    ASSUME rows \in Seq(RowSet), NEW seen \in Seq(Uid), Len(seen) <= Len(rows),
           \A k \in 1 .. Len(seen) : seen[k] = rows[k].uid,
           NEW whole, whole = Window(Len(seen), Count, Oldest),
           NEW page, Begins(page, whole),
           NEW more, more = Longer(seen, page)
    PROVE  /\ more \in Seq(Uid) /\ Len(more) <= Len(rows)
           /\ \A k \in 1 .. Len(more) : more[k] = rows[k].uid
           /\ Len(more) = Len(seen) + Len(page)
           /\ ~(Len(page) < Len(whole)) /\ Len(whole) < Count => Len(more) = Len(rows)
           /\ ~(Len(page) < Len(whole)) /\ ~(Len(whole) < Count) =>
                 Len(more) = Len(seen) + Count
  <1> DEFINE n == Len(seen)
             p == Len(page)
             L == Len(rows)
  <1>1. L \in Nat /\ n \in Nat /\ Count \in Nat
    <2>1. L \in Nat
      BY LenProperties
    <2>2. n \in Nat
      BY LenProperties
    <2> QED
      BY <2>1, <2>2, CountAssumption
  <1>2. Oldest \in Seq(RowSet) /\ Len(Oldest) = L /\ \A k \in 1 .. L : Oldest[k] = rows[k]
    BY WholeTable
  <1>3. /\ p \in Nat /\ Len(whole) \in Nat /\ Len(whole) <= Count
        /\ \A k \in 1 .. p : n + k \in 1 .. L /\ page[k] = Oldest[n + k]
        /\ p = 0 \/ n + p <= L
        /\ p <= Len(whole)
        /\ Len(whole) < Count => n + Len(whole) >= L
        /\ UidsOf(page) \in Seq(Uid) /\ Len(UidsOf(page)) = p
        /\ \A k \in 1 .. p : UidsOf(page)[k] = page[k].uid
    BY <1>1, <1>2, PageReads
  <1>4. /\ more \in Seq(Uid) /\ Len(more) = n + p
        /\ \A k \in 1 .. n + p : more[k] = IF k <= n THEN seen[k] ELSE UidsOf(page)[k - n]
    <2> DEFINE uids == UidsOf(page)
    <2>1. uids \in Seq(Uid)
      BY <1>3
    <2> HIDE DEF uids
    <2>2. /\ seen \o uids \in Seq(Uid)
          /\ Len(seen \o uids) = Len(seen) + Len(uids)
          /\ \A k \in 1 .. Len(seen) + Len(uids) : (seen \o uids)[k] =
                IF k <= Len(seen) THEN seen[k] ELSE uids[k - Len(seen)]
      BY <2>1, ConcatProperties, Zenon
    <2> QED
      BY <1>3, <2>2 DEF uids, Longer
  <1>5. \A k \in 1 .. n : seen[k] = rows[k].uid
    OBVIOUS
  <1>6. n <= L
    OBVIOUS
  <1> HIDE DEF n, p, L
  <1>7. n + p <= L
    BY <1>1, <1>3, <1>6
  <1>8. ASSUME NEW k \in 1 .. n + p PROVE more[k] = rows[k].uid
    <2>1. CASE k <= n
      <3>1. k \in 1 .. n
        BY <1>1, <2>1
      <3> QED
        BY <1>4, <1>5, <2>1, <3>1
    <2>2. CASE ~(k <= n)
      <3>1. PICK m \in 1 .. p : m = k - n /\ n + m = k
        BY <1>1, <1>3, <2>2
      <3>2. more[k] = UidsOf(page)[m]
        BY <1>4, <2>2, <3>1
      <3>3. k \in 1 .. L /\ page[m] = Oldest[k]
        BY <1>3, <3>1
      <3> QED
        BY <1>2, <1>3, <3>2, <3>3
    <2> QED
      BY <2>1, <2>2
  <1>9. /\ ~(p < Len(whole)) /\ Len(whole) < Count => n + p = L
        /\ ~(p < Len(whole)) /\ ~(Len(whole) < Count) => n + p = n + Count
    BY <1>1, <1>3, <1>7
  <1> QED
    BY <1>4, <1>7, <1>8, <1>9 DEF n, p, L

\* The next page of a descending walk continues with older rows, or shows again
\* some that were seen: none is left out.
LEMMA DescendingPage ==
    ASSUME rows \in Seq(RowSet), RowsDiffer, NEW v \in Walk, v.phase = "fetching",
           NEW c \in Nat, Behind(v, rows, c),
           NEW whole, whole = Window(v.offset, Count, Latest),
           NEW page, Begins(page, whole),
           NEW more, more = Range(v.seen) \cup Range(UidsOf(page))
    PROVE  \E d \in Nat :
              /\ more \subseteq Range(UidsOf(rows))
              /\ \A i \in DOMAIN rows : rows[i].uid \in more => d < i
              /\ \A i \in DOMAIN rows : rows[i].uid \in v.first => i <= d \/ rows[i].uid \in more
              /\ ~(Len(page) < Len(whole)) =>
                    IF Len(whole) < Count THEN d = 0
                    ELSE d = 0 \/ d + (v.offset + Count) <= Len(rows)
  <1>1. PICK o \in Nat : o = v.offset
    BY DEF Walk
  <1>2. PICK L \in Nat : L = Len(rows)
    BY LenProperties
  <1>3. PICK p \in Nat, n \in Nat :
           /\ p = Len(page) /\ n = Len(whole) /\ n <= Count
           /\ \A k \in 1 .. p : o + k \in 1 .. L /\ page[k] = Latest[o + k]
           /\ p = 0 \/ o + p <= L
           /\ p <= n
           /\ n < Count => o + n >= L
           /\ Len(UidsOf(page)) = p /\ UidsOf(page) \in Seq(Uid)
           /\ \A k \in 1 .. p : UidsOf(page)[k] = page[k].uid
    <2>1. Latest \in Seq(RowSet) /\ Len(Latest) = L
      BY <1>2, WholeTable
    <2>3. whole = Window(o, Count, Latest)
      BY <1>1
    <2>2. /\ Len(page) \in Nat /\ Len(whole) \in Nat /\ Len(whole) <= Count
          /\ \A k \in 1 .. Len(page) :
                o + k \in 1 .. Len(rows) /\ page[k] = Latest[o + k]
          /\ Len(page) = 0 \/ o + Len(page) <= Len(rows)
          /\ Len(page) <= Len(whole)
          /\ Len(whole) < Count => o + Len(whole) >= Len(rows)
          /\ UidsOf(page) \in Seq(Uid) /\ Len(UidsOf(page)) = Len(page)
          /\ \A k \in 1 .. Len(page) : UidsOf(page)[k] = page[k].uid
      BY <1>2, <2>1, <2>3, PageReads
    <2> QED
      BY <1>2, <2>2
  <1>4. \A j \in 1 .. L : Latest[j] = rows[(L - j) + 1]
    BY <1>2, WholeTable
  <1>5. /\ c = 0 \/ c + o <= L
        /\ \A i \in DOMAIN rows : rows[i].uid \in Range(v.seen) => c < i
        /\ \A i \in DOMAIN rows : rows[i].uid \in v.first => i <= c \/ rows[i].uid \in Range(v.seen)
        /\ Range(v.seen) \subseteq Range(UidsOf(rows))
    BY <1>1, <1>2 DEF Behind
  <1>6. DOMAIN rows = 1 .. L
    BY <1>2, LenProperties
  <1>7. Range(UidsOf(page)) = {UidsOf(page)[k] : k \in 1 .. p}
    <2>1. DOMAIN UidsOf(page) = 1 .. p
      BY <1>3, LenProperties
    <2> QED
      BY <2>1 DEF Range
  <1>8. PICK d \in Nat :
           /\ d <= c
           /\ d = 0 \/ d + (o + p) <= L
           /\ d = c \/ d + (o + p) >= L
    <2>1. CASE c + (o + p) <= L \/ c = 0
      <3>1. c <= c
        OBVIOUS
      <3> WITNESS c \in Nat
      <3> QED
        BY <2>1, <3>1
    <2>2. CASE ~(c + (o + p) <= L \/ c = 0)
      <3>1. o + p <= L
        BY <1>3, <1>5, <2>2
      <3>2. L - (o + p) \in Nat /\ L - (o + p) <= c /\ (L - (o + p)) + (o + p) = L
        BY <2>2, <3>1
      <3>3. PICK e \in Nat : e = L - (o + p)
        BY <3>2
      <3> WITNESS e \in Nat
      <3> QED
        BY <3>2, <3>3
    <2> QED
      BY <2>1, <2>2
  <1>9. ASSUME NEW k \in 1 .. p
        PROVE  \E i \in 1 .. L : i = (L - (o + k)) + 1 /\ UidsOf(page)[k] = rows[i].uid
    <2>1. PICK j \in 1 .. L : j = o + k /\ page[k] = Latest[j]
      BY <1>3
    <2>2. PICK i \in 1 .. L : i = (L - j) + 1
      OBVIOUS
    <2> QED
      BY <1>3, <1>4, <2>1, <2>2
  <1>10. more \subseteq Range(UidsOf(rows))
    <2>1. \A i \in 1 .. L : rows[i].uid \in Range(UidsOf(rows))
      BY <1>6 DEF Range, UidsOf
    <2>2. Range(UidsOf(page)) \subseteq Range(UidsOf(rows))
      BY <1>7, <1>9, <2>1
    <2> QED
      BY <1>5, <2>2
  <1>11. ASSUME NEW i \in 1 .. L, rows[i].uid \in more PROVE d < i
    <2>1. CASE rows[i].uid \in Range(v.seen)
      BY <1>5, <1>6, <1>8, <2>1
    <2>2. CASE rows[i].uid \in Range(UidsOf(page))
      <3>1. PICK k \in 1 .. p : rows[i].uid = UidsOf(page)[k]
        BY <1>7, <2>2
      <3>2. PICK j \in 1 .. L : j = (L - (o + k)) + 1 /\ UidsOf(page)[k] = rows[j].uid
        BY <1>9
      <3>3. i = j
        BY <1>6, <3>1, <3>2 DEF RowsDiffer
      <3>4. d = 0 \/ d + (o + p) <= L
        BY <1>8
      <3> QED
        BY <3>2, <3>3, <3>4
    <2> QED
      BY <1>11, <2>1, <2>2
  <1>12. ASSUME NEW i \in 1 .. L, rows[i].uid \in v.first, ~(i <= d)
         PROVE  rows[i].uid \in more
    <2>1. CASE rows[i].uid \in Range(v.seen)
      BY <2>1
    <2>2. CASE i <= c
      <3>1. c + o <= L /\ d + (o + p) >= L
        BY <1>5, <1>8, <1>12, <2>2
      <3>2. PICK k \in 1 .. p : k = (L - (o + i)) + 1
        BY <1>12, <2>2, <3>1
      <3>3. PICK j \in 1 .. L : j = (L - (o + k)) + 1 /\ UidsOf(page)[k] = rows[j].uid
        BY <1>9
      <3>4. j = i
        BY <3>2, <3>3
      <3> QED
        BY <1>7, <3>3, <3>4
    <2> QED
      BY <1>5, <1>6, <1>12, <2>1, <2>2
  <1>13. ~(p < n) => IF n < Count THEN d = 0 ELSE d = 0 \/ d + (o + Count) <= L
    <2>1. Count \in Nat
      BY CountAssumption
    <2>2. ASSUME ~(p < n) PROVE p = n
      BY <1>3, <2>2
    <2>3. ASSUME ~(p < n), n < Count PROVE d = 0
      <3>1. o + p >= L
        BY <1>3, <2>2, <2>3
      <3> QED
        BY <1>8, <3>1
    <2>4. ASSUME ~(p < n), ~(n < Count) PROVE d = 0 \/ d + (o + Count) <= L
      <3>1. p = Count
        BY <1>3, <2>1, <2>2, <2>4
      <3> QED
        BY <1>8, <3>1
    <2> QED
      BY <2>3, <2>4
  <1>14. \A i \in DOMAIN rows : rows[i].uid \in v.first => i <= d \/ rows[i].uid \in more
    BY <1>6, <1>12
  <1>15. \A i \in DOMAIN rows : rows[i].uid \in more => d < i
    BY <1>6, <1>11
  <1> QED
    BY <1>1, <1>2, <1>3, <1>10, <1>13, <1>14, <1>15

\* What the page of a walk is cut from.
LEMMA WalkReads ==
    ASSUME NEW w
    PROVE  /\ Ascends(w) => OrderBy(walk[w].asc, Where(walk[w].status)) = Oldest
           /\ Descends(w) => OrderBy(walk[w].asc, Where(walk[w].status)) = Latest
  BY Zenon DEF Ascends, Descends, OrderBy, Oldest, Latest

\* A walk whose page is answered with a failure ends with what it has seen.
LEMMA FailureKeeps ==
    ASSUME QInv, NEW w \in Walker, walk[w].phase = "fetching", UNCHANGED rows,
           walk' = [walk EXCEPT ![w].phase = "failed"]
    PROVE  QInv'
  <1> DEFINE old == walk[w]
             new == walk'[w]
  <1>1. rows \in Seq(RowSet) /\ walk \in [Walker -> Walk] /\ old \in Walk
    BY DEF QInv, TypeOK
  <1>2. /\ new = [old EXCEPT !.phase = "failed"]
        /\ walk' = [walk EXCEPT ![w] = new]
        /\ \A x \in Walker : x # w => walk'[x] = walk[x]
    BY <1>1
  <1>3. /\ new.offset = old.offset /\ new.seen = old.seen /\ new.status = old.status
        /\ new.asc = old.asc /\ new.first = old.first /\ new.phase = "failed"
    BY <1>1, <1>2 DEF Walk
  <1>4. TypeOK'
    <2>1. new \in Walk
      <3> HIDE DEF old, new
      <3> QED
        BY <1>1, <1>2 DEF Walk, Phase
    <2> HIDE DEF new
    <2> QED
      BY <1>1, <1>2, <2>1 DEF TypeOK
  <1>5. RowsDiffer'
    BY DEF QInv, RowsDiffer
  <1>6. \A x \in Walker : (Ascends(x)' <=> Ascends(x)) /\ (Descends(x)' <=> Descends(x))
    <2> SUFFICES ASSUME NEW x \in Walker
                 PROVE  walk'[x].status = walk[x].status /\ walk'[x].asc = walk[x].asc
      BY Zenon DEF Ascends, Descends
    <2> QED
      BY <1>2, <1>3
  <1>7. \A x \in Walker : /\ walk'[x].seen = walk[x].seen /\ walk'[x].first = walk[x].first
                          /\ walk'[x].phase \in {walk[x].phase, "failed"}
                          /\ walk'[x].offset = walk[x].offset
    BY <1>2, <1>3
  <1>8. AscendingInv'
    BY <1>6, <1>7 DEF QInv, AscendingInv
  <1>9. DescendingInv'
    <2> SUFFICES ASSUME NEW x \in Walker, Descends(x)'
                 PROVE  \E c \in Nat : Behind(walk'[x], rows, c)
      BY DEF DescendingInv
    <2>1. PICK c \in Nat : Behind(walk[x], rows, c)
      BY <1>6 DEF QInv, DescendingInv
    <2>2. Behind(walk'[x], rows, c)
      BY <1>7, <2>1 DEF Behind
    <2> QED
      BY <2>2
  <1> QED
    BY <1>4, <1>5, <1>8, <1>9 DEF QInv

\* A walk goes on: an ascending one with the next rows, a descending one with
\* older ones.
LEMMA ListingKeeps ==
    ASSUME QInv, NEW w \in Walker, walk[w].phase = "fetching", UNCHANGED rows,
           NEW whole, whole = Found(walk[w].status, <<walk[w].offset, Count>>, walk[w].asc),
           NEW page, Begins(page, whole),
           walk' = [walk EXCEPT
                      ![w].offset = @ + Count,
                      ![w].seen = @ \o UidsOf(page),
                      ![w].phase = IF Len(page) < Len(whole) THEN "cut"
                                   ELSE IF Len(whole) < Count THEN "done" ELSE @]
    PROVE  QInv'
  <1> DEFINE old == walk[w]
             more == old.seen \o UidsOf(page)
             new == walk'[w]
  <1>1. rows \in Seq(RowSet) /\ walk \in [Walker -> Walk] /\ old \in Walk
    BY DEF QInv, TypeOK
  <1>2. /\ old.offset \in Nat /\ old.seen \in Seq(Uid) /\ old.first \in SUBSET Uid
        /\ old.status \in StatusText /\ old.asc \in BOOLEAN /\ old.phase = "fetching"
    BY <1>1 DEF Walk
  <1>4. /\ new = [old EXCEPT !.offset = @ + Count,
                             !.seen = @ \o UidsOf(page),
                             !.phase = IF Len(page) < Len(whole) THEN "cut"
                                       ELSE IF Len(whole) < Count THEN "done" ELSE @]
        /\ walk' = [walk EXCEPT ![w] = new]
        /\ \A x \in Walker \ {w} : walk'[x] = walk[x]
    BY <1>1
  <1>5. /\ new.offset = old.offset + Count /\ new.seen = more /\ new.status = old.status
        /\ new.asc = old.asc /\ new.first = old.first
        /\ new.phase = IF Len(page) < Len(whole) THEN "cut"
                       ELSE IF Len(whole) < Count THEN "done" ELSE "fetching"
    BY <1>1, <1>2, <1>4 DEF Walk
  <1>6. page \in Seq(RowSet)
    BY DEF Begins
  <1>7. whole = Window(old.offset, Count, OrderBy(old.asc, Where(old.status)))
    BY <1>2, PageOfWalk
  <1>8. more \in Seq(Uid) /\ Range(more) = Range(old.seen) \cup Range(UidsOf(page))
    <2>1. UidsOf(page) \in Seq(Uid)
      BY <1>6, UidsAre
    <2> QED
      BY <1>2, <2>1, ConcatProperties, RangeConcatenation
  <1>9. TypeOK'
    <2>1. new \in Walk
      <3>1. old.offset + Count \in Nat
        BY <1>2, CountAssumption
      <3>2. /\ new = [phase |-> new.phase, status |-> old.status, asc |-> old.asc,
                      offset |-> old.offset + Count, seen |-> more, first |-> old.first]
            /\ new.phase \in Phase
        <4> HIDE DEF more
        <4> QED
          BY <1>1, <1>4, <1>5 DEF Walk, Phase
      <3> HIDE DEF more, new, old
      <3> QED
        BY <1>2, <1>8, <3>1, <3>2 DEF Walk
    <2> HIDE DEF new
    <2> QED
      BY <1>1, <1>4, <2>1 DEF TypeOK
  <1>10. RowsDiffer'
    BY DEF QInv, RowsDiffer
  <1>11. \A x \in Walker : (Ascends(x)' <=> Ascends(x)) /\ (Descends(x)' <=> Descends(x))
    <2> SUFFICES ASSUME NEW x \in Walker
                 PROVE  walk'[x].status = walk[x].status /\ walk'[x].asc = walk[x].asc
      BY Zenon DEF Ascends, Descends
    <2> QED
      BY <1>4, <1>5
  <1>12. ASSUME Ascends(w)
         PROVE  /\ Len(more) <= Len(rows)
                /\ \A k \in 1 .. Len(more) : more[k] = rows[k].uid
                /\ new.phase = "fetching" => new.offset = Len(more)
                /\ new.first \subseteq Range(UidsOf(rows))
                /\ new.phase = "done" => new.first \subseteq Range(more)
    <2>1. /\ Len(old.seen) <= Len(rows)
          /\ \A k \in 1 .. Len(old.seen) : old.seen[k] = rows[k].uid
          /\ old.offset = Len(old.seen)
          /\ old.first \subseteq Range(UidsOf(rows))
      BY <1>2, <1>12 DEF QInv, AscendingInv
    <2>2. whole = Window(Len(old.seen), Count, Oldest)
      BY <1>7, <1>12, <2>1, WalkReads
    <2>3. /\ Len(more) <= Len(rows)
          /\ \A k \in 1 .. Len(more) : more[k] = rows[k].uid
          /\ ~(Len(page) < Len(whole)) /\ Len(whole) < Count => Len(more) = Len(rows)
          /\ ~(Len(page) < Len(whole)) /\ ~(Len(whole) < Count) =>
                Len(more) = Len(old.seen) + Count
      <3> DEFINE seen == old.seen
      <3>1. /\ seen \in Seq(Uid) /\ Len(seen) <= Len(rows)
            /\ \A k \in 1 .. Len(seen) : seen[k] = rows[k].uid
            /\ whole = Window(Len(seen), Count, Oldest) /\ more = Longer(seen, page)
        BY <1>2, <2>1, <2>2 DEF Longer
      <3> HIDE DEF seen, more
      <3>2. /\ Len(more) <= Len(rows)
            /\ \A k \in 1 .. Len(more) : more[k] = rows[k].uid
            /\ ~(Len(page) < Len(whole)) /\ Len(whole) < Count => Len(more) = Len(rows)
            /\ ~(Len(page) < Len(whole)) /\ ~(Len(whole) < Count) =>
                  Len(more) = Len(seen) + Count
        BY <1>1, <3>1, AscendingPage
      <3> QED
        BY <3>2 DEF seen
    <2>4. Len(more) = Len(rows) => Range(UidsOf(rows)) \subseteq Range(more)
      <3>1. DOMAIN rows = 1 .. Len(rows) /\ DOMAIN more = 1 .. Len(more)
        BY <1>1, <1>8, LenProperties
      <3> HIDE DEF more
      <3> QED
        BY <2>3, <3>1 DEF Range, UidsOf
    <2> HIDE DEF more, new, old
    <2> QED
      BY <1>5, <2>1, <2>3, <2>4
  <1>13. AscendingInv'
    <2> SUFFICES ASSUME NEW x \in Walker, Ascends(x)'
                 PROVE  /\ Len(walk'[x].seen) <= Len(rows)
                        /\ \A k \in 1 .. Len(walk'[x].seen) : walk'[x].seen[k] = rows[k].uid
                        /\ walk'[x].phase = "fetching" => walk'[x].offset = Len(walk'[x].seen)
                        /\ walk'[x].first \subseteq Range(UidsOf(rows))
                        /\ walk'[x].phase = "done" => walk'[x].first \subseteq Range(walk'[x].seen)
      BY DEF AscendingInv
    <2>1. CASE x = w
      <3>1. Ascends(w)
        BY <1>11, <2>1
      <3> QED
        BY <1>5, <1>12, <2>1, <3>1
    <2>2. CASE x # w
      <3>1. walk'[x] = walk[x] /\ Ascends(x)
        BY <1>4, <1>11, <2>2
      <3> QED
        BY <3>1 DEF QInv, AscendingInv
    <2> QED
      BY <2>1, <2>2
  <1>14. ASSUME Descends(w) PROVE \E d \in Nat : Behind(new, rows, d)
    <2>1. PICK c \in Nat : Behind(old, rows, c)
      BY <1>14 DEF QInv, DescendingInv
    <2>2. whole = Window(old.offset, Count, Latest)
      BY <1>7, <1>14, WalkReads
    <2>3. PICK d \in Nat :
             /\ Range(more) \subseteq Range(UidsOf(rows))
             /\ \A i \in DOMAIN rows : rows[i].uid \in Range(more) => d < i
             /\ \A i \in DOMAIN rows :
                   rows[i].uid \in old.first => i <= d \/ rows[i].uid \in Range(more)
             /\ ~(Len(page) < Len(whole)) =>
                   IF Len(whole) < Count THEN d = 0
                   ELSE d = 0 \/ d + (old.offset + Count) <= Len(rows)
      <3> DEFINE all == Range(more)
      <3>1. all = Range(old.seen) \cup Range(UidsOf(page)) /\ RowsDiffer
        BY <1>8 DEF QInv
      <3> HIDE DEF old, more, all
      <3>2. \E d \in Nat :
               /\ all \subseteq Range(UidsOf(rows))
               /\ \A i \in DOMAIN rows : rows[i].uid \in all => d < i
               /\ \A i \in DOMAIN rows : rows[i].uid \in old.first => i <= d \/ rows[i].uid \in all
               /\ ~(Len(page) < Len(whole)) =>
                     IF Len(whole) < Count THEN d = 0
                     ELSE d = 0 \/ d + (old.offset + Count) <= Len(rows)
        BY <1>1, <1>2, <2>1, <2>2, <3>1, DescendingPage, ZenonT(60)
      <3> QED
        BY <3>2 DEF all
    <2>4. old.first \subseteq Range(UidsOf(rows))
      BY <2>1 DEF Behind
    <2>5. /\ new.phase = "fetching" => d = 0 \/ d + new.offset <= Len(rows)
          /\ new.phase = "done" => d = 0
      <3> HIDE DEF new, old, more
      <3> QED
        BY <1>5, <2>3
    <2> HIDE DEF new, old, more
    <2> QED
      BY <1>5, <2>3, <2>4, <2>5 DEF Behind
  <1>15. DescendingInv'
    <2> SUFFICES ASSUME NEW x \in Walker, Descends(x)'
                 PROVE  \E c \in Nat : Behind(walk'[x], rows, c)
      BY DEF DescendingInv
    <2>1. CASE x = w
      <3>1. Descends(w)
        BY <1>11, <2>1
      <3> QED
        BY <1>14, <2>1, <3>1
    <2>2. CASE x # w
      <3>1. walk'[x] = walk[x] /\ Descends(x)
        BY <1>4, <1>11, <2>2
      <3> QED
        BY <3>1 DEF QInv, DescendingInv
    <2> QED
      BY <2>1, <2>2
  <1> QED
    BY <1>9, <1>10, <1>13, <1>15 DEF QInv

\* A page, whatever answers the request for it.
LEMMA NextPageKeeps ==
    ASSUME QInv, NEW w \in Walker, NextPage(w) PROVE QInv'
  <1> DEFINE old == walk[w]
             limit == <<old.offset, Count>>
             whole == Found(old.status, limit, old.asc)
  <1>1. old.phase = "fetching" /\ UNCHANGED rows
    BY DEF NextPage
  <1>2. rows \in Seq(RowSet) /\ old.offset \in Nat /\ old.asc \in BOOLEAN
    BY DEF QInv, TypeOK, Walk
  <1>3. PICK answer \in Answers("", old.status, limit, TextOf(old.asc)) :
           \/ /\ answer.op = "fail"
              /\ walk' = [walk EXCEPT ![w].phase = "failed"]
           \/ /\ answer.op = "listing"
              /\ walk' = [walk EXCEPT
                     ![w].offset = @ + Count,
                     ![w].seen = @ \o UidsOf(answer.list),
                     ![w].phase = IF Len(answer.list) < Len(whole) THEN "cut"
                                  ELSE IF Len(whole) < Count THEN "done" ELSE @]
    BY DEF NextPage
  <1>4. answer.op = "fail" \/ (answer.op = "listing" /\ Begins(answer.list, whole))
    <2>1. Asks(TextOf(old.asc), old.asc)
      BY <1>2, TextAsks
    <2>2. answer \in Listings(old.status, limit, TextOf(old.asc))
      BY <1>3 DEF Listings
    <2>3. \A status, asc, offset, text, other :
             /\ offset \in Nat /\ Asks(text, asc)
             /\ other \in Listings(status, <<offset, Count>>, text)
             => \/ other.op = "fail"
                \/ /\ other.op = "listing"
                   /\ Begins(other.list, Found(status, <<offset, Count>>, asc))
      BY <1>2, WalkIsAnswered
    <2> QED
      BY <1>2, <2>1, <2>2, <2>3, Zenon
  <1>5. CASE answer.op = "fail"
    <2>1. walk' = [walk EXCEPT ![w].phase = "failed"]
      BY <1>3, <1>5
    <2> QED
      BY <1>1, <2>1, FailureKeeps
  <1>6. CASE answer.op = "listing"
    <2>1. Begins(answer.list, whole)
      BY <1>4, <1>6
    <2>2. walk' = [walk EXCEPT
                     ![w].offset = @ + Count,
                     ![w].seen = @ \o UidsOf(answer.list),
                     ![w].phase = IF Len(answer.list) < Len(whole) THEN "cut"
                                  ELSE IF Len(whole) < Count THEN "done" ELSE @]
      BY <1>3, <1>6
    <2> QED
      BY <1>1, <2>1, <2>2, ListingKeeps
  <1> QED
    BY <1>3, <1>5, <1>6

\* Whatever happens to the table or to a walk.
LEMMA StepKeeps == QInv /\ [Next]_vars => QInv'
  <1> SUFFICES ASSUME QInv, [Next]_vars PROVE QInv'
    OBVIOUS
  <1>1. CASE UNCHANGED vars
    <2>1. UNCHANGED <<rows, walk>>
      BY <1>1 DEF vars
    <2>2. TypeOK' /\ RowsDiffer'
      BY <2>1 DEF QInv, TypeOK, RowsDiffer
    <2>3. \A w : (Ascends(w)' <=> Ascends(w)) /\ (Descends(w)' <=> Descends(w))
      BY <2>1, Zenon DEF Ascends, Descends
    <2>4. AscendingInv'
      BY <2>1, <2>3 DEF QInv, AscendingInv
    <2>5. DescendingInv'
      BY <2>1, <2>3 DEF QInv, DescendingInv
    <2> QED
      BY <2>2, <2>4, <2>5 DEF QInv
  <1>2. CASE \E u \in Uid : Insert(u)
    BY <1>2, InsertKeeps
  <1>3. CASE \E i \in DOMAIN rows, s \in Status : Update(i, s)
    BY <1>3, UpdateKeeps
  <1>4. CASE \E w \in Walker, status \in StatusText, asc \in BOOLEAN : Begin(w, status, asc)
    BY <1>4, BeginKeeps
  <1>5. CASE \E w \in Walker : NextPage(w)
    BY <1>5, NextPageKeeps
  <1> QED
    BY <1>1, <1>2, <1>3, <1>4, <1>5 DEF Next

\* The table and the walks keep to the inductive invariant.
THEOREM InvariantHolds == Spec => []QInv
  BY InitEstablishes, StepKeeps, PTL DEF Spec

\* Rows and listings hold what their columns can hold (experiment.go:200-246).
THEOREM TypeCorrect == Spec => []TypeOK
  <1>1. QInv => TypeOK
    BY DEF QInv
  <1> QED
    BY <1>1, InvariantHolds, PTL

\* A walk in ascending order shows the oldest experiments, in their order; once
\* it is done and none of its pages broke off, every one that was there when it
\* began (experiment.go:219-252).
THEOREM AscendingIsExact == Spec => []AscendingWalkIsExact
  <1>1. QInv => AscendingWalkIsExact
    <2> SUFFICES ASSUME QInv, NEW w \in Walker, Ascends(w)
                 PROVE  /\ Len(walk[w].seen) <= Len(rows)
                        /\ \A k \in 1 .. Len(walk[w].seen) : walk[w].seen[k] = rows[k].uid
                        /\ walk[w].phase = "done" => walk[w].first \subseteq Range(walk[w].seen)
      BY Zenon DEF AscendingWalkIsExact, Ascends
    <2> QED
      BY DEF QInv, AscendingInv
  <1> QED
    BY <1>1, InvariantHolds, PTL

\* A walk in descending order leaves out only what is older than all it has
\* shown; once it is done and none of its pages broke off, nothing that was
\* there when it began (experiment.go:219-252).
THEOREM DescendingMissesNothing == Spec => []DescendingWalkMissesNothing
  <1>1. QInv => DescendingWalkMissesNothing
    <2> SUFFICES ASSUME QInv, NEW w \in Walker, Descends(w)
                 PROVE  /\ \A i, j \in DOMAIN rows :
                              /\ rows[i].uid \in walk[w].first \ Range(walk[w].seen)
                              /\ rows[j].uid \in Range(walk[w].seen)
                              => i < j
                        /\ walk[w].phase = "done" => walk[w].first \subseteq Range(walk[w].seen)
      BY Zenon DEF DescendingWalkMissesNothing, Descends
    <2>1. PICK c \in Nat : Behind(walk[w], rows, c)
      BY DEF QInv, DescendingInv
    <2>2. DOMAIN rows = 1 .. Len(rows) /\ Len(rows) \in Nat
      BY LenProperties DEF QInv, TypeOK
    <2>3. ASSUME NEW i \in DOMAIN rows, NEW j \in DOMAIN rows,
                 rows[i].uid \in walk[w].first \ Range(walk[w].seen),
                 rows[j].uid \in Range(walk[w].seen)
          PROVE  i < j
      <3>1. i <= c /\ c < j
        BY <2>1, <2>3 DEF Behind
      <3> QED
        BY <2>2, <3>1
    <2>4. ASSUME walk[w].phase = "done", NEW u \in walk[w].first
          PROVE  u \in Range(walk[w].seen)
      <3>1. u \in Range(UidsOf(rows)) /\ c = 0
        BY <2>1, <2>4 DEF Behind
      <3>2. PICK i \in DOMAIN rows : rows[i].uid = u
        BY <3>1 DEF Range, UidsOf
      <3>3. i <= 0 \/ u \in Range(walk[w].seen)
        BY <2>1, <2>4, <3>1, <3>2 DEF Behind
      <3> QED
        BY <2>2, <3>3
    <2> QED
      BY <2>3, <2>4
  <1> QED
    BY <1>1, InvariantHolds, PTL

-----------------------------------------------------------------------------
(* The limit's text *)

\* What a limit asks for: the offset and the count, numbers or not.
LEMMA LimitReads ==
    ASSUME NEW status, NEW asc, NEW limit \in Limits
    PROVE  /\ Found(status, ReadLimit(limit), asc) =
                IF NaN \in {OffsetOf(limit), CountOf(limit)} THEN <<>>
                ELSE Limit(OffsetOf(limit), CountOf(limit), OrderBy(asc, Where(status)))
           /\ OffsetOf(limit) \in Int \cup {NaN} /\ CountOf(limit) \in Int \cup {NaN}
  <1> DEFINE part == {-1, 0, 1, 2, NaN}
             read == IF limit = <<>> THEN <<10>> ELSE limit
             list == OrderBy(asc, Where(status))
             o == IF Len(limit) = 2 THEN limit[1] ELSE 0
             c == IF limit = <<>> THEN 10 ELSE limit[Len(limit)]
  <1>2. \A x \in part : x \in Int \cup {NaN}
    OBVIOUS
  <1>3. limit \in {<<>>} \cup {<<x>> : x \in part} \cup part \X part
    BY DEF Limits
  <1>4. /\ read # <<>>
        /\ (IF Len(read) > 1 THEN read[1] ELSE 0) = o
        /\ (IF Len(read) > 1 THEN read[2] ELSE read[1]) = c
        /\ o \in Int \cup {NaN} /\ c \in Int \cup {NaN}
    <2> HIDE DEF part
    <2>1. CASE limit = <<>>
      <3>1. o = 0 /\ c = 10 /\ read = <<10>>
        BY <2>1
      <3> QED
        BY <3>1
    <2>2. CASE \E x \in part : limit = <<x>>
      <3>1. PICK x \in part : limit = <<x>>
        BY <2>2
      <3>2. Len(limit) = 1 /\ limit # <<>> /\ limit[1] = x
        BY <3>1
      <3>3. o = 0 /\ c = x /\ read = limit
        BY <3>2
      <3>4. x \in Int \cup {NaN} /\ 0 \in Int
        BY <1>2
      <3> HIDE DEF read
      <3>5. Len(read) = 1 /\ read # <<>> /\ read[1] = x
        BY <3>2, <3>3
      <3>6. ~(Len(read) > 1)
        BY <3>5
      <3> QED
        BY <3>3, <3>4, <3>5, <3>6
    <2>3. CASE limit \in part \X part
      <3>1. PICK x \in part, y \in part : limit = <<x, y>>
        BY <2>3
      <3>2. Len(limit) = 2 /\ limit # <<>> /\ limit[1] = x /\ limit[2] = y
        BY <3>1
      <3>3. o = x /\ c = y /\ read = limit
        BY <3>2
      <3> QED
        BY <1>2, <3>2, <3>3
    <2>4. limit = <<>> \/ (\E x \in part : limit = <<x>>) \/ limit \in part \X part
      BY <1>3
    <2> QED
      BY <2>1, <2>2, <2>3, <2>4, Zenon
  <1> HIDE DEF read, part
  <1>6. o = OffsetOf(limit) /\ c = CountOf(limit) /\ read = ReadLimit(limit)
    BY DEF read, OffsetOf, CountOf, ReadLimit
  <1> HIDE DEF o, c
  <1>5. Found(status, read, asc) =
          IF NaN \in {o, c} THEN <<>> ELSE Limit(o, c, OrderBy(asc, Where(status)))
    BY <1>4 DEF Found
  <1> QED
    BY <1>4, <1>5, <1>6

\* The first m entries of a window are a window of m.
LEMMA PrefixOfWindow ==
    ASSUME NEW S, NEW list \in Seq(S), NEW from \in Nat, NEW count \in Int,
           NEW page, page = Window(from, count, list), NEW m \in 0 .. Len(page)
    PROVE  SubSeq(page, 1, m) = Window(from, m, list)
  <1> DEFINE first == SubSeq(page, 1, m)
             short == Window(from, m, list)
  <1>1. /\ page \in Seq(S)
        /\ \A k \in 1 .. Len(page) : from + k \in 1 .. Len(list) /\ page[k] = list[from + k]
    BY WindowIs
  <1>2. m \in Int /\ m \in Nat /\ Len(page) \in Nat /\ Len(list) \in Nat
    <2>1. Len(page) \in Nat /\ Len(list) \in Nat
      BY <1>1, LenProperties
    <2> QED
      BY <2>1
  <1>3. first \in Seq(S) /\ Len(first) = m /\ \A k \in 1 .. m : first[k] = page[k]
    BY <1>1, PrefixIs
  <1>4. /\ short \in Seq(S)
        /\ \A k \in 1 .. Len(short) : short[k] = list[from + k] /\ (m < 0 \/ k <= m)
        /\ \A k \in Nat \ {0} : from + k <= Len(list) /\ (m < 0 \/ k <= m) => k \in 1 .. Len(short)
    BY <1>2, WindowIs
  <1>5. Len(short) \in Nat
    BY <1>4, LenProperties
  <1> HIDE DEF first, short
  <1>6. Len(short) = m
    <2>1. Len(short) <= m
      <3>1. CASE Len(short) # 0
        <4>1. Len(short) \in 1 .. Len(short)
          BY <1>5, <3>1
        <4>2. m < 0 \/ Len(short) <= m
          BY <1>4, <4>1
        <4> QED
          BY <1>2, <4>2
      <3> QED
        BY <1>2, <3>1
    <2>2. m <= Len(short)
      <3>1. CASE m # 0
        <4>1. m \in 1 .. Len(page) /\ m \in Nat \ {0}
          BY <1>2, <3>1
        <4>2. from + m <= Len(list)
          BY <1>1, <1>2, <4>1
        <4>3. m \in 1 .. Len(short)
          BY <1>2, <1>4, <4>1, <4>2
        <4> QED
          BY <1>5, <4>3
      <3> QED
        BY <1>5, <3>1
    <2> QED
      BY <1>2, <1>5, <2>1, <2>2
  <1>7. \A k \in 1 .. m : first[k] = short[k]
    <2>1. \A k \in 1 .. m : k \in 1 .. Len(page)
      BY <1>2
    <2> QED
      BY <1>1, <1>3, <1>4, <1>6, <2>1
  <1> QED
    BY <1>3, <1>4, <1>6, <1>7, SeqEqual DEF first, short

\* A window that has a number for its offset and its count.
LEMMA RankedIs ==
    ASSUME rows \in Seq(RowSet), NEW status, NEW asc \in BOOLEAN,
           NEW o \in Int, NEW c \in Int
    PROVE  Ranked(status, asc, o, c) = Range(UidsOf(Limit(o, c, OrderBy(asc, Where(status)))))
  <1> DEFINE page == Limit(o, c, OrderBy(asc, Where(status)))
  <1>1. page = Limit(o, c, OrderBy(asc, Where(status)))
    OBVIOUS
  <1> HIDE DEF page
  <1>2. Range(UidsOf(page)) = {rows[i].uid : i \in {i \in DOMAIN rows :
           /\ Matches(status, rows[i])
           /\ Rank(i, status, asc) >= o
           /\ c < 0 \/ Rank(i, status, asc) < (IF o < 0 THEN 0 ELSE o) + c}}
    BY <1>1, PageShowsRanks
  <1>3. NaN \notin {o, c}
    BY NaNAssumption
  <1> QED
    BY <1>1, <1>2, <1>3 DEF Ranked, Matches

\* The list of the first m entries of what the statement finds shows the first
\* m ranks of the window, if it has all of them the whole window.
Meets(list, m, whole, status, asc, limit) ==
    /\ Len(list) = m
    /\ Range(UidsOf(list)) = Ranked(status, asc, OffsetOf(limit), m)
    /\ m = Len(whole) =>
          Range(UidsOf(list)) = Ranked(status, asc, OffsetOf(limit), CountOf(limit))

\* It does.
LEMMA ListingMeets ==
    ASSUME rows \in Seq(RowSet), NEW status, NEW asc \in BOOLEAN, NEW limit \in Limits,
           NEW whole, IsFound(whole, status, limit, asc),
           NEW m \in 0 .. Len(whole), NEW list, list = SubSeq(whole, 1, m)
    PROVE  Meets(list, m, whole, status, asc, limit)
  <1> DEFINE found == OrderBy(asc, Where(status))
             o == OffsetOf(limit)
             c == CountOf(limit)
  <1>1. /\ whole = IF NaN \in {o, c} THEN <<>> ELSE Limit(o, c, found)
        /\ o \in Int \cup {NaN} /\ c \in Int \cup {NaN}
    BY LimitReads DEF IsFound
  <1>2. found \in Seq(RowSet)
    BY OrderShowsRanks
  <1>5. ASSUME /\ Len(list) = m
               /\ Range(UidsOf(list)) = Ranked(status, asc, o, m)
               /\ m = Len(whole) => Range(UidsOf(list)) = Ranked(status, asc, o, c)
        PROVE  Meets(list, m, whole, status, asc, limit)
    BY <1>5 DEF Meets
  <1> HIDE DEF found, o, c
  <1>3. CASE NaN \in {o, c}
    <2>1. whole = <<>> /\ <<>> \in Seq(RowSet) /\ Len(<<>>) = 0
      BY <1>1, <1>3, EmptySeq
    <2>2. m = 0
      BY <2>1
    <2>3. list = <<>>
      BY <2>1, <2>2, SubSeqEmpty
    <2>4. Range(UidsOf(<<>>)) = {}
      BY DEF Range, UidsOf
    <2>5. Ranked(status, asc, o, c) = {}
      BY <1>3 DEF Ranked
    <2>6. Ranked(status, asc, o, 0) = {}
      <3>1. CASE o = NaN
        BY <3>1 DEF Ranked
      <3>2. CASE o \in Int
        <4>1. 0 \in Int
          OBVIOUS
        <4>2. Limit(o, 0, found) = <<>>
          <5> DEFINE from == IF o < 0 THEN 0 ELSE o
                     page == Window(from, 0, found)
          <5>1. from \in Nat
            BY <3>2
          <5> HIDE DEF from
          <5>2. page \in Seq(RowSet) /\ \A k \in 1 .. Len(page) : 0 < 0 \/ k <= 0
            BY <1>2, <4>1, <5>1, WindowIs
          <5>3. Len(page) \in Nat
            BY <5>2, LenProperties
          <5> HIDE DEF page
          <5>4. Len(page) = 0
            <6> SUFFICES ASSUME Len(page) # 0 PROVE FALSE
              OBVIOUS
            <6>1. 1 \in 1 .. Len(page)
              BY <5>3
            <6> QED
              BY <5>2, <6>1
          <5>5. page = <<>>
            BY <5>2, <5>4, EmptySeq
          <5> QED
            BY <5>5 DEF Limit, page, from
        <4> QED
          BY <2>4, <3>2, <4>1, <4>2, RankedIs DEF found
      <3> QED
        BY <1>1, <3>1, <3>2
    <2> QED
      BY <1>5, <2>1, <2>2, <2>3, <2>4, <2>5, <2>6
  <1>4. CASE NaN \notin {o, c}
    <2>1. o \in Int /\ c \in Int /\ whole = Limit(o, c, found)
      BY <1>1, <1>4
    <2> DEFINE from == IF o < 0 THEN 0 ELSE o
    <2>2. from \in Nat /\ whole = Window(from, c, found)
      BY <2>1 DEF Limit
    <2>3. Limit(o, m, found) = Window(from, m, found)
      BY DEF Limit
    <2> HIDE DEF from
    <2>4. whole \in Seq(RowSet)
      BY <1>2, <2>1, <2>2, WindowIs
    <2>5. Len(list) = m
      BY <2>4, PrefixIs
    <2>6. list = Limit(o, m, found)
      BY <1>2, <2>1, <2>2, <2>3, PrefixOfWindow
    <2>7. m \in Int
      BY <2>4, LenProperties
    <2>8. Range(UidsOf(list)) = Ranked(status, asc, o, m)
      <3>1. Ranked(status, asc, o, m) = Range(UidsOf(Limit(o, m, found)))
        BY <2>1, <2>7, RankedIs DEF found
      <3> QED
        BY <2>6, <3>1
    <2>9. ASSUME m = Len(whole) PROVE Range(UidsOf(list)) = Ranked(status, asc, o, c)
      <3>1. list = whole
        BY <2>4, <2>9, SubSeqFull
      <3>2. Ranked(status, asc, o, c) = Range(UidsOf(Limit(o, c, found)))
        BY <2>1, RankedIs DEF found
      <3> QED
        BY <2>1, <3>1, <3>2
    <2> QED
      BY <1>5, <2>5, <2>8, <2>9
  <1> QED
    BY <1>3, <1>4

\* What the statement finds is a sequence of rows.
LEMMA FoundIsTyped ==
    ASSUME rows \in Seq(RowSet), NEW status, NEW asc \in BOOLEAN, NEW limit \in Limits
    PROVE  Found(status, ReadLimit(limit), asc) \in Seq(RowSet)
  <1> DEFINE o == OffsetOf(limit)
             c == CountOf(limit)
             found == OrderBy(asc, Where(status))
             whole == Found(status, ReadLimit(limit), asc)
  <1>1. found \in Seq(RowSet) /\ <<>> \in Seq(RowSet)
    BY OrderShowsRanks, EmptySeq
  <1>3. /\ whole = IF NaN \in {o, c} THEN <<>> ELSE Limit(o, c, found)
        /\ o \in Int \cup {NaN} /\ c \in Int \cup {NaN}
    BY LimitReads
  <1> HIDE DEF o, c
  <1> HIDE DEF found, whole
  <1>4. ASSUME NaN \notin {o, c} PROVE Limit(o, c, found) \in Seq(RowSet)
    <2> DEFINE from == IF o < 0 THEN 0 ELSE o
    <2>1. o \in Int /\ c \in Int /\ from \in Nat /\ Limit(o, c, found) = Window(from, c, found)
      BY <1>3, <1>4 DEF Limit
    <2> HIDE DEF from
    <2>2. Window(from, c, found) \in Seq(RowSet)
      BY <1>1, <2>1, WindowIs
    <2> QED
      BY <2>1, <2>2
  <1>5. whole \in Seq(RowSet)
    BY <1>1, <1>3, <1>4
  <1> QED
    BY <1>5 DEF whole

\* The answers to a request with an uid.
LEMMA LookupAnswers ==
    ASSUME rows \in Seq(RowSet), NEW u \in Uid, NEW status, NEW limit, NEW text,
           NEW answer \in Answers(u, status, limit, text)
    PROVE  \/ answer.op = "fail"
           \/ answer.op = "row" /\ answer.row \in Range(rows) /\ answer.row.uid = u
  <1> DEFINE command == [op |-> "status", uid |-> u, status |-> status, asc |-> text,
                         limit |-> ReadLimit(limit)]
             Shown(row) == [op |-> "row", row |-> row]
             Failed(code) == Fail(code)
  <1>1. Answers(u, status, limit, text) = SearchExperiments(command)
    BY StatusIsHandled DEF Answers, ReadLimit
  <1>2. command.uid = u /\ u # ""
    BY UidAssumption
  <1> HIDE DEF command
  <1>3. SearchExperiments(command) =
          {Failed("GetStatusExecuteWrong")} \cup
          ({Failed("HandlerNotFound")} \cup {Shown(row) : row \in QueryExperimentModelByUid(u)})
    BY <1>2 DEF SearchExperiments
  <1>4. \A code : Failed(code).op = "fail"
    BY DEF Fail
  <1>5. \A row : Shown(row).op = "row" /\ Shown(row).row = row
    OBVIOUS
  <1> HIDE DEF Shown, Failed
  <1>6. \A row \in QueryExperimentModelByUid(u) : row \in Range(rows) /\ row.uid = u
    BY DEF QueryExperimentModelByUid, Range
  <1>7. \/ answer = Failed("GetStatusExecuteWrong") \/ answer = Failed("HandlerNotFound")
        \/ \E row \in QueryExperimentModelByUid(u) : answer = Shown(row)
    BY <1>1, <1>3, Zenon
  <1> QED
    BY <1>4, <1>5, <1>6, <1>7

\* The answers show the ranks that the request is about; a lookup its row.
AreRight(status, limit, asc, text) ==
    /\ \A answer \in Listings(status, limit, text) :
          answer.op = "listing" =>
             Range(UidsOf(answer.list)) =
                Ranked(status, asc, OffsetOf(limit), Len(answer.list))
    /\ \E answer \in Listings(status, limit, text) :
          answer.op = "listing" /\
             Range(UidsOf(answer.list)) =
                Ranked(status, asc, OffsetOf(limit), CountOf(limit))
    /\ \A u \in Uid : \A answer \in Answers(u, status, limit, text) :
          \/ answer.op = "fail"
          \/ answer.op = "row" /\ answer.row \in Range(rows) /\ answer.row.uid = u

\* They do in the order the request's text asks for.
LEMMA AnswersMeet ==
    ASSUME rows \in Seq(RowSet), NEW status, NEW limit \in Limits, NEW asc,
           NEW text, Asks(text, asc)
    PROVE  AreRight(status, limit, asc, text)
  <1> DEFINE whole == Found(status, ReadLimit(limit), asc)
  <1>3. IsFound(whole, status, limit, asc)
    BY DEF IsFound
  <1>1. whole \in Seq(RowSet)
    <2>1. asc \in BOOLEAN
      BY DEF Asks
    <2> QED
      BY <2>1, FoundIsTyped
  <1> HIDE DEF whole
  <1>2. asc \in BOOLEAN
    BY DEF Asks
  <1>4. /\ AreFirsts(Listings(status, limit, text), whole)
        /\ HoldFirsts(Listings(status, limit, text), whole)
    BY <1>3, ListingAnswers
  <1>5. Len(whole) \in 0 .. Len(whole)
    BY <1>1, LenProperties
  <1>6. ASSUME NEW answer \in Listings(status, limit, text), answer.op = "listing"
        PROVE  Range(UidsOf(answer.list)) = Ranked(status, asc, OffsetOf(limit), Len(answer.list))
    <2>1. PICK m \in 0 .. Len(whole) : answer.list = SubSeq(whole, 1, m)
      BY <1>4, <1>6 DEF AreFirsts
    <2>2. Meets(answer.list, m, whole, status, asc, limit)
      BY <1>2, <1>3, <2>1, ListingMeets
    <2> QED
      BY <2>2 DEF Meets
  <1>7. \E answer \in Listings(status, limit, text) :
           /\ answer.op = "listing"
           /\ Range(UidsOf(answer.list)) = Ranked(status, asc, OffsetOf(limit), CountOf(limit))
    <2>1. PICK answer \in Listings(status, limit, text) :
             answer.op = "listing" /\ answer.list = SubSeq(whole, 1, Len(whole))
      BY <1>4, <1>5 DEF HoldFirsts
    <2>2. Meets(answer.list, Len(whole), whole, status, asc, limit)
      BY <1>2, <1>3, <1>5, <2>1, ListingMeets
    <2> QED
      BY <2>1, <2>2 DEF Meets
  <1>8. \A u \in Uid : \A answer \in Answers(u, status, limit, text) :
           \/ answer.op = "fail"
           \/ answer.op = "row" /\ answer.row \in Range(rows) /\ answer.row.uid = u
    <2> SUFFICES ASSUME NEW u \in Uid, NEW answer \in Answers(u, status, limit, text)
                 PROVE  \/ answer.op = "fail"
                        \/ answer.op = "row" /\ answer.row \in Range(rows) /\ answer.row.uid = u
      OBVIOUS
    <2> QED
      BY LookupAnswers
  <1> QED
    BY <1>6, <1>7, <1>8 DEF AreRight

\* A listing shows the ranks of its window in the asked order, as many as it has
\* entries, whatever the limit's text; a lookup its experiment
\* (experiment.go:179-272, status.go:43-72).
THEOREM QueryIsRight == Spec => []QueryMeetsReference
  <1>1. QInv => QueryMeetsReference
    <2> SUFFICES ASSUME rows \in Seq(RowSet), NEW status \in StatusText,
                        NEW limit \in Limits, NEW asc \in BOOLEAN,
                        NEW text \in IF asc THEN {"", "true"} ELSE {"false"}
                 PROVE  LET o == IF Len(limit) = 2 THEN limit[1] ELSE 0
                            c == IF limit = <<>> THEN 10 ELSE limit[Len(limit)]
                            answers == Answers("", status, limit, text)
                        IN  /\ \A answer \in answers : answer.op = "listing" =>
                                  Range(UidsOf(answer.list)) =
                                      Ranked(status, asc, o, Len(answer.list))
                            /\ \E answer \in answers : answer.op = "listing" /\
                                  Range(UidsOf(answer.list)) = Ranked(status, asc, o, c)
                            /\ \A u \in Uid : \A answer \in Answers(u, status, limit, text) :
                                  \/ answer.op = "fail"
                                  \/ /\ answer.op = "row" /\ answer.row \in Range(rows)
                                     /\ answer.row.uid = u
      BY Zenon DEF QInv, TypeOK, QueryMeetsReference
    <2>1. Asks(text, asc)
      BY Zenon DEF Asks
    <2>2. AreRight(status, limit, asc, text)
      BY <2>1, AnswersMeet, Zenon
    <2> QED
      BY <2>2, Zenon DEF AreRight, OffsetOf, CountOf, Listings
  <1> QED
    BY <1>1, InvariantHolds, PTL

-----------------------------------------------------------------------------
(* What a request asks for *)

\* A request that is taken for a destroy.
Destroys(cmd, type) ==
    \/ \E i \in DOMAIN cmd : cmd[i] \in Destroying
    \/ cmd # <<>> /\ type = <<"destroy">>

\* A destroy is one of the command's second word.
LEMMA DestroyIsHandled ==
    ASSUME NEW r, NEW cmd, r.cmd = cmd, cmd # <<>>, FirstCmd(r) = "destroy"
    PROVE  /\ Len(cmd) < 2 => Handle(r) = Panic
           /\ ~(Len(cmd) < 2) => Handle(r) = [op |-> "destroy", uid |-> cmd[2]]
  <1>1. ASSUME Len(cmd) < 2 PROVE Handle(r) = Panic
    BY <1>1 DEF Handle
  <1>2. ASSUME ~(Len(cmd) < 2) PROVE Handle(r) = [op |-> "destroy", uid |-> cmd[2]]
    BY <1>2 DEF Handle
  <1> QED
    BY <1>1, <1>2

\* Any other command goes by its type.
LEMMA TypeIsHandled ==
    ASSUME NEW r, NEW cmd, r.cmd = cmd, cmd # <<>>, ~MentionsDestroy(cmd)
    PROVE  /\ r.cmd2 = <<>> => Handle(r) = Fail("ParameterEmpty")
           /\ r.cmd2 = <<"cpu">> => Handle(r) = Fail("ParameterTypeError")
           /\ r.cmd2 = <<"mem">> => Handle(r) = Panic
           /\ r.cmd2 = <<"cpu", "fullload">> =>
                 Handle(r) = CpuResolver("fullload", Atoi(r.cpuCount), Atoi(r.cpuPercent),
                                         Atoi(r.timeOut))
           /\ r.cmd2 = <<"mem", "load">> =>
                 Handle(r) = MemResolver("load", Atoi(r.memPercent), Atoi(r.timeout))
           /\ r.cmd2 = <<"mem", "fullload">> =>
                 Handle(r) = MemResolver("fullload", Atoi(r.memPercent), Atoi(r.timeout))
           /\ r.cmd2 = <<"script", "execute">> =>
                 Handle(r) = Script("execute", r.downloadUrl, r.timeout)
           /\ r.cmd2 = <<"script", "Exit">> =>
                 Handle(r) = Script("Exit", r.downloadUrl, r.timeout)
           /\ r.cmd2 = <<"status">> => Handle(r) = StatusCommand(r)
           /\ r.cmd2 = <<"IO">> => Handle(r) = Fail("ChaosbladeTypeError")
           /\ r.cmd2 = <<"destroy">> => FirstCmd(r) = "destroy"
  <1>1. FirstCmd(r) = IF r.cmd2 = <<>> THEN "" ELSE r.cmd2[1]
    BY DEF FirstCmd
  <1>2. ASSUME r.cmd2 = <<>> PROVE Handle(r) = Fail("ParameterEmpty")
    BY <1>1, <1>2 DEF Handle
  <1>3. ASSUME NEW first, r.cmd2 = <<first>>
        PROVE  FirstCmd(r) = first /\ Len(r.cmd2) < 2
    BY <1>1, <1>3
  <1>4. ASSUME NEW first, NEW sub, r.cmd2 = <<first, sub>>
        PROVE  FirstCmd(r) = first /\ ~(Len(r.cmd2) < 2) /\ SubCmd(r) = sub
    <2>1. r.cmd2 # <<>> /\ r.cmd2[1] = first /\ r.cmd2[2] = sub /\ Len(r.cmd2) = 2
      BY <1>4
    <2> QED
      BY <1>1, <2>1 DEF SubCmd
  <1>5. ASSUME r.cmd2 = <<"cpu">> PROVE Handle(r) = Fail("ParameterTypeError")
    <2>1. FirstCmd(r) = "cpu" /\ Len(r.cmd2) < 2
      BY <1>3, <1>5
    <2> QED
      BY <2>1 DEF Handle
  <1>6. ASSUME r.cmd2 = <<"mem">> PROVE Handle(r) = Panic
    <2>1. FirstCmd(r) = "mem" /\ Len(r.cmd2) < 2
      BY <1>3, <1>6
    <2> QED
      BY <2>1 DEF Handle
  <1>7. ASSUME r.cmd2 = <<"cpu", "fullload">>
        PROVE  Handle(r) = CpuResolver("fullload", Atoi(r.cpuCount), Atoi(r.cpuPercent),
                                       Atoi(r.timeOut))
    <2>1. FirstCmd(r) = "cpu" /\ ~(Len(r.cmd2) < 2) /\ SubCmd(r) = "fullload"
      BY <1>4, <1>7
    <2> QED
      BY <2>1 DEF Handle
  <1>8. ASSUME NEW sub, r.cmd2 = <<"mem", sub>>
        PROVE  Handle(r) = MemResolver(sub, Atoi(r.memPercent), Atoi(r.timeout))
    <2>1. FirstCmd(r) = "mem" /\ ~(Len(r.cmd2) < 2) /\ SubCmd(r) = sub
      BY <1>4, <1>8
    <2> QED
      BY <2>1 DEF Handle
  <1>9. ASSUME NEW sub, r.cmd2 = <<"script", sub>>
        PROVE  Handle(r) = Script(sub, r.downloadUrl, r.timeout)
    <2>1. FirstCmd(r) = "script" /\ ~(Len(r.cmd2) < 2) /\ SubCmd(r) = sub
      BY <1>4, <1>9
    <2> QED
      BY <2>1 DEF Handle
  <1>10. ASSUME r.cmd2 = <<"status">> PROVE Handle(r) = StatusCommand(r)
    <2>1. FirstCmd(r) = "status" /\ Len(r.cmd2) < 2
      BY <1>3, <1>10
    <2> QED
      BY <2>1 DEF Handle
  <1>11. ASSUME r.cmd2 = <<"IO">> PROVE Handle(r) = Fail("ChaosbladeTypeError")
    <2>1. FirstCmd(r) = "IO" /\ Len(r.cmd2) < 2
      BY <1>3, <1>11
    <2> QED
      BY <2>1 DEF Handle
  <1>12. ASSUME r.cmd2 = <<"destroy">> PROVE FirstCmd(r) = "destroy"
    BY <1>3, <1>12
  <1> QED
    BY <1>2, <1>5, <1>6, <1>7, <1>8, <1>9, <1>10, <1>11, <1>12

\* A parameter of a load, or its default.
AskedFor(text, default) == IF text \in Int \ {0} THEN text ELSE default

\* What the resolvers make of a share or of a timeout: what is no number counts
\* as missing, and what is too large for an int is too large for a share.
LEMMA Defaults ==
    ASSUME NEW text
    PROVE  /\ OrDefault(Atoi(text), 100) \in 1 .. 100 <=> AskedFor(text, 100) \in 1 .. 100
           /\ AskedFor(text, 100) \in 1 .. 100 =>
                 OrDefault(Atoi(text), 100) = AskedFor(text, 100)
           /\ AskedFor(text, 60) \in -MaxInt .. MaxInt =>
                 OrDefault(Atoi(text), 60) = AskedFor(text, 60)
           /\ OrDefault(Atoi(text), 60) # 0
  <1>1. MaxInt \in Nat /\ MaxInt > 100
    BY MaxIntAssumption
  <1>2. CASE text \notin Int
    BY <1>2 DEF OrDefault, Atoi, AskedFor
  <1>3. CASE text \in Int
    <2>1. CASE text > MaxInt
      BY <1>1, <1>3, <2>1 DEF OrDefault, Atoi, AskedFor
    <2>2. CASE text < -MaxInt - 1
      BY <1>1, <1>3, <2>2 DEF OrDefault, Atoi, AskedFor
    <2>3. CASE ~(text > MaxInt) /\ ~(text < -MaxInt - 1)
      BY <1>1, <1>3, <2>3 DEF OrDefault, Atoi, AskedFor
    <2> QED
      BY <2>1, <2>2, <2>3
  <1> QED
    BY <1>2, <1>3

\* What is answered to a request for a cpu load.
IsCpu(o, r) ==
    /\ o.op \in {"cpu", "fail"}
    /\ o.op = "cpu" <=> AskedFor(r.cpuPercent, 100) \in 1 .. 100
    /\ o.op = "cpu" =>
          /\ o.percent = AskedFor(r.cpuPercent, 100)
          /\ AskedFor(r.timeOut, 60) \in -MaxInt .. MaxInt =>
                o.timeout = AskedFor(r.timeOut, 60)
          /\ o.count \in 1 .. NumCPU
          /\ r.cpuCount \in 1 .. NumCPU => o.count = r.cpuCount

\* A cpu load.
LEMMA CpuRequest ==
    ASSUME NEW r, NEW o,
           o = CpuResolver("fullload", Atoi(r.cpuCount), Atoi(r.cpuPercent), Atoi(r.timeOut))
    PROVE  IsCpu(o, r)
  <1> DEFINE share == OrDefault(Atoi(r.cpuPercent), 100)
             timeout == OrDefault(Atoi(r.timeOut), 60)
  <1>1. NumCPU \in 1 .. NumCPU
    BY NumCPUAssumption
  <1>2. r.cpuCount \in 1 .. NumCPU => Atoi(r.cpuCount) = r.cpuCount
    BY NumCPUAssumption, MaxIntAssumption DEF Atoi
  <1>3. /\ share \in 1 .. 100 <=> AskedFor(r.cpuPercent, 100) \in 1 .. 100
        /\ AskedFor(r.cpuPercent, 100) \in 1 .. 100 => share = AskedFor(r.cpuPercent, 100)
        /\ AskedFor(r.timeOut, 60) \in -MaxInt .. MaxInt => timeout = AskedFor(r.timeOut, 60)
    BY Defaults
  <1>4. CASE AskedFor(r.cpuPercent, 100) \in 1 .. 100
    <2>1. o = [op |-> "cpu",
               count |-> IF Atoi(r.cpuCount) \in 1 .. NumCPU THEN Atoi(r.cpuCount) ELSE NumCPU,
               percent |-> share, timeout |-> timeout]
      BY <1>3, <1>4 DEF CpuResolver
    <2>2. /\ o.op = "cpu" /\ o.percent = share /\ o.timeout = timeout
          /\ o.count = IF Atoi(r.cpuCount) \in 1 .. NumCPU THEN Atoi(r.cpuCount) ELSE NumCPU
      BY <2>1
    <2>3. o.count \in 1 .. NumCPU /\ (r.cpuCount \in 1 .. NumCPU => o.count = r.cpuCount)
      BY <1>1, <1>2, <2>2
    <2> QED
      BY <1>3, <1>4, <2>2, <2>3 DEF IsCpu
  <1>5. CASE AskedFor(r.cpuPercent, 100) \notin 1 .. 100
    <2>1. o.op = "fail"
      BY <1>3, <1>5 DEF CpuResolver, Fail
    <2> QED
      BY <1>5, <2>1 DEF IsCpu
  <1> QED
    BY <1>4, <1>5

\* A mem load.
LEMMA MemRequest ==
    ASSUME NEW percent, NEW timeout, NEW sub,
           NEW o, o = MemResolver(sub, Atoi(percent), Atoi(timeout))
    PROVE  /\ o.op \in {"mem", "fail"}
           /\ o.op = "mem" => sub = "load" /\ o.percent \in 1 .. 100 /\ o.timeout # 0
  <1> DEFINE share == OrDefault(Atoi(percent), 100)
             time == OrDefault(Atoi(timeout), 60)
  <1>1. time # 0
    BY Defaults
  <1>2. CASE sub = "load" /\ share \in 1 .. 100
    <2>1. o = [op |-> "mem", percent |-> share, timeout |-> time]
      BY <1>2 DEF MemResolver
    <2> QED
      BY <1>1, <1>2, <2>1
  <1>3. CASE ~(sub = "load" /\ share \in 1 .. 100)
    <2>1. o.op = "fail"
      BY <1>3 DEF MemResolver, Fail
    <2> QED
      BY <2>1
  <1> QED
    BY <1>2, <1>3

\* A request that is no destroy and has the type form.
Does(cmd, type, form) == cmd # <<>> /\ ~Destroys(cmd, type) /\ type = form

\* The outcome o of request r, form by form.
Outcome(o, r, cmd, type) ==
    /\ o.op = "destroy" <=> Destroys(cmd, type) /\ Len(cmd) >= 2
    /\ o.op = "destroy" => o.uid = cmd[2]
    /\ o.op = "panic" <=> (Destroys(cmd, type) /\ Len(cmd) < 2) \/ Does(cmd, type, <<"mem">>)
    /\ o.op = "cpu" <=>
          Does(cmd, type, <<"cpu", "fullload">>) /\ AskedFor(r.cpuPercent, 100) \in 1 .. 100
    /\ o.op = "cpu" =>
          /\ o.percent = AskedFor(r.cpuPercent, 100)
          /\ AskedFor(r.timeOut, 60) \in -MaxInt .. MaxInt =>
                o.timeout = AskedFor(r.timeOut, 60)
          /\ o.count \in 1 .. NumCPU
          /\ r.cpuCount \in 1 .. NumCPU => o.count = r.cpuCount
    /\ o.op = "mem" =>
          Does(cmd, type, <<"mem", "load">>) /\ o.percent \in 1 .. 100 /\ o.timeout # 0
    /\ o.op = "script" => Does(cmd, type, <<"script", "execute">>) /\ r.downloadUrl # Blank
    /\ o.op = "status" <=> Does(cmd, type, <<"status">>)
    /\ o.op = "status" => o.uid = r.uid /\ o.status = r.status /\ o.asc = r.asc

\* The chosen operation, or the refusal, of every form.
LEMMA OutcomeIs ==
    ASSUME NEW r, NEW cmd \in Commands, NEW type \in Types, r.cmd = cmd, r.cmd2 = type,
           NEW o, o = Handle(r)
    PROVE  Outcome(o, r, cmd, type)
  <1>1. Len(cmd) \in Nat
    BY DEF Commands
  <1>2. CASE cmd = <<>>
    <2>1. o = Fail("ParameterEmpty")
      BY <1>2 DEF Handle
    <2>2. o.op = "fail"
      BY <2>1 DEF Fail
    <2>3. ~Destroys(cmd, type)
      BY <1>2 DEF Destroys
    <2> QED
      BY <1>2, <2>2, <2>3 DEF Outcome, Does
  <1>3. CASE cmd # <<>> /\ Destroys(cmd, type)
    <2>1. FirstCmd(r) = "destroy"
      <3>1. CASE MentionsDestroy(cmd)
        BY <3>1 DEF FirstCmd
      <3>2. CASE ~MentionsDestroy(cmd)
        <4>1. type = <<"destroy">>
          BY <1>3, <3>2 DEF Destroys, MentionsDestroy
        <4> QED
          BY <1>3, <3>2, <4>1, TypeIsHandled
      <3> QED
        BY <3>1, <3>2
    <2>2. CASE Len(cmd) < 2
      <3>1. o.op = "panic" /\ ~(Len(cmd) >= 2)
        BY <1>1, <1>3, <2>1, <2>2, DestroyIsHandled DEF Panic
      <3> QED
        BY <1>3, <2>2, <3>1 DEF Outcome, Does
    <2>3. CASE ~(Len(cmd) < 2)
      <3>1. o.op = "destroy" /\ o.uid = cmd[2] /\ Len(cmd) >= 2
        BY <1>1, <1>3, <2>1, <2>3, DestroyIsHandled
      <3> QED
        BY <1>3, <2>3, <3>1 DEF Outcome, Does
    <2> QED
      BY <2>2, <2>3
  <1>4. CASE cmd # <<>> /\ ~Destroys(cmd, type)
    <2>1. ~MentionsDestroy(cmd) /\ type # <<"destroy">>
      BY <1>4 DEF Destroys, MentionsDestroy
    <2>2. /\ type = <<>> => o.op = "fail"
          /\ type = <<"cpu">> => o.op = "fail"
          /\ type = <<"mem">> => o.op = "panic"
          /\ type = <<"mem", "fullload">> => o.op = "fail"
          /\ type = <<"script", "execute">> =>
                o.op \in {"fail", "script"} /\ (o.op = "script" => r.downloadUrl # Blank)
          /\ type = <<"script", "Exit">> => o.op = "fail"
          /\ type = <<"status">> =>
                /\ o.op = "status"
                /\ o.uid = r.uid /\ o.status = r.status /\ o.asc = r.asc
          /\ type = <<"IO">> => o.op = "fail"
      <3>1. \A code : Fail(code).op = "fail"
        BY DEF Fail
      <3>2. /\ Panic.op = "panic" /\ StatusCommand(r).op = "status"
            /\ StatusCommand(r).uid = r.uid /\ StatusCommand(r).status = r.status
            /\ StatusCommand(r).asc = r.asc
        BY DEF Panic, StatusCommand
      <3>3. /\ Script("execute", r.downloadUrl, r.timeout).op \in {"fail", "script"}
            /\ Script("execute", r.downloadUrl, r.timeout).op = "script" => r.downloadUrl # Blank
            /\ Script("Exit", r.downloadUrl, r.timeout).op = "fail"
        BY <3>1 DEF Script
      <3>4. MemResolver("fullload", Atoi(r.memPercent), Atoi(r.timeout)).op = "fail"
        BY MemRequest
      <3> QED
        BY <1>4, <2>1, <3>1, <3>2, <3>3, <3>4, TypeIsHandled
    <2>3. ASSUME type = <<"cpu", "fullload">>
          PROVE  IsCpu(o, r)
      <3>1. o = CpuResolver("fullload", Atoi(r.cpuCount), Atoi(r.cpuPercent), Atoi(r.timeOut))
        BY <1>4, <2>1, <2>3, TypeIsHandled
      <3> QED
        BY <3>1, CpuRequest
    <2>4. ASSUME type = <<"mem", "load">>
          PROVE  /\ o.op \in {"mem", "fail"}
                 /\ o.op = "mem" => o.percent \in 1 .. 100 /\ o.timeout # 0
      <3>1. o = MemResolver("load", Atoi(r.memPercent), Atoi(r.timeout))
        BY <1>4, <2>1, <2>4, TypeIsHandled
      <3> QED
        BY <3>1, MemRequest
    <2>5. /\ \A first, sub, word : <<first, sub>> # <<word>> /\ <<first, sub>> # <<>>
          /\ \A word : <<word>> # <<>>
          /\ \A first, sub, other, that :
                <<first, sub>> = <<other, that>> => first = other /\ sub = that
          /\ \A word, other : <<word>> = <<other>> => word = other
      OBVIOUS
    <2>6. \/ type = <<>> \/ type = <<"cpu">> \/ type = <<"mem">> \/ type = <<"cpu", "fullload">>
          \/ type = <<"mem", "load">> \/ type = <<"mem", "fullload">>
          \/ type = <<"script", "execute">> \/ type = <<"script", "Exit">>
          \/ type = <<"status">> \/ type = <<"IO">>
      BY <2>1 DEF Types
    <2>7. \A form : Does(cmd, type, form) <=> type = form
      BY <1>4 DEF Does
    <2> QED
      BY <1>4, <2>2, <2>3, <2>4, <2>5, <2>6, <2>7 DEF Outcome, IsCpu
  <1> QED
    BY <1>2, <1>3, <1>4

\* The parameters of noise under a command and a type.
Request(noise, cmd, type) == [noise EXCEPT !.cmd = cmd, !.cmd2 = type]

\* A request of the noise, with its command and its type.
LEMMA NoisyRequest ==
    ASSUME NEW noise \in Noise, NEW cmd \in Commands, NEW type \in Types
    PROVE  /\ Request(noise, cmd, type).cmd = cmd
           /\ Request(noise, cmd, type).cmd2 = type
           /\ Request(noise, cmd, type) # NotJson
  <1> DEFINE r == Request(noise, cmd, type)
  <1>1. DOMAIN noise = DOMAIN NoParams
    <2>1. \A n, p, t, url : DOMAIN Noisy(n, p, t, url) = DOMAIN NoParams
      BY DEF Noisy
    <2>2. \E n, p, t, url : noise = Noisy(n, p, t, url)
      BY DEF Noise
    <2> QED
      BY <2>1, <2>2
  <1>2. "cmd" \in DOMAIN NoParams /\ "cmd2" \in DOMAIN NoParams
    BY DEF NoParams
  <1>3. r.cmd = cmd /\ r.cmd2 = type /\ "cmd" \in DOMAIN r
    BY <1>1, <1>2 DEF Request
  <1>4. "cmd" \notin DOMAIN NotJson
    BY DEF NotJson
  <1> HIDE DEF r
  <1>5. r.cmd = cmd /\ r.cmd2 = type /\ r # NotJson
    BY <1>3, <1>4
  <1> QED
    BY <1>5 DEF r

\* A request does what its own parameters ask for, in the forms of
\* README.md:29-176, whatever else it carries; one with "destroy" anywhere in
\* its command, or as its type, is a destroy (chaosblade.go:53, 131-132).
THEOREM RequestsAreRight == Spec => []RequestsAreServed
  <1>1. RequestsAreServed
    <2> SUFFICES ASSUME NEW noise \in Noise, NEW cmd \in Commands, NEW type \in Types
                 PROVE
        LET r == [noise EXCEPT !.cmd = cmd, !.cmd2 = type]
            o == Serve("chaosblade", r, "missing")
            Asked(text, default) == IF text \in Int \ {0} THEN text ELSE default
            destroys == \/ \E i \in DOMAIN cmd : cmd[i] \in Destroying
                        \/ cmd # <<>> /\ type = <<"destroy">>
            Doing(form) == cmd # <<>> /\ ~destroys /\ type = form
        IN
        /\ o.op = "destroy" <=> destroys /\ Len(cmd) >= 2
        /\ o.op = "destroy" => o.uid = cmd[2]
        /\ o.op = "panic" <=> (destroys /\ Len(cmd) < 2) \/ Doing(<<"mem">>)
        /\ o.op = "cpu" <=>
              Doing(<<"cpu", "fullload">>) /\ Asked(r.cpuPercent, 100) \in 1 .. 100
        /\ o.op = "cpu" =>
              /\ o.percent = Asked(r.cpuPercent, 100)
              /\ Asked(r.timeOut, 60) \in -MaxInt .. MaxInt => o.timeout = Asked(r.timeOut, 60)
              /\ o.count \in 1 .. NumCPU
              /\ r.cpuCount \in 1 .. NumCPU => o.count = r.cpuCount
        /\ o.op = "mem" =>
              Doing(<<"mem", "load">>) /\ o.percent \in 1 .. 100 /\ o.timeout # 0
        /\ o.op = "script" => Doing(<<"script", "execute">>) /\ r.downloadUrl # Blank
        /\ o.op = "status" <=> Doing(<<"status">>)
        /\ o.op = "status" => o.uid = r.uid /\ o.status = r.status /\ o.asc = r.asc
        /\ \A ctl \in {"missing", "fails", "exits"} :
              Serve("uninstall", r, ctl) = PingHandle <=> ctl = "exits"
      BY Zenon DEF RequestsAreServed
    <2> DEFINE r == [noise EXCEPT !.cmd = cmd, !.cmd2 = type]
               o == Serve("chaosblade", r, "missing")
    <2>1. r = Request(noise, cmd, type)
      BY DEF Request
    <2> HIDE DEF r
    <2>2. r.cmd = cmd /\ r.cmd2 = type /\ r # NotJson
      BY <2>1, NoisyRequest
    <2>3. o = Handle(r)
      BY <2>2 DEF Serve, Route
    <2>4. \A ctl \in {"missing", "fails", "exits"} :
             Serve("uninstall", r, ctl) = PingHandle <=> ctl = "exits"
      <3>1. \A ctl : Serve("uninstall", r, ctl) = UninstallHandle(ctl)
        BY <2>2 DEF Serve, Route
      <3>2. \A code : Fail(code) # Success
        BY DEF Fail, Success
      <3> QED
        BY <3>1, <3>2 DEF UninstallHandle, PingHandle
    <2> HIDE DEF o
    <2>5. Outcome(o, r, cmd, type)
      BY <2>2, <2>3, OutcomeIs
    <2> QED
      BY <2>4, <2>5, Zenon DEF Outcome, AskedFor, Destroys, Does, o, r
  <1> QED
    BY <1>1, PTL
=============================================================================
