------------------------- MODULE ProducerNetworkProofs -------------------------
(***************************************************************************)
(* HeadersSound, for every network and every length of the chain: the      *)
(* counters of every block stay in range and every block can be followed   *)
(* by another.  First, what block_header_state computes from a sound       *)
(* header is sound; then, the nodes build only on sound headers.           *)
(***************************************************************************)
EXTENDS ProducerNetwork, FiniteSetTheorems, NaturalsInduction, WellFoundedInduction, TLAPS

\* A producer list that a header can hold: empty for a pending schedule that has been promoted.
ListOK(list) == DOMAIN list = 1..Len(list) /\ Len(list) \in 0..MaxProducers

\* The three numbers of a header state and the table of confirmations.  The table covers
\* no block at or below the proposed one, so that a later proposal is above it.
NumbersOK(s) ==
    /\ s.block_num \in Nat /\ s.dpos_proposed \in Nat /\ s.dpos_irreversible \in Nat
    /\ s.dpos_irreversible =< s.dpos_proposed
    /\ s.dpos_proposed =< s.block_num
    /\ s.dpos_irreversible < s.block_num
    /\ s.confirm_count \in Seq(1..255)
    /\ Len(s.confirm_count) =< MaxTracked
    /\ Len(s.confirm_count) =< s.block_num - s.dpos_proposed

\* No producer has implied more to be irreversible than has been proposed.
ImpliedOK(s) ==
    /\ IsFiniteSet(DOMAIN s.implied_irb)
    /\ \A p \in DOMAIN s.implied_irb : s.implied_irb[p] \in 0..s.dpos_proposed

\* A proposal follows the schedule that waits, or else the active one.
SchedulesOK(s) ==
    /\ s.active_schedule.version \in Nat /\ ListOK(s.active_schedule.producers)
    /\ DOMAIN s.pending_schedule = {"lib", "version", "producers"}
    /\ s.pending_schedule.version \in Nat /\ ListOK(s.pending_schedule.producers)
    /\ s.proposed_schedule.num \in Nat
    /\ s.proposed_schedule.num # 0 =>
          /\ ListOK(s.proposed_schedule.producers)
          /\ s.proposed_schedule.producers # <<>>
          /\ s.proposed_schedule.version =
                 1 + (IF s.pending_schedule.producers = <<>> THEN s.active_schedule.version
                                                             ELSE s.pending_schedule.version)

HeaderOK(s) == NumbersOK(s) /\ ImpliedOK(s) /\ SchedulesOK(s)

-----------------------------------------------------------------------------
(***************************************************************************)
(* Headers.                                                                *)
(***************************************************************************)

\* Every nonempty set of numbers has a least element.
LEMMA LeastNumber ==
    ASSUME NEW T, T \subseteq Nat, T # {}
    PROVE  \E m \in T : \A n \in T : m =< n
<1>1. IsWellFoundedOn(OpToRel(<, Nat), Nat)
  BY NatLessThanWellFounded
<1>2. PICK m \in T : \A n \in T : ~(<<n, m>> \in OpToRel(<, Nat))
  BY <1>1, WFMin
<1>3. ASSUME NEW n \in T, n < m PROVE FALSE
  <2>1. <<n, m>> \in Nat \X Nat /\ <<n, m>>[1] < <<n, m>>[2]
    BY <1>3
  <2>2. <<n, m>> \in OpToRel(<, Nat)
    BY <2>1, Zenon DEF OpToRel
  <2>. QED BY <1>2, <2>2
<1>4. \A n \in T : n \in Nat /\ m \in Nat /\ ~(n < m)
  BY <1>3
<1>. QED BY <1>4

\* Every nonempty finite set of numbers has a greatest element.
LEMMA FiniteMax ==
    ASSUME NEW T \in SUBSET Nat, IsFiniteSet(T), T # {}
    PROVE  Max(T) \in T /\ \A m \in T : m =< Max(T)
<1> DEFINE HasMax(S) == \E x \in S : \A y \in S : x >= y
           Bad == {k \in Nat : \E S \in SUBSET Nat :
                       IsFiniteSet(S) /\ S # {} /\ ~HasMax(S) /\ Cardinality(S) = k}
<1>1. Bad = {}
  <2> SUFFICES ASSUME Bad # {} PROVE FALSE
    OBVIOUS
  <2>1. PICK k \in Bad : \A j \in Bad : k =< j
    BY LeastNumber, Bad \subseteq Nat, ZenonT(30)
  <2>2. PICK S \in SUBSET Nat :
            IsFiniteSet(S) /\ S # {} /\ ~HasMax(S) /\ Cardinality(S) = k
    BY <2>1
  <2> HIDE DEF HasMax
  <2>3. PICK a \in S : TRUE
    BY <2>2, ZenonT(30)
  <2> DEFINE R == S \ {a}
  <2>4. IsFiniteSet(R) /\ Cardinality(R) = k - 1 /\ k \in Nat /\ Cardinality(R) \in Nat
    BY <2>2, <2>3, FS_RemoveElement, FS_CardinalityType
  <2>5. R # {}
    BY <2>2, <2>3 DEF HasMax
  <2>6. HasMax(R)
    <3>1. k - 1 \notin Bad
      BY <2>1, <2>4
    <3> QED BY <3>1, <2>4, <2>5
  <2>7. HasMax(S)
    <3>1. PICK b \in R : \A y \in R : b >= y
      BY <2>6 DEF HasMax
    <3>2. CASE b >= a
      BY <3>1, <3>2 DEF HasMax
    <3>3. CASE ~(b >= a)
      BY <3>1, <3>3, <2>3 DEF HasMax
    <3> QED BY <3>2, <3>3
  <2> QED BY <2>2, <2>7
<1>2. HasMax(T)
  BY <1>1, FS_CardinalityType
<1>3. PICK x \in T : \A y \in T : x >= y
  BY <1>2
<1>4. Max(T) \in T /\ \A y \in T : Max(T) >= y
  BY <1>3, ZenonT(30) DEF Max
<1> QED BY <1>4

\* The index that calc_dpos_last_irreversible looks up is inside the sorted list.
LEMMA ThirdInside ==
    ASSUME NEW n \in Nat, n # 0
    PROVE  ThirdOf(n) \in Nat /\ ThirdOf(n) < n
BY DEF ThirdOf

\* The element at that index exists and has been proposed.
LEMMA IrreversibleProposed ==
    ASSUME NEW s, NEW producer, s.dpos_proposed \in Nat, ImpliedOK(s)
    PROVE  CalcDposLastIrreversible(s, producer) \in 0..s.dpos_proposed
<1> DEFINE implied == [p \in DOMAIN s.implied_irb |->
                          IF p = producer THEN s.dpos_proposed ELSE s.implied_irb[p]]
           D == DOMAIN s.implied_irb
           Lower(v) == {p \in D : implied[p] < v}
           Upper(v) == {p \in D : implied[p] =< v}
           index == ThirdOf(Cardinality(D))
           Found(v) == Cardinality(Lower(v)) =< index /\ index < Cardinality(Upper(v))
<1>1. \A p \in D : implied[p] \in 0..s.dpos_proposed
  BY DEF ImpliedOK
<1>2. CASE D = {}
  BY <1>2 DEF CalcDposLastIrreversible
<1>3. CASE D # {}
  <2>1. IsFiniteSet(D) /\ Cardinality(D) \in Nat /\ Cardinality(D) # 0
    BY <1>3, FS_CardinalityType, FS_EmptySet DEF ImpliedOK
  <2>2. index \in Nat /\ index < Cardinality(D)
    BY <2>1, ThirdInside
  <2>3. \A v : /\ IsFiniteSet(Lower(v)) /\ Cardinality(Lower(v)) \in Nat
               /\ IsFiniteSet(Upper(v)) /\ Cardinality(Upper(v)) \in Nat
    BY <2>1, FS_Subset, FS_CardinalityType, ZenonT(30)
  <2> DEFINE High == {v \in Nat : index < Cardinality(Upper(v))}
  <2>4. s.dpos_proposed \in High
    <3>1. Upper(s.dpos_proposed) = D
      BY <1>1
    <3> QED BY <3>1, <2>2, ZenonT(30)
  <2>5. PICK v \in High : \A w \in High : v =< w
    BY <2>4, LeastNumber, High \subseteq Nat, ZenonT(30)
  <2> HIDE DEF implied, D, index
  <2>6. Cardinality(Lower(v)) =< index
    <3>1. CASE v = 0
      <4>1. Lower(v) = {}
        BY <3>1, <1>1
      <4> QED BY <4>1, <2>2, FS_EmptySet
    <3>2. CASE v # 0
      <4>1. Lower(v) = Upper(v - 1)
        BY <3>2, <1>1
      <4>2. v - 1 \in Nat /\ v - 1 \notin High
        BY <3>2, <2>5
      <4>3. ~(index < Cardinality(Upper(v - 1)))
        BY <4>2
      <4>4. Cardinality(Upper(v - 1)) \in Nat
        BY <2>3, ZenonT(30)
      <4>5. Cardinality(Upper(v - 1)) =< index
        BY <4>3, <4>4, <2>2
      <4> QED BY <4>1, <4>5, ZenonT(30)
    <3> QED BY <3>1, <3>2
  <2>7. \E p \in D : implied[p] = v
    <3> SUFFICES ASSUME \A p \in D : implied[p] # v PROVE FALSE
      OBVIOUS
    <3>1. Lower(v) = Upper(v)
      BY <1>1
    <3> QED BY <3>1, <2>5, <2>6, <2>2, <2>3
  <2>8. v \in Range(implied) /\ Found(v)
    BY <2>5, <2>6, <2>7, SMTT(30) DEF Range, implied, D
  <2>9. CalcDposLastIrreversible(s, producer) = CHOOSE x \in Range(implied) : Found(x)
    BY <1>3, ZenonT(30) DEF CalcDposLastIrreversible, implied, D, index
  <2>10. CalcDposLastIrreversible(s, producer) \in Range(implied)
    BY <2>8, <2>9, ZenonT(30)
  <2>11. Range(implied) \subseteq 0..s.dpos_proposed
    BY <1>1, ZenonT(30) DEF Range, implied, D
  <2> QED BY <2>10, <2>11
<1> QED BY <1>2, <1>3

\* A function on an initial segment of the numbers is a sequence.
LEMMA FunctionIsSequence ==
    ASSUME NEW k \in Nat, NEW S, NEW f \in [1..k -> S]
    PROVE  f \in Seq(S) /\ Len(f) = k
<1>1. f \in Seq(S)
  OBVIOUS
<1>2. DOMAIN f = 1..k /\ DOMAIN f = 1..Len(f) /\ Len(f) \in Nat
  BY <1>1
<1> QED BY <1>1, <1>2

\* The elements of a sequence.
LEMMA SequenceElements ==
    ASSUME NEW S, NEW f \in Seq(S)
    PROVE  DOMAIN f = 1..Len(f) /\ Len(f) \in Nat /\ \A i \in 1..Len(f) : f[i] \in S
OBVIOUS

\* How many confirmations a new block needs fits an unsigned byte.
LEMMA RequiredFits ==
    ASSUME NEW s, ListOK(s.active_schedule.producers)
    PROVE  RequiredConfs(s) \in 1..255
<1> DEFINE l == Len(s.active_schedule.producers)
<1>1. l \in 0..125
  BY DEF ListOK, MaxProducers
<1>2. RequiredConfs(s) = (l * 2) \div 3 + 1
  BY DEF RequiredConfs
<1> HIDE DEF l
<1>3. (l * 2) \div 3 \in 0..84
  BY <1>1
<1> QED BY <1>2, <1>3

\* The table with the new block: it is not empty, not too long, and covers only blocks
\* above the proposed one.
LEMMA TrackedRight ==
    ASSUME NEW s, NumbersOK(s), ListOK(s.active_schedule.producers)
    PROVE  /\ Tracked(s) \in Seq(1..255)
           /\ Len(Tracked(s)) \in 1..MaxTracked
           /\ Len(Tracked(s)) =< s.block_num + 1 - s.dpos_proposed
<1> DEFINE c == s.confirm_count
           kept == IF Len(c) < MaxTracked THEN c ELSE Tail(c)
<1>1. /\ c \in Seq(1..255) /\ Len(c) \in Nat /\ Len(c) =< MaxTracked
      /\ Len(c) =< s.block_num - s.dpos_proposed
      /\ s.block_num \in Nat /\ s.dpos_proposed \in Nat /\ MaxTracked \in Nat \ {0}
  BY HeaderAssumption DEF NumbersOK
<1> HIDE DEF c
<1>2. /\ kept \in Seq(1..255) /\ Len(kept) \in Nat /\ Len(kept) < MaxTracked
      /\ Len(kept) =< Len(c)
  <2>1. CASE Len(c) < MaxTracked
    BY <1>1, <2>1
  <2>2. CASE ~(Len(c) < MaxTracked)
    <3>1. Len(c) = MaxTracked /\ c # <<>>
      BY <1>1, <2>2
    <3>2. Tail(c) \in Seq(1..255) /\ Len(Tail(c)) = Len(c) - 1
      BY <1>1, <3>1
    <3> QED BY <1>1, <2>2, <3>1, <3>2
  <2> QED BY <2>1, <2>2
<1> HIDE DEF kept
<1>3. Tracked(s) = Append(kept, RequiredConfs(s))
  BY DEF Tracked, kept, c
<1>4. Tracked(s) \in Seq(1..255) /\ Len(Tracked(s)) = Len(kept) + 1
  BY <1>2, <1>3, RequiredFits
<1> QED BY <1>1, <1>2, <1>4

\* The greater of two numbers.
LEMMA GreaterOfTwo ==
    ASSUME NEW a \in Int, NEW b \in Int
    PROVE  Max({a, b}) = IF a >= b THEN a ELSE b
<1>1. \E x \in {a, b} : \A y \in {a, b} : x >= y
  BY SMT
<1>2. Max({a, b}) \in {a, b} /\ \A y \in {a, b} : Max({a, b}) >= y
  BY <1>1 DEF Max
<1> QED BY <1>2

\* A counter that is not at one can be lowered.
LEMMA CounterFalls ==
    ASSUME NEW x \in 1..255, x # 1
    PROVE  x - 1 \in 1..255
OBVIOUS

\* What a block confirms: no counter is left at zero, and the proposed block does not
\* fall and is not above the block.
LEMMA ConfirmRight ==
    ASSUME NEW s, NumbersOK(s), ListOK(s.active_schedule.producers), NEW confirm \in Nat
    PROVE  LET c == Confirm(s, confirm)
           IN  /\ c.proposed \in Nat
               /\ s.dpos_proposed =< c.proposed /\ c.proposed =< s.block_num + 1
               /\ c.count \in Seq(1..255)
               /\ Len(c.count) =< MaxTracked
               /\ Len(c.count) =< s.block_num + 1 - c.proposed
<1> DEFINE table == Tracked(s)
           size == Len(table)
           low == Max({1, size - confirm})
           reached == low..size
           done == {i \in reached : table[i] = 1}
           lowered == [i \in 1..size |-> IF i \in reached THEN table[i] - 1 ELSE table[i]]
           rest == [i \in 1..(size - Max(done)) |-> table[Max(done) + i] - 1]
<1>1. /\ table \in Seq(1..255) /\ size \in 1..MaxTracked
      /\ size =< s.block_num + 1 - s.dpos_proposed
  BY TrackedRight
<1>2. /\ s.block_num \in Nat /\ s.dpos_proposed \in Nat /\ MaxTracked \in Nat \ {0}
      /\ s.dpos_proposed =< s.block_num
  BY HeaderAssumption DEF NumbersOK
<1>4. Confirm(s, confirm) = IF done = {} THEN [count |-> lowered, proposed |-> s.dpos_proposed]
                            ELSE [count |-> rest, proposed |-> s.block_num + 1 - (size - Max(done))]
  BY DEF Confirm
<1>a. size \in Nat
  BY <1>1, <1>2
<1> HIDE DEF table
<1>3. \A i \in 1..size : table[i] \in 1..255
  BY <1>1, SequenceElements
<1> HIDE DEF size
<1>5. low \in 1..size
  BY <1>1, <1>2, GreaterOfTwo
<1> HIDE DEF low
<1>6. CASE done = {}
  <2>1. \A i \in 1..size : lowered[i] \in 1..255
    <3>1. \A i \in reached : table[i] # 1
      BY <1>6
    <3> HIDE DEF reached
    <3>3. SUFFICES ASSUME NEW i \in 1..size PROVE lowered[i] \in 1..255
      OBVIOUS
    <3>4. lowered[i] = IF i \in reached THEN table[i] - 1 ELSE table[i]
      OBVIOUS
    <3> HIDE DEF lowered
    <3>5. CASE i \in reached
      <4>1. lowered[i] = table[i] - 1 /\ table[i] # 1
        BY <3>1, <3>4, <3>5
      <4>2. table[i] \in 1..255
        BY <1>3, Zenon
      <4> QED BY <4>1, <4>2, CounterFalls, Zenon
    <3>6. CASE i \notin reached
      <4>1. lowered[i] = table[i]
        BY <3>4, <3>6, Zenon
      <4> QED BY <4>1, <1>3, Zenon
    <3> QED BY <3>5, <3>6
  <2>2. lowered \in [1..size -> 1..255] /\ size \in Nat
    BY <2>1, <1>1, <1>2
  <2> HIDE DEF lowered
  <2>3. lowered \in Seq(1..255) /\ Len(lowered) = size
    BY <2>2, FunctionIsSequence
  <2> QED BY <1>1, <1>2, <1>4, <1>6, <2>3
<1>7. CASE done # {}
  <2>1. done \in SUBSET Nat /\ IsFiniteSet(done)
    <3>1. done \subseteq low..size /\ low..size \subseteq Nat /\ low \in Int /\ size \in Int
      BY <1>1, <1>2, <1>5
    <3>2. IsFiniteSet(low..size)
      BY <3>1, FS_Interval
    <3> QED BY <3>1, <3>2, FS_Subset
  <2> DEFINE top == Max(done)
  <2>2. top \in done /\ \A m \in done : m =< top
    BY <1>7, <2>1, FiniteMax
  <2> HIDE DEF top
  <2>3. top \in low..size /\ top \in 1..size
    BY <1>1, <1>2, <1>5, <2>2
  <2>4. \A i \in (top + 1)..size : table[i] \in 2..255
    BY <1>3, <1>5, <1>1, <1>2, <2>2, <2>3
  <2>5. rest \in [1..(size - top) -> 1..255] /\ size - top \in Nat
    <3>1. \A i \in 1..(size - top) : top + i \in (top + 1)..size
      BY <1>1, <1>2, <2>3
    <3>2. \A i \in 1..(size - top) : table[top + i] - 1 \in 1..255
      BY <3>1, <2>4
    <3>3. rest = [i \in 1..(size - top) |-> table[top + i] - 1]
      BY Zenon DEF top
    <3>4. size - top \in Nat
      BY <1>a, <2>3
    <3> HIDE DEF rest
    <3> QED BY <3>2, <3>3, <3>4, ZenonT(30)
  <2> HIDE DEF rest
  <2>6. rest \in Seq(1..255) /\ Len(rest) = size - top
    BY <2>5, FunctionIsSequence, ZenonT(30)
  <2>7. Confirm(s, confirm).count = rest
        /\ Confirm(s, confirm).proposed = s.block_num + 1 - (size - top)
    <3>1. Confirm(s, confirm) = [count |-> rest,
                                 proposed |-> s.block_num + 1 - (size - Max(done))]
      BY <1>4, <1>7
    <3> HIDE DEF done
    <3> QED BY <3>1 DEF top
  <2>8. /\ Confirm(s, confirm).proposed \in Nat
        /\ s.dpos_proposed =< Confirm(s, confirm).proposed
        /\ Confirm(s, confirm).proposed =< s.block_num + 1
    BY <1>1, <1>2, <1>a, <2>3, <2>7
  <2>9. Len(rest) =< MaxTracked /\ Len(rest) =< s.block_num + 1 - Confirm(s, confirm).proposed
    BY <1>1, <1>2, <1>a, <2>3, <2>6, <2>7
  <2> QED BY <2>6, <2>7, <2>8, <2>9, Zenon
<1> QED BY <1>6, <1>7

\* The set of members of a list is finite.
LEMMA MembersFinite ==
    ASSUME NEW list, ListOK(list)
    PROVE  IsFiniteSet(Range(list))
<1>1. IsFiniteSet(DOMAIN list)
  <2>1. Len(list) \in Nat /\ DOMAIN list = 1..Len(list)
    BY DEF ListOK, MaxProducers
  <2> QED BY <2>1, FS_Interval
<1> DEFINE f == [i \in DOMAIN list |-> list[i]]
<1>2. f \in Surjection(DOMAIN list, Range(list))
  BY DEF Surjection, Range
<1> QED BY <1>1, <1>2, FS_Surjection

\* The numbers of a pending header state.
LEMMA NextNumbers ==
    ASSUME NEW s, HeaderOK(s), NEW when, NEW confirm \in Nat
    PROVE  NumbersOK(NextHeader(s, when, confirm))
<1> DEFINE n == NextHeader(s, when, confirm)
           producer == ScheduledProducer(s, when)
<1>1. NumbersOK(s) /\ ListOK(s.active_schedule.producers) /\ ImpliedOK(s)
  BY DEF HeaderOK, SchedulesOK
<1>2. s.block_num \in Nat /\ s.dpos_proposed \in Nat /\ s.dpos_proposed =< s.block_num
  BY <1>1 DEF NumbersOK
<1>3. CalcDposLastIrreversible(s, producer) \in 0..s.dpos_proposed
  BY <1>1, <1>2, IrreversibleProposed, SMTT(30)
<1>4. /\ n.block_num = s.block_num + 1
      /\ n.dpos_proposed = Confirm(s, confirm).proposed
      /\ n.dpos_irreversible = CalcDposLastIrreversible(s, producer)
      /\ n.confirm_count = Confirm(s, confirm).count
  BY ZenonT(30) DEF NextHeader
<1>5. /\ Confirm(s, confirm).proposed \in Nat
      /\ s.dpos_proposed =< Confirm(s, confirm).proposed
      /\ Confirm(s, confirm).proposed =< s.block_num + 1
      /\ Confirm(s, confirm).count \in Seq(1..255)
      /\ Len(Confirm(s, confirm).count) =< MaxTracked
      /\ Len(Confirm(s, confirm).count) =< s.block_num + 1 - Confirm(s, confirm).proposed
  BY <1>1, ConfirmRight
<1> HIDE DEF n
<1>6. n.block_num \in Nat /\ n.dpos_proposed \in Nat /\ n.dpos_irreversible \in Nat
  BY <1>2, <1>3, <1>4, <1>5
<1>7. /\ n.dpos_irreversible =< n.dpos_proposed /\ n.dpos_proposed =< n.block_num
      /\ n.dpos_irreversible < n.block_num
  BY <1>2, <1>3, <1>4, <1>5
<1>8. /\ n.confirm_count \in Seq(1..255)
      /\ Len(n.confirm_count) =< MaxTracked
      /\ Len(n.confirm_count) =< n.block_num - n.dpos_proposed
  <2>1. Len(n.confirm_count) = Len(Confirm(s, confirm).count)
    BY <1>4
  <2>2. n.block_num - n.dpos_proposed = s.block_num + 1 - Confirm(s, confirm).proposed
    BY <1>2, <1>4, <1>5
  <2>3. n.confirm_count \in Seq(1..255)
    BY <1>4, <1>5
  <2> QED BY <2>1, <2>2, <2>3, <1>5
<1>9. NumbersOK(n)
  BY <1>6, <1>7, <1>8 DEF NumbersOK
<1> QED BY <1>9 DEF n

\* What the producers have implied, after a pending header state.
LEMMA NextImplied ==
    ASSUME NEW s, HeaderOK(s), NEW when, NEW confirm \in Nat
    PROVE  ImpliedOK(NextHeader(s, when, confirm))
<1> DEFINE n == NextHeader(s, when, confirm)
           producer == ScheduledProducer(s, when)
           irreversible == CalcDposLastIrreversible(s, producer)
           promoted == IsPromoted(s, irreversible)
           active == IF promoted THEN [version |-> s.pending_schedule.version,
                                       producers |-> s.pending_schedule.producers]
                                 ELSE s.active_schedule
           implied == IF promoted THEN Carried(s.implied_irb, active.producers, irreversible)
                                  ELSE s.implied_irb
<1>1. NumbersOK(s) /\ ListOK(s.active_schedule.producers) /\ ImpliedOK(s)
      /\ ListOK(s.pending_schedule.producers)
  BY DEF HeaderOK, SchedulesOK
<1>2. s.block_num \in Nat /\ s.dpos_proposed \in Nat /\ s.dpos_proposed =< s.block_num
  BY <1>1 DEF NumbersOK
<1>3. irreversible \in 0..s.dpos_proposed
  BY <1>1, <1>2, IrreversibleProposed
<1>4. n.dpos_proposed \in Nat /\ s.dpos_proposed =< n.dpos_proposed
  <2>1. n.dpos_proposed = Confirm(s, confirm).proposed
    BY SMTT(30) DEF NextHeader
  <2> QED BY <2>1, <1>1, ConfirmRight, ZenonT(30)
<1>5. n.implied_irb = implied \/ n.implied_irb = Put(implied, producer, s.dpos_proposed)
  BY ZenonT(30) DEF NextHeader
<1> HIDE DEF n, producer, irreversible, promoted
<1>6. ListOK(active.producers)
  BY <1>1
<1> HIDE DEF active
<1>7. /\ IsFiniteSet(DOMAIN implied)
      /\ \A p \in DOMAIN implied : implied[p] \in 0..s.dpos_proposed
  <2>1. CASE promoted
    <3>1. implied = [p \in Range(active.producers) |->
                        IF p \in DOMAIN s.implied_irb THEN s.implied_irb[p] ELSE irreversible]
      BY <2>1 DEF Carried
    <3> HIDE DEF implied
    <3>2. IsFiniteSet(Range(active.producers))
      BY <1>6, MembersFinite
    <3>3. DOMAIN implied = Range(active.producers)
      BY <3>1
    <3>4. \A p \in DOMAIN implied : implied[p] \in 0..s.dpos_proposed
      BY <3>1, <1>1, <1>3 DEF ImpliedOK
    <3> QED BY <3>2, <3>3, <3>4
  <2>2. CASE ~promoted
    BY <2>2, <1>1 DEF ImpliedOK
  <2> QED BY <2>1, <2>2
<1> HIDE DEF implied
<1>8. /\ IsFiniteSet(DOMAIN n.implied_irb)
      /\ \A p \in DOMAIN n.implied_irb : n.implied_irb[p] \in 0..s.dpos_proposed
  <2>1. CASE n.implied_irb = implied
    BY <1>7, <2>1
  <2>2. CASE n.implied_irb = Put(implied, producer, s.dpos_proposed)
    <3>1. DOMAIN n.implied_irb = DOMAIN implied \cup {producer}
      BY <2>2 DEF Put
    <3>2. IsFiniteSet(DOMAIN n.implied_irb)
      BY <3>1, <1>7, FS_AddElement
    <3>3. \A p \in DOMAIN n.implied_irb : n.implied_irb[p] \in 0..s.dpos_proposed
      BY <2>2, <3>1, <1>7, <1>2 DEF Put
    <3> QED BY <3>2, <3>3
  <2> QED BY <1>5, <2>1, <2>2
<1>9. ImpliedOK(n)
  BY <1>2, <1>4, <1>8 DEF ImpliedOK
<1> QED BY <1>9 DEF n

\* The schedules that a pending header state holds.
LEMMA NextSchedules ==
    ASSUME NEW s, HeaderOK(s), NEW when, NEW confirm
    PROVE  LET n == NextHeader(s, when, confirm)
           IN  /\ n.active_schedule.version \in Nat /\ ListOK(n.active_schedule.producers)
               /\ n.prev_pending = s.pending_schedule
               /\ n.prev_active_version = s.active_schedule.version
               /\ n.proposed_schedule = s.proposed_schedule
               /\ n.was_pending_promoted \in BOOLEAN
               /\ n.was_pending_promoted =>
                     /\ s.pending_schedule.producers # <<>>
                     /\ n.active_schedule.version = s.pending_schedule.version
               /\ ~n.was_pending_promoted => n.active_schedule = s.active_schedule
<1> DEFINE n == NextHeader(s, when, confirm)
           irreversible == CalcDposLastIrreversible(s, ScheduledProducer(s, when))
           promoted == IsPromoted(s, irreversible)
<1>1. /\ n.active_schedule = IF promoted THEN [version |-> s.pending_schedule.version,
                                               producers |-> s.pending_schedule.producers]
                                         ELSE s.active_schedule
      /\ n.prev_pending = s.pending_schedule
      /\ n.prev_active_version = s.active_schedule.version
      /\ n.proposed_schedule = s.proposed_schedule
      /\ n.was_pending_promoted = promoted
  BY ZenonT(30) DEF NextHeader
<1>2. promoted \in BOOLEAN /\ (promoted => s.pending_schedule.producers # <<>>)
  BY DEF IsPromoted
<1> HIDE DEF n, promoted
<1>3. /\ s.active_schedule.version \in Nat /\ ListOK(s.active_schedule.producers)
      /\ s.pending_schedule.version \in Nat /\ ListOK(s.pending_schedule.producers)
  BY DEF HeaderOK, SchedulesOK
<1>4. CASE promoted
  BY <1>1, <1>2, <1>3, <1>4 DEF n
<1>5. CASE ~promoted
  BY <1>1, <1>2, <1>3, <1>5 DEF n
<1> QED BY <1>2, <1>4, <1>5, SMTT(30)

\* A schedule that is announced after a sound block has the version that is asserted.
LEMMA AnnouncementRight ==
    ASSUME NEW s, HeaderOK(s), NEW when, NEW confirm,
           AnnouncesProposal(NextHeader(s, when, confirm))
    PROVE  AnnouncementAllowed(NextHeader(s, when, confirm))
<1> DEFINE n == NextHeader(s, when, confirm)
<1>1. /\ n.prev_pending = s.pending_schedule
      /\ n.prev_active_version = s.active_schedule.version
      /\ n.proposed_schedule = s.proposed_schedule
      /\ n.was_pending_promoted => s.pending_schedule.producers # <<>>
      /\ ~n.was_pending_promoted => n.active_schedule = s.active_schedule
      /\ n.was_pending_promoted \in BOOLEAN
  BY NextSchedules
<1> HIDE DEF n
<1>2. n.proposed_schedule.num # 0 /\ n.prev_pending.producers = <<>>
  <2>1. n.proposed_schedule.num \in 1..n.dpos_irreversible /\ n.prev_pending.producers = <<>>
    BY DEF AnnouncesProposal, n
  <2> QED BY <2>1
<1>3. ~n.was_pending_promoted
  BY <1>1, <1>2
<1>4. s.proposed_schedule.version = s.active_schedule.version + 1
  BY <1>1, <1>2 DEF HeaderOK, SchedulesOK
<1>5. AnnouncementAllowed(n)
  BY <1>1, <1>2, <1>3, <1>4 DEF AnnouncementAllowed
<1> QED BY <1>5 DEF n

\* A call that proposes a schedule: none, or a list that can be proposed.
CallOK(call) == call # NoCall => ListOK(call) /\ call # <<>>

\* The schedules after a complete block.
LEMMA BlockSchedules ==
    ASSUME NEW s, HeaderOK(s), NEW when, NEW confirm, NEW call, CallOK(call),
           NextHeader(s, when, confirm).block_num \in Nat
    PROVE  SchedulesOK(NextBlock(NextHeader(s, when, confirm), call))
<1> DEFINE p == NextHeader(s, when, confirm)
           b == NextBlock(p, call)
<1>1. /\ p.active_schedule.version \in Nat /\ ListOK(p.active_schedule.producers)
      /\ p.prev_pending = s.pending_schedule
      /\ p.proposed_schedule = s.proposed_schedule
      /\ p.was_pending_promoted \in BOOLEAN
      /\ p.was_pending_promoted =>
            /\ s.pending_schedule.producers # <<>>
            /\ p.active_schedule.version = s.pending_schedule.version
      /\ ~p.was_pending_promoted => p.active_schedule = s.active_schedule
  BY NextSchedules
<1>a. StartState(p).proposed_schedule =
          IF AnnouncesProposal(p) THEN NoProposal ELSE p.proposed_schedule
  BY DEF StartState, NextHeader
<1> HIDE DEF p
<1>2. /\ s.active_schedule.version \in Nat
      /\ DOMAIN s.pending_schedule = {"lib", "version", "producers"}
      /\ s.pending_schedule.version \in Nat /\ ListOK(s.pending_schedule.producers)
      /\ s.proposed_schedule.num \in Nat
      /\ s.proposed_schedule.num # 0 =>
            /\ ListOK(s.proposed_schedule.producers)
            /\ s.proposed_schedule.producers # <<>>
            /\ s.proposed_schedule.version =
                   1 + (IF s.pending_schedule.producers = <<>> THEN s.active_schedule.version
                                                               ELSE s.pending_schedule.version)
  BY DEF HeaderOK, SchedulesOK
<1>b. s.proposed_schedule.num # 0 =>
          ListOK(s.proposed_schedule.producers) /\ s.proposed_schedule.version \in Nat
  BY <1>2
<1>c. p.proposed_schedule = s.proposed_schedule
  BY <1>1, Zenon
<1>3. /\ b.active_schedule = p.active_schedule
      /\ b.pending_schedule = FinishNext(p)
      /\ b.proposed_schedule = IF call # NoCall /\ Proposes(p, call)
                               THEN SetProposedProducers(p, call)
                               ELSE StartState(p).proposed_schedule
  BY DEF NextBlock
<1> HIDE DEF b
<1> DEFINE f == FinishNext(p)
<1>e. ListOK(<<>>)
  BY DEF ListOK, MaxProducers
<1>4. /\ DOMAIN f = {"lib", "version", "producers"}
      /\ f.version \in Nat /\ ListOK(f.producers)
  <2>1. CASE AnnouncesProposal(p)
    <3>1. s.proposed_schedule.num # 0
      <4>1. p.proposed_schedule.num \in 1..p.dpos_irreversible
        BY <2>1 DEF AnnouncesProposal
      <4> QED BY <4>1, <1>1
    <3>2. f = [lib |-> p.block_num, version |-> p.proposed_schedule.version,
               producers |-> p.proposed_schedule.producers]
      BY <2>1 DEF FinishNext
    <3>3. p.proposed_schedule.version \in Nat /\ ListOK(p.proposed_schedule.producers)
      <4>1. ListOK(s.proposed_schedule.producers) /\ s.proposed_schedule.version \in Nat
        BY <3>1, <1>b, Zenon
      <4> QED BY <4>1, <1>c, Zenon
    <3> QED BY <3>2, <3>3
  <2>2. CASE ~AnnouncesProposal(p) /\ p.was_pending_promoted
    <3>1. f = [s.pending_schedule EXCEPT !.producers = <<>>]
      BY <2>2, <1>1 DEF FinishNext
    <3> QED BY <3>1, <1>2, <1>e
  <2>3. CASE ~AnnouncesProposal(p) /\ ~p.was_pending_promoted
    <3>1. f = s.pending_schedule
      BY <2>3, <1>1 DEF FinishNext
    <3> QED BY <3>1, <1>2
  <2> QED BY <2>1, <2>2, <2>3, <1>1
<1> HIDE DEF f
<1> DEFINE q == b.proposed_schedule
           Base == IF f.producers = <<>> THEN p.active_schedule.version ELSE f.version
           Good == /\ q.num \in Nat
                   /\ q.num # 0 => /\ ListOK(q.producers) /\ q.producers # <<>>
                                   /\ q.version = 1 + Base
<1>5. Good
  <2>1. CASE call # NoCall /\ Proposes(p, call)
    <3>1. q = [num |-> p.block_num, version |-> Followed(p).version + 1, producers |-> call]
      BY <2>1, <1>3 DEF SetProposedProducers
    <3>2. Followed(p).version = Base
      <4>1. CASE AnnouncesProposal(p)
        BY <4>1 DEF Followed, PendingWhileBuilding, f
      <4>2. CASE ~AnnouncesProposal(p) /\ p.was_pending_promoted
        <5>1. f = [s.pending_schedule EXCEPT !.producers = <<>>]
          BY <4>2, <1>1 DEF FinishNext, f
        <5>2. f.producers = <<>>
          BY <5>1, <1>2
        <5>3. Followed(p) = s.pending_schedule
          BY <4>2, <1>1 DEF Followed, PendingWhileBuilding
        <5> QED BY <4>2, <5>2, <5>3, <1>1
      <4>3. CASE ~AnnouncesProposal(p) /\ ~p.was_pending_promoted
        BY <4>3, <1>1 DEF Followed, PendingWhileBuilding, FinishNext, f
      <4> QED BY <4>1, <4>2, <4>3, <1>1
    <3>3. ListOK(call) /\ call # <<>>
      BY <2>1 DEF CallOK
    <3>4. Base \in Nat
      BY <1>1, <1>4
    <3>5. p.block_num \in Nat
      BY DEF p
    <3>6. q.num = p.block_num /\ q.producers = call /\ q.version = 1 + Base
      BY <3>1, <3>2, <3>4
    <3> QED BY <3>3, <3>5, <3>6
  <2>2. CASE ~(call # NoCall /\ Proposes(p, call)) /\ AnnouncesProposal(p)
    <3>1. q = NoProposal
      BY <2>2, <1>3, <1>a
    <3> QED BY <3>1 DEF NoProposal
  <2>3. CASE ~(call # NoCall /\ Proposes(p, call)) /\ ~AnnouncesProposal(p)
    <3>1. q = s.proposed_schedule
      BY <2>3, <1>3, <1>1, <1>a
    <3>2. Base = IF s.pending_schedule.producers = <<>> THEN s.active_schedule.version
                                                        ELSE s.pending_schedule.version
      <4>1. CASE p.was_pending_promoted
        <5>1. f = [s.pending_schedule EXCEPT !.producers = <<>>]
          BY <4>1, <2>3, <1>1 DEF FinishNext, f
        <5>2. f.producers = <<>>
          BY <5>1, <1>2
        <5> QED BY <4>1, <5>2, <1>1
      <4>2. CASE ~p.was_pending_promoted
        <5>1. f = s.pending_schedule
          BY <4>2, <2>3, <1>1, ZenonT(30) DEF FinishNext, f
        <5> QED BY <4>2, <5>1, <1>1
      <4> QED BY <4>1, <4>2, <1>1
    <3> HIDE DEF Base
    <3> QED BY <3>1, <3>2, <1>2
  <2> QED BY <2>1, <2>2, <2>3
<1>6. SchedulesOK(b)
  BY <1>1, <1>3, <1>4, <1>5 DEF SchedulesOK, f
<1> QED BY <1>6 DEF b, p

\* A block on a sound block is sound.
LEMMA BlockSound ==
    ASSUME NEW s, HeaderOK(s), NEW when, NEW confirm \in Nat, NEW call, CallOK(call)
    PROVE  HeaderOK(NextBlock(NextHeader(s, when, confirm), call))
<1> DEFINE p == NextHeader(s, when, confirm)
           b == NextBlock(p, call)
<1>1. NumbersOK(p) /\ ImpliedOK(p)
  BY NextNumbers, NextImplied
<1>2. p.block_num \in Nat
  BY <1>1 DEF NumbersOK
<1>3. SchedulesOK(b)
  BY <1>2, BlockSchedules
<1> HIDE DEF p
<1>4. /\ b.block_num = p.block_num /\ b.dpos_proposed = p.dpos_proposed
      /\ b.dpos_irreversible = p.dpos_irreversible
      /\ b.confirm_count = p.confirm_count /\ b.implied_irb = p.implied_irb
  BY DEF NextBlock
<1> HIDE DEF b
<1>5. NumbersOK(b) /\ ImpliedOK(b)
  BY <1>1, <1>4 DEF NumbersOK, ImpliedOK
<1>6. HeaderOK(b)
  BY <1>3, <1>5 DEF HeaderOK
<1> QED BY <1>6 DEF b, p

-----------------------------------------------------------------------------

\* What one node's producer plugin remembers.
MemoryOK(n, m) == "watermark" \in DOMAIN m /\ m.watermark \in [Produces[n] -> Nat]

\* The blocks are closed under predecessors.
TreeOK ==
    /\ IsFiniteSet(DOMAIN tree) /\ <<>> \in DOMAIN tree
    /\ \A id \in DOMAIN tree :
          /\ id \in Seq(Range(id))
          /\ \A i \in 0..Len(id) : SubSeq(id, 1, i) \in DOMAIN tree
          /\ HeaderOK(tree[id])

\* The inductive invariant.
NetworkInv ==
    /\ network \in Networks
    /\ TreeOK
    /\ DOMAIN head = Node /\ \A n \in Node : head[n] \in DOMAIN tree
    /\ DOMAIN memory = Node /\ \A n \in Node : MemoryOK(n, memory[n])

-----------------------------------------------------------------------------
(***************************************************************************)
(* The memory of the producer plugins.                                     *)
(***************************************************************************)

\* How many blocks a producer confirms is a number.
LEMMA ConfirmedNumber ==
    ASSUME NEW h, h.block_num \in Nat, NEW watermark \in Nat
    PROVE  BlocksToConfirm(h, watermark) \in Nat
BY NetworkAssumption DEF BlocksToConfirm

\* on_block leaves numbers as watermarks.
LEMMA OnBlockKeeps ==
    ASSUME NEW n, NEW m, MemoryOK(n, m), NEW s, s.block_num \in Nat
    PROVE  MemoryOK(n, OnBlock(n, m, s))
BY DEF MemoryOK, OnBlock

\* So does produce_block.
LEMMA SetWatermarkKeeps ==
    ASSUME NEW n, NEW m, MemoryOK(n, m), NEW s, s.block_num \in Nat
    PROVE  MemoryOK(n, SetWatermark(m, s))
<1>1. DOMAIN SetWatermark(m, s) = DOMAIN m
  BY DEF SetWatermark
<1>2. SetWatermark(m, s).watermark = [m.watermark EXCEPT ![s.producer] = s.block_num]
  BY DEF SetWatermark, MemoryOK
<1> QED BY <1>1, <1>2, ZenonT(30) DEF MemoryOK

\* And so do several blocks.  That the recursive function has a value is shown with the
\* least number of blocks for which it would have none.
LEMMA OnBlocksKeeps ==
    ASSUME NEW n, NEW m, MemoryOK(n, m), NEW blocks, Len(blocks) \in Nat,
           \A i \in 1..Len(blocks) : blocks[i].block_num \in Nat
    PROVE  MemoryOK(n, OnBlocks(n, m, blocks))
<1> DEFINE k == Len(blocks)
           Step(f, i) == IF i = 0 THEN m ELSE OnBlock(n, f[i - 1], blocks[i])
           Solves(f, j) == f = [i \in 0..j |-> Step(f, i)]
           Bad == {j \in 0..k : ~\E f : Solves(f, j)}
           after == CHOOSE f : f = [i \in 0..k |-> Step(f, i)]
<1>1. Bad = {}
  <2> SUFFICES ASSUME Bad # {} PROVE FALSE
    OBVIOUS
  <2>1. PICK j \in Bad : \A i \in Bad : j =< i
    <3>1. Bad \subseteq Nat
      OBVIOUS
    <3> HIDE DEF Bad
    <3> QED BY <3>1, LeastNumber, ZenonT(30)
  <2>2. CASE j = 0
    <3> DEFINE g == [i \in 0..0 |-> m]
    <3>1. Solves(g, 0)
      OBVIOUS
    <3> QED BY <2>1, <2>2, <3>1, ZenonT(30)
  <2>3. CASE j # 0
    <3>1. j - 1 \in 0..k /\ j - 1 \notin Bad /\ j \in 0..k
      <4>1. j \in Nat /\ k \in Nat /\ j =< k
        OBVIOUS
      <4> HIDE DEF Bad
      <4> QED BY <4>1, <2>1, <2>3
    <3>2. PICK f : Solves(f, j - 1)
      BY <3>1
    <3> DEFINE g == [i \in 0..j |-> IF i = j THEN OnBlock(n, f[j - 1], blocks[j]) ELSE f[i]]
    <3>3. \A i \in 0..(j - 1) : f[i] = Step(f, i)
      BY <3>2, ZenonT(30)
    <3>4. \A i \in 0..j : g[i] = Step(g, i)
      <4> SUFFICES ASSUME NEW i \in 0..j PROVE g[i] = Step(g, i)
        BY ZenonT(30)
      <4>1. CASE i = j
        BY <4>1, <2>3, <3>1
      <4>2. CASE i # j
        <5>1. i \in 0..(j - 1) /\ (i # 0 => i - 1 \in 0..j /\ i - 1 # j)
          BY <4>2, <3>1
        <5>2. Step(g, i) = Step(f, i)
          BY <5>1
        <5> QED BY <4>2, <5>1, <5>2, <3>3
      <4> QED BY <4>1, <4>2
    <3>5. Solves(g, j)
      <4>1. g = [i \in 0..j |-> g[i]]
        OBVIOUS
      <4> HIDE DEF g
      <4> QED BY <4>1, <3>4, ZenonT(30)
    <3> QED BY <2>1, <3>5, ZenonT(30)
  <2> QED BY <2>2, <2>3
<1>2. after = [i \in 0..k |-> Step(after, i)]
  <2>1. k \in 0..k
    OBVIOUS
  <2>2. \E f : Solves(f, k)
    BY <1>1, <2>1
  <2> HIDE DEF Step
  <2> QED BY <2>2, ZenonT(30)
<1>3. OnBlocks(n, m, blocks) = after[k]
  BY DEF OnBlocks
<1> HIDE DEF after
<1>4. \A i \in 0..k : after[i] = Step(after, i)
  BY <1>2
<1> DEFINE Wrong == {i \in 0..k : ~MemoryOK(n, after[i])}
<1>5. Wrong = {}
  <2> SUFFICES ASSUME Wrong # {} PROVE FALSE
    OBVIOUS
  <2>1. PICK j \in Wrong : \A i \in Wrong : j =< i
    <3>1. Wrong \subseteq Nat
      OBVIOUS
    <3> HIDE DEF Wrong
    <3> QED BY <3>1, LeastNumber
  <2>2. CASE j = 0
    BY <2>1, <2>2, <1>4
  <2>3. CASE j # 0
    <3>1. j - 1 \in 0..k /\ j - 1 \notin Wrong /\ j \in 1..k
      BY <2>1, <2>3
    <3>2. MemoryOK(n, after[j - 1]) /\ blocks[j].block_num \in Nat
      BY <3>1
    <3>3. after[j] = OnBlock(n, after[j - 1], blocks[j])
      BY <3>1, <2>3, <1>4
    <3> QED BY <3>2, <3>3, <2>1, OnBlockKeeps
  <2> QED BY <2>2, <2>3
<1> QED BY <1>3, <1>5

-----------------------------------------------------------------------------
(***************************************************************************)
(* The network.                                                            *)
(***************************************************************************)

\* Initially.
LEMMA NetworkInitial == Init => NetworkInv
<1> SUFFICES ASSUME Init PROVE NetworkInv
  OBVIOUS
<1> DEFINE g == GenesisState
<1>a. /\ g.block_num = 1 /\ g.dpos_proposed = 0 /\ g.dpos_irreversible = 0
      /\ g.confirm_count = <<>> /\ g.implied_irb = <<>>
  BY DEF GenesisState
<1>b. /\ g.active_schedule = [version |-> 0, producers |-> <<SystemAccount>>]
      /\ g.pending_schedule = [lib |-> 0, version |-> 0, producers |-> <<SystemAccount>>]
      /\ g.proposed_schedule = NoProposal
  BY DEF GenesisState
<1> HIDE DEF g
<1>1. NumbersOK(g)
  BY <1>a, HeaderAssumption DEF NumbersOK
<1>2. ImpliedOK(g)
  <2>1. DOMAIN g.implied_irb = {}
    BY <1>a
  <2> QED BY <2>1, FS_EmptySet, Zenon DEF ImpliedOK
<1>3. SchedulesOK(g)
  <2>1. ListOK(<<SystemAccount>>)
    BY DEF ListOK, MaxProducers
  <2>2. g.active_schedule.version = 0 /\ g.active_schedule.producers = <<SystemAccount>>
    BY <1>b
  <2>3. /\ DOMAIN g.pending_schedule = {"lib", "version", "producers"}
        /\ g.pending_schedule.version = 0 /\ g.pending_schedule.producers = <<SystemAccount>>
    BY <1>b
  <2>4. g.proposed_schedule.num = 0
    BY <1>b DEF NoProposal
  <2> QED BY <2>1, <2>2, <2>3, <2>4 DEF SchedulesOK
<1>4. TreeOK
  <2>1. DOMAIN tree = {<<>>} /\ tree[<<>>] = g
    BY DEF Init, g
  <2>2. IsFiniteSet({<<>>})
    BY FS_Singleton, ZenonT(30)
  <2>3. <<>> \in Seq(Range(<<>>)) /\ Len(<<>>) = 0
    OBVIOUS
  <2>4. \A i \in 0..0 : SubSeq(<<>>, 1, i) = <<>>
    OBVIOUS
  <2> QED BY <2>1, <2>2, <2>3, <2>4, <1>1, <1>2, <1>3 DEF TreeOK, HeaderOK
<1>5. DOMAIN head = Node /\ \A n \in Node : head[n] \in DOMAIN tree
  BY DEF Init
<1>6. DOMAIN memory = Node /\ \A n \in Node : MemoryOK(n, memory[n])
  BY DEF Init, MemoryOK, Fresh
<1> QED BY <1>4, <1>5, <1>6 DEF NetworkInv, Init

\* A sequence is one of its members.
LEMMA OwnMembers ==
    ASSUME NEW S, NEW f \in Seq(S)
    PROVE  f \in Seq(Range(f))
<1>1. DOMAIN f = 1..Len(f) /\ Len(f) \in Nat /\ f = [i \in 1..Len(f) |-> f[i]]
  OBVIOUS
<1>2. \A i \in 1..Len(f) : f[i] \in Range(f)
  BY <1>1 DEF Range
<1>3. f \in [1..Len(f) -> Range(f)]
  BY <1>1, <1>2
<1> QED BY <1>1, <1>3, FunctionIsSequence

\* What the steps that add a block have in common: the tree with a sound block on top of
\* one of its blocks.
LEMMA TreeGrows ==
    ASSUME TreeOK, NEW id \in DOMAIN tree, NEW x, NEW s, HeaderOK(s),
           tree' = Put(tree, Append(id, x), s)
    PROVE  TreeOK' /\ DOMAIN tree' = DOMAIN tree \cup {Append(id, x)}
<1> DEFINE next == Append(id, x)
           S == Range(id) \cup {x}
<1>1. DOMAIN tree' = DOMAIN tree \cup {next}
  BY DEF Put
<1>2. IsFiniteSet(DOMAIN tree') /\ <<>> \in DOMAIN tree'
  <2>1. IsFiniteSet(DOMAIN tree) /\ <<>> \in DOMAIN tree
    BY DEF TreeOK
  <2> HIDE DEF next
  <2> QED BY <2>1, <1>1, FS_AddElement
<1>3. \A i \in DOMAIN tree' : HeaderOK(tree'[i])
  BY <1>1 DEF Put, TreeOK
<1>4. id \in Seq(S) /\ \A i \in 0..Len(id) : SubSeq(id, 1, i) \in DOMAIN tree
  <2>1. id \in Seq(Range(id))
    BY DEF TreeOK
  <2>2. id \in Seq(S)
    BY <2>1
  <2> QED BY <2>2 DEF TreeOK
<1>5. next \in Seq(S) /\ Len(next) = Len(id) + 1 /\ Len(id) \in Nat
  BY <1>4
<1>6. next \in Seq(Range(next))
  <2> HIDE DEF next
  <2> QED BY <1>5, OwnMembers
<1>7. ASSUME NEW i \in 0..Len(next) PROVE SubSeq(next, 1, i) \in DOMAIN tree'
  <2>1. CASE i = Len(id) + 1
    <3>1. SubSeq(next, 1, i) = next
      BY <1>5, <2>1
    <3> QED BY <3>1, <1>1
  <2>2. CASE i # Len(id) + 1
    <3>1. i \in 0..Len(id)
      BY <1>5, <2>2
    <3>2. SubSeq(next, 1, i) = SubSeq(id, 1, i)
      BY <3>1, <1>4, <1>5
    <3> QED BY <3>1, <3>2, <1>1, <1>4, ZenonT(30)
  <2> QED BY <2>1, <2>2
<1>8. \A i \in DOMAIN tree : /\ i \in Seq(Range(i))
                             /\ \A j \in 0..Len(i) : SubSeq(i, 1, j) \in DOMAIN tree'
  BY <1>1 DEF TreeOK
<1> QED BY <1>1, <1>2, <1>3, <1>6, <1>7, <1>8, ZenonT(30) DEF TreeOK

\* The calls of a step are none or lists that can be proposed.
LEMMA CallsRight ==
    ASSUME NetworkInv, NEW call \in Proposable(network) \cup {NoCall}
    PROVE  CallOK(call)
<1>1. CASE call = NoCall
  BY <1>1 DEF CallOK
<1>2. CASE call # NoCall
  <2>1. call \in Proposable(network) /\ network \in Networks
    BY <1>2 DEF NetworkInv
  <2>2. DOMAIN call = 1..Len(call) /\ Len(call) \in 1..MaxProducers
    BY <2>1, NetworkAssumption
  <2>3. ListOK(call)
    <3> DEFINE l == Len(call)
    <3>1. DOMAIN call = 1..l /\ l \in 1..125
      BY <2>2, ZenonT(30) DEF MaxProducers
    <3> HIDE DEF l
    <3>2. l \in 0..125
      BY <3>1
    <3> QED BY <3>1, <3>2, ZenonT(30) DEF ListOK, MaxProducers, l
  <2>4. call # <<>>
    BY <2>2
  <2> QED BY <2>3, <2>4 DEF CallOK
<1> QED BY <1>1, <1>2

\* produce_block.
LEMMA ProduceKeeps ==
    ASSUME NetworkInv, NEW n \in Node, NEW call \in Schedules \cup {NoCall},
           ProduceBlock(n, call)
    PROVE  NetworkInv'
<1> DEFINE h == tree[head[n]]
           producer == ScheduledProducer(h, now)
           confirm == BlocksToConfirm(h, memory[n].watermark[producer])
           p == NextHeader(h, now, confirm)
           s == NextBlock(p, call)
           x == <<now, s.confirmed, call>>
<1>1. head[n] \in DOMAIN tree /\ HeaderOK(h) /\ TreeOK /\ MemoryOK(n, memory[n])
  BY DEF NetworkInv, TreeOK
<1>2. h.block_num \in Nat
  BY <1>1 DEF HeaderOK, NumbersOK
<1>3. confirm \in Nat
  <2>1. producer \in Produces[n]
    BY ZenonT(30) DEF ProduceBlock, MayProduce
  <2>2. memory[n].watermark[producer] \in Nat
    BY <2>1, <1>1 DEF MemoryOK
  <2> QED BY <1>2, <2>2, ConfirmedNumber, ZenonT(30)
<1>4. CallOK(call)
  <2>1. call \in Proposable(network) \cup {NoCall}
    BY DEF Proposable, Schedules
  <2> QED BY <2>1, CallsRight
<1>5. HeaderOK(s)
  BY <1>1, <1>3, <1>4, BlockSound, SMTT(30)
<1>6. /\ tree' = Put(tree, Append(head[n], x), s)
      /\ head' = [head EXCEPT ![n] = Append(head[n], x)]
      /\ memory' = [memory EXCEPT ![n] = SetWatermark(OnBlock(n, memory[n], s), s)]
      /\ network' = network
  BY ZenonT(30) DEF ProduceBlock, Pending
<1> HIDE DEF s, x
<1>7. TreeOK' /\ DOMAIN tree' = DOMAIN tree \cup {Append(head[n], x)}
  BY <1>1, <1>5, <1>6, TreeGrows, ZenonT(30)
<1>8. s.block_num \in Nat
  BY <1>5 DEF HeaderOK, NumbersOK
<1>9. MemoryOK(n, SetWatermark(OnBlock(n, memory[n], s), s))
  BY <1>1, <1>8, OnBlockKeeps, SetWatermarkKeeps, Zenon
<1>10. Node' = Node /\ Produces' = Produces
  BY <1>6, ZenonT(30) DEF Node, Produces
<1>11. DOMAIN memory' = Node' /\ \A k \in Node' : MemoryOK(k, memory[k])'
  BY <1>6, <1>9, <1>10, ZenonT(30) DEF NetworkInv, MemoryOK
<1>12. DOMAIN head' = Node' /\ \A k \in Node' : head'[k] \in DOMAIN tree'
  BY <1>6, <1>7, <1>10, ZenonT(30) DEF NetworkInv
<1> QED BY <1>6, <1>7, <1>11, <1>12, ZenonT(30) DEF NetworkInv

\* A block of the chain that all nodes start with.
LEMMA FirstKeeps ==
    ASSUME NetworkInv, ~Begun, NEW id \in Range(head),
           FirstBlock(id, FirstBlocks[Cardinality(DOMAIN tree)][1],
                      FirstBlocks[Cardinality(DOMAIN tree)][2])
    PROVE  NetworkInv'
<1> DEFINE slot == FirstBlocks[Cardinality(DOMAIN tree)][1]
           call == FirstBlocks[Cardinality(DOMAIN tree)][2]
           producer == ScheduledProducer(tree[id], slot)
           makers == {n \in Node : producer \in Produces[n]}
           marks == {memory[n].watermark[producer] : n \in makers}
           watermark == Max({0} \cup marks)
           s == NextBlock(NextHeader(tree[id], slot, BlocksToConfirm(tree[id], watermark)), call)
           x == <<slot, s.confirmed, call>>
<1>1. id \in DOMAIN tree /\ HeaderOK(tree[id]) /\ TreeOK
  BY ZenonT(30) DEF NetworkInv, TreeOK, Range
<1>2. tree[id].block_num \in Nat
  BY <1>1 DEF HeaderOK, NumbersOK
<1>3. watermark \in Nat
  <2>1. \A n \in makers : memory[n].watermark[producer] \in Nat
    BY DEF NetworkInv, MemoryOK
  <2>2. IsFiniteSet(makers)
    <3>1. IsFiniteSet(Node)
      BY NetworkAssumption, ZenonT(30) DEF NetworkInv, Node
    <3> QED BY <3>1, FS_Subset
  <2> DEFINE f == [n \in makers |-> memory[n].watermark[producer]]
  <2>3. f \in Surjection(makers, marks)
    BY ZenonT(30) DEF Surjection
  <2>4. IsFiniteSet({0} \cup marks)
    BY <2>2, <2>3, FS_Surjection, FS_Singleton, FS_Union, ZenonT(30)
  <2>5. {0} \cup marks \in SUBSET Nat /\ {0} \cup marks # {}
    BY <2>1
  <2> HIDE DEF marks
  <2> QED BY <2>4, <2>5, FiniteMax, ZenonT(30)
<1>4. CallOK(call)
  <2>1. Cardinality(DOMAIN tree) \in 1..Len(FirstBlocks)
    <3>1. Cardinality(DOMAIN tree) \in Nat /\ Cardinality(DOMAIN tree) # 0
      BY FS_CardinalityType, FS_EmptySet DEF NetworkInv, TreeOK
    <3>2. Len(FirstBlocks) \in Nat
      BY NetworkAssumption DEF NetworkInv, FirstBlocks
    <3> QED BY <3>1, <3>2 DEF Begun
  <2>2. call \in Proposable(network) \cup {NoCall}
    BY <2>1, ZenonT(30) DEF Proposable, FirstBlocks
  <2> QED BY <2>2, CallsRight
<1>5. HeaderOK(s)
  <2>1. BlocksToConfirm(tree[id], watermark) \in Nat
    BY <1>2, <1>3, ConfirmedNumber, SMTT(30)
  <2> QED BY <1>1, <1>4, <2>1, BlockSound, ZenonT(30)
<1>6. /\ tree' = Put(tree, Append(id, x), s)
      /\ head' = [n \in Node |-> Append(id, x)]
      /\ memory' = [n \in Node |->
                       IF n \in makers THEN SetWatermark(OnBlock(n, memory[n], s), s)
                                       ELSE OnBlock(n, memory[n], s)]
      /\ network' = network
  BY ZenonT(30) DEF FirstBlock
<1> HIDE DEF s, x
<1>7. TreeOK' /\ DOMAIN tree' = DOMAIN tree \cup {Append(id, x)}
  BY <1>1, <1>5, <1>6, TreeGrows, ZenonT(30)
<1>8. s.block_num \in Nat
  BY <1>5, ZenonT(30) DEF HeaderOK, NumbersOK
<1>9. \A n \in Node : /\ MemoryOK(n, OnBlock(n, memory[n], s))
                      /\ MemoryOK(n, SetWatermark(OnBlock(n, memory[n], s), s))
  BY <1>8, OnBlockKeeps, SetWatermarkKeeps, ZenonT(30) DEF NetworkInv
<1>10. Node' = Node /\ Produces' = Produces
  BY <1>6 DEF Node, Produces
<1> HIDE DEF makers
<1>11. DOMAIN memory' = Node' /\ \A k \in Node' : MemoryOK(k, memory[k])'
  BY <1>6, <1>9, <1>10, ZenonT(30) DEF MemoryOK
<1>12. DOMAIN head' = Node' /\ \A k \in Node' : head'[k] \in DOMAIN tree'
  BY <1>6, <1>7, <1>10
<1> QED BY <1>6, <1>7, <1>11, <1>12 DEF NetworkInv

\* A node receives a branch and switches to it.
LEMMA ReceiveKeeps ==
    ASSUME NetworkInv, NEW n \in Node, NEW id \in DOMAIN tree, Receive(n, id)
    PROVE  NetworkInv'
<1> DEFINE lengths == {i \in 0..Len(id) : OnBranchOf(SubSeq(id, 1, i), head[n])}
           common == Max(lengths)
           applied == [i \in 1..(Len(id) - common) |-> tree[SubSeq(id, 1, common + i)]]
<1>1. /\ head' = [head EXCEPT ![n] = id]
      /\ memory' = [memory EXCEPT ![n] = OnBlocks(n, memory[n], applied)]
      /\ tree' = tree /\ network' = network
  BY DEF Receive
<1>2. id \in Seq(Range(id)) /\ Len(id) \in Nat
      /\ \A i \in 0..Len(id) : SubSeq(id, 1, i) \in DOMAIN tree
  BY DEF NetworkInv, TreeOK
<1>3. common \in 0..Len(id)
  <2>1. 0 \in lengths
    <3>1. SubSeq(id, 1, 0) = <<>>
      BY <1>2
    <3>2. OnBranchOf(<<>>, head[n])
      <4>1. head[n] \in Seq(Range(head[n]))
        BY DEF NetworkInv, TreeOK
      <4> QED BY <4>1 DEF OnBranchOf
    <3>3. 0 \in 0..Len(id) /\ 0 \in Int
      BY <1>2
    <3>4. OnBranchOf(SubSeq(id, 1, 0), head[n])
      BY <3>1, <3>2, Zenon
    <3> QED BY <3>3, <3>4, Zenon
  <2>2. lengths \in SUBSET Nat /\ IsFiniteSet(lengths)
    <3>1. lengths \subseteq 0..Len(id)
      BY Zenon
    <3> HIDE DEF lengths
    <3>2. 0 \in Int /\ Len(id) \in Int /\ 0..Len(id) \subseteq Nat
      BY <1>2
    <3>3. IsFiniteSet(0..Len(id))
      BY <3>2, FS_Interval, Zenon
    <3> QED BY <3>1, <3>2, <3>3, FS_Subset, Zenon
  <2>3. Max(lengths) \in lengths
    BY <2>1, <2>2, FiniteMax
  <2> QED BY <2>3
<1> HIDE DEF common
<1>4. DOMAIN applied = 1..(Len(id) - common) /\ Len(id) - common \in Nat
  BY <1>2, <1>3
<1>5. Len(applied) = Len(id) - common
  BY <1>4
<1>6. \A i \in 1..Len(applied) : applied[i].block_num \in Nat
  <2> SUFFICES ASSUME NEW i \in 1..(Len(id) - common) PROVE applied[i].block_num \in Nat
    BY <1>5, ZenonT(30)
  <2>1. common + i \in 0..Len(id)
    BY <1>2, <1>3
  <2>2. SubSeq(id, 1, common + i) \in DOMAIN tree
    BY <1>2, <2>1
  <2>3. applied[i] = tree[SubSeq(id, 1, common + i)]
    OBVIOUS
  <2> QED BY <2>2, <2>3 DEF NetworkInv, TreeOK, HeaderOK, NumbersOK
<1> HIDE DEF applied
<1>7. MemoryOK(n, OnBlocks(n, memory[n], applied))
  BY <1>4, <1>5, <1>6, OnBlocksKeeps DEF NetworkInv
<1>8. Node' = Node /\ Produces' = Produces
  BY <1>1 DEF Node, Produces
<1>9. DOMAIN memory' = Node' /\ \A k \in Node' : MemoryOK(k, memory[k])'
  BY <1>1, <1>7, <1>8 DEF NetworkInv, MemoryOK
<1>10. DOMAIN head' = Node' /\ \A k \in Node' : head'[k] \in DOMAIN tree'
  BY <1>1, <1>8 DEF NetworkInv
<1>11. TreeOK'
  BY <1>1, ZenonT(30) DEF NetworkInv, TreeOK
<1> QED BY <1>1, <1>9, <1>10, <1>11 DEF NetworkInv

\* A restart.
LEMMA RestartKeeps ==
    ASSUME NetworkInv, NEW n \in Node, Restart(n)
    PROVE  NetworkInv'
<1>1. /\ memory' = [memory EXCEPT ![n] = Fresh(n, now)]
      /\ head' = head /\ tree' = tree /\ network' = network
  BY DEF Restart
<1>2. MemoryOK(n, Fresh(n, now))
  BY DEF MemoryOK, Fresh
<1>3. Node' = Node /\ Produces' = Produces
  BY <1>1 DEF Node, Produces
<1>4. DOMAIN memory' = Node' /\ \A k \in Node' : MemoryOK(k, memory[k])'
  BY <1>1, <1>2, <1>3 DEF NetworkInv, MemoryOK
<1>5. TreeOK'
  BY <1>1 DEF NetworkInv, TreeOK
<1> QED BY <1>1, <1>3, <1>4, <1>5 DEF NetworkInv

\* Every step keeps the invariant.
LEMMA NetworkStep == NetworkInv /\ [Next]_vars => NetworkInv'
<1> SUFFICES ASSUME NetworkInv, [Next]_vars PROVE NetworkInv'
  OBVIOUS
<1>1. ASSUME network' = network, tree' = tree, head' = head, memory' = memory
      PROVE  NetworkInv'
  BY <1>1 DEF NetworkInv, TreeOK, MemoryOK, Node, Produces
<1>2. CASE vars' = vars
  BY <1>1, <1>2 DEF vars
<1>3. CASE Tick
  BY <1>1, <1>3 DEF Tick
<1>4. CASE ~Begun /\ \E id \in Range(head) :
              FirstBlock(id, FirstBlocks[Cardinality(DOMAIN tree)][1],
                         FirstBlocks[Cardinality(DOMAIN tree)][2])
  BY <1>4, FirstKeeps
<1>5. CASE \E n \in Node, call \in Schedules \cup {NoCall} : ProduceBlock(n, call)
  BY <1>5, ProduceKeeps
<1>6. CASE \E n \in Node, id \in DOMAIN tree : Receive(n, id)
  BY <1>6, ReceiveKeeps
<1>7. CASE \E n \in Node : Restart(n)
  BY <1>7, RestartKeeps
<1> QED BY <1>2, <1>3, <1>4, <1>5, <1>6, <1>7 DEF Next

\* The invariant implies the property.
LEMMA InvHeadersSound == NetworkInv => HeadersSound
<1> SUFFICES ASSUME NetworkInv PROVE HeadersSound
  OBVIOUS
<1>1. \A id \in Range(head) : id \in DOMAIN tree /\ HeaderOK(tree[id])
  BY ZenonT(30) DEF NetworkInv, TreeOK, Range
<1>2. CountersInRange
  <2> SUFFICES ASSUME NEW id \in Range(head)
               PROVE  LET s == tree[id]
                      IN  /\ s.dpos_irreversible =< s.dpos_proposed
                          /\ s.dpos_irreversible < s.block_num
                          /\ s.dpos_proposed =< s.block_num
                          /\ Len(s.confirm_count) =< MaxTracked
                          /\ \A i \in DOMAIN s.confirm_count : s.confirm_count[i] \in 1..255
    BY ZenonT(30) DEF CountersInRange
  <2>1. NumbersOK(tree[id])
    BY <1>1 DEF HeaderOK
  <2>2. \A i \in DOMAIN tree[id].confirm_count : tree[id].confirm_count[i] \in 1..255
    <3>1. tree[id].confirm_count \in Seq(1..255)
      BY <2>1 DEF NumbersOK
    <3> QED BY <3>1, SequenceElements, ZenonT(30)
  <2> QED BY <2>1, <2>2, ZenonT(30) DEF NumbersOK
<1>3. AnnouncementsValid
  BY <1>1, AnnouncementRight DEF AnnouncementsValid
<1> QED BY <1>2, <1>3 DEF HeadersSound

\* The headers of every network are sound (HeadersSound): no confirmation counter of
\* block_header_state::next is decremented to zero and kept, no block says that it or a
\* block above what was proposed is irreversible, and no chain of blocks, with whatever
\* proposals of schedules, comes to a block after which start_block's assertion about the
\* version of the schedule it announces fails.
THEOREM NetworkHeadersSound == Spec => []HeadersSound
BY NetworkInitial, NetworkStep, InvHeadersSound, PTL DEF Spec
================================================================================
