-------------------------- MODULE CellVerifyProofs --------------------------
(***************************************************************************)
(* Lemmas about the operators of CellVerify, for a log of any length: what *)
(* the first and last positions of a set are, where a pair comes in        *)
(* pair_order, and when cell_replay_verify accepts.                        *)
(***************************************************************************)
EXTENDS CellVerify, SequenceTheorems, FiniteSetTheorems, WellFoundedInduction, TLAPS

\* A sequence that an element was appended to.
LEMMA Grown ==
  ASSUME NEW s, s \in Seq(ToSet(s)), NEW e, NEW t, t = Append(s, e)
  PROVE  /\ t \in Seq(ToSet(t))
         /\ Len(s) \in Nat /\ Len(t) = Len(s) + 1
         /\ \A i \in 1 .. Len(s) : t[i] = s[i]
         /\ t[Len(s) + 1] = e
<1> DEFINE S == ToSet(s) \cup {e}
<1>1. s \in Seq(S) /\ e \in S
  BY SeqMonotonic
<1>2. /\ t \in Seq(S) /\ Len(s) \in Nat /\ Len(t) = Len(s) + 1
      /\ \A i \in 1 .. Len(s) : t[i] = s[i]
      /\ t[Len(s) + 1] = e
  <2> HIDE DEF S
  <2> QED
    BY <1>1, AppendProperties, LenProperties
<1>3. t \in Seq(ToSet(t))
  <2> HIDE DEF S
  <2>1. ToSet(t) = Range(t)
    BY DEF ToSet, Range
  <2> QED
    BY <1>2, <2>1, SeqOfRange
<1> QED
  BY <1>2, <1>3

\* A set of numbers has a least one, and Min is it.
LEMMA HasMin ==
  ASSUME NEW T \in SUBSET Nat, T # {}
  PROVE  Min(T) \in T /\ \A y \in T : Min(T) <= y
<1>1. PICK x \in T : \A y \in T : ~(<<y, x>> \in OpToRel(<, Nat))
  BY NatLessThanWellFounded, WFMin
<1>2. \A y \in T : ~(y < x)
  BY <1>1 DEF OpToRel
<1>3. \E z \in T : \A y \in T : z <= y
  BY <1>2
<1> QED
  BY <1>3 DEF Min

\* A set of positions has a last one, and Max is it.
LEMMA HasMax ==
  ASSUME NEW n \in Nat, NEW T \in SUBSET (1 .. n), T # {}
  PROVE  Max(T) \in T /\ \A y \in T : y <= Max(T)
<1> DEFINE U == {n - x : x \in T}
<1>1. U \in SUBSET Nat /\ U # {}
  <2>1. \A x \in T : n - x \in Nat
    OBVIOUS
  <2>2. \A u \in U : u \in Nat
    BY <2>1
  <2> QED
    BY <2>2
<1>2. PICK u \in U : \A v \in U : u <= v
  BY <1>1, HasMin
<1>3. PICK z \in T : u = n - z
  BY <1>2
<1>4. \A y \in T : y <= z
  <2>1. ASSUME NEW y \in T PROVE y <= z
    <3>1. n - y \in U
      OBVIOUS
    <3> QED
      BY <1>2, <1>3, <3>1
  <2> QED
    BY <2>1
<1>5. \E w \in T : \A y \in T : w >= y
  BY <1>4
<1> QED
  BY <1>5 DEF Max

\* As many values as positions, if they differ.
LEMMA ImageCount ==
  ASSUME NEW f, NEW m \in Nat,
         \A i, j \in 1 .. m : f[i] = f[j] => i = j
  PROVE  Cardinality({f[i] : i \in 1 .. m}) = m
<1> DEFINE g == [i \in 1 .. m |-> f[i]]
           T == {f[i] : i \in 1 .. m}
<1>1. g \in Bijection(1 .. m, T)
  <2>1. g \in [1 .. m -> T]
    OBVIOUS
  <2>2. \A i, j \in 1 .. m : g[i] = g[j] => i = j
    OBVIOUS
  <2>3. \A t \in T : \E i \in 1 .. m : g[i] = t
    OBVIOUS
  <2> HIDE DEF g, T
  <2> QED
    BY <2>1, <2>2, <2>3 DEF Bijection, Injection, Surjection, IsInjective
<1>2. IsFiniteSet(1 .. m) /\ Cardinality(1 .. m) = m
  BY FS_Interval
<1>3. ExistsBijection(1 .. m, T)
  BY <1>1 DEF ExistsBijection
<1> HIDE DEF T
<1>4. Cardinality(T) = Cardinality(1 .. m)
  BY <1>2, <1>3, FS_Bijection
<1> QED
  BY <1>2, <1>4 DEF T

\* The pairs with a plan record, and the episodes with an oracle record.
LEMMA PlanPairsAt ==
  ASSUME NEW log
  PROVE  /\ \A p : p \in PlanPairs(log) <=> PlanAt(log, p) # {}
         /\ \A e : e \in ObsEpisodes(log) <=> ObsAt(log, e) # {}
  BY DEF PlanPairs, PlanAt, ObsEpisodes, ObsAt

\* First and last plan record of a pair that has one.
LEMMA PlanBounds ==
  ASSUME NEW log, Len(log) \in Nat, NEW p, PlanAt(log, p) # {}
  PROVE  /\ PlanFirst(log, p) \in PlanAt(log, p)
         /\ PlanLast(log, p) \in PlanAt(log, p)
         /\ \A i \in PlanAt(log, p) : PlanFirst(log, p) <= i /\ i <= PlanLast(log, p)
<1>1. PlanAt(log, p) \in SUBSET (1 .. Len(log)) /\ PlanAt(log, p) \in SUBSET Nat
  BY DEF PlanAt
<1>2. PlanFirst(log, p) \in PlanAt(log, p) /\ \A i \in PlanAt(log, p) : PlanFirst(log, p) <= i
  BY <1>1, HasMin DEF PlanFirst
<1>3. PlanLast(log, p) \in PlanAt(log, p) /\ \A i \in PlanAt(log, p) : i <= PlanLast(log, p)
  BY <1>1, HasMax DEF PlanLast
<1> QED
  BY <1>2, <1>3

\* First oracle record of an episode that has one, first outcome of a log.
LEMMA FirstBounds ==
  ASSUME NEW log, Len(log) \in Nat
  PROVE  /\ \A e : ObsAt(log, e) # {} =>
              /\ ObsFirst(log, e) \in ObsAt(log, e)
              /\ \A i \in ObsAt(log, e) : ObsFirst(log, e) <= i
         /\ OutcomeAt(log) # {} =>
              /\ FirstOutcome(log) \in OutcomeAt(log)
              /\ \A i \in OutcomeAt(log) : FirstOutcome(log) <= i
<1>1. \A e : ObsAt(log, e) \in SUBSET Nat
  BY DEF ObsAt
<1>2. OutcomeAt(log) \in SUBSET Nat
  BY DEF OutcomeAt
<1> QED
  BY <1>1, <1>2, HasMin DEF ObsFirst, FirstOutcome

\* The pairs with a plan record are order[1] to order[n], and their first plan
\* records come in that order.
PlannedAs(log, order, n) ==
  /\ \A i, j \in 1 .. n : order[i] = order[j] => i = j
  /\ PlanPairs(log) = {order[i] : i \in 1 .. n}
  /\ \A i, j \in 1 .. n : i < j => PlanFirst(log, order[i]) < PlanFirst(log, order[j])

\* So do the pairs in pair_order.
LEMMA IndexInOrder ==
  ASSUME NEW log, Len(log) \in Nat, NEW order, NEW n \in Nat, PlannedAs(log, order, n)
  PROVE  /\ \A k \in 1 .. n : PairIndex(log, order[k]) = k - 1
         /\ Cardinality(PlanPairs(log)) = n
<1> USE DEF PlannedAs
<1>1. ASSUME NEW k \in 1 .. n
      PROVE  PairIndex(log, order[k]) = k - 1
  <2>1. \A i \in 1 .. n : PlanFirst(log, order[i]) \in Nat
    <3>1. ASSUME NEW i \in 1 .. n PROVE PlanFirst(log, order[i]) \in Nat
      <4>1. PlanAt(log, order[i]) # {}
        BY PlanPairsAt
      <4>2. PlanFirst(log, order[i]) \in PlanAt(log, order[i])
        BY <4>1, PlanBounds
      <4> QED
        BY <4>2 DEF PlanAt
    <3> QED
      BY <3>1
  <2>2. \A i \in 1 .. n : PlanFirst(log, order[i]) < PlanFirst(log, order[k]) <=> i < k
    BY <2>1
  <2>3. {q \in PlanPairs(log) : PlanFirst(log, q) < PlanFirst(log, order[k])}
          = {order[i] : i \in 1 .. k - 1}
    BY <2>2
  <2>4. k - 1 \in Nat /\ \A i, j \in 1 .. k - 1 : order[i] = order[j] => i = j
    OBVIOUS
  <2> QED
    BY <2>3, <2>4, ImageCount DEF PairIndex
<1> QED
  BY <1>1, ImageCount

\* A live chain is accepted if the plans of the pair an episode id stands for
\* all come before its oracle records.
LEMMA LiveAcceptsWhen ==
  ASSUME NEW log, Len(log) \in Nat, NEW order, NEW n \in Nat, PlannedAs(log, order, n)
  PROVE  LiveAccepts(log) <=>
           \A e \in ObsEpisodes(log) : \E k \in 1 .. n :
             /\ k - 1 = e \div 2
             /\ \A i \in PlanAt(log, order[k]), j \in ObsAt(log, e) : i < j
<1>1. ASSUME NEW e \in ObsEpisodes(log), NEW k \in 1 .. n
      PROVE  PlanLast(log, order[k]) < ObsFirst(log, e) <=>
               \A i \in PlanAt(log, order[k]), j \in ObsAt(log, e) : i < j
  <2>1. PlanAt(log, order[k]) # {} /\ ObsAt(log, e) # {}
    BY PlanPairsAt DEF PlannedAs
  <2>2. /\ PlanLast(log, order[k]) \in PlanAt(log, order[k])
        /\ \A i \in PlanAt(log, order[k]) : i <= PlanLast(log, order[k])
        /\ ObsFirst(log, e) \in ObsAt(log, e)
        /\ \A j \in ObsAt(log, e) : ObsFirst(log, e) <= j
    BY <2>1, PlanBounds, FirstBounds
  <2>3. PlanAt(log, order[k]) \subseteq Nat /\ ObsAt(log, e) \subseteq Nat
    BY DEF PlanAt, ObsAt
  <2> QED
    BY <2>2, <2>3
<1>2. \A k \in 1 .. n : PairIndex(log, order[k]) = k - 1
  BY IndexInOrder
<1>3. PlanPairs(log) = {order[k] : k \in 1 .. n}
  BY DEF PlannedAs
<1>4. ASSUME NEW e \in ObsEpisodes(log)
      PROVE  (\E p \in PlanPairs(log) :
                PairIndex(log, p) = e \div 2 /\ PlanLast(log, p) < ObsFirst(log, e))
             <=> \E k \in 1 .. n :
                   /\ k - 1 = e \div 2
                   /\ \A i \in PlanAt(log, order[k]), j \in ObsAt(log, e) : i < j
  <2>1. (\E p \in PlanPairs(log) :
           PairIndex(log, p) = e \div 2 /\ PlanLast(log, p) < ObsFirst(log, e))
        <=> \E k \in 1 .. n :
              PairIndex(log, order[k]) = e \div 2 /\ PlanLast(log, order[k]) < ObsFirst(log, e)
    BY <1>3, Zenon
  <2> QED
    BY <1>1, <1>2, <2>1
<1> QED
  BY <1>4 DEF LiveAccepts

\* A scripted chain is accepted if the plans of the first pair come before the
\* first outcome.
LEMMA ScriptedAcceptsWhen ==
  ASSUME NEW log, Len(log) \in Nat, NEW order, NEW n \in Nat, PlannedAs(log, order, n),
         OutcomeAt(log) # {} =>
           n > 0 /\ \A i \in PlanAt(log, order[1]), j \in OutcomeAt(log) : i < j
  PROVE  ScriptedAccepts(log)
<1> SUFFICES ASSUME OutcomeAt(log) # {}
             PROVE  ScriptedAccepts(log)
  BY DEF ScriptedAccepts
<1>1. 1 \in 1 .. n /\ order[1] \in PlanPairs(log)
  BY DEF PlannedAs
<1>2. PlanLast(log, order[1]) < FirstOutcome(log)
  <2>1. PlanAt(log, order[1]) # {}
    BY <1>1, PlanPairsAt
  <2> QED
    BY <2>1, PlanBounds, FirstBounds
<1>3. PairIndex(log, order[1]) = 0
  BY <1>1, IndexInOrder
<1>4. ASSUME NEW p \in PlanPairs(log), PairIndex(log, p) = 0
      PROVE  p = order[1]
  <2>1. PICK k \in 1 .. n : p = order[k]
    BY DEF PlannedAs
  <2> QED
    BY <1>4, <2>1, IndexInOrder
<1> QED
  BY <1>1, <1>2, <1>3, <1>4 DEF ScriptedAccepts
=============================================================================
