--------------------------- MODULE CellAuditProofs ---------------------------
(***************************************************************************)
(* Proofs about CellAudit: what cell_replay_verify establishes on live     *)
(* chains of any length, of any number of pairs, with plans, oracle        *)
(* records and serve events in any order.                                  *)
(***************************************************************************)
EXTENDS CellAudit, CellVerifyProofs

\* A record is what its writer's pair makes it.
RecordInv ==
  \A i \in 1 .. Len(log) :
    /\ log[i].tag = "STATE" => log[i].pair = owner[i]
    /\ log[i].tag = "OBS" =>
         log[i].ep \in 0 .. 2 * Len(PairSeq) - 1 /\ owner[i] = PairSeq[log[i].ep \div 2 + 1]

\* A pair has one plan record per regime.
OnePlanEach ==
  \A i, j \in 1 .. Len(log) :
    /\ log[i].tag = "STATE" /\ log[j].tag = "STATE"
    /\ log[i].pair = log[j].pair /\ log[i].regime = log[j].regime
    => i = j

\* The pairs with a plan are the first ones of the cell, in its order.
OrderInv == \E n \in 0 .. Len(PairSeq) : PlannedAs(log, PairSeq, n)

TypeInv == log \in Seq(ToSet(log)) /\ owner \in Seq(ToSet(owner)) /\ Len(owner) = Len(log)

\* The inductive invariant.
IInv ==
  /\ TypeInv /\ RecordInv /\ OnePlanEach /\ OrderInv
  /\ \A i \in 1 .. Len(log) : log[i].tag = "STATE" => log[i].regime \in Regimes
-----------------------------------------------------------------------------
\* A sequence that another one was appended to.
LEMMA Joined ==
  ASSUME NEW s, s \in Seq(ToSet(s)), NEW u, u \in Seq(ToSet(u)), NEW t, t = s \o u
  PROVE  /\ t \in Seq(ToSet(t))
         /\ Len(s) \in Nat /\ Len(u) \in Nat /\ Len(t) = Len(s) + Len(u)
         /\ \A i \in 1 .. Len(s) : t[i] = s[i]
         /\ \A i \in 1 .. Len(u) : t[Len(s) + i] = u[i]
<1> DEFINE S == ToSet(s) \cup ToSet(u)
<1>1. s \in Seq(S) /\ u \in Seq(S)
  BY SeqMonotonic
<1> HIDE DEF S
<1>2. /\ t \in Seq(S) /\ Len(s) \in Nat /\ Len(u) \in Nat /\ Len(t) = Len(s) + Len(u)
      /\ \A i \in 1 .. Len(s) : t[i] = s[i]
      /\ \A i \in 1 .. Len(u) : t[Len(s) + i] = u[i]
  <2>1. /\ t \in Seq(S) /\ Len(s) \in Nat /\ Len(u) \in Nat /\ Len(t) = Len(s) + Len(u)
    BY <1>1, ConcatProperties, LenProperties
  <2>2. \A i \in 1 .. Len(s) + Len(u) : t[i] = IF i <= Len(s) THEN s[i] ELSE u[i - Len(s)]
    BY <1>1, ConcatProperties
  <2>3. \A i \in 1 .. Len(u) : t[Len(s) + i] = u[i]
    <3>1. ASSUME NEW i \in 1 .. Len(u) PROVE t[Len(s) + i] = u[i]
      <4>1. /\ Len(s) + i \in 1 .. Len(s) + Len(u) /\ ~(Len(s) + i <= Len(s))
            /\ (Len(s) + i) - Len(s) = i
        BY <2>1
      <4> QED
        BY <2>2, <4>1
    <3> QED
      BY <3>1
  <2> QED
    BY <2>1, <2>2, <2>3
<1>3. t \in Seq(ToSet(t))
  <2>1. ToSet(t) = Range(t)
    BY DEF ToSet, Range
  <2> QED
    BY <1>2, <2>1, SeqOfRange
<1> QED
  BY <1>2, <1>3

\* A function on 1 .. n is a sequence of its values.
LEMMA ListOf ==
  ASSUME NEW n \in Nat, NEW F, F = [i \in 1 .. n |-> F[i]]
  PROVE  F \in Seq(ToSet(F)) /\ Len(F) = n
<1> DEFINE S == {F[i] : i \in 1 .. n}
<1>1. \A i \in 1 .. n : F[i] \in S
  OBVIOUS
<1> HIDE DEF S
<1>2. F \in Seq(S) /\ Len(F) = n
  BY <1>1, IsASeq
<1>3. ToSet(F) = Range(F)
  BY DEF ToSet, Range
<1> QED
  BY <1>2, <1>3, SeqOfRange

\* What the chain is after records of p were added.
LEMMA Grows ==
  ASSUME TypeInv, NEW p, NEW m \in Nat, NEW recs, recs = [i \in 1 .. m |-> recs[i]],
         Grow(p, recs)
  PROVE  /\ TypeInv'
         /\ Len(log) \in Nat /\ Len(log') = Len(log) + m
         /\ \A i \in 1 .. Len(log) : log'[i] = log[i] /\ owner'[i] = owner[i]
         /\ \A i \in 1 .. m : log'[Len(log) + i] = recs[i] /\ owner'[Len(log) + i] = p
<1> DEFINE ps == [i \in 1 .. m |-> p]
<1>1. recs \in Seq(ToSet(recs)) /\ Len(recs) = m
  BY ListOf
<1>2. ps \in Seq(ToSet(ps)) /\ Len(ps) = m /\ \A i \in 1 .. m : ps[i] = p
  <2>1. ps = [i \in 1 .. m |-> ps[i]]
    OBVIOUS
  <2> QED
    BY <2>1, ListOf
<1>3. log' = log \o recs /\ owner' = owner \o ps
  BY <1>1 DEF Grow
<1> HIDE DEF ps
<1>4. ASSUME NEW t, t = log \o recs
      PROVE  /\ t \in Seq(ToSet(t)) /\ Len(log) \in Nat /\ Len(t) = Len(log) + m
             /\ \A i \in 1 .. Len(log) : t[i] = log[i]
             /\ \A i \in 1 .. m : t[Len(log) + i] = recs[i]
  <2>1. t \in Seq(ToSet(t)) /\ Len(log) \in Nat /\ Len(t) = Len(log) + m
    BY <1>1, <1>4, Joined DEF TypeInv
  <2>2. \A i \in 1 .. Len(log) : t[i] = log[i]
    BY <1>1, <1>4, Joined DEF TypeInv
  <2>3. \A i \in 1 .. m : t[Len(log) + i] = recs[i]
    BY <1>1, <1>4, Joined DEF TypeInv
  <2> QED
    BY <2>1, <2>2, <2>3
<1>5. ASSUME NEW t, t = owner \o ps
      PROVE  /\ t \in Seq(ToSet(t)) /\ Len(t) = Len(owner) + m
             /\ \A i \in 1 .. Len(owner) : t[i] = owner[i]
             /\ \A i \in 1 .. m : t[Len(owner) + i] = ps[i]
  <2>1. t \in Seq(ToSet(t)) /\ Len(t) = Len(owner) + m
    BY <1>2, <1>5, Joined DEF TypeInv
  <2>2. \A i \in 1 .. Len(owner) : t[i] = owner[i]
    BY <1>2, <1>5, Joined DEF TypeInv
  <2>3. \A i \in 1 .. m : t[Len(owner) + i] = ps[i]
    BY <1>2, <1>5, Joined DEF TypeInv
  <2> QED
    BY <2>1, <2>2, <2>3
<1>6. Len(owner) = Len(log)
  BY DEF TypeInv
<1>7. TypeInv'
  BY <1>3, <1>4, <1>5, <1>6 DEF TypeInv
<1>8. \A i \in 1 .. Len(log) : log'[i] = log[i] /\ owner'[i] = owner[i]
  BY <1>3, <1>4, <1>5, <1>6
<1>9. \A i \in 1 .. m : log'[Len(log) + i] = recs[i] /\ owner'[Len(log) + i] = p
  <2>1. \A i \in 1 .. m : log'[Len(log) + i] = recs[i]
    BY <1>3, <1>4
  <2>2. \A i \in 1 .. m : owner'[Len(owner) + i] = ps[i]
    BY <1>3, <1>5
  <2>3. \A i \in 1 .. m : ps[i] = p
    BY DEF ps
  <2> QED
    BY <1>6, <2>1, <2>2, <2>3
<1> QED
  BY <1>3, <1>4, <1>7, <1>8, <1>9
-----------------------------------------------------------------------------
\* Records that are added leave the first plan record of a pair where it is.
LEMMA FirstStays ==
  ASSUME NEW lg, NEW lh, Len(lg) \in Nat, Len(lh) \in Nat, Len(lg) <= Len(lh),
         \A i \in 1 .. Len(lg) : lh[i] = lg[i]
  PROVE  \A p \in PlanPairs(lg) :
           /\ p \in PlanPairs(lh)
           /\ PlanFirst(lh, p) = PlanFirst(lg, p)
           /\ PlanFirst(lg, p) \in 1 .. Len(lg)
<1> SUFFICES ASSUME NEW p \in PlanPairs(lg)
             PROVE  /\ p \in PlanPairs(lh)
                    /\ PlanFirst(lh, p) = PlanFirst(lg, p)
                    /\ PlanFirst(lg, p) \in 1 .. Len(lg)
  OBVIOUS
<1>1. \A i \in 1 .. Len(lg) : i \in PlanAt(lh, p) <=> i \in PlanAt(lg, p)
  BY DEF PlanAt
<1>2. /\ PlanFirst(lg, p) \in PlanAt(lg, p)
      /\ \A i \in PlanAt(lg, p) : PlanFirst(lg, p) <= i
  BY PlanPairsAt, PlanBounds
<1>3. PlanFirst(lg, p) \in 1 .. Len(lg)
  BY <1>2 DEF PlanAt
<1>4. PlanFirst(lg, p) \in PlanAt(lh, p)
  BY <1>1, <1>2, <1>3
<1>5. /\ PlanFirst(lh, p) \in PlanAt(lh, p)
      /\ \A i \in PlanAt(lh, p) : PlanFirst(lh, p) <= i
  BY <1>4, PlanBounds
<1>6. PlanFirst(lh, p) \in Nat /\ 1 <= PlanFirst(lh, p)
  BY <1>5 DEF PlanAt
<1>7. PlanFirst(lh, p) <= PlanFirst(lg, p)
  BY <1>4, <1>5
<1>8. PlanFirst(lh, p) \in PlanAt(lg, p)
  BY <1>1, <1>3, <1>5, <1>6, <1>7
<1>9. PlanFirst(lh, p) = PlanFirst(lg, p)
  BY <1>2, <1>3, <1>6, <1>7, <1>8
<1> QED
  BY <1>3, <1>4, <1>9, PlanPairsAt

\* Positions of a longer chain are old ones or new ones.
LEMMA OldOrNew ==
  ASSUME NEW n \in Nat, NEW m \in Nat, NEW i \in 1 .. n + m
  PROVE  i \in 1 .. n \/ \E j \in 1 .. m : i = n + j
<1>1. CASE i <= n
  BY <1>1
<1>2. CASE ~(i <= n)
  <2>1. i - n \in 1 .. m /\ i = n + (i - n)
    BY <1>2
  <2> QED
    BY <2>1
<1> QED
  BY <1>1, <1>2

\* Halves.
LEMMA HalfOf ==
  ASSUME NEW n \in Nat, NEW e \in 0 .. 2 * n - 1
  PROVE  e \div 2 + 1 \in 1 .. n
  BY SMTT(30)

\* An outcome is added.
LEMMA OutcomeStep ==
  ASSUME IInv, NEW p, NEW rec, rec.tag # "STATE", Grow(p, <<rec>>),
         rec.tag = "OBS" =>
           rec.ep \in 0 .. 2 * Len(PairSeq) - 1 /\ p = PairSeq[rec.ep \div 2 + 1]
  PROVE  IInv'
<1> USE DEF IInv
<1> DEFINE n == Len(log) + 1
<1>1. /\ TypeInv' /\ Len(log) \in Nat /\ Len(log') = n
      /\ \A i \in 1 .. Len(log) : log'[i] = log[i] /\ owner'[i] = owner[i]
      /\ log'[n] = rec /\ owner'[n] = p
  <2> DEFINE recs == <<rec>>
  <2>1. recs = [i \in 1 .. 1 |-> recs[i]] /\ recs[1] = rec
    OBVIOUS
  <2>2. Grow(p, recs)
    OBVIOUS
  <2> HIDE DEF recs
  <2>3. /\ TypeInv' /\ Len(log) \in Nat /\ Len(log') = Len(log) + 1
        /\ \A i \in 1 .. Len(log) : log'[i] = log[i] /\ owner'[i] = owner[i]
    BY <2>1, <2>2, Grows
  <2>4. \A i \in 1 .. 1 : log'[Len(log) + i] = recs[i] /\ owner'[Len(log) + i] = p
    BY <2>1, <2>2, Grows
  <2> QED
    BY <2>1, <2>3, <2>4
<1>2. \A i \in 1 .. n : i \in 1 .. Len(log) \/ i = n
  BY <1>1
<1> HIDE DEF n
<1>3. RecordInv' /\ \A i \in 1 .. n : log'[i].tag = "STATE" => log'[i].regime \in Regimes
  BY <1>1, <1>2 DEF RecordInv
<1>4. OnePlanEach'
  BY <1>1, <1>2 DEF OnePlanEach
<1>5. PlanPairs(log') = PlanPairs(log)
  BY <1>1, <1>2 DEF PlanPairs, n
<1>6. \A q \in PlanPairs(log) : PlanFirst(log', q) = PlanFirst(log, q)
  BY <1>1, FirstStays DEF n
<1>7. OrderInv'
  <2>1. PICK m \in 0 .. Len(PairSeq) : PlannedAs(log, PairSeq, m)
    BY DEF OrderInv
  <2>2. \A i \in 1 .. m : PlanFirst(log', PairSeq[i]) = PlanFirst(log, PairSeq[i])
    BY <1>6, <2>1 DEF PlannedAs
  <2>3. PlannedAs(log', PairSeq, m)
    BY <1>5, <2>1, <2>2 DEF PlannedAs
  <2> QED
    BY <2>3 DEF OrderInv
<1> QED
  BY <1>1, <1>3, <1>4, <1>7

\* Plan records are added.
LEMMA PlanStep ==
  ASSUME IInv, AddPlan
  PROVE  IInv'
<1> USE DEF IInv
<1>1. PICK k \in 1 .. Len(PairSeq), g \in PlanGroups :
        /\ k > 1 => PairSeq[k - 1] \in PlanPairs(log)
        /\ \A i \in PlanAt(log, PairSeq[k]) : log[i].regime \notin ToSet(g)
        /\ Grow(PairSeq[k],
             [i \in 1 .. Len(g) |-> [tag |-> "STATE", pair |-> PairSeq[k], regime |-> g[i]]])
  BY DEF AddPlan
<1> DEFINE p == PairSeq[k]
           m == Len(g)
           recs == [i \in 1 .. m |-> [tag |-> "STATE", pair |-> p, regime |-> g[i]]]
           n == Len(log)
<1>2. /\ g \in Seq(Regimes) /\ m \in Nat
      /\ \A i, j \in 1 .. m : g[i] = g[j] => i = j
  BY AuditAssumption, LenProperties DEF IsInjective
<1>3. \A i \in 1 .. m : g[i] \in Regimes /\ g[i] \in ToSet(g)
  BY <1>2, ElementOfSeq DEF ToSet
<1>4. /\ TypeInv' /\ n \in Nat /\ Len(log') = n + m
      /\ \A i \in 1 .. n : log'[i] = log[i] /\ owner'[i] = owner[i]
      /\ \A i \in 1 .. m : log'[n + i] = recs[i] /\ owner'[n + i] = p
  <2>1. recs = [i \in 1 .. m |-> recs[i]]
    OBVIOUS
  <2>2. Grow(p, recs)
    BY <1>1
  <2> HIDE DEF recs, p, m
  <2> QED
    BY <1>2, <2>1, <2>2, Grows DEF n
<1>5. \A i \in 1 .. m :
        /\ log'[n + i].tag = "STATE" /\ log'[n + i].pair = p /\ log'[n + i].regime = g[i]
        /\ owner'[n + i] = p
  <2>1. \A i \in 1 .. m : recs[i] = [tag |-> "STATE", pair |-> p, regime |-> g[i]]
    OBVIOUS
  <2> HIDE DEF recs, p, m, n
  <2>2. ASSUME NEW i \in 1 .. m
        PROVE  /\ log'[n + i].tag = "STATE" /\ log'[n + i].pair = p
               /\ log'[n + i].regime = g[i] /\ owner'[n + i] = p
    <3>1. log'[n + i] = recs[i] /\ owner'[n + i] = p
      BY <1>4
    <3>2. recs[i] = [tag |-> "STATE", pair |-> p, regime |-> g[i]]
      BY <2>1
    <3> QED
      BY <3>1, <3>2
  <2> QED
    BY <2>2
<1>6. /\ k \in 1 .. Len(PairSeq) /\ Len(PairSeq) \in Nat
      /\ \A i, j \in 1 .. Len(PairSeq) : PairSeq[i] = PairSeq[j] => i = j
  BY AuditAssumption, LenProperties DEF IsInjective
<1>7. \A i \in PlanAt(log, p) : \A j \in 1 .. m : log[i].regime # g[j]
  BY <1>1, <1>3
<1> HIDE DEF p, m, recs, n
<1>8. \A i \in 1 .. n + m : i \in 1 .. n \/ \E j \in 1 .. m : i = n + j
  BY <1>2, <1>4, OldOrNew
<1>9. RecordInv' /\ \A i \in 1 .. Len(log') : log'[i].tag = "STATE" => log'[i].regime \in Regimes
  <2>1. ASSUME NEW i \in 1 .. n + m
        PROVE  /\ log'[i].tag = "STATE" => log'[i].pair = owner'[i] /\ log'[i].regime \in Regimes
               /\ log'[i].tag = "OBS" => /\ log'[i].ep \in 0 .. 2 * Len(PairSeq) - 1
                                         /\ owner'[i] = PairSeq[log'[i].ep \div 2 + 1]
    <3>1. CASE i \in 1 .. n
      BY <1>4, <3>1 DEF RecordInv, n
    <3>2. ASSUME NEW j \in 1 .. m, i = n + j
          PROVE  /\ log'[i].tag = "STATE" /\ log'[i].pair = owner'[i]
                 /\ log'[i].regime \in Regimes
      BY <1>3, <1>5, <3>2 DEF m
    <3> QED
      BY <1>8, <3>1, <3>2
  <2> QED
    BY <1>4, <2>1 DEF RecordInv
<1>10. OnePlanEach'
  <2>1. ASSUME NEW i \in 1 .. n, NEW j \in 1 .. m,
               log'[i].tag = "STATE", log'[i].pair = p
        PROVE  log'[i].regime # g[j]
    <3>1. i \in PlanAt(log, p) /\ log'[i] = log[i]
      BY <1>4, <2>1 DEF PlanAt, n
    <3> QED
      BY <1>7, <3>1
  <2>2. ASSUME NEW i \in 1 .. n + m, NEW j \in 1 .. n + m,
               log'[i].tag = "STATE", log'[j].tag = "STATE",
               log'[i].pair = log'[j].pair, log'[i].regime = log'[j].regime
        PROVE  i = j
    <3>1. CASE i \in 1 .. n /\ j \in 1 .. n
      BY <1>4, <2>2, <3>1 DEF OnePlanEach, n
    <3>2. ~(i \in 1 .. n /\ j \notin 1 .. n)
      BY <1>5, <1>8, <2>1, <2>2
    <3>3. ~(j \in 1 .. n /\ i \notin 1 .. n)
      BY <1>5, <1>8, <2>1, <2>2
    <3>4. CASE i \notin 1 .. n /\ j \notin 1 .. n
      <4>1. PICK a \in 1 .. m : i = n + a
        BY <1>8, <3>4
      <4>2. PICK b \in 1 .. m : j = n + b
        BY <1>8, <3>4
      <4>3. g[a] = g[b]
        BY <1>5, <2>2, <4>1, <4>2
      <4> QED
        BY <1>2, <4>1, <4>2, <4>3 DEF m
    <3> QED
      BY <3>1, <3>2, <3>3, <3>4
  <2> QED
    BY <1>4, <2>2 DEF OnePlanEach
<1>11. \A q \in PlanPairs(log) :
         /\ q \in PlanPairs(log') /\ PlanFirst(log', q) = PlanFirst(log, q)
         /\ PlanFirst(log, q) \in 1 .. n
  <2>1. /\ Len(log) \in Nat /\ Len(log') \in Nat /\ Len(log) <= Len(log')
        /\ \A i \in 1 .. Len(log) : log'[i] = log[i]
    BY <1>2, <1>4 DEF n, m
  <2> QED
    BY <2>1, FirstStays DEF n
<1>12. \A q \in PlanPairs(log') : q \in PlanPairs(log) \/ (q = p /\ m > 0)
  <2>1. ASSUME NEW i \in 1 .. n + m, log'[i].tag = "STATE"
        PROVE  log'[i].pair \in PlanPairs(log) \/ (log'[i].pair = p /\ m > 0)
    <3>1. CASE i \in 1 .. n
      BY <1>4, <2>1, <3>1 DEF PlanPairs, n
    <3>2. CASE i \notin 1 .. n
      <4>1. PICK j \in 1 .. m : i = n + j
        BY <1>8, <3>2
      <4> QED
        BY <1>2, <1>5, <4>1 DEF m
    <3> QED
      BY <3>1, <3>2
  <2> QED
    BY <1>4, <2>1 DEF PlanPairs
<1>13. OrderInv'
  <2>1. PICK c \in 0 .. Len(PairSeq) : PlannedAs(log, PairSeq, c)
    BY DEF OrderInv
  <2>2. \A i \in 1 .. c : /\ PairSeq[i] \in PlanPairs(log)
                          /\ PlanFirst(log', PairSeq[i]) = PlanFirst(log, PairSeq[i])
                          /\ PlanFirst(log, PairSeq[i]) \in 1 .. n
    BY <1>11, <2>1 DEF PlannedAs
  <2>3. CASE PlanPairs(log') = PlanPairs(log)
    <3>1. PlannedAs(log', PairSeq, c)
      BY <2>1, <2>2, <2>3 DEF PlannedAs
    <3> QED
      BY <2>1, <3>1 DEF OrderInv
  <2>4. CASE PlanPairs(log') # PlanPairs(log)
    <3>1. /\ p \notin PlanPairs(log) /\ m > 0
          /\ PlanPairs(log') \subseteq PlanPairs(log) \cup {p}
      BY <1>11, <1>12, <2>4
    <3>2. k = c + 1
      <4>1. k \notin 1 .. c
        BY <2>2, <3>1 DEF p
      <4>2. k > 1 => k - 1 \in 1 .. c
        <5>1. ASSUME k > 1 PROVE k - 1 \in 1 .. c
          <6>1. PICK i \in 1 .. c : PairSeq[i] = PairSeq[k - 1]
            BY <1>1, <2>1, <5>1 DEF PlannedAs
          <6>2. i \in 1 .. Len(PairSeq) /\ k - 1 \in 1 .. Len(PairSeq)
            BY <1>6, <2>1, <5>1
          <6> QED
            BY <1>6, <6>1, <6>2
        <5> QED
          BY <5>1
      <4> QED
        BY <1>6, <2>1, <4>1, <4>2
    <3>3. c + 1 \in 0 .. Len(PairSeq) /\ c \in Nat
      BY <1>6, <2>1, <3>2
    <3>4. p \in PlanPairs(log') /\ PlanFirst(log', p) \in Nat /\ PlanFirst(log', p) > n
      <4>1. n + 1 \in PlanAt(log', p)
        <5>1. 1 \in 1 .. m /\ n + 1 \in 1 .. Len(log')
          BY <1>2, <1>4, <3>1 DEF m
        <5> QED
          BY <1>5, <5>1 DEF PlanAt
      <4>2. Len(log') \in Nat
        BY <1>2, <1>4 DEF m
      <4>3. PlanFirst(log', p) \in PlanAt(log', p)
        BY <4>1, <4>2, PlanBounds
      <4>4. \A i \in 1 .. n : i \notin PlanAt(log', p)
        <5>1. PlanAt(log, p) = {}
          BY <3>1, PlanPairsAt
        <5> QED
          BY <1>4, <5>1 DEF PlanAt, n
      <4>5. p \in PlanPairs(log')
        BY <4>1, PlanPairsAt
      <4> QED
        BY <1>4, <4>3, <4>4, <4>5 DEF PlanAt
    <3>5. PlanPairs(log') = {PairSeq[i] : i \in 1 .. c + 1}
      <4>1. PlanPairs(log') = PlanPairs(log) \cup {p}
        BY <1>11, <3>1, <3>4
      <4>2. PlanPairs(log) = {PairSeq[i] : i \in 1 .. c}
        BY <2>1 DEF PlannedAs
      <4>3. 1 .. c + 1 = 1 .. c \cup {c + 1} /\ p = PairSeq[c + 1]
        BY <3>2, <3>3 DEF p
      <4> QED
        BY <4>1, <4>2, <4>3
    <3>6. ASSUME NEW i \in 1 .. c + 1, NEW j \in 1 .. c + 1, i < j
          PROVE  PlanFirst(log', PairSeq[i]) < PlanFirst(log', PairSeq[j])
      <4>1. CASE j \in 1 .. c
        <5>1. i \in 1 .. c
          BY <3>3, <3>6, <4>1
        <5> QED
          BY <2>1, <2>2, <3>6, <4>1, <5>1 DEF PlannedAs
      <4>2. CASE j = c + 1
        <5>1. i \in 1 .. c
          BY <3>3, <3>6, <4>2
        <5> QED
          BY <1>4, <2>2, <3>2, <3>4, <4>2, <5>1 DEF p
      <4> QED
        BY <3>3, <4>1, <4>2
    <3>7. \A i, j \in 1 .. c + 1 : PairSeq[i] = PairSeq[j] => i = j
      BY <1>6, <3>3
    <3>8. PlannedAs(log', PairSeq, c + 1)
      BY <3>5, <3>6, <3>7 DEF PlannedAs
    <3> QED
      BY <3>3, <3>8 DEF OrderInv
  <2> QED
    BY <2>3, <2>4
<1> QED
  BY <1>4, <1>9, <1>10, <1>13

\* The invariant is inductive.
LEMMA Always == Spec => []IInv
<1>1. Init => IInv
  <2> SUFFICES ASSUME Init PROVE IInv
    OBVIOUS
  <2>1. log = <<>> /\ owner = <<>> /\ Len(log) = 0 /\ <<>> \in Seq(ToSet(<<>>))
    BY EmptySeq DEF Init
  <2>2. PlannedAs(log, PairSeq, 0)
    BY <2>1 DEF PlannedAs, PlanPairs
  <2>3. 0 \in 0 .. Len(PairSeq)
    BY AuditAssumption, LenProperties
  <2> QED
    BY <2>1, <2>2, <2>3 DEF IInv, TypeInv, RecordInv, OnePlanEach, OrderInv
<1>2. IInv /\ [Next]_vars => IInv'
  <2> SUFFICES ASSUME IInv, [Next]_vars PROVE IInv'
    OBVIOUS
  <2>1. CASE AddPlan
    BY <2>1, PlanStep
  <2>2. CASE AddObs
    <3>1. PICK e \in 0 .. 2 * Len(PairSeq) - 1 :
            Grow(PairSeq[e \div 2 + 1], <<[tag |-> "OBS", ep |-> e]>>)
      BY <2>2 DEF AddObs
    <3> DEFINE rec == [tag |-> "OBS", ep |-> e]
    <3>2. rec.tag = "OBS" /\ rec.ep = e /\ Grow(PairSeq[e \div 2 + 1], <<rec>>)
      BY <3>1
    <3> HIDE DEF rec
    <3> QED
      BY <3>2, OutcomeStep
  <2>3. CASE AddProof
    <3>1. PICK p \in ToSet(PairSeq) : Grow(p, <<[tag |-> "PROOF"]>>)
      BY <2>3 DEF AddProof
    <3> DEFINE rec == [tag |-> "PROOF"]
    <3>2. rec.tag = "PROOF" /\ Grow(p, <<rec>>)
      BY <3>1
    <3> HIDE DEF rec
    <3> QED
      BY <3>2, OutcomeStep
  <2>4. CASE UNCHANGED vars
    BY <2>4 DEF vars, IInv, TypeInv, RecordInv, OnePlanEach, OrderInv
  <2> QED
    BY <2>1, <2>2, <2>3, <2>4 DEF Next
<1> QED
  BY <1>1, <1>2, PTL DEF Spec
-----------------------------------------------------------------------------
\* Where verification raises on a live chain.
LEMMA RaisesWhen ==
  ASSUME IInv, ObsEpisodes(log) # {}
  PROVE  Verify(log) # Raised <=> LiveAccepts(log)
<1>1. Len(log) \in Nat
  BY Grown DEF IInv, TypeInv
<1>2. PICK n \in 0 .. Len(PairSeq) : PlannedAs(log, PairSeq, n)
  BY DEF IInv, OrderInv
<1>3. n \in Nat /\ Cardinality(PlanPairs(log)) = n
  BY <1>1, <1>2, IndexInOrder
<1> QED
  BY <1>3 DEF Verify, Raised

\* An accepted live chain has a plan record before each oracle record of a
\* pair and none after it: for any number of pairs and chains of any length.
THEOREM AcceptedCorrect == Spec => []AcceptedHasNoLatePlan
<1>1. IInv => AcceptedHasNoLatePlan
  <2> SUFFICES ASSUME IInv, ObsEpisodes(log) # {}, LiveAccepts(log),
                      NEW j \in 1 .. Len(log), log[j].tag = "OBS"
               PROVE  /\ \E i \in PlanAt(log, owner[j]) : i < j
                      /\ \A i \in PlanAt(log, owner[j]) : i < j
    BY RaisesWhen DEF AcceptedHasNoLatePlan
  <2> DEFINE e == log[j].ep
  <2>1. Len(log) \in Nat
    BY Grown DEF IInv, TypeInv
  <2>2. PICK n \in 0 .. Len(PairSeq) : PlannedAs(log, PairSeq, n)
    BY DEF IInv, OrderInv
  <2>3. j \in ObsAt(log, e) /\ e \in ObsEpisodes(log)
    BY DEF ObsAt, ObsEpisodes
  <2>4. owner[j] = PairSeq[e \div 2 + 1] /\ e \in Int
    BY DEF IInv, RecordInv
  <2> HIDE DEF e
  <2>5. PICK k \in 1 .. n :
          /\ k - 1 = e \div 2
          /\ \A i \in PlanAt(log, PairSeq[k]), l \in ObsAt(log, e) : i < l
    <3>1. \A f \in ObsEpisodes(log) : \E k \in 1 .. n :
            /\ k - 1 = f \div 2
            /\ \A i \in PlanAt(log, PairSeq[k]), l \in ObsAt(log, f) : i < l
      BY <2>1, <2>2, LiveAcceptsWhen
    <3> QED
      BY <2>3, <3>1
  <2>6. owner[j] = PairSeq[k]
    <3>1. e \div 2 + 1 = k
      BY <2>2, <2>5
    <3> QED
      BY <2>4, <3>1
  <2>7. PlanAt(log, PairSeq[k]) # {}
    BY <2>2, PlanPairsAt DEF PlannedAs
  <2> QED
    BY <2>3, <2>5, <2>6, <2>7
<1> QED
  BY <1>1, Always, PTL

\* A live chain that keeps the plan-before ordering is accepted, wherever its
\* serve events are and however many episodes it lacks.
THEOREM PlannedCorrect == Spec => []PlannedIsAccepted
<1>1. IInv => PlannedIsAccepted
  <2> SUFFICES ASSUME IInv, ObsEpisodes(log) # {}, PlanBefore(log, owner)
               PROVE  LiveAccepts(log)
    BY RaisesWhen DEF PlannedIsAccepted
  <2>1. Len(log) \in Nat
    BY Grown DEF IInv, TypeInv
  <2>2. PICK n \in 0 .. Len(PairSeq) : PlannedAs(log, PairSeq, n)
    BY DEF IInv, OrderInv
  <2>3. /\ Len(PairSeq) \in Nat
        /\ \A i, j \in 1 .. Len(PairSeq) : PairSeq[i] = PairSeq[j] => i = j
    BY AuditAssumption, LenProperties DEF IsInjective
  <2>4. ASSUME NEW e \in ObsEpisodes(log)
        PROVE  \E k \in 1 .. n :
                 /\ k - 1 = e \div 2
                 /\ \A i \in PlanAt(log, PairSeq[k]), j \in ObsAt(log, e) : i < j
    <3> DEFINE k == e \div 2 + 1
    <3>1. ASSUME NEW j \in ObsAt(log, e)
          PROVE  /\ j \in OutcomeAt(log) /\ e \in 0 .. 2 * Len(PairSeq) - 1
                 /\ owner[j] = PairSeq[k]
      BY DEF ObsAt, OutcomeAt, IInv, RecordInv
    <3>2. PICK o \in ObsAt(log, e) : TRUE
      BY PlanPairsAt
    <3>3. k \in 1 .. Len(PairSeq) /\ k - 1 = e \div 2
      <4>1. k \in 1 .. Len(PairSeq)
        BY <2>3, <3>1, <3>2, HalfOf
      <4>2. e \div 2 \in Int
        BY <3>1, <3>2
      <4> QED
        BY <4>1, <4>2
    <3> HIDE DEF k
    <3>4. ASSUME NEW j \in ObsAt(log, e), NEW r \in Regimes
          PROVE  \E i \in PlanAt(log, PairSeq[k]) : i < j /\ log[i].regime = r
      BY <3>1 DEF PlanBefore, PlannedFirst
    <3>5. k \in 1 .. n
      <4>1. PairSeq[k] \in PlanPairs(log)
        BY <3>2, <3>4, PlanPairsAt DEF Regimes
      <4>2. PICK i \in 1 .. n : PairSeq[i] = PairSeq[k]
        BY <2>2, <4>1 DEF PlannedAs
      <4>3. i \in 1 .. Len(PairSeq)
        BY <2>2, <2>3
      <4> QED
        BY <2>3, <3>3, <4>2, <4>3
    <3>6. ASSUME NEW i \in PlanAt(log, PairSeq[k]), NEW j \in ObsAt(log, e)
          PROVE  i < j
      <4>1. i \in 1 .. Len(log) /\ log[i].tag = "STATE" /\ log[i].pair = PairSeq[k]
        BY DEF PlanAt
      <4>2. log[i].regime \in Regimes
        BY <4>1 DEF IInv
      <4>3. PICK h \in PlanAt(log, PairSeq[k]) : h < j /\ log[h].regime = log[i].regime
        BY <3>4, <4>2
      <4>4. h = i
        BY <4>1, <4>3 DEF PlanAt, IInv, OnePlanEach
      <4> QED
        BY <4>3, <4>4
    <3> QED
      BY <3>3, <3>5, <3>6
  <2> QED
    BY <2>1, <2>2, <2>4, LiveAcceptsWhen
<1> QED
  BY <1>1, Always, PTL
=============================================================================
