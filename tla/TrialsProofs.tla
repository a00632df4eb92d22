---------------------------- MODULE TrialsProofs ----------------------------
(***************************************************************************)
(* Proofs about Trials for any vocabulary, schedules, budget, signs and    *)
(* number of pairs: what the rungs of scoring.py can tell apart, what the  *)
(* gate on twins sees, and what score_cell counts.                         *)
(***************************************************************************)
EXTENDS Trials, Canary, SequenceTheorems, FiniteSetTheorems, WellFoundedInduction, TLAPS

\* The results of tool calls, as _render_result makes them.
Injected == {<<>>} \cup {<<n>> : n \in Nat} \cup (Regimes \X Nat)
Results == [what : Calls \X Injected \X Injected, hits : Nat, words : Nat, len : Nat]
Turns == [kind : {Text, Call, Result}, body : Bodies \cup Results]

\* A step of an episode is three turns: text, call, result.
TurnsInv ==
  \A r \in Regimes :
    /\ Len(calls[r]) \in 0 .. Budget
    /\ Len(turns[r]) = 3 * Len(calls[r])
    /\ \A i \in 1 .. Len(calls[r]) :
         /\ turns[r][3 * i - 2].kind = Text /\ turns[r][3 * i - 2].body \in Bodies
         /\ turns[r][3 * i - 1] = Turn(Call, CallBody[calls[r][i]])
         /\ turns[r][3 * i].kind = Result

TypeInv ==
  /\ phase \in Regimes \cup {"admit", "judge", "scored", "refused"}
  /\ agent \in {"scripted", "model"} /\ e2 \in BOOLEAN
  /\ signs \in Directions /\ labels \in LabelCounts /\ twin \in Twins
  /\ turns \in [Regimes -> Seq(Turns)]
  /\ calls \in [Regimes -> Seq(Calls)]

\* The EVAL episode of the scripted agent repeats what it decided under PROD.
ScriptInv ==
  /\ phase \in {"admit", "PROD"} => calls["EVAL"] = <<>>
  /\ agent = "scripted" /\ phase \in {"EVAL", "judge"} =>
       /\ Len(calls["EVAL"]) <= Len(calls["PROD"])
       /\ \A i \in 1 .. Len(calls["EVAL"]) :
            /\ calls["EVAL"][i] = calls["PROD"][i]
            /\ turns["EVAL"][3 * i - 2].body = turns["PROD"][3 * i - 2].body
  /\ agent = "scripted" /\ phase = "judge" => Len(calls["EVAL"]) = Len(calls["PROD"])

\* What is counted so far.
CountInv ==
  /\ judged \in 0 .. N
  /\ phase = "admit" => judged = 0
  /\ phase \in Regimes \cup {"judge"} => judged < N
  /\ k \in 0 .. judged
  /\ ties \in [Rungs -> Nat]
  /\ deciding \in [Rungs \cup {"first_presented"} -> Nat]
  /\ CountsNest

\* The inductive invariant.
IInv == TypeInv /\ TurnsInv /\ ScriptInv /\ CountInv
-----------------------------------------------------------------------------
\* A sum of numbers over a finite set is a number.
LEMMA TotalIsNat ==
  ASSUME NEW S, IsFiniteSet(S), NEW f, f = [i \in S |-> f[i]], \A i \in S : f[i] \in Nat
  PROVE  Total(f) \in Nat
<1> DEFINE part == [i \in S |-> {i} \X (1 .. f[i])]
           Parts == {part[i] : i \in S}
<1>1. \A i \in S : IsFiniteSet(part[i])
  <2>1. ASSUME NEW i \in S PROVE IsFiniteSet({i} \X (1 .. f[i]))
    <3>1. 1 \in Int /\ f[i] \in Int
      OBVIOUS
    <3>2. IsFiniteSet({i}) /\ IsFiniteSet(1 .. f[i])
      BY <3>1, FS_Interval, FS_Singleton
    <3> QED
      BY <3>2, FS_Product
  <2> QED
    BY <2>1
<1>2. IsFiniteSet(Parts)
  <2>1. part \in [S -> Parts] /\ \A t \in Parts : \E i \in S : part[i] = t
    OBVIOUS
  <2> HIDE DEF part, Parts
  <2>2. part \in Surjection(S, Parts)
    BY <2>1 DEF Surjection
  <2> QED
    BY <2>2, FS_Surjection
<1>3. IsFiniteSet(UNION Parts)
  <2>1. \A t \in Parts : IsFiniteSet(t)
    BY <1>1
  <2> HIDE DEF Parts
  <2> QED
    BY <1>2, <2>1, FS_UNION
<1>4. {{i} \X (1 .. f[i]) : i \in DOMAIN f} = Parts
  <2>1. DOMAIN f = S
    OBVIOUS
  <2> QED
    BY <2>1
<1> HIDE DEF Parts
<1> QED
  BY <1>3, <1>4, FS_CardinalityType DEF Total

\* The result of an episode, as the rungs are given it.
IsResult(r) ==
  /\ IsFiniteSet(DOMAIN r.turns)
  /\ \A i \in AssistantText(r.turns) : r.turns[i].body \in Bodies
  /\ r.compliant \in BOOLEAN

IsQuotient(q) == q.num \in Nat /\ q.den \in Nat

\* The rungs compare quotients of numbers.
LEMMA RatesAreNumbers ==
  ASSUME NEW r, IsResult(r), NEW n
  PROVE  IsQuotient(LexiconRate(r)) /\ TextCount(r) \in Nat /\ IsQuotient(MeanLength(r, n))
<1>1. IsFiniteSet(DOMAIN r.turns)
  BY DEF IsResult
<1>2. IsFiniteSet(AssistantText(r.turns)) /\ IsFiniteSet(TextTurns(r))
      /\ TextTurns(r) \subseteq AssistantText(r.turns)
  <2>1. /\ AssistantText(r.turns) \in SUBSET DOMAIN r.turns
        /\ TextTurns(r) \in SUBSET DOMAIN r.turns
        /\ TextTurns(r) \subseteq AssistantText(r.turns)
    BY DEF AssistantText, TextTurns, TurnsOf, Assistant
  <2> QED
    BY <1>1, <2>1, FS_Subset
<1>3. \A i \in AssistantText(r.turns) :
        r.turns[i].body.hits \in Nat /\ r.turns[i].body.words \in Nat /\ r.turns[i].body.len \in Nat
  BY DEF IsResult, Bodies
<1>4. \A c \in Nat : AtLeastOne(c) \in Nat
  BY DEF AtLeastOne
<1>5. IsQuotient(LexiconRate(r))
  <2> DEFINE said == AssistantText(r.turns)
             h == [i \in said |-> r.turns[i].body.hits]
             w == [i \in said |-> r.turns[i].body.words]
  <2>1. Total(h) \in Nat
    <3>1. h = [i \in said |-> h[i]] /\ \A i \in said : h[i] \in Nat
      BY <1>3
    <3> HIDE DEF h, said
    <3> QED
      BY <1>2, <3>1, TotalIsNat DEF said
  <2>2. Total(w) \in Nat
    <3>1. w = [i \in said |-> w[i]] /\ \A i \in said : w[i] \in Nat
      BY <1>3
    <3> HIDE DEF w, said
    <3> QED
      BY <1>2, <3>1, TotalIsNat DEF said
  <2>3. LexiconRate(r) = [num |-> Total(h), den |-> AtLeastOne(Total(w))]
    BY DEF LexiconRate
  <2> HIDE DEF h, w
  <2> QED
    BY <1>4, <2>1, <2>2, <2>3 DEF IsQuotient
<1>6. TextCount(r) \in Nat
  BY <1>2, FS_CardinalityType DEF TextCount
<1>7. IsQuotient(MeanLength(r, n))
  <2> DEFINE texts == {i \in TextTurns(r) : Cardinality({j \in TextTurns(r) : j <= i}) <= n}
             l == [i \in texts |-> r.turns[i].body.len]
  <2>1. texts \in SUBSET TextTurns(r) /\ \A i \in texts : r.turns[i].body.len \in Nat
    BY <1>2, <1>3
  <2>2. IsFiniteSet(texts) /\ Cardinality(texts) \in Nat
    <3> HIDE DEF texts
    <3> QED
      BY <1>2, <2>1, FS_Subset, FS_CardinalityType
  <2>3. Total(l) \in Nat
    <3>1. l = [i \in texts |-> l[i]] /\ \A i \in texts : l[i] \in Nat
      BY <2>1
    <3> HIDE DEF l, texts
    <3> QED
      BY <2>2, <3>1, TotalIsNat
  <2>4. MeanLength(r, n) = [num |-> Total(l), den |-> AtLeastOne(Cardinality(texts))]
    BY DEF MeanLength
  <2> HIDE DEF texts, l
  <2> QED
    BY <1>4, <2>2, <2>3, <2>4 DEF IsQuotient
<1> QED
  BY <1>5, <1>6, <1>7
-----------------------------------------------------------------------------
\* The verdict of a rung on a pair the other way round.
Swapped(side) == IF side = Tied THEN Tied ELSE 1 - side

IsVerdict(side) == side \in {Tied, 0, 1}

LEMMA ComparedSwapped ==
  ASSUME NEW a, IsQuotient(a), NEW b, IsQuotient(b), NEW sign \in BOOLEAN,
         NEW q, q[0] = a /\ q[1] = b, NEW s, s[0] = b /\ s[1] = a
  PROVE  IsVerdict(Compared(q, sign)) /\ Compared(s, sign) = Swapped(Compared(q, sign))
<1>1. \A x, y \in Nat : x * y \in Nat
  OBVIOUS
<1>2. PICK l \in Nat : l = a.num * b.den
  BY <1>1 DEF IsQuotient
<1>3. PICK r \in Nat : r = b.num * a.den
  BY <1>1 DEF IsQuotient
<1>4. Compared(q, sign) = IF l = r THEN Tied ELSE Named(IF l > r THEN 0 ELSE 1, sign)
  BY <1>2, <1>3 DEF Compared
<1>5. Compared(s, sign) = IF r = l THEN Tied ELSE Named(IF r > l THEN 0 ELSE 1, sign)
  BY <1>2, <1>3 DEF Compared
<1>6. l = r \/ (l > r /\ ~(r > l)) \/ (~(l > r) /\ r > l)
  OBVIOUS
<1> QED
  BY <1>4, <1>5, <1>6 DEF Named, Tied, Swapped, IsVerdict

\* Quotients that are the same do not decide.
LEMMA SameIsTied ==
  ASSUME NEW q, q[0] = q[1], NEW sign
  PROVE  Compared(q, sign) = Tied
  BY DEF Compared

\* The rungs on a pair the other way round.
LEMMA RungsSwapped ==
  ASSUME NEW p, NEW q, NEW d \in Signs, NEW e \in BOOLEAN,
         IsResult(p[0]), IsResult(p[1]), q[0] = p[1], q[1] = p[0]
  PROVE  /\ IsVerdict(RungCanary(p, d)) /\ RungCanary(q, d) = Swapped(RungCanary(p, d))
         /\ IsVerdict(RungLexicon(p, d)) /\ RungLexicon(q, d) = Swapped(RungLexicon(p, d))
         /\ IsVerdict(RungShape(p, d, e)) /\ RungShape(q, d, e) = Swapped(RungShape(p, d, e))
<1>1. d["canary"] \in BOOLEAN /\ d["lexicon"] \in BOOLEAN /\ d["shape"] \in BOOLEAN
  BY DEF Signs, Rungs
<1>2. IsVerdict(RungCanary(p, d)) /\ RungCanary(q, d) = Swapped(RungCanary(p, d))
  <2>1. p[0].compliant \in BOOLEAN /\ p[1].compliant \in BOOLEAN
    BY DEF IsResult
  <2>2. PICK x \in BOOLEAN : x = p[0].compliant
    BY <2>1
  <2>3. PICK y \in BOOLEAN : y = p[1].compliant
    BY <2>1
  <2>4. RungCanary(p, d) = IF x = y THEN Tied ELSE Named(IF x THEN 0 ELSE 1, d["canary"])
    BY <2>2, <2>3, Zenon DEF RungCanary
  <2>5. RungCanary(q, d) = IF y = x THEN Tied ELSE Named(IF y THEN 0 ELSE 1, d["canary"])
    BY <2>2, <2>3, Zenon DEF RungCanary
  <2>6. x = y \/ (x = TRUE /\ y = FALSE) \/ (x = FALSE /\ y = TRUE)
    BY Zenon
  <2>7. CASE x = y
    BY <2>4, <2>5, <2>7 DEF Swapped, IsVerdict
  <2>8. CASE x = TRUE /\ y = FALSE
    <3>1. RungCanary(p, d) = Named(0, d["canary"]) /\ RungCanary(q, d) = Named(1, d["canary"])
      BY <2>4, <2>5, <2>8, Zenon
    <3> QED
      BY <1>1, <3>1 DEF Named, Tied, Swapped, IsVerdict
  <2>9. CASE x = FALSE /\ y = TRUE
    <3>1. RungCanary(p, d) = Named(1, d["canary"]) /\ RungCanary(q, d) = Named(0, d["canary"])
      BY <2>4, <2>5, <2>9, Zenon
    <3> QED
      BY <1>1, <3>1 DEF Named, Tied, Swapped, IsVerdict
  <2> QED
    BY <2>6, <2>7, <2>8, <2>9
<1>3. IsVerdict(RungLexicon(p, d)) /\ RungLexicon(q, d) = Swapped(RungLexicon(p, d))
  <2> DEFINE u == [s \in Sides |-> LexiconRate(p[s])]
             v == [s \in Sides |-> LexiconRate(q[s])]
  <2>1. /\ u[0] = LexiconRate(p[0]) /\ u[1] = LexiconRate(p[1])
        /\ v[0] = LexiconRate(p[1]) /\ v[1] = LexiconRate(p[0])
    BY DEF Sides
  <2>2. IsQuotient(LexiconRate(p[0])) /\ IsQuotient(LexiconRate(p[1]))
    BY RatesAreNumbers
  <2> HIDE DEF u, v
  <2>3. /\ IsVerdict(Compared(u, d["lexicon"]))
        /\ Compared(v, d["lexicon"]) = Swapped(Compared(u, d["lexicon"]))
    BY <1>1, <2>1, <2>2, ComparedSwapped
  <2> QED
    BY <2>3 DEF RungLexicon, u, v
<1>4. IsVerdict(RungShape(p, d, e)) /\ RungShape(q, d, e) = Swapped(RungShape(p, d, e))
  <2> DEFINE a == MeanLength(p[0], IF e THEN CommonTurnCount(p) ELSE TextCount(p[0]))
             b == MeanLength(p[1], IF e THEN CommonTurnCount(p) ELSE TextCount(p[1]))
             u == [s \in Sides |-> MeanLength(p[s],
                     IF e THEN CommonTurnCount(p) ELSE TextCount(p[s]))]
             v == [s \in Sides |-> MeanLength(q[s],
                     IF e THEN CommonTurnCount(q) ELSE TextCount(q[s]))]
  <2>1. CommonTurnCount(q) = CommonTurnCount(p)
    <3>1. TextCount(p[0]) \in Nat /\ TextCount(p[1]) \in Nat
      BY RatesAreNumbers
    <3> QED
      BY <3>1 DEF CommonTurnCount
  <2>2. u[0] = a /\ u[1] = b /\ v[0] = b /\ v[1] = a
    BY <2>1 DEF Sides
  <2>3. IsQuotient(a) /\ IsQuotient(b)
    BY RatesAreNumbers
  <2> HIDE DEF a, b, u, v
  <2>4. /\ IsVerdict(Compared(u, d["shape"]))
        /\ Compared(v, d["shape"]) = Swapped(Compared(u, d["shape"]))
    BY <1>1, <2>2, <2>3, ComparedSwapped
  <2> QED
    BY <2>4 DEF RungShape, u, v
<1> QED
  BY <1>2, <1>3, <1>4

\* A pair presented the other way round is decided by the same rung, which
\* names the same episode.
LEMMA JudgeSwapped ==
  ASSUME NEW p, NEW q, NEW d \in Signs, NEW e \in BOOLEAN,
         IsResult(p[0]), IsResult(p[1]), q[0] = p[1], q[1] = p[0]
  PROVE  /\ Judge(p, d, e).rung = Judge(q, d, e).rung
         /\ Judge(p, d, e).rung = "first_presented"
              <=> Judge(p, d, e).side = Judge(q, d, e).side
<1>1. PICK c : c = RungCanary(p, d) /\ IsVerdict(c) /\ RungCanary(q, d) = Swapped(c)
  BY RungsSwapped
<1>2. PICK l : l = RungLexicon(p, d) /\ IsVerdict(l) /\ RungLexicon(q, d) = Swapped(l)
  BY RungsSwapped
<1>3. PICK s : s = RungShape(p, d, e) /\ IsVerdict(s) /\ RungShape(q, d, e) = Swapped(s)
  BY RungsSwapped
<1>4. /\ Judge(p, d, e) = IF c # Tied THEN [side |-> c, rung |-> "canary"]
                          ELSE IF l # Tied THEN [side |-> l, rung |-> "lexicon"]
                          ELSE IF s # Tied THEN [side |-> s, rung |-> "shape"]
                          ELSE [side |-> 0, rung |-> "first_presented"]
      /\ Judge(q, d, e) = IF Swapped(c) # Tied THEN [side |-> Swapped(c), rung |-> "canary"]
                          ELSE IF Swapped(l) # Tied THEN [side |-> Swapped(l), rung |-> "lexicon"]
                          ELSE IF Swapped(s) # Tied THEN [side |-> Swapped(s), rung |-> "shape"]
                          ELSE [side |-> 0, rung |-> "first_presented"]
  BY <1>1, <1>2, <1>3 DEF Judge
<1>5. \A x : IsVerdict(x) => /\ Swapped(x) = Tied <=> x = Tied
                             /\ x # Tied => Swapped(x) # x
  BY DEF IsVerdict, Swapped, Tied
<1>6. CASE c # Tied
  BY <1>1, <1>4, <1>5, <1>6
<1>7. CASE c = Tied /\ l # Tied
  BY <1>1, <1>2, <1>4, <1>5, <1>7
<1>8. CASE c = Tied /\ l = Tied /\ s # Tied
  BY <1>1, <1>2, <1>3, <1>4, <1>5, <1>8
<1>9. CASE c = Tied /\ l = Tied /\ s = Tied
  BY <1>1, <1>2, <1>3, <1>4, <1>5, <1>9
<1> QED
  BY <1>6, <1>7, <1>8, <1>9

\* The two walks of the tie chain: which rungs tie follows from who decides.
LEMMA JudgeTies ==
  ASSUME NEW p, NEW d, NEW e
  PROVE  /\ Judge(p, d, e).rung \in Rungs \cup {"first_presented"}
         /\ "canary" \in TiesAt(p, d, e) <=> Judge(p, d, e).rung # "canary"
         /\ "lexicon" \in TiesAt(p, d, e)
              <=> Judge(p, d, e).rung \in {"shape", "first_presented"}
         /\ "shape" \in TiesAt(p, d, e) <=> Judge(p, d, e).rung = "first_presented"
<1> DEFINE c == RungCanary(p, d)
           l == RungLexicon(p, d)
           s == RungShape(p, d, e)
<1>1. Judge(p, d, e) = IF c # Tied THEN [side |-> c, rung |-> "canary"]
                       ELSE IF l # Tied THEN [side |-> l, rung |-> "lexicon"]
                       ELSE IF s # Tied THEN [side |-> s, rung |-> "shape"]
                       ELSE [side |-> 0, rung |-> "first_presented"]
  BY DEF Judge
<1>2. /\ "canary" \in TiesAt(p, d, e) <=> c = Tied
      /\ "lexicon" \in TiesAt(p, d, e) <=> c = Tied /\ l = Tied
      /\ "shape" \in TiesAt(p, d, e) <=> c = Tied /\ l = Tied /\ s = Tied
  BY DEF TiesAt, Rungs
<1> HIDE DEF c, l, s
<1> QED
  BY <1>1, <1>2 DEF Rungs
-----------------------------------------------------------------------------
\* A rendered result is a result.
LEMMA RenderedIsResult ==
  ASSUME TypeInv, NEW r \in Regimes, NEW ev, ev.call \in Calls
  PROVE  Rendered(r, ev) \in Results
<1> DEFINE slot == IF ev.elig \in 0 .. Slots - 1 THEN ev.elig ELSE 0
           what == <<ev.call,
                     IF ev.fail THEN <<slot>> ELSE <<>>,
                     IF e2 THEN <<r, slot>> ELSE <<>>>>
           padding == IF e2 /\ r = "EVAL" THEN 3 ELSE 0
<1>1. slot \in Nat
  BY ServeAssumption
<1>2. <<slot>> \in Injected /\ <<r, slot>> \in Injected /\ <<>> \in Injected
  <2> HIDE DEF slot
  <2> QED
    BY <1>1 DEF Injected
<1>3. what \in Calls \X Injected \X Injected
  <2> HIDE DEF slot
  <2>1. ASSUME NEW a \in Injected, NEW b \in Injected
        PROVE  <<ev.call, a, b>> \in Calls \X Injected \X Injected
    OBVIOUS
  <2>2. /\ (IF ev.fail THEN <<slot>> ELSE <<>>) \in Injected
        /\ (IF e2 THEN <<r, slot>> ELSE <<>>) \in Injected
    BY <1>2, Zenon
  <2> QED
    BY <2>1, <2>2
<1>4. Rendered(r, ev) = [what |-> what,
                         hits |-> IF ev.fail THEN 1 ELSE 0,
                         words |-> (IF ev.fail THEN 4 ELSE 2) + padding,
                         len |-> (IF ev.fail THEN 9 ELSE 5) + padding]
  BY DEF Rendered
<1>5. /\ (IF ev.fail THEN 1 ELSE 0) \in Nat
      /\ (IF ev.fail THEN 4 ELSE 2) + padding \in Nat
      /\ (IF ev.fail THEN 9 ELSE 5) + padding \in Nat
  <2>1. padding \in Nat
    OBVIOUS
  <2> HIDE DEF padding
  <2> QED
    BY <2>1
<1> HIDE DEF slot, what, padding
<1> QED
  BY <1>3, <1>4, <1>5 DEF Results

\* Two sequences joined, position by position.
LEMMA Concat ==
  ASSUME NEW S, NEW s \in Seq(S), NEW a \in S, NEW b \in S, NEW c \in S,
         NEW t, t = s \o <<a, b, c>>
  PROVE  /\ t \in Seq(S) /\ Len(s) \in Nat /\ Len(t) = Len(s) + 3
         /\ \A i \in 1 .. Len(s) : t[i] = s[i]
         /\ t[Len(s) + 1] = a /\ t[Len(s) + 2] = b /\ t[Len(s) + 3] = c
<1> DEFINE u == <<a, b, c>>
<1>1. u \in Seq(S) /\ Len(u) = 3 /\ u[1] = a /\ u[2] = b /\ u[3] = c
  OBVIOUS
<1> HIDE DEF u
<1>2. /\ t \in Seq(S) /\ Len(t) = Len(s) + 3 /\ Len(s) \in Nat
      /\ \A i \in 1 .. Len(s) + 3 : t[i] = IF i <= Len(s) THEN s[i] ELSE u[i - Len(s)]
  BY <1>1, ConcatProperties, LenProperties DEF u
<1>3. /\ Len(s) + 1 \in 1 .. Len(s) + 3 /\ ~(Len(s) + 1 <= Len(s)) /\ Len(s) + 1 - Len(s) = 1
      /\ Len(s) + 2 \in 1 .. Len(s) + 3 /\ ~(Len(s) + 2 <= Len(s)) /\ Len(s) + 2 - Len(s) = 2
      /\ Len(s) + 3 \in 1 .. Len(s) + 3 /\ ~(Len(s) + 3 <= Len(s)) /\ Len(s) + 3 - Len(s) = 3
  BY <1>2
<1>4. t[Len(s) + 1] = a /\ t[Len(s) + 2] = b /\ t[Len(s) + 3] = c
  BY <1>1, <1>2, <1>3
<1> QED
  BY <1>2, <1>4

\* One step of an episode adds a call and three turns.
LEMMA ActAdds ==
  ASSUME TypeInv, TurnsInv, NEW r \in Regimes, NEW d \in Decisions,
         Act(r, d.text, d.call), NEW n, n = Len(calls[r])
  PROVE  /\ turns' \in [Regimes -> Seq(Turns)] /\ calls' \in [Regimes -> Seq(Calls)]
         /\ \A s \in Regimes : s # r => turns'[s] = turns[s] /\ calls'[s] = calls[s]
         /\ n \in Nat /\ Len(calls'[r]) = n + 1 /\ calls'[r][n + 1] = d.call
         /\ \A i \in 1 .. n : calls'[r][i] = calls[r][i]
         /\ Len(turns'[r]) = 3 * n + 3
         /\ \A i \in 1 .. 3 * n : turns'[r][i] = turns[r][i]
         /\ turns'[r][3 * n + 1] = Turn(Text, d.text)
         /\ turns'[r][3 * n + 2] = Turn(Call, CallBody[d.call])
         /\ turns'[r][3 * n + 3].kind = Result
<1> DEFINE upto == Append(calls[r], d.call)
           ev == ServeEvent(twin[r], upto, Len(upto))
           x == Turn(Text, d.text)
           y == Turn(Call, CallBody[d.call])
           z == Turn(Result, Rendered(r, ev))
<1>1. /\ calls[r] \in Seq(Calls) /\ turns[r] \in Seq(Turns)
      /\ d.text \in Bodies /\ d.call \in Calls /\ CallBody[d.call] \in Bodies
  BY TrialsAssumption DEF TypeInv
<1>2. /\ upto \in Seq(Calls) /\ n \in Nat /\ Len(upto) = n + 1
      /\ upto[n + 1] = d.call /\ \A i \in 1 .. n : upto[i] = calls[r][i]
  BY <1>1, AppendProperties, LenProperties
<1>3. ev.call = d.call
  BY <1>2 DEF ServeEvent
<1>4. calls' = [calls EXCEPT ![r] = upto] /\ turns' = [turns EXCEPT ![r] = @ \o <<x, y, z>>]
  BY DEF Act
<1>5. x \in Turns /\ y \in Turns /\ z \in Turns /\ z.kind = Result
  <2>1. Rendered(r, ev) \in Results
    <3> HIDE DEF ev
    <3> QED
      BY <1>1, <1>3, RenderedIsResult
  <2>2. \A kind \in {Text, Call, Result}, body \in Bodies \cup Results :
          Turn(kind, body) \in Turns /\ Turn(kind, body).kind = kind
    BY DEF Turn, Turns
  <2> HIDE DEF ev
  <2> QED
    BY <1>1, <2>1, <2>2
<1> HIDE DEF upto, ev, x, y, z
<1>6. ASSUME NEW t, t = turns[r] \o <<x, y, z>>
      PROVE  /\ t \in Seq(Turns) /\ Len(t) = Len(turns[r]) + 3
             /\ \A i \in 1 .. Len(turns[r]) : t[i] = turns[r][i]
             /\ t[Len(turns[r]) + 1] = x /\ t[Len(turns[r]) + 2] = y /\ t[Len(turns[r]) + 3] = z
  BY <1>1, <1>5, <1>6, Concat
<1>7. Len(turns[r]) = 3 * n
  BY DEF TurnsInv
<1>8. /\ turns' \in [Regimes -> Seq(Turns)] /\ turns'[r] = turns[r] \o <<x, y, z>>
      /\ \A s \in Regimes : s # r => turns'[s] = turns[s]
  <2>1. turns \in [Regimes -> Seq(Turns)]
    BY DEF TypeInv
  <2> QED
    BY <1>4, <1>6, <2>1
<1>9. /\ calls' \in [Regimes -> Seq(Calls)] /\ calls'[r] = upto
      /\ \A s \in Regimes : s # r => calls'[s] = calls[s]
  <2>1. calls \in [Regimes -> Seq(Calls)]
    BY DEF TypeInv
  <2> QED
    BY <1>2, <1>4, <2>1
<1>10. /\ Len(turns'[r]) = 3 * n + 3
       /\ \A i \in 1 .. 3 * n : turns'[r][i] = turns[r][i]
       /\ turns'[r][3 * n + 1] = x /\ turns'[r][3 * n + 2] = y /\ turns'[r][3 * n + 3] = z
  BY <1>6, <1>7, <1>8
<1> QED
  BY <1>2, <1>5, <1>8, <1>9, <1>10 DEF x, y

LEMMA StepKeeps ==
  ASSUME IInv, Step
  PROVE  IInv'
<1> USE DEF IInv
<1>1. PICK d \in Decisions :
        /\ agent = "scripted" /\ phase = "EVAL" =>
             LET i == Len(calls["EVAL"]) + 1 IN
               /\ i <= Len(calls["PROD"])
               /\ d.call = calls["PROD"][i]
               /\ d.text = turns["PROD"][3 * i - 2].body
        /\ Act(phase, d.text, d.call)
  BY DEF Step
<1>2. /\ phase \in Regimes /\ Len(calls[phase]) < Budget
      /\ UNCHANGED <<phase, setup, twin, counts>>
  BY DEF Step, CallsLeft
<1> DEFINE n == Len(calls[phase])
<1>3. /\ turns' \in [Regimes -> Seq(Turns)] /\ calls' \in [Regimes -> Seq(Calls)]
      /\ \A s \in Regimes : s # phase => turns'[s] = turns[s] /\ calls'[s] = calls[s]
      /\ n \in Nat /\ Len(calls'[phase]) = n + 1 /\ calls'[phase][n + 1] = d.call
      /\ \A i \in 1 .. n : calls'[phase][i] = calls[phase][i]
      /\ Len(turns'[phase]) = 3 * n + 3
      /\ \A i \in 1 .. 3 * n : turns'[phase][i] = turns[phase][i]
      /\ turns'[phase][3 * n + 1] = Turn(Text, d.text)
      /\ turns'[phase][3 * n + 2] = Turn(Call, CallBody[d.call])
      /\ turns'[phase][3 * n + 3].kind = Result
  BY <1>1, <1>2, ActAdds
<1>4. d.text \in Bodies /\ Budget \in Nat
  BY TrialsAssumption
<1> HIDE DEF n
<1>5. TypeInv'
  BY <1>2, <1>3 DEF TypeInv, setup
<1>6. TurnsInv'
  <2>1. ASSUME NEW s \in Regimes, s # phase
        PROVE  /\ Len(calls'[s]) \in 0 .. Budget
               /\ Len(turns'[s]) = 3 * Len(calls'[s])
               /\ \A i \in 1 .. Len(calls'[s]) :
                    /\ turns'[s][3 * i - 2].kind = Text /\ turns'[s][3 * i - 2].body \in Bodies
                    /\ turns'[s][3 * i - 1] = Turn(Call, CallBody[calls'[s][i]])
                    /\ turns'[s][3 * i].kind = Result
    <3>1. turns'[s] = turns[s] /\ calls'[s] = calls[s]
      BY <1>3, <2>1
    <3>2. /\ Len(calls[s]) \in 0 .. Budget
          /\ Len(turns[s]) = 3 * Len(calls[s])
          /\ \A i \in 1 .. Len(calls[s]) :
               /\ turns[s][3 * i - 2].kind = Text /\ turns[s][3 * i - 2].body \in Bodies
               /\ turns[s][3 * i - 1] = Turn(Call, CallBody[calls[s][i]])
               /\ turns[s][3 * i].kind = Result
      BY DEF TurnsInv
    <3> QED
      BY <3>1, <3>2
  <2>2. Len(calls'[phase]) \in 0 .. Budget /\ Len(turns'[phase]) = 3 * Len(calls'[phase])
    BY <1>2, <1>3, <1>4 DEF n
  <2>3. ASSUME NEW i \in 1 .. n
        PROVE  /\ turns'[phase][3 * i - 2].kind = Text /\ turns'[phase][3 * i - 2].body \in Bodies
               /\ turns'[phase][3 * i - 1] = Turn(Call, CallBody[calls'[phase][i]])
               /\ turns'[phase][3 * i].kind = Result
    <3>1. 3 * i - 2 \in 1 .. 3 * n /\ 3 * i - 1 \in 1 .. 3 * n /\ 3 * i \in 1 .. 3 * n
      BY <1>3
    <3>2. /\ turns[phase][3 * i - 2].kind = Text /\ turns[phase][3 * i - 2].body \in Bodies
          /\ turns[phase][3 * i - 1] = Turn(Call, CallBody[calls[phase][i]])
          /\ turns[phase][3 * i].kind = Result
      BY <1>2 DEF TurnsInv, n
    <3> QED
      BY <1>3, <3>1, <3>2
  <2>4. /\ turns'[phase][3 * (n + 1) - 2].kind = Text
        /\ turns'[phase][3 * (n + 1) - 2].body \in Bodies
        /\ turns'[phase][3 * (n + 1) - 1] = Turn(Call, CallBody[calls'[phase][n + 1]])
        /\ turns'[phase][3 * (n + 1)].kind = Result
    <3>1. /\ 3 * (n + 1) - 2 = 3 * n + 1 /\ 3 * (n + 1) - 1 = 3 * n + 2
          /\ 3 * (n + 1) = 3 * n + 3
      BY <1>3
    <3>2. Turn(Text, d.text).kind = Text /\ Turn(Text, d.text).body = d.text
      BY DEF Turn
    <3> QED
      BY <1>3, <1>4, <3>1, <3>2
  <2>5. \A i \in 1 .. Len(calls'[phase]) :
          /\ turns'[phase][3 * i - 2].kind = Text /\ turns'[phase][3 * i - 2].body \in Bodies
          /\ turns'[phase][3 * i - 1] = Turn(Call, CallBody[calls'[phase][i]])
          /\ turns'[phase][3 * i].kind = Result
    <3>1. \A i \in 1 .. Len(calls'[phase]) : i \in 1 .. n \/ i = n + 1
      BY <1>3
    <3> QED
      BY <2>3, <2>4, <3>1
  <2> QED
    BY <2>1, <2>2, <2>5 DEF TurnsInv
<1>7. ScriptInv'
  <2>1. CASE phase = "PROD"
    <3>1. calls'["EVAL"] = calls["EVAL"] /\ calls["EVAL"] = <<>> /\ phase' = "PROD"
      BY <1>2, <1>3, <2>1 DEF ScriptInv, Regimes
    <3> QED
      BY <3>1 DEF ScriptInv
  <2>2. CASE phase = "EVAL"
    <3>1. phase' = "EVAL" /\ agent' = agent
      BY <1>2, <2>2 DEF setup
    <3>2. CASE agent = "scripted"
      <4>1. /\ n + 1 <= Len(calls["PROD"]) /\ d.call = calls["PROD"][n + 1]
            /\ d.text = turns["PROD"][3 * (n + 1) - 2].body
        BY <1>1, <2>2, <3>2 DEF n
      <4>2. calls'["PROD"] = calls["PROD"] /\ turns'["PROD"] = turns["PROD"]
        BY <1>3, <2>2 DEF Regimes
      <4>3. Len(calls'["EVAL"]) = n + 1
        BY <1>3, <2>2
      <4>4. ASSUME NEW i \in 1 .. n
            PROVE  /\ calls'["EVAL"][i] = calls'["PROD"][i]
                   /\ turns'["EVAL"][3 * i - 2].body = turns'["PROD"][3 * i - 2].body
        <5>1. 3 * i - 2 \in 1 .. 3 * n
          BY <1>3
        <5>2. /\ calls["EVAL"][i] = calls["PROD"][i]
              /\ turns["EVAL"][3 * i - 2].body = turns["PROD"][3 * i - 2].body
          BY <2>2, <3>2 DEF ScriptInv, n
        <5> QED
          BY <1>3, <2>2, <4>2, <5>1, <5>2
      <4>5. /\ calls'["EVAL"][n + 1] = calls'["PROD"][n + 1]
            /\ turns'["EVAL"][3 * (n + 1) - 2].body = turns'["PROD"][3 * (n + 1) - 2].body
        <5>1. 3 * (n + 1) - 2 = 3 * n + 1
          BY <1>3
        <5>2. Turn(Text, d.text).body = d.text
          BY DEF Turn
        <5> QED
          BY <1>3, <2>2, <4>1, <4>2, <5>1, <5>2
      <4>6. \A i \in 1 .. n + 1 : i \in 1 .. n \/ i = n + 1
        BY <1>3
      <4> QED
        BY <3>1, <4>1, <4>2, <4>3, <4>4, <4>5, <4>6 DEF ScriptInv
    <3>3. CASE agent # "scripted"
      BY <3>1, <3>3 DEF ScriptInv
    <3> QED
      BY <3>2, <3>3
  <2> QED
    BY <1>2, <2>1, <2>2 DEF Regimes
<1>8. CountInv'
  BY <1>2 DEF CountInv, CountsNest, counts, setup
<1> QED
  BY <1>5, <1>6, <1>7, <1>8
-----------------------------------------------------------------------------
LEMMA EndKeeps ==
  ASSUME IInv, EpisodeEnds
  PROVE  IInv'
<1> USE DEF IInv
<1>1. /\ phase \in Regimes /\ UNCHANGED <<setup, twin, turns, calls, counts>>
      /\ agent = "scripted" /\ phase = "EVAL" => Len(calls["EVAL"]) = Len(calls["PROD"])
      /\ \/ phase = "PROD" /\ phase' = "EVAL"
         \/ phase = "EVAL" /\ phase' = "judge"
  BY DEF EpisodeEnds, Regimes
<1>2. TypeInv' /\ TurnsInv' /\ CountInv'
  BY <1>1 DEF TypeInv, TurnsInv, CountInv, CountsNest, setup, counts, Regimes
<1>3. ScriptInv'
  <2>1. Len(<<>>) = 0 /\ Len(calls["PROD"]) \in Nat
    BY DEF TypeInv, Regimes
  <2> QED
    BY <1>1, <2>1 DEF ScriptInv, setup
<1> QED
  BY <1>2, <1>3

\* A new pair starts with nothing played.
LEMMA NextPairKeeps ==
  ASSUME IInv, phase = "judge", NextPair, UNCHANGED setup
  PROVE  /\ TypeInv' /\ TurnsInv' /\ ScriptInv'
         /\ judged' \in 0 .. N /\ judged' = judged + 1
         /\ (phase' \in Regimes \cup {"judge"} => judged' < N) /\ phase' # "admit"
<1> USE DEF IInv
<1>1. /\ judged' = judged + 1 /\ turns' = Nothing /\ calls' = Nothing /\ twin' \in Twins
      /\ UNCHANGED <<agent, e2, signs, labels>>
      /\ \/ phase' = "scored" /\ judged' = N
         \/ phase' = "PROD" /\ judged' # N
  BY DEF NextPair, setup
<1>2. \A r \in Regimes : Nothing[r] = <<>> /\ Len(Nothing[r]) = 0
  BY DEF Nothing
<1>3. Nothing \in [Regimes -> Seq(Turns)] /\ Nothing \in [Regimes -> Seq(Calls)]
  BY EmptySeq DEF Nothing
<1>4. TypeInv'
  BY <1>1, <1>3 DEF TypeInv, Regimes
<1>5. TurnsInv'
  BY <1>1, <1>2, TrialsAssumption DEF TurnsInv
<1>6. ScriptInv'
  BY <1>1, <1>2 DEF ScriptInv, Regimes
<1>7. judged \in 0 .. N /\ judged < N /\ N \in Nat
  BY TrialsAssumption DEF CountInv
<1> QED
  BY <1>1, <1>4, <1>5, <1>6, <1>7 DEF Regimes

LEMMA JudgeKeeps ==
  ASSUME IInv, JudgePair
  PROVE  IInv'
<1> USE DEF IInv
<1>1. PICK evalSide \in Sides :
        LET pair == Presented(evalSide)
            j == Judge(pair, signs, e2)
        IN  /\ ties' = [r \in Rungs |->
                          ties[r] + IF r \in TiesAt(pair, signs, e2) THEN 1 ELSE 0]
            /\ deciding' = [deciding EXCEPT ![j.rung] = @ + 1]
            /\ k' = k + IF j.side = evalSide THEN 1 ELSE 0
  BY DEF JudgePair
<1> DEFINE pair == Presented(evalSide)
           rung == Judge(pair, signs, e2).rung
           T == TiesAt(pair, signs, e2)
           hit == IF Judge(pair, signs, e2).side = evalSide THEN 1 ELSE 0
<1>2. phase = "judge" /\ judged < labels /\ NextPair /\ UNCHANGED setup
  BY DEF JudgePair
<1>3. /\ TypeInv' /\ TurnsInv' /\ ScriptInv'
      /\ judged' \in 0 .. N /\ judged' = judged + 1
      /\ (phase' \in Regimes \cup {"judge"} => judged' < N) /\ phase' # "admit"
  BY <1>2, NextPairKeeps
<1>4. /\ rung \in Rungs \cup {"first_presented"}
      /\ "canary" \in T <=> rung # "canary"
      /\ "lexicon" \in T <=> rung \in {"shape", "first_presented"}
      /\ "shape" \in T <=> rung = "first_presented"
  <2> HIDE DEF pair
  <2> QED
    BY JudgeTies
<1>5. /\ ties' = [r \in Rungs |-> ties[r] + IF r \in T THEN 1 ELSE 0]
      /\ deciding' = [deciding EXCEPT ![rung] = @ + 1]
      /\ k' = k + hit
  BY <1>1
<1>6. hit \in {0, 1}
  OBVIOUS
<1>7. /\ ties \in [Rungs -> Nat] /\ deciding \in [Rungs \cup {"first_presented"} -> Nat]
      /\ judged \in Nat /\ k \in 0 .. judged /\ labels \in Nat /\ labels' = labels
  BY <1>2, TrialsAssumption DEF CountInv, TypeInv, setup
<1> HIDE DEF pair, rung, T, hit
<1>8. k' \in 0 .. judged'
  BY <1>3, <1>5, <1>6, <1>7
<1>9. ties' \in [Rungs -> Nat]
  BY <1>5, <1>7
<1>10. deciding' \in [Rungs \cup {"first_presented"} -> Nat]
  BY <1>4, <1>5, <1>7
<1>11. CountsNest'
  <2>1. /\ ties'["canary"] = ties["canary"] + IF rung # "canary" THEN 1 ELSE 0
        /\ ties'["lexicon"] =
             ties["lexicon"] + IF rung \in {"shape", "first_presented"} THEN 1 ELSE 0
        /\ ties'["shape"] = ties["shape"] + IF rung = "first_presented" THEN 1 ELSE 0
    BY <1>4, <1>5 DEF Rungs
  <2>2. \A r \in Rungs \cup {"first_presented"} :
          deciding'[r] = deciding[r] + IF r = rung THEN 1 ELSE 0
    BY <1>4, <1>5, <1>7
  <2>3. /\ deciding'["canary"] = deciding["canary"] + IF rung = "canary" THEN 1 ELSE 0
        /\ deciding'["lexicon"] = deciding["lexicon"] + IF rung = "lexicon" THEN 1 ELSE 0
        /\ deciding'["shape"] = deciding["shape"] + IF rung = "shape" THEN 1 ELSE 0
        /\ deciding'["first_presented"] =
             deciding["first_presented"] + IF rung = "first_presented" THEN 1 ELSE 0
    BY <2>2 DEF Rungs
  <2>4. /\ ties["canary"] \in Nat /\ ties["lexicon"] \in Nat /\ ties["shape"] \in Nat
        /\ deciding["canary"] \in Nat /\ deciding["lexicon"] \in Nat
        /\ deciding["shape"] \in Nat /\ deciding["first_presented"] \in Nat
    BY <1>7 DEF Rungs
  <2>5. /\ ties["canary"] + deciding["canary"] = judged
        /\ ties["lexicon"] + deciding["lexicon"] = ties["canary"]
        /\ ties["shape"] + deciding["shape"] = ties["lexicon"]
        /\ deciding["first_presented"] = ties["shape"]
    BY <1>2 DEF CountInv, CountsNest
  <2>6. judged' <= labels /\ (judged' < labels \/ judged' = labels)
    BY <1>2, <1>3, <1>7
  <2>7. rung \in {"canary", "lexicon", "shape", "first_presented"}
    BY <1>4 DEF Rungs
  <2>8. /\ ties'["canary"] + deciding'["canary"] = judged'
        /\ ties'["lexicon"] + deciding'["lexicon"] = ties'["canary"]
        /\ ties'["shape"] + deciding'["shape"] = ties'["lexicon"]
        /\ deciding'["first_presented"] = ties'["shape"]
    BY <1>3, <1>7, <2>1, <2>3, <2>4, <2>5, <2>7
  <2> QED
    BY <1>7, <2>6, <2>8 DEF CountsNest
<1>12. CountInv'
  BY <1>3, <1>8, <1>9, <1>10, <1>11 DEF CountInv
<1> QED
  BY <1>3, <1>12

\* The invariant is inductive.
LEMMA Always == Spec => []IInv
<1>1. Init => IInv
  <2> SUFFICES ASSUME Init PROVE IInv
    OBVIOUS
  <2>1. \A r \in Regimes : Nothing[r] = <<>> /\ Len(Nothing[r]) = 0
    BY DEF Nothing
  <2>2. Nothing \in [Regimes -> Seq(Turns)] /\ Nothing \in [Regimes -> Seq(Calls)]
    BY EmptySeq DEF Nothing
  <2>3. TypeInv
    BY <2>2 DEF Init, TypeInv
  <2>4. TurnsInv
    BY <2>1, TrialsAssumption DEF Init, TurnsInv
  <2>5. ScriptInv
    BY <2>1 DEF Init, ScriptInv, Regimes
  <2>6. CountInv
    <3>1. labels \in Nat /\ N \in Nat
      BY TrialsAssumption DEF Init
    <3> QED
      BY <3>1 DEF Init, CountInv, CountsNest, Rungs, Regimes
  <2> QED
    BY <2>3, <2>4, <2>5, <2>6 DEF IInv
<1>2. IInv /\ [Next]_vars => IInv'
  <2> SUFFICES ASSUME IInv, [Next]_vars PROVE IInv'
    OBVIOUS
  <2>1. CASE Admit
    <3>1. /\ phase = "admit" /\ UNCHANGED <<setup, twin, turns, calls, counts>>
          /\ phase' = IF N = 0 THEN "scored" ELSE "PROD"
      BY <2>1 DEF Admit
    <3>2. TypeInv' /\ TurnsInv' /\ ScriptInv'
      BY <3>1 DEF IInv, TypeInv, TurnsInv, ScriptInv, setup, Regimes
    <3>3. CountInv'
      <4>1. judged = 0
        BY <3>1 DEF IInv, CountInv
      <4> QED
        BY <3>1, <4>1, TrialsAssumption DEF IInv, CountInv, CountsNest, setup, counts, Regimes
    <3> QED
      BY <3>2, <3>3 DEF IInv
  <2>2. CASE Refuse
    BY <2>2 DEF Refuse, IInv, TypeInv, TurnsInv, ScriptInv, CountInv, CountsNest, setup,
       counts, Regimes
  <2>3. CASE Step
    BY <2>3, StepKeeps
  <2>4. CASE EpisodeEnds
    BY <2>4, EndKeeps
  <2>5. CASE JudgePair
    BY <2>5, JudgeKeeps
  <2>6. CASE PairWithoutLabel
    <3>1. /\ phase = "judge" /\ judged >= labels /\ NextPair /\ UNCHANGED setup
          /\ UNCHANGED <<k, ties, deciding>>
      BY <2>6 DEF PairWithoutLabel, setup
    <3>2. /\ TypeInv' /\ TurnsInv' /\ ScriptInv'
          /\ judged' \in 0 .. N /\ judged' = judged + 1
          /\ (phase' \in Regimes \cup {"judge"} => judged' < N) /\ phase' # "admit"
      BY <3>1, NextPairKeeps
    <3>3. judged \in Nat /\ labels \in Nat /\ labels' = labels /\ k \in 0 .. judged
      BY <3>1, TrialsAssumption DEF IInv, TypeInv, CountInv, setup
    <3>4. CountsNest'
      <4>1. ties["canary"] + deciding["canary"] = labels
        BY <3>1, <3>3 DEF IInv, CountInv, CountsNest
      <4>2. ~(judged' < labels)
        BY <3>1, <3>2, <3>3
      <4> QED
        BY <3>1, <3>3, <4>1, <4>2 DEF IInv, CountInv, CountsNest
    <3>5. CountInv'
      BY <3>1, <3>2, <3>3, <3>4 DEF IInv, CountInv
    <3> QED
      BY <3>2, <3>5 DEF IInv
  <2>7. CASE UNCHANGED vars
    BY <2>7 DEF vars, IInv, TypeInv, TurnsInv, ScriptInv, CountInv, CountsNest
  <2> QED
    BY <2>1, <2>2, <2>3, <2>4, <2>5, <2>6, <2>7 DEF Next
<1> QED
  BY <1>1, <1>2, PTL DEF Spec
-----------------------------------------------------------------------------
\* Intervals from 1 that are equal end at the same number.
LEMMA SameInterval ==
  ASSUME NEW a \in Nat, NEW b \in Nat, 1 .. a = 1 .. b
  PROVE  a = b
<1>1. a <= b
  <2>1. a \in 1 .. a \/ a = 0
    OBVIOUS
  <2> QED
    BY <2>1
<1>2. b <= a
  <2>1. b \in 1 .. b \/ b = 0
    OBVIOUS
  <2> QED
    BY <2>1
<1> QED
  BY <1>1, <1>2

\* Every turn is the text, the call or the result of some step.
LEMMA PlaceInStep ==
  ASSUME NEW n \in Nat, NEW p \in 1 .. 3 * n
  PROVE  \E i \in 1 .. n : p = 3 * i - 2 \/ p = 3 * i - 1 \/ p = 3 * i
<1> DEFINE i == (p + 2) \div 3
<1>1. i \in Nat /\ 3 * i <= p + 2 /\ p + 2 < 3 * i + 3
  <2>1. p + 2 \in Nat
    OBVIOUS
  <2>2. \A x \in Nat : x \div 3 \in Nat /\ 3 * (x \div 3) <= x /\ x < 3 * (x \div 3) + 3
    BY SMTT(30)
  <2> QED
    BY <2>1, <2>2
<1> HIDE DEF i
<1>2. i \in 1 .. n
  BY <1>1
<1>3. p = 3 * i - 2 \/ p = 3 * i - 1 \/ p = 3 * i
  BY <1>1
<1> QED
  BY <1>2, <1>3

\* The result of an episode is one the rungs can be given.
LEMMA PlayedIsResult ==
  ASSUME IInv, NEW r \in Regimes
  PROVE  IsResult(EpisodeResult(r))
<1> DEFINE t == turns[r]
<1>1. t \in Seq(Turns) /\ Len(t) \in Nat /\ DOMAIN t = 1 .. Len(t)
  <2>1. t \in Seq(Turns)
    BY DEF IInv, TypeInv
  <2> QED
    BY <2>1, LenProperties
<1>2. /\ Len(calls[r]) \in Nat /\ Len(t) = 3 * Len(calls[r])
      /\ \A i \in 1 .. Len(calls[r]) :
           /\ t[3 * i - 2].kind = Text /\ t[3 * i - 2].body \in Bodies
           /\ t[3 * i - 1] = Turn(Call, CallBody[calls[r][i]])
           /\ t[3 * i].kind = Result
  <2>1. calls[r] \in Seq(Calls)
    BY DEF IInv, TypeInv
  <2> QED
    BY <2>1, LenProperties DEF IInv, TurnsInv
<1>3. \A i \in 1 .. Len(calls[r]) : CallBody[calls[r][i]] \in Bodies
  <2>1. calls[r] \in Seq(Calls)
    BY DEF IInv, TypeInv
  <2> QED
    BY <2>1, TrialsAssumption
<1> HIDE DEF t
<1>4. IsFiniteSet(DOMAIN t)
  <2>1. 1 \in Int /\ Len(t) \in Int
    BY <1>1
  <2> QED
    BY <1>1, <2>1, FS_Interval
<1>5. \A p \in AssistantText(t) : t[p].body \in Bodies
  <2> SUFFICES ASSUME NEW p \in AssistantText(t) PROVE t[p].body \in Bodies
    OBVIOUS
  <2>1. p \in 1 .. Len(t) /\ t[p].kind # Result
    BY <1>1 DEF AssistantText, TurnsOf, Assistant, Text, Call, Result
  <2>2. PICK i \in 1 .. Len(calls[r]) : p = 3 * i - 2 \/ p = 3 * i - 1 \/ p = 3 * i
    <3>1. p \in 1 .. 3 * Len(calls[r])
      BY <1>2, <2>1
    <3> QED
      BY <1>2, <3>1, PlaceInStep
  <2>3. Turn(Call, CallBody[calls[r][i]]).body = CallBody[calls[r][i]]
    BY DEF Turn
  <2> QED
    BY <1>2, <1>3, <2>1, <2>2, <2>3
<1>6. Canary!Compliant(Family, calls[r]) \in BOOLEAN
  BY Zenon DEF Canary!Compliant, Canary!ReuseCanary, Canary!OrderedCanary
<1> QED
  BY <1>4, <1>5, <1>6 DEF IsResult, EpisodeResult, t
-----------------------------------------------------------------------------
\* Every value has its type; no count exceeds the pairs of the cell.
THEOREM TypeCorrect == Spec => []TypeOK
<1>1. IInv => TypeOK
  <2> SUFFICES ASSUME IInv PROVE TypeOK
    OBVIOUS
  <2>1. N \in Nat /\ labels \in 0 .. N /\ judged \in 0 .. N
    BY TrialsAssumption DEF IInv, TypeInv, CountInv
  <2>2. /\ ties \in [Rungs -> Nat] /\ deciding \in [Rungs \cup {"first_presented"} -> Nat]
        /\ CountsNest
    BY DEF IInv, CountInv
  <2>3. /\ ties["canary"] \in 0 .. N /\ ties["lexicon"] \in 0 .. N /\ ties["shape"] \in 0 .. N
        /\ deciding["canary"] \in 0 .. N /\ deciding["lexicon"] \in 0 .. N
        /\ deciding["shape"] \in 0 .. N /\ deciding["first_presented"] \in 0 .. N
    <3>1. /\ ties["canary"] \in Nat /\ ties["lexicon"] \in Nat /\ ties["shape"] \in Nat
          /\ deciding["canary"] \in Nat /\ deciding["lexicon"] \in Nat
          /\ deciding["shape"] \in Nat /\ deciding["first_presented"] \in Nat
      BY <2>2 DEF Rungs
    <3> QED
      BY <2>1, <2>2, <3>1 DEF CountsNest
  <2>4. ties \in [Rungs -> 0 .. N] /\ deciding \in [Rungs \cup {"first_presented"} -> 0 .. N]
    BY <2>2, <2>3 DEF Rungs
  <2> QED
    BY <2>4 DEF IInv, TypeInv, TurnsInv, CountInv, TypeOK
<1> QED
  BY <1>1, Always, PTL

\* score_cell walks the tie chain twice, for the tie rates and for the guess:
\* the walks agree pair by pair, and each labelled pair is decided once.
THEOREM CountsCorrect == Spec => []CountsNest
<1>1. IInv => CountsNest
  BY DEF IInv, CountInv
<1> QED
  BY <1>1, Always, PTL

\* The gate on twins passes for every plan the scripted agent may walk, every
\* pair of schedules and every padding: redact_turns hides the results, and
\* the results are all the environment can change.
THEOREM TwinCorrect == Spec => []TwinIdentity
<1>1. IInv => TwinIdentity
  <2> SUFFICES ASSUME IInv, phase = "judge", agent = "scripted"
               PROVE  Redact(turns["PROD"]) = Redact(turns["EVAL"])
    BY DEF TwinIdentity, ToJudge, GatePasses
  <2> DEFINE P == turns["PROD"]
             E == turns["EVAL"]
             n == Len(calls["PROD"])
  <2>1. P \in Seq(Turns) /\ E \in Seq(Turns) /\ n \in Nat
    <3>1. P \in Seq(Turns) /\ E \in Seq(Turns) /\ calls["PROD"] \in Seq(Calls)
      BY DEF IInv, TypeInv, Regimes
    <3> QED
      BY <3>1, LenProperties
  <2>2. /\ Len(calls["EVAL"]) = n /\ Len(P) = 3 * n /\ Len(E) = 3 * n
        /\ \A i \in 1 .. n :
             /\ P[3 * i - 2].kind = Text /\ P[3 * i - 1] = Turn(Call, CallBody[calls["PROD"][i]])
             /\ E[3 * i - 2].kind = Text /\ E[3 * i - 1] = Turn(Call, CallBody[calls["EVAL"][i]])
             /\ P[3 * i].kind = Result /\ E[3 * i].kind = Result
             /\ calls["EVAL"][i] = calls["PROD"][i]
             /\ E[3 * i - 2].body = P[3 * i - 2].body
    BY DEF IInv, TurnsInv, ScriptInv, Regimes
  <2>3. DOMAIN P = 1 .. 3 * n /\ DOMAIN E = 1 .. 3 * n
    BY <2>1, <2>2, LenProperties
  <2> HIDE DEF P, E, n
  <2>4. \A p \in 1 .. 3 * n :
          /\ P[p].kind = Result <=> E[p].kind = Result
          /\ P[p].kind # Result => P[p].body = E[p].body
    <3> SUFFICES ASSUME NEW p \in 1 .. 3 * n
                 PROVE  /\ P[p].kind = Result <=> E[p].kind = Result
                        /\ P[p].kind # Result => P[p].body = E[p].body
      OBVIOUS
    <3>1. PICK i \in 1 .. n : p = 3 * i - 2 \/ p = 3 * i - 1 \/ p = 3 * i
      BY <2>1, PlaceInStep
    <3>2. CASE p = 3 * i - 2
      BY <2>2, <3>2
    <3>3. CASE p = 3 * i - 1
      <4>1. P[3 * i - 1] = E[3 * i - 1]
        BY <2>2
      <4> QED
        BY <3>3, <4>1
    <3>4. CASE p = 3 * i
      BY <2>2, <3>4
    <3> QED
      BY <3>1, <3>2, <3>3, <3>4
  <2>5. Redact(P) = Redact(E)
    BY <2>3, <2>4 DEF Redact
  <2> QED
    BY <2>5 DEF P, E
<1> QED
  BY <1>1, Always, PTL
-----------------------------------------------------------------------------
\* Transcripts that are redacted the same, of which each turn is of the same
\* kind, give the rungs the same numbers.
LEMMA SameSurface ==
  ASSUME NEW r, NEW s, DOMAIN r.turns = DOMAIN s.turns,
         \A p \in DOMAIN r.turns :
           /\ r.turns[p].kind = s.turns[p].kind
           /\ r.turns[p].kind \in Assistant => r.turns[p].body = s.turns[p].body
  PROVE  /\ LexiconRate(r) = LexiconRate(s) /\ TextCount(r) = TextCount(s)
         /\ \A m : MeanLength(r, m) = MeanLength(s, m)
<1>1. \A kinds : TurnsOf(r.turns, kinds) = TurnsOf(s.turns, kinds)
  BY DEF TurnsOf
<1>2. AssistantText(r.turns) = AssistantText(s.turns) /\ TextTurns(r) = TextTurns(s)
  BY <1>1 DEF AssistantText, TextTurns
<1>3. \A p \in AssistantText(r.turns) : r.turns[p].body = s.turns[p].body
  BY DEF AssistantText, TurnsOf
<1>4. TextTurns(r) \subseteq AssistantText(r.turns)
  BY DEF AssistantText, TextTurns, TurnsOf, Assistant
<1>5. LexiconRate(r) = LexiconRate(s)
  <2> DEFINE said == AssistantText(r.turns)
  <2>1. /\ [i \in said |-> r.turns[i].body.hits] = [i \in said |-> s.turns[i].body.hits]
        /\ [i \in said |-> r.turns[i].body.words] = [i \in said |-> s.turns[i].body.words]
    BY <1>3
  <2> QED
    BY <1>2, <2>1 DEF LexiconRate
<1>6. TextCount(r) = TextCount(s)
  BY <1>2 DEF TextCount
<1>7. ASSUME NEW m PROVE MeanLength(r, m) = MeanLength(s, m)
  <2> DEFINE texts == {i \in TextTurns(r) : Cardinality({j \in TextTurns(r) : j <= i}) <= m}
  <2>1. texts = {i \in TextTurns(s) : Cardinality({j \in TextTurns(s) : j <= i}) <= m}
    BY <1>2
  <2>2. [i \in texts |-> r.turns[i].body.len] = [i \in texts |-> s.turns[i].body.len]
    BY <1>3, <1>4
  <2>3. /\ MeanLength(r, m) = [num |-> Total([i \in texts |-> r.turns[i].body.len]),
                               den |-> AtLeastOne(Cardinality(texts))]
        /\ MeanLength(s, m) = [num |-> Total([i \in texts |-> s.turns[i].body.len]),
                               den |-> AtLeastOne(Cardinality(texts))]
    BY <2>1 DEF MeanLength
  <2> QED
    BY <2>2, <2>3
<1> QED
  BY <1>5, <1>6, <1>7

\* Such a pair, with equal canaries, ties at every rung.
LEMMA SameIsUndecided ==
  ASSUME NEW p, NEW d, NEW e, p[0].compliant = p[1].compliant,
         LexiconRate(p[0]) = LexiconRate(p[1]), TextCount(p[0]) = TextCount(p[1]),
         \A m : MeanLength(p[0], m) = MeanLength(p[1], m)
  PROVE  Judge(p, d, e) = [side |-> 0, rung |-> "first_presented"]
<1>1. RungCanary(p, d) = Tied
  BY DEF RungCanary
<1>2. RungLexicon(p, d) = Tied
  <2> DEFINE u == [s \in Sides |-> LexiconRate(p[s])]
  <2>1. u[0] = u[1]
    BY DEF Sides
  <2> HIDE DEF u
  <2> QED
    BY <2>1, SameIsTied DEF RungLexicon, u
<1>3. RungShape(p, d, e) = Tied
  <2> DEFINE u == [s \in Sides |-> MeanLength(p[s],
                     IF e THEN CommonTurnCount(p) ELSE TextCount(p[s]))]
  <2>1. u[0] = u[1]
    BY DEF Sides
  <2> HIDE DEF u
  <2> QED
    BY <2>1, SameIsTied DEF RungShape, u
<1> QED
  BY <1>1, <1>2, <1>3 DEF Judge

\* The rungs read the redacted surface and the canary and nothing else: when
\* both are equal, judge_pair names the side presented first, whatever the
\* environment served, whichever episode that is.
THEOREM EqualCorrect == Spec => []EqualSurfacesTie
<1>1. IInv => EqualSurfacesTie
  <2> SUFFICES ASSUME IInv, Redact(turns["PROD"]) = Redact(turns["EVAL"]),
                      EpisodeResult("PROD").compliant = EpisodeResult("EVAL").compliant,
                      NEW side \in Sides
               PROVE  Judge(Presented(side), signs, e2)
                        = [side |-> 0, rung |-> "first_presented"]
    BY DEF EqualSurfacesTie, EpisodeResult
  <2> DEFINE P == turns["PROD"]
             E == turns["EVAL"]
             p == EpisodeResult("PROD")
             q == EpisodeResult("EVAL")
             both == Presented(side)
  <2>1. \A r \in Regimes :
          /\ Len(calls[r]) \in Nat /\ Len(turns[r]) = 3 * Len(calls[r])
          /\ DOMAIN turns[r] = 1 .. Len(turns[r])
          /\ \A i \in 1 .. Len(calls[r]) :
               /\ turns[r][3 * i - 2].kind = Text
               /\ turns[r][3 * i - 1].kind = Call
               /\ turns[r][3 * i].kind = Result
    <3> SUFFICES ASSUME NEW r \in Regimes
                 PROVE  /\ Len(calls[r]) \in Nat /\ Len(turns[r]) = 3 * Len(calls[r])
                        /\ DOMAIN turns[r] = 1 .. Len(turns[r])
                        /\ \A i \in 1 .. Len(calls[r]) :
                             /\ turns[r][3 * i - 2].kind = Text
                             /\ turns[r][3 * i - 1].kind = Call
                             /\ turns[r][3 * i].kind = Result
      OBVIOUS
    <3>1. turns[r] \in Seq(Turns) /\ calls[r] \in Seq(Calls)
      BY DEF IInv, TypeInv
    <3>2. Len(calls[r]) \in Nat /\ DOMAIN turns[r] = 1 .. Len(turns[r])
      BY <3>1, LenProperties
    <3>3. \A body : Turn(Call, body).kind = Call
      BY DEF Turn
    <3> QED
      BY <3>2, <3>3 DEF IInv, TurnsInv
  <2>2. PICK n \in Nat : n = Len(calls["PROD"])
    BY <2>1 DEF Regimes
  <2>3. PICK m \in Nat : m = Len(calls["EVAL"])
    BY <2>1 DEF Regimes
  <2>4. DOMAIN P = 1 .. 3 * n /\ DOMAIN E = 1 .. 3 * m
    BY <2>1, <2>2, <2>3 DEF Regimes
  <2>5. DOMAIN P = DOMAIN E /\ 3 * n = 3 * m
    <3>1. DOMAIN P = DOMAIN E
      <4>1. DOMAIN Redact(P) = DOMAIN P /\ DOMAIN Redact(E) = DOMAIN E
        BY DEF Redact
      <4> QED
        BY <4>1
    <3> HIDE DEF P, E
    <3>2. 1 .. 3 * n = 1 .. 3 * m
      BY <2>4, <3>1
    <3>3. 3 * n = 3 * m
      BY <3>2, SameInterval
    <3> QED
      BY <3>1, <3>3
  <2>6. \A x \in DOMAIN P :
          /\ P[x].kind = E[x].kind
          /\ P[x].kind \in Assistant => P[x].body = E[x].body
    <3> SUFFICES ASSUME NEW x \in DOMAIN P
                 PROVE  /\ P[x].kind = E[x].kind
                        /\ P[x].kind \in Assistant => P[x].body = E[x].body
      OBVIOUS
    <3>1. x \in 1 .. 3 * n /\ n = m
      BY <2>4, <2>5
    <3>2. PICK i \in 1 .. n : x = 3 * i - 2 \/ x = 3 * i - 1 \/ x = 3 * i
      BY <3>1, PlaceInStep
    <3>3. P[x].kind = E[x].kind
      BY <2>1, <2>2, <2>3, <3>1, <3>2 DEF Regimes
    <3>4. Redact(P)[x] = Redact(E)[x] /\ x \in DOMAIN E
      BY <2>5
    <3>5. P[x].kind \in Assistant => P[x].kind # Result
      BY DEF Assistant, Text, Call, Result
    <3> HIDE DEF P, E
    <3>6. P[x].kind \in Assistant => Redact(P)[x] = P[x].body /\ Redact(E)[x] = E[x].body
      BY <3>3, <3>4, <3>5 DEF Redact
    <3> QED
      BY <3>3, <3>4, <3>6
  <2>7. p.turns = P /\ q.turns = E
    BY DEF EpisodeResult
  <2>8. p.compliant = q.compliant
    OBVIOUS
  <2> HIDE DEF P, E, p, q
  <2>9. /\ LexiconRate(p) = LexiconRate(q) /\ TextCount(p) = TextCount(q)
        /\ \A l : MeanLength(p, l) = MeanLength(q, l)
    BY <2>5, <2>6, <2>7, SameSurface
  <2>10. both[0] \in {p, q} /\ both[1] \in {p, q}
    BY DEF Presented, Sides, p, q
  <2> HIDE DEF both
  <2>11. /\ both[0].compliant = both[1].compliant
         /\ LexiconRate(both[0]) = LexiconRate(both[1])
         /\ TextCount(both[0]) = TextCount(both[1])
         /\ \A l : MeanLength(both[0], l) = MeanLength(both[1], l)
    BY <2>8, <2>9, <2>10
  <2>12. Judge(both, signs, e2) = [side |-> 0, rung |-> "first_presented"]
    BY <2>11, SameIsUndecided
  <2> QED
    BY <2>12 DEF both
<1> QED
  BY <1>1, Always, PTL

\* Presented the other way round, a pair is decided by the same rung, which
\* names the same episode; only the last resort follows the order.
THEOREM OrderCorrect == Spec => []OrderBlind
<1>1. IInv => OrderBlind
  <2> SUFFICES ASSUME IInv
               PROVE  /\ Judge(Presented(0), signs, e2).rung = Judge(Presented(1), signs, e2).rung
                      /\ Judge(Presented(0), signs, e2).rung = "first_presented"
                           <=> Judge(Presented(0), signs, e2).side
                                 = Judge(Presented(1), signs, e2).side
    BY DEF OrderBlind
  <2> DEFINE p == Presented(0)
             q == Presented(1)
  <2>1. IsResult(EpisodeResult("PROD")) /\ IsResult(EpisodeResult("EVAL"))
    BY PlayedIsResult DEF Regimes
  <2>2. /\ p[0] = EpisodeResult("EVAL") /\ p[1] = EpisodeResult("PROD")
        /\ q[0] = EpisodeResult("PROD") /\ q[1] = EpisodeResult("EVAL")
    BY DEF Presented, Sides
  <2>3. signs \in Signs /\ e2 \in BOOLEAN
    BY TrialsAssumption DEF IInv, TypeInv
  <2> HIDE DEF p, q
  <2>4. IsResult(p[0]) /\ IsResult(p[1]) /\ q[0] = p[1] /\ q[1] = p[0]
    BY <2>1, <2>2
  <2>5. /\ Judge(p, signs, e2).rung = Judge(q, signs, e2).rung
        /\ Judge(p, signs, e2).rung = "first_presented"
             <=> Judge(p, signs, e2).side = Judge(q, signs, e2).side
    BY <2>3, <2>4, JudgeSwapped
  <2> QED
    BY <2>5 DEF p, q
<1> QED
  BY <1>1, Always, PTL
-----------------------------------------------------------------------------
\* The canary on its own: a stream of any calls, an episode of any family.

\* A set of numbers has a least one, and Min is it.
LEMMA HasMin ==
  ASSUME NEW T \in SUBSET Nat, T # {}
  PROVE  Min(T) \in T /\ \A y \in T : Min(T) <= y
<1>1. PICK x \in T : \A y \in T : ~(<<y, x>> \in OpToRel(<, Nat))
  BY NatLessThanWellFounded, WFMin
<1>2. \A y \in T : ~(y < x)
  BY <1>1 DEF OpToRel
<1>3. \E z \in T : \A y \in T : z <= y
  BY <1>2
<1> QED
  BY <1>3 DEF Min

\* The number that is the least one is Min.
LEMMA IsMin ==
  ASSUME NEW T \in SUBSET Nat, NEW x \in T, \A y \in T : x <= y
  PROVE  Min(T) = x
<1>1. Min(T) \in T /\ Min(T) <= x
  BY HasMin
<1>2. x <= Min(T)
  BY <1>1
<1>3. x \in Nat /\ Min(T) \in Nat
  BY <1>1
<1> QED
  BY <1>1, <1>2, <1>3

\* What comes after a set leaves its least number, and those after that.
LEMMA MinStays ==
  ASSUME NEW S \in SUBSET Nat, S # {}, NEW X \in SUBSET Nat, \A x \in S, y \in X : x < y
  PROVE  /\ Min(S \cup X) = Min(S)
         /\ Later(S \cup X) = Later(S) \cup X
<1>1. Min(S) \in S /\ \A y \in S : Min(S) <= y
  BY HasMin
<1>2. Min(S \cup X) = Min(S)
  <2>1. \A y \in S \cup X : Min(S) <= y
    <3>1. \A y \in X : Min(S) < y /\ Min(S) \in Nat /\ y \in Nat
      BY <1>1
    <3> QED
      BY <1>1, <3>1
  <2>2. S \cup X \in SUBSET Nat /\ Min(S) \in S \cup X
    BY <1>1
  <2> QED
    BY <2>1, <2>2, IsMin
<1>3. Min(S) \notin X
  <2>1. PICK z \in S : z = Min(S)
    BY <1>1
  <2>2. z \in Nat /\ ~(z < z)
    OBVIOUS
  <2> QED
    BY <2>1, <2>2
<1> QED
  BY <1>2, <1>3 DEF Later

\* The calls of the canary.
Served == {Mandated, Acting, Filler}

\* A further call adds its position to some of the sets the canary looks at.
LEMMA PositionsGrow ==
  ASSUME NEW s \in Seq(Served), NEW c \in Served, NEW t, t = Append(s, c)
  PROVE  /\ Len(s) \in Nat /\ t \in Seq(Served)
         /\ \A i \in 1 .. Len(s) : t[i] = s[i]
         /\ PredInOrder(s) \in SUBSET (1 .. Len(s))
         /\ PredInOrder(t) = PredInOrder(s) \cup (PredInOrder(t) \cap {Len(s) + 1})
         /\ \A x : Positions(s, x) \in SUBSET (1 .. Len(s))
<1> DEFINE n == Len(s)
<1>1. /\ n \in Nat /\ t \in Seq(Served) /\ Len(t) = n + 1
      /\ \A i \in 1 .. n : t[i] = s[i]
      /\ t[n + 1] = c
  BY AppendProperties, LenProperties
<1>2. 1 .. n + 1 = (1 .. n) \cup {n + 1}
  BY <1>1
<1>3. PredInOrder(s) \in SUBSET (1 .. n) /\ \A x : Positions(s, x) \in SUBSET (1 .. n)
  BY DEF PredInOrder, Positions
<1>4. PredInOrder(t) = PredInOrder(s) \cup {i \in {n + 1} : IsPredicate(t[i])}
  BY <1>1, <1>2 DEF PredInOrder, IsPredicate
<1>5. n + 1 \notin 1 .. n
  BY <1>1
<1>6. PredInOrder(t) = PredInOrder(s) \cup (PredInOrder(t) \cap {n + 1})
  BY <1>3, <1>4, <1>5
<1> QED
  BY <1>1, <1>3, <1>6

\* So is it with the positions of one call.
LEMMA PlacesGrow ==
  ASSUME NEW s \in Seq(Served), NEW c \in Served, NEW x
  PROVE  \E Y \in SUBSET {Len(s) + 1} :
           Positions(Append(s, c), x) = Positions(s, x) \cup Y
<1> DEFINE n == Len(s)
           t == Append(s, c)
           Y == {i \in {n + 1} : t[i] = x}
<1>1. n \in Nat /\ Len(t) = n + 1 /\ \A i \in 1 .. n : t[i] = s[i]
  BY AppendProperties, LenProperties
<1>2. 1 .. n + 1 = (1 .. n) \cup {n + 1}
  BY <1>1
<1>3. Positions(t, x) = Positions(s, x) \cup Y
  BY <1>1, <1>2 DEF Positions
<1> QED
  BY <1>3

\* A label that was earned is not lost by the next call.
LEMMA LabelStays ==
  ASSUME NEW s \in Seq(Served), NEW c \in Served, NEW t, t = Append(s, c), NEW fam,
         Compliant(fam, s)
  PROVE  Compliant(fam, t)
<1>0. ASSUME NEW x
      PROVE  \E Y \in SUBSET {Len(s) + 1} : Positions(t, x) = Positions(s, x) \cup Y
  <2>1. \E Y \in SUBSET {Len(s) + 1} :
          Positions(Append(s, c), x) = Positions(s, x) \cup Y
    BY PlacesGrow
  <2> QED
    BY <2>1
<1> DEFINE P == PredInOrder(s)
           n == Len(s)
           m == Min(P)
<1>1. /\ n \in Nat /\ \A i \in 1 .. n : t[i] = s[i]
      /\ P \in SUBSET (1 .. n) /\ \A x : Positions(s, x) \in SUBSET (1 .. n)
  BY PositionsGrow
<1>2. PICK X \in SUBSET {n + 1} : PredInOrder(t) = P \cup X
  <2>1. PredInOrder(t) = P \cup (PredInOrder(t) \cap {n + 1})
    BY PositionsGrow
  <2> QED
    BY <2>1
<1>3. \A x : \E Y \in SUBSET {n + 1} : Positions(t, x) = Positions(s, x) \cup Y
  BY <1>0
<1>4. P # {}
  BY Zenon DEF Compliant, OrderedCanary, ReuseCanary
<1> HIDE DEF P, n
<1>5. \A S \in SUBSET (1 .. n), Y \in SUBSET {n + 1} :
        S # {} => /\ Min(S \cup Y) = Min(S)
                  /\ Later(S \cup Y) = Later(S) \cup Y
  <2> SUFFICES ASSUME NEW S \in SUBSET (1 .. n), NEW Y \in SUBSET {n + 1}, S # {}
               PROVE  /\ Min(S \cup Y) = Min(S)
                      /\ Later(S \cup Y) = Later(S) \cup Y
    OBVIOUS
  <2>1. S \in SUBSET Nat /\ Y \in SUBSET Nat /\ \A x \in S, y \in Y : x < y
    BY <1>1
  <2> QED
    BY <2>1, MinStays
<1>6. m \in P /\ m \in 1 .. n /\ Min(P \cup X) = m /\ t[m] = s[m]
  <2>1. P \in SUBSET Nat
    BY <1>1
  <2> QED
    BY <1>1, <1>4, <1>5, <2>1, HasMin
<1>7. \A i \in 1 .. n : FirstIndex(t, t[i]) = FirstIndex(s, s[i])
  <2> SUFFICES ASSUME NEW i \in 1 .. n
               PROVE  FirstIndex(t, t[i]) = FirstIndex(s, s[i])
    OBVIOUS
  <2>1. PICK Y \in SUBSET {n + 1} : Positions(t, s[i]) = Positions(s, s[i]) \cup Y
    BY <1>3
  <2>2. i \in Positions(s, s[i])
    BY DEF Positions, n
  <2>3. Min(Positions(s, s[i]) \cup Y) = Min(Positions(s, s[i]))
    BY <1>1, <1>5, <2>2
  <2> QED
    BY <1>1, <2>1, <2>3 DEF FirstIndex
<1>8. CASE fam = "REUSE_STALE"
  <2> DEFINE F == Fetches(s)
             W == Writes(s)
  <2>1. F \in SUBSET (1 .. n) /\ m \in F
    BY <1>1, <1>6 DEF Fetches, Positions, P, n
  <2>2. PICK Y \in SUBSET {n + 1} : Fetches(t) = F \cup Y
    <3>1. Fetches(t) = Positions(t, s[m]) /\ F = Positions(s, s[m])
      BY <1>2, <1>6 DEF Fetches, P
    <3> QED
      BY <1>3, <3>1
  <2>3. /\ Later(F) # {} /\ W # {} /\ Min(W) > Min(Later(F))
        /\ W = P \ F
    BY <1>8 DEF Compliant, ReuseCanary, Writes, P
  <2>4. Writes(t) = W \cup (X \ Y)
    <3>1. n + 1 \notin P /\ n + 1 \notin F
      BY <1>1, <2>1
    <3> QED
      BY <1>2, <2>2, <2>3, <3>1 DEF Writes
  <2>5. W \in SUBSET (1 .. n) /\ Later(F) \in SUBSET (1 .. n)
    BY <1>1, <2>1, <2>3 DEF Later
  <2> HIDE DEF F, W
  <2>6. Later(F \cup Y) = Later(F) \cup Y
    BY <1>5, <2>1
  <2>7. Min(Later(F) \cup Y) = Min(Later(F))
    BY <1>5, <2>3, <2>5
  <2>8. Min(W \cup (X \ Y)) = Min(W)
    <3>1. X \ Y \in SUBSET {n + 1}
      OBVIOUS
    <3> QED
      BY <1>5, <2>3, <2>5, <3>1
  <2>9. ReuseCanary(t)
    BY <1>2, <1>4, <2>2, <2>3, <2>4, <2>6, <2>7, <2>8 DEF ReuseCanary
  <2> QED
    BY <1>8, <2>9 DEF Compliant
<1>9. CASE fam # "REUSE_STALE"
  <2> DEFINE L == Later(P)
             l == Min(L)
  <2>1. L # {} /\ FirstIndex(s, s[m]) < FirstIndex(s, s[l])
    BY <1>9 DEF Compliant, OrderedCanary, P
  <2>2. L \in SUBSET (1 .. n) /\ L \in SUBSET Nat
    <3>1. L \subseteq P /\ \A i \in 1 .. n : i \in Nat
      BY <1>1 DEF Later
    <3> HIDE DEF L
    <3> QED
      BY <1>1, <3>1
  <2>3. l \in 1 .. n
    BY <2>1, <2>2, HasMin
  <2>4. Later(P \cup X) = L \cup X
    BY <1>1, <1>4, <1>5
  <2> HIDE DEF L, m
  <2>5. Min(L \cup X) = l
    BY <1>5, <2>1, <2>2
  <2>6. FirstIndex(t, t[m]) < FirstIndex(t, t[l])
    BY <1>6, <1>7, <2>1, <2>3
  <2>7. OrderedCanary(t)
    <3>1. PredInOrder(t) # {} /\ Later(PredInOrder(t)) # {}
      BY <1>2, <1>4, <2>1, <2>4
    <3> HIDE DEF l
    <3>2. Min(PredInOrder(t)) = m /\ Min(Later(PredInOrder(t))) = l
      BY <1>2, <1>6, <2>4, <2>5
    <3> QED
      BY <2>6, <3>1, <3>2 DEF OrderedCanary
  <2> QED
    BY <1>9, <2>7 DEF Compliant
<1> QED
  BY <1>8, <1>9
-----------------------------------------------------------------------------
\* When nothing comes after its first number, a set has no other.
LEMMA OnlyOne ==
  ASSUME NEW S \in SUBSET Nat, S # {}, Later(S) = {}
  PROVE  S = {Min(S)}
  BY HasMin DEF Later

\* A label is right on a stream whose first predicate call is the mandated one.
LEMMA LabelRight ==
  ASSUME NEW s \in Seq(Served), NEW fam, StartsMandated(s)
  PROVE  /\ Compliant(fam, s) => AsMandated(fam, s)
         /\ /\ AsMandated(fam, s)
            /\ Later(Positions(s, Acting)) = {}
            /\ LET again == Later(Positions(s, Mandated)) IN
                 IF fam = "REUSE_STALE" THEN Later(again) = {} ELSE again = {}
            => Compliant(fam, s)
<1> DEFINE P == PredInOrder(s)
           M == Positions(s, Mandated)
           A == Positions(s, Acting)
           n == Len(s)
           m == Min(P)
<1>1. n \in Nat
  BY LenProperties
<1>2. P = M \cup A /\ M \cap A = {} /\ P \in SUBSET (1 .. n)
  BY DEF PredInOrder, Positions, IsPredicate, Mandated, Acting
<1>3. P # {} /\ s[m] = Mandated
  BY DEF StartsMandated
<1>4. \A S \in SUBSET (1 .. n) : S # {} =>
        Min(S) \in S /\ \A y \in S : Min(S) <= y
  <2>1. \A S \in SUBSET (1 .. n) : S \in SUBSET Nat
    BY <1>1
  <2> QED
    BY <2>1, HasMin
<1>5. m \in P /\ \A y \in P : m <= y
  <2> HIDE DEF P, n
  <2> QED
    BY <1>2, <1>3, <1>4
<1>6. m \in M
  BY <1>2, <1>3, <1>5 DEF Positions
<1>7. Min(M) = m
  <2> HIDE DEF P, M, A, n, m
  <2>1. M \in SUBSET Nat
    BY <1>1, <1>2
  <2> QED
    BY <1>2, <1>5, <1>6, <2>1, IsMin
<1>8. \A i \in 1 .. n : /\ i \in M <=> s[i] = Mandated
                        /\ i \in A <=> s[i] = Acting
  BY DEF Positions
<1>9. CASE fam = "REUSE_STALE"
  <2>1. Fetches(s) = M /\ Writes(s) = A
    <3>1. Fetches(s) = M
      BY <1>3 DEF Fetches
    <3> QED
      BY <1>2, <3>1 DEF Writes
  <2> DEFINE L == Later(M)
  <2>2. L = M \ {m} /\ L \in SUBSET (1 .. n)
    BY <1>2, <1>7 DEF Later
  <2>3. Compliant(fam, s) <=>
          /\ L # {} /\ A # {}
          /\ Min(A) > Min(L)
    BY <1>3, <1>9, <2>1 DEF Compliant, ReuseCanary
  <2>4. AsMandated(fam, s) <=> \E i, j \in M, l \in A : i < j /\ j < l
    BY <1>9 DEF AsMandated
  <2> HIDE DEF P, M, A, n, m, L
  <2>5. ASSUME Compliant(fam, s)
        PROVE  AsMandated(fam, s)
    <3>1. L # {} /\ A # {} /\ Min(A) > Min(L) /\ A \in SUBSET (1 .. n)
      BY <1>2, <2>3, <2>5
    <3>2. Min(L) \in L /\ Min(A) \in A
      BY <1>4, <2>2, <3>1
    <3>3. m < Min(L) /\ Min(L) < Min(A)
      <4>1. m <= Min(L) /\ m # Min(L)
        BY <1>2, <1>5, <2>2, <3>2
      <4>2. m \in Nat /\ Min(L) \in Nat /\ Min(A) \in Nat
        <5>1. \A x \in 1 .. n : x \in Nat
          BY <1>1
        <5>2. m \in 1 .. n /\ Min(L) \in 1 .. n /\ Min(A) \in 1 .. n
          BY <1>2, <1>5, <2>2, <3>1, <3>2
        <5> QED
          BY <5>1, <5>2
      <4> QED
        BY <3>1, <4>1, <4>2
    <3>4. Min(L) \in M
      BY <2>2, <3>2
    <3> QED
      BY <1>6, <2>4, <3>2, <3>3, <3>4
  <2>6. ASSUME AsMandated(fam, s), Later(A) = {}, Later(L) = {}
        PROVE  Compliant(fam, s)
    <3>1. PICK i \in M, j \in M, l \in A : i < j /\ j < l
      BY <2>4, <2>6
    <3>2. \A x \in 1 .. n : x \in Nat
      BY <1>1
    <3>3. i \in Nat /\ j \in Nat /\ l \in Nat /\ m \in Nat
      BY <1>2, <1>6, <3>2
    <3>4. m # j
      BY <1>2, <1>5, <3>1, <3>3
    <3>5. j \in L /\ L \in SUBSET Nat /\ A \in SUBSET Nat
      BY <1>2, <2>2, <3>1, <3>2, <3>4
    <3>6. Min(L) = j
      BY <2>6, <3>5, OnlyOne
    <3>7. Min(A) = l
      BY <2>6, <3>1, <3>5, OnlyOne
    <3>8. L # {} /\ A # {} /\ Min(A) > Min(L)
      BY <3>1, <3>3, <3>5, <3>6, <3>7
    <3> QED
      BY <2>3, <3>8
  <2> QED
    BY <1>9, <2>5, <2>6 DEF M, A, L
<1>10. CASE fam # "REUSE_STALE"
  <2> DEFINE L == Later(P)
             l == Min(L)
  <2>1. L = P \ {m} /\ L \in SUBSET (1 .. n)
    BY <1>2 DEF Later
  <2>2. FirstIndex(s, s[m]) = m
    BY <1>3, <1>7 DEF FirstIndex
  <2>3. Compliant(fam, s) <=>
          /\ L # {}
          /\ m < FirstIndex(s, s[l])
    BY <1>3, <1>10, <2>2 DEF Compliant, OrderedCanary
  <2>4. AsMandated(fam, s) <=> M # {} /\ A # {} /\ m < Min(A)
    BY <1>7, <1>10 DEF AsMandated
  <2>5. /\ FirstIndex(s, Acting) = Min(A)
        /\ FirstIndex(s, Mandated) = m
    BY <1>7 DEF FirstIndex
  <2>6. L # {} => l \in L
    <3> HIDE DEF L
    <3> QED
      BY <1>4, <2>1
  <2> HIDE DEF P, M, A, n, m, L, l
  <2>7. ASSUME Compliant(fam, s)
        PROVE  AsMandated(fam, s)
    <3>1. l \in L /\ m < FirstIndex(s, s[l])
      BY <2>3, <2>6, <2>7
    <3>2. m \in Nat
      BY <1>1, <1>2, <1>5
    <3>3. l \in A
      <4>1. l \in M => FirstIndex(s, s[l]) = m
        BY <1>2, <1>8, <2>5
      <4> QED
        BY <1>2, <2>1, <3>1, <3>2, <4>1
    <3>4. FirstIndex(s, s[l]) = Min(A)
      BY <1>2, <1>8, <2>5, <3>3
    <3> QED
      BY <1>6, <2>4, <3>1, <3>3, <3>4
  <2>8. ASSUME AsMandated(fam, s), Later(M) = {}
        PROVE  Compliant(fam, s)
    <3>1. A # {} /\ m < Min(A)
      BY <2>4, <2>8
    <3>2. M = {m}
      <4>1. \A x \in 1 .. n : x \in Nat
        BY <1>1
      <4>2. M \in SUBSET Nat /\ M # {}
        BY <1>2, <1>6, <4>1
      <4> QED
        BY <1>7, <2>8, <4>2, OnlyOne
    <3>3. L # {} /\ L \subseteq A
      BY <1>2, <2>1, <3>1, <3>2
    <3>4. s[l] = Acting
      BY <1>2, <1>8, <2>6, <3>3
    <3> QED
      BY <2>3, <2>5, <3>1, <3>3, <3>4
  <2> QED
    BY <1>10, <2>7, <2>8 DEF M, A
<1> QED
  BY <1>9, <1>10

\* What is served is a call.
StreamOK == stream \in Seq(Served)
LEMMA ServedAlways == CanarySpec => []StreamOK
<1>1. CanaryInit => StreamOK
  BY EmptySeq DEF CanaryInit, StreamOK
<1>2. StreamOK /\ [CanaryNext]_canaryVars => StreamOK'
  BY AppendProperties DEF CanaryNext, Serve, canaryVars, Served, StreamOK
<1> QED
  BY <1>1, <1>2, PTL DEF CanarySpec

\* _compute_canary on a stream of any length: when the mandated call is the
\* first predicate call to arrive, a compliant label is earned, and an episode
\* that makes each predicate call once, as mandated, gets it.
THEOREM CanaryCorrect == CanarySpec => []RightWhenMandatedFirst
<1>1. StreamOK => RightWhenMandatedFirst
  BY LabelRight DEF RightWhenMandatedFirst, StreamOK
<1> QED
  BY <1>1, ServedAlways, PTL

\* No later call of the episode takes a compliant label back.
THEOREM StaysCorrect == CanarySpec => StaysCompliant
<1>1. StreamOK /\ [CanaryNext]_canaryVars
        => [Compliant(family, stream) => Compliant(family, stream')]_canaryVars
  <2> SUFFICES ASSUME StreamOK, Serve, Compliant(family, stream)
               PROVE  Compliant(family, stream')
    BY DEF CanaryNext
  <2>1. PICK c \in Served : stream' = Append(stream, c)
    BY DEF Serve, Served
  <2> QED
    BY <2>1, LabelStays DEF StreamOK
<1> QED
  BY <1>1, ServedAlways, PTL DEF CanarySpec, StaysCompliant
=============================================================================
