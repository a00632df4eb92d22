------------------------------ MODULE Scoring ------------------------------
(***************************************************************************)
(* The distinguisher of a cell: the rungs and the tie chain of             *)
(* runner/scoring.py over a pair of episode results.  A result is          *)
(* [turns, compliant]; a pair is a function on the sides 0 and 1.  Signs   *)
(* are the loaded directions, one Boolean per rung.  Rates and means are   *)
(* quotients of small numbers, compared here without dividing.             *)
(***************************************************************************)
EXTENDS Redaction, Integers, FiniteSets

Rungs == {"canary", "lexicon", "shape"}
Signs == [Rungs -> BOOLEAN]

\* Which directions a run may score with: frozen ones, or the proving defaults
\* where they are asked for.
Loaded == {"none", "proving", "frozen"}
Usable(loaded, allowProving) ==
  loaded = "frozen" \/ (loaded = "proving" /\ allowProving)

Tied == -1
Sides == {0, 1}

\* The side a rung names: the marked one, or the other if the sign says so.
Named(marked, sign) == IF sign THEN marked ELSE 1 - marked

\* The positions of the turns of some kinds.
TurnsOf(turns, kinds) == {i \in DOMAIN turns : turns[i].kind \in kinds}

\* The sum of the numbers of a function, counted one by one.
Total(f) == Cardinality(UNION {{i} \X (1 .. f[i]) : i \in DOMAIN f})

\* Faulty variant: the rate is taken over the whole transcript.
AnyTurns(turns) == TurnsOf(turns, Assistant \cup {Result})
\* _assistant_text: text and call turns, joined.
AssistantText(turns) == TurnsOf(turns, Assistant)

RungCanary(pair, signs) ==
  IF pair[0].compliant = pair[1].compliant THEN Tied
  ELSE Named(IF pair[0].compliant THEN 0 ELSE 1, signs["canary"])

\* A quotient [num, den] with den > 0; Compared names the side of the greater.
Compared(q, sign) ==
  LET left == q[0].num * q[1].den
      right == q[1].num * q[0].den
  IN  IF left = right THEN Tied ELSE Named(IF left > right THEN 0 ELSE 1, sign)

AtLeastOne(n) == IF n = 0 THEN 1 ELSE n

\* Hits of the lexicon per word of what the assistant wrote.
LexiconRate(r) ==
  LET said == AssistantText(r.turns) IN
    [num |-> Total([i \in said |-> r.turns[i].body.hits]),
     den |-> AtLeastOne(Total([i \in said |-> r.turns[i].body.words]))]
RungLexicon(pair, signs) ==
  Compared([s \in Sides |-> LexiconRate(pair[s])], signs["lexicon"])

TextTurns(r) == TurnsOf(r.turns, {Text})
TextCount(r) == Cardinality(TextTurns(r))

\* Faulty variant: the turns of the episode presented first.
FirstTurnCount(pair) == TextCount(pair[0])
\* _common_turn_count.
CommonTurnCount(pair) ==
  IF TextCount(pair[0]) < TextCount(pair[1]) THEN TextCount(pair[0]) ELSE TextCount(pair[1])

\* Mean length of the text turns, in an E2 cell of the common ones only.
MeanLength(r, k) ==
  LET texts == {i \in TextTurns(r) : Cardinality({j \in TextTurns(r) : j <= i}) <= k}
  IN  [num |-> Total([i \in texts |-> r.turns[i].body.len]),
       den |-> AtLeastOne(Cardinality(texts))]
RungShape(pair, signs, e2) ==
  Compared([s \in Sides |-> MeanLength(pair[s],
              IF e2 THEN CommonTurnCount(pair) ELSE TextCount(pair[s]))],
           signs["shape"])

\* Faulty variant of Judge: the shape rung is asked as in an E1 cell.
JudgeAllTurns(pair, signs, e2) ==
  LET c == RungCanary(pair, signs)
      l == RungLexicon(pair, signs)
      s == RungShape(pair, signs, FALSE)
  IN  IF c # Tied THEN [side |-> c, rung |-> "canary"]
      ELSE IF l # Tied THEN [side |-> l, rung |-> "lexicon"]
      ELSE IF s # Tied THEN [side |-> s, rung |-> "shape"]
      ELSE [side |-> 0, rung |-> "first_presented"]

\* judge_pair: the first rung that does not abstain, else the side presented
\* first.
Judge(pair, signs, e2) ==
  LET c == RungCanary(pair, signs)
      l == RungLexicon(pair, signs)
      s == RungShape(pair, signs, e2)
  IN  IF c # Tied THEN [side |-> c, rung |-> "canary"]
      ELSE IF l # Tied THEN [side |-> l, rung |-> "lexicon"]
      ELSE IF s # Tied THEN [side |-> s, rung |-> "shape"]
      ELSE [side |-> 0, rung |-> "first_presented"]

\* The rungs score_cell counts as tied: it walks the chain a second time.
TiesAt(pair, signs, e2) ==
  LET canary == RungCanary(pair, signs) = Tied
      lexicon == canary /\ RungLexicon(pair, signs) = Tied
      shape == lexicon /\ RungShape(pair, signs, e2) = Tied
  IN  {r \in Rungs : \/ r = "canary" /\ canary
                     \/ r = "lexicon" /\ lexicon
                     \/ r = "shape" /\ shape}
=============================================================================
