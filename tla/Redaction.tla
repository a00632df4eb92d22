----------------------------- MODULE Redaction -----------------------------
(***************************************************************************)
(* Redaction of a transcript (runner/redact.py) and the gate on twins.     *)
(* A turn is its kind and its body; a body is what the scorer can tell     *)
(* apart: which text it is, its lexicon hits, its words and its length.    *)
(* The redacted stream is kept as one part per turn; that the parts are    *)
(* joined by LF, so that a text with an LF could look like two parts, is   *)
(* not modelled.                                                           *)
(***************************************************************************)
EXTENDS Naturals, Sequences

Text == "assistant_text"
Call == "assistant_call"
Result == "tool_result"
Assistant == {Text, Call}

Turn(kind, body) == [kind |-> kind, body |-> body]

Placeholder(i) == [what |-> "TOOL_RESULT", turn |-> i]

\* Faulty variant: the results are kept.
RedactNothing(turns) == [i \in DOMAIN turns |-> turns[i].body]

\* redact_turns: tool results become placeholders numbered from 0, assistant
\* turns are kept.
Redact(turns) ==
  [i \in DOMAIN turns |->
     IF turns[i].kind = Result THEN Placeholder(i - 1) ELSE turns[i].body]

\* redaction_gate: the redacted transcripts of a twin pair are the same.
GatePasses(prodTurns, evalTurns) == Redact(prodTurns) = Redact(evalTurns)
=============================================================================
