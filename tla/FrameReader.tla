---------------------------- MODULE FrameReader ----------------------------
(***************************************************************************)
(* The three readers of a framed evidence file, on every file EvidenceChain *)
(* leaves: the opener (_replay_open), read_frames of runner/chain.py, and  *)
(* read_export, the reader runner/detwitness.py has of its own.  They parse *)
(* the same five fields with different bounds, and only the last asks for  *)
(* a registered tag.                                                       *)
(*                                                                         *)
(* Abstractions.  A payload is as long as its payload_len says, in classes *)
(* the bounds tell apart; a damaged length makes a reader run out of the   *)
(* file or hash other bytes: either way the frame is not sealed.  What the *)
(* readers say where they refuse is left out.                              *)
(***************************************************************************)
EXTENDS EvidenceChain, SequencesExt

Tags == {"registered", "foreign", "none", "long"}   \* tag_len 0 and over 32
Sizes == {"none",    \* payload_len 0
          "small",   \* up to 256 KiB
          "large",   \* up to 1 MiB
          "huge"}

\* What append admits.
Admitted(tag, size) == tag = "registered" /\ size \in {"small", "large"}

ASSUME RecordsAdmitted ==
  \A r \in Records : r \in [tag : Tags, size : Sizes] /\ Admitted(r.tag, r.size)

\* The frames of a file as a reader meets them: sealed says whether the
\* stored commit is that of the tag and the payload.
Frames == [tag : Tags, size : Sizes, got : 1 .. Fields, sealed : BOOLEAN]
Frame(b) ==
  [tag |-> b.rec.tag, size |-> b.rec.size, got |-> b.got, sealed |-> TRUE]
FramesOf(f) == [i \in 1 .. Len(f) |-> Frame(f[i])]

\* The opener.  Faulty variant: the witness's bound in the opener.
OpenerTakesSmall(fr) ==
  /\ fr.tag \notin {"none", "long"}
  /\ fr.size = "small"
  /\ fr.got = Fields
  /\ fr.sealed
OpenerTakes(fr) ==
  /\ fr.tag \notin {"none", "long"}
  /\ fr.size \in {"small", "large"}
  /\ fr.got = Fields
  /\ fr.sealed

\* read_frames.
ReaderTakes(fr) ==
  /\ fr.tag \notin {"none", "long"}
  /\ fr.size # "none"
  /\ fr.got = Fields
  /\ fr.sealed

\* read_export.
ExportTakes(fr) ==
  /\ fr.tag = "registered"
  /\ fr.size = "small"
  /\ fr.got = Fields
  /\ fr.sealed

\* _replay_open: all frames or a ChainError.
Opens(fs) == \A i \in DOMAIN fs : OpenerTakes(fs[i])

\* read_frames is a generator: it yields frame after frame and raises at the
\* first one it does not take, when the caller has had those before.
ReadsThrough(fs) == \A i \in DOMAIN fs : ReaderTakes(fs[i])
Yielded(fs) ==
  SubSeq(fs, 1, Max({n \in 0 .. Len(fs) : \A i \in 1 .. n : ReaderTakes(fs[i])}))

\* read_export: all frames or a reason.
Exported(fs) == \A i \in DOMAIN fs : ExportTakes(fs[i])
-----------------------------------------------------------------------------
\* Whatever append, a failure or a crash leaves, reading the file and opening
\* it agree: read_frames yields the records of the log, and raises after them
\* exactly when a new handle would be refused; an export is taken if, besides,
\* no payload is over the witness's own bound (chain.py:114, :192,
\* detwitness.py:136).  With one more frame of another writer, of any tag and
\* any length, what the witness takes the opener takes and what the opener
\* takes can be read; a damaged one nobody takes.  (The converses fail:
\* read_frames takes a payload of any length, and "any tag string replays
\* clean if the hashes hold", chain.py:169.)
ReadersAgree ==
  LET fs == FramesOf(file) IN
    /\ [i \in 1 .. Len(Yielded(fs)) |-> file[i].rec] = LogOf(file)
    /\ Opens(fs) <=> Intact(file)
    /\ ReadsThrough(fs) <=> Opens(fs)
    /\ Exported(fs) <=> Opens(fs) /\ \A i \in DOMAIN fs : fs[i].size = "small"
    /\ \A fr \in {x \in Frames : x.got = Fields} :
         LET gs == Append(fs, fr) IN
           /\ Exported(gs) => Opens(gs)
           /\ Opens(gs) => ReadsThrough(gs)
           /\ ReadsThrough(gs) => fr.sealed
=============================================================================
