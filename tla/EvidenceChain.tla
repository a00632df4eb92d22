--------------------------- MODULE EvidenceChain ---------------------------
(***************************************************************************)
(* The framed evidence file of runner/chain.py: open replays the file from *)
(* genesis and refuses a file with a frame that is not whole, append       *)
(* writes one frame at the handle's own offset, calls fsync and only then  *)
(* extends the head and the sequence number in memory.                     *)
(*                                                                         *)
(* Abstractions.                                                           *)
(*  - A file is a sequence of blocks, one per frame; a block counts how    *)
(*    many of the five fields of its frame (tag_len, tag, payload_len,     *)
(*    payload, commit) are complete.  A replay reads field by field and    *)
(*    raises at the first one cut short; bytes written after a torn frame  *)
(*    do not make it whole, because its commit no longer matches.          *)
(*  - SHA-256 is collision free, so a head is the sequence of the records  *)
(*    folded into it.                                                      *)
(*  - Frames have one size: a handle whose offset is stale overwrites      *)
(*    exactly one frame.                                                   *)
(*  - append's refusals before the write (closed chain, unregistered tag,  *)
(*    empty or oversized payload) change nothing and are not actions:      *)
(*    Records are the pairs of tag and payload that append admits.         *)
(*  - A short write and a crash are modelled where the handle writes at    *)
(*    the end of the file, that is unless a second handle is stale.        *)
(***************************************************************************)
EXTENDS Naturals, Sequences

CONSTANTS
  Handles,      \* EvidenceChain objects on one path, of one or more processes
  Records,      \* what append admits: a registered tag and a bounded payload
  MaxFrames,    \* bound of the model: frames a file may grow to
  Exclusive,    \* callers keep at most one handle open on the path
  StopOnError   \* callers never use a handle again once append raised

ASSUME BoundAssumption == MaxFrames \in Nat
ASSUME DisciplineAssumption ==
  /\ Exclusive \in BOOLEAN
  /\ StopOnError \in BOOLEAN
  /\ Exclusive \/ StopOnError

VARIABLES
  file,         \* the blocks a reader of the path sees
  synced,       \* how many of them are known to be on disk
  st,           \* per handle: what it is doing, see Status
  head,         \* per handle: self.head
  seq,          \* per handle: self.seq
  off,          \* per handle: the offset of its descriptor, in frames
  pend,         \* per handle: the record of the append in progress
  acked         \* history: position of the last frame an append returned for

vars == <<file, synced, st, head, seq, off, pend, acked>>
memory == <<head, seq, off, pend>>

Status == {"closed",   \* no descriptor: before __init__, after close
           "refused",  \* __init__ raised ChainError and closed the descriptor
           "idle",     \* open, the last call succeeded
           "writing",  \* inside append, between os.write and os.fsync
           "failed"}   \* open, the last append raised

Fields == 5
Block(r, n) == [rec |-> r, got |-> n]
Blocks == [rec : Records, got : 1 .. Fields]

Whole(b) == b.got = Fields
Intact(f) == \A i \in 1 .. Len(f) : Whole(f[i])
RecordsOf(f) == [i \in 1 .. Len(f) |-> f[i].rec]

\* os.write at block position i of f, which is at most one past its end.
PutAt(f, i, b) == IF i > Len(f) THEN Append(f, b) ELSE [f EXCEPT ![i] = b]

HasDescriptor(h) == st[h] \in {"idle", "writing", "failed"}
MayOpen(h) ==
  /\ ~HasDescriptor(h)
  /\ Exclusive => \A g \in Handles : ~HasDescriptor(g)
MayAppend(h) ==
  /\ st[h] = "idle" \/ (st[h] = "failed" /\ ~StopOnError)
  /\ off[h] < MaxFrames

Init ==
  /\ file = <<>>
  /\ synced = 0
  /\ st = [h \in Handles |-> "closed"]
  /\ head = [h \in Handles |-> <<>>]
  /\ seq = [h \in Handles |-> 0]
  /\ off = [h \in Handles |-> 0]
  /\ pend \in [Handles -> Records]
  /\ acked = 0

\* Faulty variants of Open: seq is not restored from the replay; a torn file
\* is opened too; the descriptor stays at the start of the file.
OpenForgetsSeq(h) ==
  /\ MayOpen(h)
  /\ Intact(file)
  /\ st' = [st EXCEPT ![h] = "idle"]
  /\ head' = [head EXCEPT ![h] = RecordsOf(file)]
  /\ off' = [off EXCEPT ![h] = Len(file)]
  /\ UNCHANGED <<file, synced, seq, pend, acked>>

OpenAnyway(h) ==
  /\ MayOpen(h)
  /\ st' = [st EXCEPT ![h] = "idle"]
  /\ head' = [head EXCEPT ![h] = RecordsOf(file)]
  /\ seq' = [seq EXCEPT ![h] = Len(file)]
  /\ off' = [off EXCEPT ![h] = Len(file)]
  /\ UNCHANGED <<file, synced, pend, acked>>

OpenAtStart(h) ==
  /\ MayOpen(h)
  /\ Intact(file)
  /\ st' = [st EXCEPT ![h] = "idle"]
  /\ head' = [head EXCEPT ![h] = RecordsOf(file)]
  /\ seq' = [seq EXCEPT ![h] = Len(file)]
  /\ off' = [off EXCEPT ![h] = 0]
  /\ UNCHANGED <<file, synced, pend, acked>>

\* __init__ on a file every frame of which replays: the head and the number
\* of frames come from the file, the offset is its end.
Open(h) ==
  /\ MayOpen(h)
  /\ Intact(file)
  /\ st' = [st EXCEPT ![h] = "idle"]
  /\ head' = [head EXCEPT ![h] = RecordsOf(file)]
  /\ seq' = [seq EXCEPT ![h] = Len(file)]
  /\ off' = [off EXCEPT ![h] = Len(file)]
  /\ UNCHANGED <<file, synced, pend, acked>>

\* __init__ on a file with a torn frame raises and closes the descriptor;
\* nothing is repaired.
OpenRefused(h) ==
  /\ MayOpen(h)
  /\ ~Intact(file)
  /\ st' = [st EXCEPT ![h] = "refused"]
  /\ UNCHANGED <<file, synced, memory, acked>>

\* append up to and including an os.write that takes the whole frame.
AppendWrite(h, r) ==
  /\ MayAppend(h)
  /\ file' = PutAt(file, off[h] + 1, Block(r, Fields))
  /\ off' = [off EXCEPT ![h] = off[h] + 1]
  /\ pend' = [pend EXCEPT ![h] = r]
  /\ st' = [st EXCEPT ![h] = "writing"]
  /\ UNCHANGED <<synced, head, seq, acked>>

\* Faulty variant: a write that took nothing counts as a frame.
AppendEmptyFrame(h, r) ==
  /\ MayAppend(h)
  /\ off[h] = Len(file)
  /\ \E n \in 0 .. Fields - 1 : file' = Append(file, Block(r, n))
  /\ off' = [off EXCEPT ![h] = off[h] + 1]
  /\ st' = [st EXCEPT ![h] = "failed"]
  /\ UNCHANGED <<synced, head, seq, pend, acked>>

\* append whose os.write raises, n = 0, or takes only n complete fields of
\* the frame: the bytes stay in the file and the descriptor stays open.
AppendShortWrite(h, r) ==
  /\ MayAppend(h)
  /\ off[h] = Len(file)
  /\ \E n \in 0 .. Fields - 1 :
       IF n = 0
       THEN UNCHANGED <<file, off>>
       ELSE /\ file' = Append(file, Block(r, n))
            /\ off' = [off EXCEPT ![h] = off[h] + 1]
  /\ st' = [st EXCEPT ![h] = "failed"]
  /\ UNCHANGED <<synced, head, seq, pend, acked>>

\* Faulty variant: append returns without the fsync.
AppendUnsynced(h) ==
  /\ st[h] = "writing"
  /\ head' = [head EXCEPT ![h] = Append(head[h], pend[h])]
  /\ seq' = [seq EXCEPT ![h] = seq[h] + 1]
  /\ st' = [st EXCEPT ![h] = "idle"]
  /\ acked' = off[h]
  /\ UNCHANGED <<file, synced, off, pend>>

\* os.fsync returns: head and seq are extended and returned to the caller.
AppendSync(h) ==
  /\ st[h] = "writing"
  /\ synced' = Len(file)
  /\ head' = [head EXCEPT ![h] = Append(head[h], pend[h])]
  /\ seq' = [seq EXCEPT ![h] = seq[h] + 1]
  /\ st' = [st EXCEPT ![h] = "idle"]
  /\ acked' = off[h]
  /\ UNCHANGED <<file, off, pend>>

\* os.fsync raises: the frame is in the file, head and seq are not extended.
AppendSyncError(h) ==
  /\ st[h] = "writing"
  /\ st' = [st EXCEPT ![h] = "failed"]
  /\ UNCHANGED <<file, synced, memory, acked>>

Close(h) ==
  /\ st[h] \in {"idle", "failed"}
  /\ st' = [st EXCEPT ![h] = "closed"]
  /\ UNCHANGED <<file, synced, memory, acked>>

\* What a machine crash leaves of a file: at least what is on disk, then
\* whole blocks, then perhaps the first fields of one more.
AfterCrash ==
  {SubSeq(file, 1, n) : n \in synced .. Len(file)}
    \cup UNION {{Append(SubSeq(file, 1, n), Block(file[n + 1].rec, k)) :
                   k \in 1 .. file[n + 1].got - 1} :
                n \in synced .. Len(file) - 1}

\* The machine stops: every process is gone, what is left is on disk.
Crash ==
  /\ Exclusive
  /\ file' \in AfterCrash
  /\ synced' = Len(file')
  /\ st' = [h \in Handles |-> "closed"]
  /\ UNCHANGED <<memory, acked>>

Next ==
  \/ \E h \in Handles :
       \/ Open(h) \/ OpenRefused(h) \/ Close(h)
       \/ AppendSync(h) \/ AppendSyncError(h)
       \/ \E r \in Records : AppendWrite(h, r) \/ AppendShortWrite(h, r)
  \/ Crash

Spec == Init /\ [][Next]_vars
-----------------------------------------------------------------------------
\* The type invariant.
TypeOK ==
  /\ file \in Seq(Blocks)
  /\ synced \in Nat
  /\ st \in [Handles -> Status]
  /\ head \in [Handles -> Seq(Records)]
  /\ seq \in [Handles -> Nat]
  /\ off \in [Handles -> Nat]
  /\ pend \in [Handles -> Records]
  /\ acked \in Nat

\* Between calls, the head and the sequence number a handle reports are those
\* a replay of the file from genesis computes: "the file is the truth"
\* (chain.py:78-79), also after reopening, crashes and failed appends.
HeadIsReplay ==
  \A h \in Handles : st[h] = "idle" =>
    /\ Intact(file)
    /\ head[h] = RecordsOf(file)
    /\ seq[h] = Len(file)

\* Every frame an append returned for is whole and on disk, whatever appends
\* failed before or after it ("fsync before extending state", chain.py:137).
AckedOnDisk ==
  \A i \in 1 .. acked : i <= synced /\ i <= Len(file) /\ Whole(file[i])

\* A torn frame is always the last of the file, and no handle that has seen
\* no error works on such a file: nothing is ever appended after torn bytes.
TornIsLast ==
  /\ \A i \in 1 .. Len(file) : Whole(file[i]) \/ i = Len(file)
  /\ (\E h \in Handles : st[h] \in {"idle", "writing"}) => Intact(file)

\* "Append-only framed evidence file" (chain.py:78): a frame for which an
\* append has returned is never replaced by another one.
AppendOnly ==
  [][\A i \in 1 .. acked : i \in DOMAIN file' /\ file'[i] = file[i]]_vars
-----------------------------------------------------------------------------
\* The abstract log: the records of the file but for a torn last frame.
LogLen(f) ==
  IF f # <<>> /\ ~Whole(f[Len(f)]) THEN Len(f) - 1 ELSE Len(f)
LogOf(f) == [i \in 1 .. LogLen(f) |-> f[i].rec]

Log == INSTANCE EvidenceLog WITH log <- LogOf(file), acked <- acked

\* The file implements the abstract log: it only grows, but for records of
\* appends that never returned, which a crash may lose.
ImplementsLog == Log!LogSpec
=============================================================================
