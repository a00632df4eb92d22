------------------------ MODULE EvidenceChainProofs ------------------------
(***************************************************************************)
(* Proofs about EvidenceChain for any set of handles and records and any   *)
(* bound on the file: type correctness, and, for callers that keep one     *)
(* handle open and drop it when append raises, the safety invariants, the  *)
(* action property, the refinement of EvidenceLog, and that the readers of *)
(* FrameReader agree.                                                      *)
(***************************************************************************)
EXTENDS FrameReader, SequenceTheorems, TLAPS

\* The discipline of the callers in this repository.
Disciplined == Exclusive /\ StopOnError

\* At most one handle of the path holds a descriptor.
OneDescriptor ==
  \A g, h \in Handles : HasDescriptor(g) /\ HasDescriptor(h) => g = h

\* Only the last block of a file can be torn.
TornAtEnd == \A i \in 1 .. Len(file) : Whole(file[i]) \/ i = Len(file)

\* Acknowledged frames are among the synced ones and whole.
AckedSynced ==
  /\ acked <= synced
  /\ synced <= Len(file)
  /\ \A i \in 1 .. acked : Whole(file[i])

\* What a handle knows of the file between calls ...
IdleAgrees(h) ==
  st[h] = "idle" =>
    /\ Intact(file)
    /\ head[h] = RecordsOf(file)
    /\ seq[h] = Len(file)

\* ... and between its write and its fsync.
WritingAgrees(h) ==
  st[h] = "writing" =>
    /\ Intact(file)
    /\ Append(head[h], pend[h]) = RecordsOf(file)
    /\ seq[h] + 1 = Len(file)

AtEnd(h) == HasDescriptor(h) => off[h] = Len(file)

\* The inductive invariant.
IInv ==
  /\ TypeOK
  /\ OneDescriptor
  /\ TornAtEnd
  /\ AckedSynced
  /\ \A h \in Handles : AtEnd(h) /\ IdleAgrees(h) /\ WritingAgrees(h)
-----------------------------------------------------------------------------
\* The records of the first n blocks of a file are a sequence of records.
LEMMA RecordsSeq ==
  ASSUME NEW f \in Seq(Blocks), NEW n \in Nat, n <= Len(f)
  PROVE  [i \in 1 .. n |-> f[i].rec] \in Seq(Records)
<1>1. \A i \in 1 .. n : f[i].rec \in Records
  <2> TAKE i \in 1 .. n
  <2>1. f[i] \in Blocks
    OBVIOUS
  <2> QED
    BY <2>1 DEF Blocks
<1>2. [i \in 1 .. n |-> f[i].rec] \in [1 .. n -> Records]
  BY <1>1
<1>3. [i \in 1 .. n |-> f[i].rec] \in UNION {[1 .. m -> Records] : m \in Nat}
  BY <1>2
<1> QED
  BY <1>3, SeqDef, Zenon

\* A crash leaves a prefix of the file that keeps every synced block,
\* followed by at most one block, which is torn.
LEMMA CrashOutcome ==
  ASSUME file \in Seq(Blocks), synced \in Nat, NEW f \in AfterCrash
  PROVE  /\ f \in Seq(Blocks)
         /\ \E n \in synced .. Len(file) :
              /\ n \in Nat /\ Len(f) \in {n, n + 1}
              /\ \A i \in 1 .. n : f[i] = file[i]
              /\ Len(f) = n + 1 => n < Len(file) /\ ~Whole(f[n + 1])
<1>1. CASE \E n \in synced .. Len(file) : f = SubSeq(file, 1, n)
  <2>1. PICK n \in synced .. Len(file) : f = SubSeq(file, 1, n)
    BY <1>1
  <2>2. n \in Nat /\ n <= Len(file)
    BY <2>1
  <2>3. /\ f \in Seq(Blocks) /\ Len(f) = n
        /\ \A i \in 1 .. n : f[i] = file[i]
    BY <2>1, <2>2
  <2> QED
    BY <2>2, <2>3
<1>2. CASE \E n \in synced .. Len(file) - 1 : \E k \in 1 .. file[n + 1].got - 1 :
             f = Append(SubSeq(file, 1, n), Block(file[n + 1].rec, k))
  <2>1. PICK n \in synced .. Len(file) - 1 : \E k \in 1 .. file[n + 1].got - 1 :
               f = Append(SubSeq(file, 1, n), Block(file[n + 1].rec, k))
    BY <1>2
  <2>2. PICK k \in 1 .. file[n + 1].got - 1 :
               f = Append(SubSeq(file, 1, n), Block(file[n + 1].rec, k))
    BY <2>1
  <2> DEFINE b == Block(file[n + 1].rec, k)
             s == SubSeq(file, 1, n)
  <2>3. n \in Nat /\ n + 1 \in 1 .. Len(file) /\ n \in synced .. Len(file)
    BY <2>1
  <2>4. file[n + 1] \in Blocks
    BY <2>3
  <2>5. b \in Blocks /\ ~Whole(b)
    BY <2>2, <2>4 DEF Blocks, Block, Fields, Whole
  <2>6. /\ s \in Seq(Blocks) /\ Len(s) = n
        /\ \A i \in 1 .. n : s[i] = file[i]
    BY <2>3
  <2>7. f = Append(s, b)
    BY <2>2
  <2> HIDE DEF b, s
  <2>8. /\ f \in Seq(Blocks) /\ Len(f) = n + 1 /\ f[n + 1] = b
        /\ \A i \in 1 .. n : f[i] = file[i]
    BY <2>3, <2>5, <2>6, <2>7
  <2>9. ~Whole(f[n + 1])
    BY <2>5, <2>8 DEF Whole
  <2> QED
    BY <2>3, <2>8, <2>9
<1> QED
  BY <1>1, <1>2 DEF AfterCrash

\* Every step keeps the type invariant, whatever the callers do.
LEMMA TypeStep == TypeOK /\ [Next]_vars => TypeOK'
<1> SUFFICES ASSUME TypeOK, [Next]_vars
             PROVE  TypeOK'
  OBVIOUS
<1> USE DEF TypeOK, Status
<1>1. ASSUME NEW h \in Handles, Open(h)
      PROVE  TypeOK'
  <2>1. RecordsOf(file) \in Seq(Records)
    BY RecordsSeq DEF RecordsOf
  <2> QED
    BY <1>1, <2>1 DEF Open
<1>2. ASSUME NEW h \in Handles, OpenRefused(h)
      PROVE  TypeOK'
  BY <1>2 DEF OpenRefused, memory
<1>3. ASSUME NEW h \in Handles, Close(h)
      PROVE  TypeOK'
  BY <1>3 DEF Close, memory
<1>4. ASSUME NEW h \in Handles, AppendSync(h)
      PROVE  TypeOK'
  <2>1. Append(head[h], pend[h]) \in Seq(Records)
    OBVIOUS
  <2> QED
    BY <1>4, <2>1 DEF AppendSync
<1>5. ASSUME NEW h \in Handles, AppendSyncError(h)
      PROVE  TypeOK'
  BY <1>5 DEF AppendSyncError, memory
<1>6. ASSUME NEW h \in Handles, NEW r \in Records, AppendWrite(h, r)
      PROVE  TypeOK'
  <2>1. Block(r, Fields) \in Blocks
    BY DEF Block, Blocks, Fields
  <2>2. PutAt(file, off[h] + 1, Block(r, Fields)) \in Seq(Blocks)
    BY <2>1 DEF PutAt
  <2> QED
    BY <1>6, <2>2 DEF AppendWrite
<1>7. ASSUME NEW h \in Handles, NEW r \in Records, AppendShortWrite(h, r)
      PROVE  TypeOK'
  <2>1. PICK n \in 0 .. Fields - 1 :
               IF n = 0 THEN UNCHANGED <<file, off>>
               ELSE /\ file' = Append(file, Block(r, n))
                    /\ off' = [off EXCEPT ![h] = off[h] + 1]
    BY <1>7 DEF AppendShortWrite
  <2>2. n # 0 => Block(r, n) \in Blocks
    BY DEF Block, Blocks, Fields
  <2>3. CASE n = 0
    BY <1>7, <2>1, <2>3 DEF AppendShortWrite
  <2>4. CASE n # 0
    <3>0. /\ file' = Append(file, Block(r, n))
          /\ off' = [off EXCEPT ![h] = off[h] + 1]
      BY <2>1, <2>4, Zenon
    <3>1. file' \in Seq(Blocks)
      BY <2>2, <2>4, <3>0
    <3>2. off' \in [Handles -> Nat]
      BY <3>0
    <3> QED
      BY <1>7, <3>1, <3>2 DEF AppendShortWrite
  <2> QED
    BY <2>3, <2>4
<1>8. ASSUME Crash
      PROVE  TypeOK'
  <2>1. file' \in Seq(Blocks)
    BY <1>8, CrashOutcome DEF Crash
  <2> QED
    BY <1>8, <2>1 DEF Crash, memory
<1>9. CASE UNCHANGED vars
  BY <1>9 DEF vars
<1> QED
  BY <1>1, <1>2, <1>3, <1>4, <1>5, <1>6, <1>7, <1>8, <1>9 DEF Next

\* Type correctness of every behaviour, disciplined callers or not.
THEOREM TypeCorrect == Spec => []TypeOK
<1>1. Init => TypeOK
  BY DEF Init, TypeOK, Status
<1> QED
  BY <1>1, TypeStep, PTL DEF Spec
-----------------------------------------------------------------------------
\* One frame appended at the end: its records are those before, plus one.
LEMMA RecordsAppend ==
  ASSUME NEW f \in Seq(Blocks), NEW r \in Records,
         NEW b, b \in Blocks, b.rec = r
  PROVE  RecordsOf(Append(f, b)) = Append(RecordsOf(f), r)
<1> DEFINE s == RecordsOf(Append(f, b))
           t == Append(RecordsOf(f), r)
<1>1. Append(f, b) \in Seq(Blocks) /\ Len(Append(f, b)) = Len(f) + 1
  OBVIOUS
<1>2. RecordsOf(f) \in Seq(Records) /\ Len(RecordsOf(f)) = Len(f)
  BY RecordsSeq, LenProperties DEF RecordsOf
<1>3. s \in Seq(Records) /\ Len(s) = Len(f) + 1
  BY <1>1, RecordsSeq, LenProperties DEF RecordsOf
<1>4. t \in Seq(Records) /\ Len(t) = Len(f) + 1
  BY <1>2
<1>5. ASSUME NEW i \in 1 .. Len(f) + 1
      PROVE  s[i] = t[i]
  <2>1. CASE i = Len(f) + 1
    BY <1>1, <1>2, <2>1 DEF RecordsOf
  <2>2. CASE i # Len(f) + 1
    <3>1. i \in 1 .. Len(f) /\ Append(f, b)[i] = f[i]
      BY <2>2
    <3>2. t[i] = f[i].rec
      BY <1>2, <3>1 DEF RecordsOf
    <3> QED
      BY <1>1, <3>1, <3>2 DEF RecordsOf
  <2> QED
    BY <2>1, <2>2
<1> HIDE DEF s, t
<1>6. s = t
  BY <1>3, <1>4, <1>5, SeqEqual
<1> QED
  BY <1>6 DEF s, t
\* The invariant is inductive for disciplined callers.
LEMMA InvStep == Disciplined /\ IInv /\ [Next]_vars => IInv'
<1> SUFFICES ASSUME Disciplined, IInv, [Next]_vars
             PROVE  IInv'
  OBVIOUS
<1>0. TypeOK'
  BY TypeStep DEF IInv
<1> USE DEF Disciplined, IInv, HasDescriptor
<1>1. ASSUME NEW h \in Handles, Open(h)
      PROVE  IInv'
  <2>1. \A g \in Handles : ~HasDescriptor(g)
    BY <1>1 DEF Open, MayOpen
  <2>2. /\ UNCHANGED <<file, synced, acked>>
        /\ st' = [st EXCEPT ![h] = "idle"]
        /\ head'[h] = RecordsOf(file) /\ seq'[h] = Len(file) /\ off'[h] = Len(file)
        /\ Intact(file)
    BY <1>1 DEF Open, TypeOK
  <2>3. OneDescriptor'
    BY <2>1, <2>2 DEF OneDescriptor, TypeOK
  <2>4. TornAtEnd' /\ AckedSynced'
    BY <2>2 DEF TornAtEnd, AckedSynced
  <2>5. \A g \in Handles : (AtEnd(g) /\ IdleAgrees(g) /\ WritingAgrees(g))'
    BY <2>1, <2>2 DEF AtEnd, IdleAgrees, WritingAgrees, RecordsOf, Intact, TypeOK
  <2> QED
    BY <1>0, <2>3, <2>4, <2>5
<1>2. ASSUME NEW h \in Handles, OpenRefused(h)
      PROVE  IInv'
  <2>1. UNCHANGED <<file, synced, memory, acked>> /\ st' = [st EXCEPT ![h] = "refused"]
    BY <1>2 DEF OpenRefused
  <2>2. OneDescriptor' /\ TornAtEnd' /\ AckedSynced'
    BY <2>1 DEF OneDescriptor, TornAtEnd, AckedSynced, TypeOK, memory
  <2>3. \A g \in Handles : (AtEnd(g) /\ IdleAgrees(g) /\ WritingAgrees(g))'
    BY <2>1 DEF AtEnd, IdleAgrees, WritingAgrees, RecordsOf, Intact, TypeOK, memory
  <2> QED
    BY <1>0, <2>2, <2>3
<1>3. ASSUME NEW h \in Handles, Close(h)
      PROVE  IInv'
  <2>1. UNCHANGED <<file, synced, memory, acked>> /\ st' = [st EXCEPT ![h] = "closed"]
    BY <1>3 DEF Close
  <2>2. OneDescriptor' /\ TornAtEnd' /\ AckedSynced'
    BY <2>1 DEF OneDescriptor, TornAtEnd, AckedSynced, TypeOK, memory
  <2>3. \A g \in Handles : (AtEnd(g) /\ IdleAgrees(g) /\ WritingAgrees(g))'
    BY <2>1 DEF AtEnd, IdleAgrees, WritingAgrees, RecordsOf, Intact, TypeOK, memory
  <2> QED
    BY <1>0, <2>2, <2>3
<1>4. ASSUME NEW h \in Handles, AppendSync(h)
      PROVE  IInv'
  <2>1. /\ st[h] = "writing" /\ st' = [st EXCEPT ![h] = "idle"]
        /\ UNCHANGED <<file, off, pend>>
        /\ synced' = Len(file) /\ acked' = off[h]
        /\ head' = [head EXCEPT ![h] = Append(head[h], pend[h])]
        /\ seq' = [seq EXCEPT ![h] = seq[h] + 1]
    BY <1>4 DEF AppendSync
  <2>2. /\ off[h] = Len(file) /\ Intact(file) /\ seq[h] + 1 = Len(file)
        /\ Append(head[h], pend[h]) = RecordsOf(file)
    BY <2>1 DEF AtEnd, WritingAgrees
  <2>3. \A g \in Handles : HasDescriptor(g) => g = h
    BY <2>1 DEF OneDescriptor
  <2>4. OneDescriptor' /\ TornAtEnd'
    BY <2>1 DEF OneDescriptor, TornAtEnd, TypeOK
  <2>5. AckedSynced'
    BY <2>1, <2>2 DEF AckedSynced, Intact, TypeOK
  <2>6. \A g \in Handles : (AtEnd(g) /\ IdleAgrees(g) /\ WritingAgrees(g))'
    BY <2>1, <2>2, <2>3 DEF AtEnd, IdleAgrees, WritingAgrees, RecordsOf, Intact, TypeOK
  <2> QED
    BY <1>0, <2>4, <2>5, <2>6
<1>5. ASSUME NEW h \in Handles, AppendSyncError(h)
      PROVE  IInv'
  <2>1. /\ st[h] = "writing" /\ st' = [st EXCEPT ![h] = "failed"]
        /\ UNCHANGED <<file, synced, memory, acked>>
    BY <1>5 DEF AppendSyncError
  <2>2. OneDescriptor' /\ TornAtEnd' /\ AckedSynced'
    BY <2>1 DEF OneDescriptor, TornAtEnd, AckedSynced, TypeOK, memory
  <2>3. \A g \in Handles : (AtEnd(g) /\ IdleAgrees(g) /\ WritingAgrees(g))'
    BY <2>1 DEF AtEnd, IdleAgrees, WritingAgrees, RecordsOf, Intact, TypeOK, memory
  <2> QED
    BY <1>0, <2>2, <2>3
<1>6. ASSUME NEW h \in Handles, NEW r \in Records, AppendWrite(h, r)
      PROVE  IInv'
  <2> DEFINE b == Block(r, Fields)
  <2>1. b \in Blocks /\ b.rec = r /\ Whole(b)
    BY DEF Block, Blocks, Fields, Whole
  <2> HIDE DEF b
  <2>2. /\ st[h] = "idle" /\ off[h] = Len(file) /\ Intact(file)
        /\ head[h] = RecordsOf(file) /\ seq[h] = Len(file)
    BY <1>6 DEF AppendWrite, MayAppend, AtEnd, IdleAgrees
  <2>3. /\ file' = Append(file, b)
        /\ off' = [off EXCEPT ![h] = off[h] + 1]
        /\ pend' = [pend EXCEPT ![h] = r]
        /\ st' = [st EXCEPT ![h] = "writing"]
        /\ UNCHANGED <<synced, head, seq, acked>>
    BY <1>6, <2>2 DEF AppendWrite, PutAt, TypeOK, b
  <2>4. /\ Len(file') = Len(file) + 1
        /\ \A i \in 1 .. Len(file) : file'[i] = file[i]
        /\ file'[Len(file) + 1] = b
    BY <2>1, <2>3 DEF TypeOK
  <2>5. Intact(file)'
    <3>1. ASSUME NEW i \in 1 .. Len(file')
          PROVE  Whole(file'[i])
      <4>0. Len(file) \in Nat /\ Len(file') = Len(file) + 1
        BY <2>4 DEF TypeOK
      <4>1. i \in 1 .. Len(file) \/ i = Len(file) + 1
        BY <4>0
      <4>2. CASE i \in 1 .. Len(file)
        BY <2>2, <2>4, <4>2 DEF Intact, Whole
      <4>3. CASE i = Len(file) + 1
        BY <2>1, <2>4, <4>3 DEF Whole
      <4> QED
        BY <4>1, <4>2, <4>3
    <3> QED
      BY <3>1 DEF Intact
  <2>6. \A g \in Handles : HasDescriptor(g) => g = h
    BY <2>2 DEF OneDescriptor
  <2>7. OneDescriptor'
    BY <2>3, <2>6 DEF OneDescriptor, TypeOK
  <2>8. TornAtEnd'
    BY <2>5 DEF TornAtEnd, Intact
  <2>9. AckedSynced'
    BY <2>3, <2>4 DEF AckedSynced, TypeOK
  <2>10. RecordsOf(file') = Append(head[h], r)
    BY <2>1, <2>2, <2>3, RecordsAppend DEF TypeOK
  <2>11. (AtEnd(h) /\ IdleAgrees(h) /\ WritingAgrees(h))'
    <3>1. st'[h] = "writing" /\ off'[h] = Len(file') /\ seq'[h] + 1 = Len(file')
      BY <2>2, <2>3, <2>4 DEF TypeOK
    <3>2. head'[h] = head[h] /\ pend'[h] = r
      BY <2>3 DEF TypeOK
    <3>3. RecordsOf(file)' = RecordsOf(file')
      BY DEF RecordsOf
    <3> QED
      BY <2>5, <2>10, <3>1, <3>2, <3>3 DEF AtEnd, IdleAgrees, WritingAgrees
  <2>12. ASSUME NEW g \in Handles, g # h
         PROVE  (AtEnd(g) /\ IdleAgrees(g) /\ WritingAgrees(g))'
    <3>1. st'[g] = st[g] /\ ~HasDescriptor(g)
      BY <2>3, <2>6, <2>12 DEF TypeOK
    <3> QED
      BY <3>1 DEF AtEnd, IdleAgrees, WritingAgrees
  <2> QED
    BY <1>0, <2>7, <2>8, <2>9, <2>11, <2>12
<1>7. ASSUME NEW h \in Handles, NEW r \in Records, AppendShortWrite(h, r)
      PROVE  IInv'
  <2>1. /\ st[h] = "idle" /\ off[h] = Len(file) /\ Intact(file)
        /\ st' = [st EXCEPT ![h] = "failed"]
        /\ UNCHANGED <<synced, head, seq, pend, acked>>
    BY <1>7 DEF AppendShortWrite, MayAppend, AtEnd, IdleAgrees
  <2>2. \A g \in Handles : HasDescriptor(g) => g = h
    BY <2>1 DEF OneDescriptor
  <2>3. OneDescriptor'
    BY <2>1, <2>2 DEF OneDescriptor, TypeOK
  <2>4. ASSUME NEW g \in Handles, g # h
        PROVE  (AtEnd(g) /\ IdleAgrees(g) /\ WritingAgrees(g))'
    <3>1. st'[g] = st[g] /\ ~HasDescriptor(g)
      BY <2>1, <2>2, <2>4 DEF TypeOK
    <3> QED
      BY <3>1 DEF AtEnd, IdleAgrees, WritingAgrees
  <2>5. (IdleAgrees(h) /\ WritingAgrees(h))'
    BY <2>1 DEF IdleAgrees, WritingAgrees, TypeOK
  <2>6. PICK n \in 0 .. Fields - 1 :
               IF n = 0 THEN UNCHANGED <<file, off>>
               ELSE /\ file' = Append(file, Block(r, n))
                    /\ off' = [off EXCEPT ![h] = off[h] + 1]
    BY <1>7 DEF AppendShortWrite
  <2>7. CASE n = 0
    <3>1. UNCHANGED <<file, off>>
      BY <2>6, <2>7, Zenon
    <3>2. TornAtEnd' /\ AckedSynced' /\ AtEnd(h)'
      BY <2>1, <3>1 DEF TornAtEnd, AckedSynced, AtEnd, TypeOK
    <3> QED
      BY <1>0, <2>3, <2>4, <2>5, <3>2
  <2>8. CASE n # 0
    <3>1. /\ file' = Append(file, Block(r, n))
          /\ off' = [off EXCEPT ![h] = off[h] + 1]
      BY <2>6, <2>8, Zenon
    <3>2. Block(r, n) \in Blocks
      BY <2>8 DEF Block, Blocks, Fields
    <3>3. /\ Len(file') = Len(file) + 1
          /\ \A i \in 1 .. Len(file) : file'[i] = file[i]
      BY <3>1, <3>2 DEF TypeOK
    <3>4. TornAtEnd'
      <4>1. ASSUME NEW i \in 1 .. Len(file'), i # Len(file')
            PROVE  Whole(file'[i])
        <5>1. i \in 1 .. Len(file)
          BY <3>3, <4>1 DEF TypeOK
        <5> QED
          BY <2>1, <3>3, <5>1 DEF Intact
      <4> QED
        BY <4>1 DEF TornAtEnd
    <3>5. AckedSynced'
      BY <2>1, <3>3 DEF AckedSynced, TypeOK
    <3>6. AtEnd(h)'
      BY <2>1, <3>1, <3>3 DEF AtEnd, TypeOK
    <3> QED
      BY <1>0, <2>3, <2>4, <2>5, <3>4, <3>5, <3>6
  <2> QED
    BY <2>7, <2>8
<1>8. ASSUME Crash
      PROVE  IInv'
  <2>1. /\ synced' = Len(file') /\ UNCHANGED <<memory, acked>>
        /\ st' = [h \in Handles |-> "closed"]
        /\ file' \in AfterCrash
    BY <1>8 DEF Crash
  <2>2. OneDescriptor'
    BY <2>1 DEF OneDescriptor
  <2>3. \A g \in Handles : (AtEnd(g) /\ IdleAgrees(g) /\ WritingAgrees(g))'
    BY <2>1 DEF AtEnd, IdleAgrees, WritingAgrees
  <2>4. PICK n \in synced .. Len(file) :
              /\ n \in Nat /\ Len(file') \in {n, n + 1}
              /\ \A i \in 1 .. n : file'[i] = file[i]
              /\ Len(file') = n + 1 => n < Len(file) /\ ~Whole(file'[n + 1])
    BY <2>1, CrashOutcome DEF TypeOK
  <2>5. TornAtEnd'
    <3>1. ASSUME NEW i \in 1 .. Len(file'), i # Len(file')
          PROVE  Whole(file'[i])
      <4>1. i \in 1 .. n /\ i \in 1 .. Len(file) /\ i # Len(file)
        BY <2>4, <3>1 DEF TypeOK
      <4> QED
        BY <2>4, <4>1 DEF TornAtEnd, Whole
    <3> QED
      BY <3>1 DEF TornAtEnd
  <2>6. AckedSynced'
    <3>1. acked <= n /\ n <= Len(file') /\ acked \in Nat
      BY <2>4 DEF AckedSynced, TypeOK
    <3>2. \A i \in 1 .. acked : file'[i] = file[i]
      BY <2>4, <3>1
    <3> QED
      BY <2>1, <2>4, <3>1, <3>2 DEF AckedSynced, Whole
  <2> QED
    BY <1>0, <2>2, <2>3, <2>5, <2>6
<1>9. CASE UNCHANGED vars
  <2>1. OneDescriptor' /\ TornAtEnd' /\ AckedSynced'
    BY <1>9 DEF vars, OneDescriptor, TornAtEnd, AckedSynced
  <2>2. \A g \in Handles : (AtEnd(g) /\ IdleAgrees(g) /\ WritingAgrees(g))'
    BY <1>9 DEF vars, AtEnd, IdleAgrees, WritingAgrees, RecordsOf, Intact
  <2> QED
    BY <1>0, <2>1, <2>2
<1> QED
  BY <1>1, <1>2, <1>3, <1>4, <1>5, <1>6, <1>7, <1>8, <1>9 DEF Next
\* The initial state satisfies the invariant.
LEMMA InitInv == Init => IInv
<1> SUFFICES ASSUME Init PROVE IInv
  OBVIOUS
<1>1. TypeOK
  BY DEF Init, TypeOK, Status
<1>2. /\ file = <<>> /\ synced = 0 /\ acked = 0
      /\ st = [h \in Handles |-> "closed"]
  BY DEF Init
<1>3. OneDescriptor /\ TornAtEnd /\ AckedSynced
  BY <1>2 DEF OneDescriptor, HasDescriptor, TornAtEnd, AckedSynced
<1>4. \A h \in Handles : AtEnd(h) /\ IdleAgrees(h) /\ WritingAgrees(h)
  BY <1>2 DEF HasDescriptor, AtEnd, IdleAgrees, WritingAgrees
<1> QED
  BY <1>1, <1>3, <1>4 DEF IInv

\* The invariant holds in every state of every disciplined behaviour.
LEMMA Invariant ==
  ASSUME Disciplined
  PROVE  Spec => []IInv
<1>1. IInv /\ [Next]_vars => IInv'
  BY InvStep
<1> QED
  BY <1>1, InitInv, PTL DEF Spec

\* The head and sequence number of a handle are those of a replay.
THEOREM HeadCorrect ==
  ASSUME Disciplined
  PROVE  Spec => []HeadIsReplay
<1>1. IInv => HeadIsReplay
  BY DEF IInv, IdleAgrees, HeadIsReplay
<1> QED
  BY <1>1, Invariant, PTL

\* Acknowledged frames are whole and on disk.
THEOREM AckedCorrect ==
  ASSUME Disciplined
  PROVE  Spec => []AckedOnDisk
<1>1. IInv => AckedOnDisk
  BY DEF IInv, TypeOK, AckedSynced, AckedOnDisk
<1> QED
  BY <1>1, Invariant, PTL

\* Nothing follows a torn frame and no working handle has one in its file.
THEOREM TornCorrect ==
  ASSUME Disciplined
  PROVE  Spec => []TornIsLast
<1>1. IInv => TornIsLast
  BY DEF IInv, IdleAgrees, WritingAgrees, TornAtEnd, TornIsLast
<1> QED
  BY <1>1, Invariant, PTL
-----------------------------------------------------------------------------
\* What the mapped log is, block by block.
LEMMA LogOfFacts ==
  ASSUME NEW f \in Seq(Blocks)
  PROVE  /\ LogLen(f) \in 0 .. Len(f)
         /\ LogOf(f) \in Seq(Records)
         /\ Len(LogOf(f)) = LogLen(f)
         /\ \A i \in 1 .. LogLen(f) : LogOf(f)[i] = f[i].rec
         /\ Intact(f) => LogLen(f) = Len(f) /\ LogOf(f) = RecordsOf(f)
<1>1. LogLen(f) \in 0 .. Len(f)
  BY DEF LogLen
<1>2. LogOf(f) \in Seq(Records) /\ Len(LogOf(f)) = LogLen(f)
  BY <1>1, RecordsSeq, LenProperties DEF LogOf
<1>3. \A i \in 1 .. LogLen(f) : LogOf(f)[i] = f[i].rec
  BY DEF LogOf
<1>4. ASSUME Intact(f) PROVE LogLen(f) = Len(f)
  BY <1>4 DEF Intact, LogLen
<1>5. ASSUME Intact(f) PROVE LogOf(f) = RecordsOf(f)
  BY <1>4, <1>5 DEF LogOf, RecordsOf
<1> QED
  BY <1>1, <1>2, <1>3, <1>4, <1>5

\* Two files that agree on their whole blocks have the same log.
LEMMA SameLog ==
  ASSUME NEW f \in Seq(Blocks), NEW n \in 0 .. LogLen(f),
         NEW g \in Seq(Blocks), LogLen(g) = n,
         \A i \in 1 .. n : g[i] = f[i]
  PROVE  LogOf(g) = SubSeq(LogOf(f), 1, n)
<1> DEFINE s == LogOf(g)
           t == SubSeq(LogOf(f), 1, n)
<1>1. s \in Seq(Records) /\ Len(s) = n /\ \A i \in 1 .. n : s[i] = g[i].rec
  BY LogOfFacts
<1>2. /\ LogOf(f) \in Seq(Records) /\ Len(LogOf(f)) = LogLen(f) /\ n \in Nat
      /\ \A i \in 1 .. n : LogOf(f)[i] = f[i].rec
  BY LogOfFacts
<1>3. t \in Seq(Records) /\ Len(t) = n /\ \A i \in 1 .. n : t[i] = LogOf(f)[i]
  BY <1>2, LogOfFacts
<1>4. \A i \in 1 .. Len(s) : s[i] = t[i]
  BY <1>1, <1>2, <1>3
<1> HIDE DEF s, t
<1>5. s = t
  BY <1>1, <1>3, <1>4, SeqEqual
<1> QED
  BY <1>5 DEF s, t
\* What every step does to the file and to what was acknowledged.
FileUntouched == UNCHANGED <<file, acked>>
FrameWritten ==
  /\ Intact(file)
  /\ \E r \in Records : \E n \in 1 .. Fields : file' = Append(file, Block(r, n))
  /\ UNCHANGED acked
FrameAcked ==
  /\ Intact(file)
  /\ acked' = Len(file)
  /\ UNCHANGED file

LEMMA StepEffect ==
  ASSUME Disciplined, IInv, [Next]_vars
  PROVE  FileUntouched \/ FrameWritten \/ FrameAcked \/ Crash
<1> USE DEF IInv, Disciplined
<1>1. ASSUME NEW h \in Handles,
             Open(h) \/ OpenRefused(h) \/ Close(h) \/ AppendSyncError(h)
      PROVE  FileUntouched
  BY <1>1 DEF Open, OpenRefused, Close, AppendSyncError, FileUntouched
<1>2. ASSUME NEW h \in Handles, AppendSync(h)
      PROVE  FrameAcked
  BY <1>2 DEF AppendSync, FrameAcked, WritingAgrees, AtEnd, HasDescriptor
<1>3. ASSUME NEW h \in Handles, NEW r \in Records, AppendWrite(h, r)
      PROVE  FrameWritten
  <2>1. off[h] = Len(file) /\ Intact(file)
    BY <1>3 DEF AppendWrite, MayAppend, AtEnd, IdleAgrees, HasDescriptor
  <2>2. file' = Append(file, Block(r, Fields)) /\ acked' = acked
    BY <1>3, <2>1 DEF AppendWrite, PutAt, TypeOK
  <2>3. Fields \in 1 .. Fields
    BY DEF Fields
  <2> QED
    BY <2>1, <2>2, <2>3 DEF FrameWritten
<1>4. ASSUME NEW h \in Handles, NEW r \in Records, AppendShortWrite(h, r)
      PROVE  FileUntouched \/ FrameWritten
  <2>1. Intact(file) /\ acked' = acked
    BY <1>4 DEF AppendShortWrite, MayAppend, IdleAgrees
  <2>2. PICK n \in 0 .. Fields - 1 :
               IF n = 0 THEN UNCHANGED <<file, off>>
               ELSE /\ file' = Append(file, Block(r, n))
                    /\ off' = [off EXCEPT ![h] = off[h] + 1]
    BY <1>4 DEF AppendShortWrite
  <2>3. CASE n = 0
    <3>1. file' = file
      BY <2>2, <2>3, Zenon
    <3> QED
      BY <2>1, <3>1 DEF FileUntouched
  <2>4. CASE n # 0
    <3>1. file' = Append(file, Block(r, n))
      BY <2>2, <2>4, Zenon
    <3>2. n \in 1 .. Fields
      BY <2>4 DEF Fields
    <3> QED
      BY <2>1, <3>1, <3>2 DEF FrameWritten
  <2> QED
    BY <2>3, <2>4
<1>5. CASE UNCHANGED vars
  BY <1>5 DEF vars, FileUntouched
<1> QED
  BY <1>1, <1>2, <1>3, <1>4, <1>5 DEF Next

\* A frame that was acknowledged is never replaced nor lost.
THEOREM AppendOnlyCorrect ==
  ASSUME Disciplined
  PROVE  Spec => AppendOnly
<1>1. ASSUME IInv, [Next]_vars, NEW i \in 1 .. acked
      PROVE  i \in DOMAIN file' /\ file'[i] = file[i]
  <2>1. i \in 1 .. Len(file) /\ i <= synced
    BY <1>1 DEF IInv, TypeOK, AckedSynced
  <2>2. CASE FileUntouched \/ FrameAcked
    BY <1>1, <2>1, <2>2 DEF FileUntouched, FrameAcked, IInv, TypeOK
  <2>3. CASE FrameWritten
    <3>1. PICK r \in Records, n \in 1 .. Fields : file' = Append(file, Block(r, n))
      BY <2>3 DEF FrameWritten
    <3>2. Block(r, n) \in Blocks
      BY DEF Block, Blocks
    <3> QED
      BY <1>1, <2>1, <3>1, <3>2 DEF IInv, TypeOK
  <2>4. CASE Crash
    <3>1. PICK n \in synced .. Len(file) :
              /\ n \in Nat /\ Len(file') \in {n, n + 1}
              /\ \A j \in 1 .. n : file'[j] = file[j]
      BY <1>1, <2>4, CrashOutcome DEF Crash, IInv, TypeOK
    <3>2. i \in 1 .. n
      BY <1>1, <2>1, <3>1 DEF IInv, TypeOK
    <3>3. file' \in Seq(Blocks)
      BY <1>1, <2>4, CrashOutcome DEF Crash, IInv, TypeOK
    <3> QED
      BY <3>1, <3>2, <3>3
  <2> QED
    BY <1>1, <2>2, <2>3, <2>4, StepEffect
<1>2. IInv /\ [Next]_vars =>
        [\A i \in 1 .. acked : i \in DOMAIN file' /\ file'[i] = file[i]]_vars
  BY <1>1
<1> QED
  BY <1>2, Invariant, PTL DEF AppendOnly, Spec
-----------------------------------------------------------------------------
\* The evidence file implements the append-only log that loses nothing it
\* has acknowledged: the initial states agree and every step of a disciplined
\* behaviour is a step of the log or leaves it alone.
THEOREM ImplementsEvidenceLog ==
  ASSUME Disciplined
  PROVE  Spec => ImplementsLog
<1>1. Init => Log!LogInit
  BY DEF Init, Log!LogInit, LogOf, LogLen
<1>2. ASSUME IInv, [Next]_vars
      PROVE  [Log!LogNext]_(Log!logVars)
  <2>1. TypeOK /\ TypeOK'
    BY <1>2, TypeStep DEF IInv
  <2> DEFINE L == LogOf(file)
  <2>2. file \in Seq(Blocks) /\ file' \in Seq(Blocks) /\ acked \in Nat
    BY <2>1 DEF TypeOK
  <2>3. CASE FileUntouched
    <3>1. LogOf(file') = L /\ acked' = acked
      BY <2>3 DEF FileUntouched
    <3> QED
      BY <3>1 DEF Log!logVars
  <2>4. CASE FrameAcked
    <3>1. acked' = Len(L) /\ LogOf(file') = L
      BY <2>2, <2>4, LogOfFacts DEF FrameAcked
    <3>2. Log!Acknowledge
      BY <3>1 DEF Log!Acknowledge
    <3> QED
      BY <3>2 DEF Log!LogNext
  <2>5. CASE FrameWritten
    <3>1. PICK r \in Records, n \in 1 .. Fields : file' = Append(file, Block(r, n))
      BY <2>5 DEF FrameWritten
    <3>2. Intact(file) /\ acked' = acked
      BY <2>5 DEF FrameWritten
    <3>3. Block(r, n) \in Blocks /\ Block(r, n).rec = r
      BY DEF Block, Blocks
    <3>4. CASE n = Fields
      <4>1. Whole(Block(r, n))
        BY <3>4 DEF Whole, Block
      <4>2. Intact(file')
        <5>1. ASSUME NEW i \in 1 .. Len(file')
              PROVE  Whole(file'[i])
          <6>1. CASE i \in 1 .. Len(file)
            BY <2>2, <3>1, <3>2, <3>3, <6>1 DEF Intact, Whole
          <6>2. CASE i = Len(file) + 1
            BY <2>2, <3>1, <3>3, <4>1, <6>2 DEF Whole
          <6> QED
            BY <2>2, <3>1, <3>3, <6>1, <6>2
        <5> QED
          BY <5>1 DEF Intact
      <4>3. LogOf(file') = Append(L, r)
        <5>1. LogOf(file') = RecordsOf(file') /\ L = RecordsOf(file)
          BY <2>2, <3>2, <4>2, LogOfFacts
        <5>2. RecordsOf(Append(file, Block(r, n))) = Append(RecordsOf(file), r)
          BY <2>2, <3>3, RecordsAppend
        <5> QED
          BY <3>1, <5>1, <5>2
      <4>4. Log!Write(r)
        BY <3>2, <4>3 DEF Log!Write
      <4> QED
        BY <4>4 DEF Log!LogNext
    <3>5. CASE n # Fields
      <4>1. ~Whole(Block(r, n))
        BY <3>5 DEF Whole, Block
      <4>2. /\ Len(file') = Len(file) + 1 /\ file'[Len(file')] = Block(r, n)
            /\ \A i \in 1 .. Len(file) : file'[i] = file[i]
        BY <2>2, <3>1, <3>3
      <4>3. LogLen(file') = Len(file) /\ LogLen(file) = Len(file)
        BY <2>2, <3>2, <4>1, <4>2, LogOfFacts DEF LogLen, Whole
      <4>4. LogOf(file') = L
        BY <4>2, <4>3 DEF LogOf
      <4> QED
        BY <3>2, <4>4 DEF Log!logVars
    <3> QED
      BY <3>4, <3>5
  <2>6. CASE Crash
    <3>1. file' \in AfterCrash /\ acked' = acked
      BY <2>6 DEF Crash
    <3>2. PICK n \in synced .. Len(file) :
              /\ n \in Nat /\ Len(file') \in {n, n + 1}
              /\ \A i \in 1 .. n : file'[i] = file[i]
              /\ Len(file') = n + 1 => n < Len(file) /\ ~Whole(file'[n + 1])
      BY <2>1, <3>1, CrashOutcome DEF TypeOK
    <3>3. \A i \in 1 .. n : i # Len(file) => Whole(file[i]) /\ Whole(file'[i])
      BY <1>2, <2>2, <3>2 DEF IInv, TornAtEnd, Whole
    <3>4. CASE Len(file') = Len(file) /\ n = Len(file)
      <4>1. LogLen(file') = LogLen(file)
        BY <2>2, <3>2, <3>4 DEF LogLen, Whole
      <4>2. LogOf(file') = L
        BY <2>2, <3>2, <3>4, <4>1, LogOfFacts DEF LogOf
      <4> QED
        BY <3>1, <4>2 DEF Log!logVars
    <3>5. CASE n < Len(file)
      <4>1. LogLen(file') = n
        <5>1. CASE Len(file') = n
          BY <2>2, <3>2, <3>3, <3>5, <5>1 DEF LogLen
        <5>2. CASE Len(file') = n + 1
          BY <2>2, <3>2, <5>2 DEF LogLen, Whole
        <5> QED
          BY <3>2, <5>1, <5>2
      <4>2. n \in 0 .. LogLen(file)
        BY <2>2, <3>2, <3>5 DEF LogLen
      <4>3. LogOf(file') = SubSeq(L, 1, n)
        BY <2>2, <3>2, <4>1, <4>2, SameLog
      <4>4. n \in acked .. Len(L)
        <5>1. acked <= synced /\ synced \in Nat
          BY <1>2, <2>1 DEF IInv, AckedSynced, TypeOK
        <5>2. Len(L) = LogLen(file)
          BY <2>2, LogOfFacts
        <5> QED
          BY <2>2, <3>2, <4>2, <5>1, <5>2
      <4>5. Log!Lose
        BY <3>1, <4>3, <4>4 DEF Log!Lose
      <4> QED
        BY <4>5 DEF Log!LogNext
    <3> QED
      BY <2>2, <3>2, <3>4, <3>5
  <2> QED
    BY <1>2, <2>3, <2>4, <2>5, <2>6, StepEffect
<1> QED
  BY <1>1, <1>2, Invariant, PTL DEF ImplementsLog, Log!LogSpec, Spec
-----------------------------------------------------------------------------
\* What one reader takes of any frame the next one takes, and none takes a
\* frame that is not sealed.
LEMMA TakesNest ==
  ASSUME NEW fr
  PROVE  /\ ExportTakes(fr) => OpenerTakes(fr)
         /\ OpenerTakes(fr) => ReaderTakes(fr)
         /\ ReaderTakes(fr) => fr.sealed
  BY DEF ExportTakes, OpenerTakes, ReaderTakes

\* Of a frame append wrote, the opener and read_frames ask that it is whole;
\* read_export asks besides that its payload is small.
LEMMA TakesWhole ==
  ASSUME NEW b \in Blocks
  PROVE  /\ OpenerTakes(Frame(b)) <=> Whole(b)
         /\ ReaderTakes(Frame(b)) <=> Whole(b)
         /\ ExportTakes(Frame(b)) <=> Whole(b) /\ Frame(b).size = "small"
<1>1. b.rec.tag = "registered" /\ b.rec.size \in {"small", "large"}
  BY RecordsAdmitted DEF Blocks, Admitted
<1>2. /\ Frame(b).tag = b.rec.tag /\ Frame(b).size = b.rec.size
      /\ Frame(b).got = b.got /\ Frame(b).sealed = TRUE
  BY DEF Frame
<1> HIDE DEF Frame
<1>3. OpenerTakes(Frame(b)) <=> Whole(b)
  BY <1>1, <1>2 DEF OpenerTakes, Whole
<1>4. ReaderTakes(Frame(b)) <=> Whole(b)
  BY <1>1, <1>2 DEF ReaderTakes, Whole
<1>5. ExportTakes(Frame(b)) <=> Whole(b) /\ Frame(b).size = "small"
  BY <1>1, <1>2 DEF ExportTakes, Whole
<1> QED
  BY <1>3, <1>4, <1>5

\* The frames a reader meets.
LEMMA FramesMet ==
  ASSUME NEW f \in Seq(Blocks)
  PROVE  /\ FramesOf(f) \in Seq(Frames) /\ Len(FramesOf(f)) = Len(f)
         /\ DOMAIN FramesOf(f) = 1 .. Len(f)
         /\ \A i \in 1 .. Len(f) : f[i] \in Blocks /\ FramesOf(f)[i] = Frame(f[i])
<1>1. Len(f) \in Nat /\ \A i \in 1 .. Len(f) : f[i] \in Blocks
  BY LenProperties
<1>2. \A b \in Blocks : Frame(b) \in Frames
  <2> SUFFICES ASSUME NEW b \in Blocks PROVE Frame(b) \in Frames
    OBVIOUS
  <2>1. b.rec.tag \in Tags /\ b.rec.size \in Sizes /\ b.got \in 1 .. Fields
    BY RecordsAdmitted DEF Blocks
  <2> QED
    BY <2>1 DEF Frame, Frames
<1>3. FramesOf(f) = [i \in 1 .. Len(f) |-> Frame(f[i])]
  BY DEF FramesOf
<1>4. FramesOf(f) \in [1 .. Len(f) -> Frames]
  BY <1>1, <1>2, <1>3
<1>5. FramesOf(f) \in Seq(Frames)
  BY <1>1, <1>4, IsASeq
<1>6. Len(FramesOf(f)) = Len(f)
  BY <1>1, <1>3, <1>5, LenProperties
<1> QED
  BY <1>1, <1>3, <1>5, <1>6

\* read_frames yields the records of the log, and nothing of a torn last frame.
LEMMA YieldedIsLog ==
  ASSUME NEW f \in Seq(Blocks), \A i \in 1 .. Len(f) : Whole(f[i]) \/ i = Len(f)
  PROVE  [i \in 1 .. Len(Yielded(FramesOf(f))) |-> f[i].rec] = LogOf(f)
<1> DEFINE fs == FramesOf(f)
           m == LogLen(f)
           T == {n \in 0 .. Len(fs) : \A i \in 1 .. n : ReaderTakes(fs[i])}
<1>1. /\ fs \in Seq(Frames) /\ Len(fs) = Len(f) /\ Len(f) \in Nat
      /\ \A i \in 1 .. Len(f) : ReaderTakes(fs[i]) <=> Whole(f[i])
  BY FramesMet, TakesWhole, LenProperties
<1>2. /\ m \in 0 .. Len(f) /\ \A i \in 1 .. m : Whole(f[i])
      /\ m < Len(f) => m + 1 = Len(f) /\ ~Whole(f[m + 1])
  BY <1>1 DEF LogLen
<1> HIDE DEF fs, m
<1>3. m \in T /\ \A n \in T : m >= n
  <2>1. m \in T
    BY <1>1, <1>2
  <2>2. ASSUME NEW n \in T PROVE m >= n
    <3>1. n \in 0 .. Len(f) /\ \A i \in 1 .. n : ReaderTakes(fs[i])
      BY <1>1
    <3>2. CASE m < n
      <4>1. m + 1 \in 1 .. n /\ m + 1 \in 1 .. Len(f) /\ m < Len(f)
        BY <1>1, <1>2, <3>1, <3>2
      <4> QED
        BY <1>1, <1>2, <3>1, <4>1
    <3> QED
      BY <1>1, <1>2, <3>1, <3>2
  <2> QED
    BY <2>1, <2>2
<1>4. \A n \in T : n \in Nat
  BY <1>1
<1> HIDE DEF T
<1>5. Max(T) = m
  <2>1. Max(T) \in T /\ \A y \in T : Max(T) >= y
    BY <1>3 DEF Max
  <2>2. Max(T) >= m /\ m >= Max(T) /\ m \in Nat /\ Max(T) \in Nat
    BY <1>3, <1>4, <2>1
  <2> QED
    BY <2>2
<1>6. Yielded(fs) = SubSeq(fs, 1, m)
  BY <1>5 DEF Yielded, T
<1>7. Len(Yielded(fs)) = m
  BY <1>1, <1>2, <1>6
<1> QED
  BY <1>7 DEF LogOf, fs, m

\* The three readers agree on every file the chain leaves, and on it followed
\* by one more frame of any writer each takes no more than the next.
THEOREM ReadersCorrect ==
  ASSUME Disciplined
  PROVE  Spec => []ReadersAgree
<1>1. IInv => ReadersAgree
  <2> SUFFICES ASSUME IInv PROVE ReadersAgree
    OBVIOUS
  <2> DEFINE fs == FramesOf(file)
  <2>1. /\ file \in Seq(Blocks) /\ \A i \in 1 .. Len(file) : Whole(file[i]) \/ i = Len(file)
    BY DEF IInv, TypeOK, TornAtEnd
  <2>2. [i \in 1 .. Len(Yielded(fs)) |-> file[i].rec] = LogOf(file)
    BY <2>1, YieldedIsLog
  <2>3. /\ fs \in Seq(Frames) /\ DOMAIN fs = 1 .. Len(file)
        /\ \A i \in 1 .. Len(file) : file[i] \in Blocks /\ fs[i] = Frame(file[i])
    BY <2>1, FramesMet
  <2> HIDE DEF fs
  <2>4. \A i \in DOMAIN fs :
          /\ OpenerTakes(fs[i]) <=> Whole(file[i])
          /\ ReaderTakes(fs[i]) <=> Whole(file[i])
          /\ ExportTakes(fs[i]) <=> Whole(file[i]) /\ fs[i].size = "small"
    BY <2>3, TakesWhole
  <2>5. Opens(fs) <=> Intact(file)
    BY <2>3, <2>4 DEF Opens, Intact
  <2>6. ReadsThrough(fs) <=> Opens(fs)
    BY <2>4 DEF Opens, ReadsThrough
  <2>7. Exported(fs) <=> Opens(fs) /\ \A i \in DOMAIN fs : fs[i].size = "small"
    BY <2>4 DEF Opens, Exported
  <2>8. ASSUME NEW fr \in Frames, NEW gs, gs = Append(fs, fr)
        PROVE  /\ Exported(gs) => Opens(gs)
               /\ Opens(gs) => ReadsThrough(gs)
               /\ ReadsThrough(gs) => fr.sealed
    <3>1. Len(fs) + 1 \in DOMAIN gs /\ gs[Len(fs) + 1] = fr
      BY <2>3, <2>8, AppendProperties, LenProperties
    <3>2. Exported(gs) => Opens(gs)
      BY TakesNest DEF Exported, Opens
    <3>3. Opens(gs) => ReadsThrough(gs)
      BY TakesNest DEF ReadsThrough, Opens
    <3>4. ReadsThrough(gs) => fr.sealed
      BY <3>1, TakesNest DEF ReadsThrough
    <3> QED
      BY <3>2, <3>3, <3>4
  <2> QED
    BY <2>2, <2>5, <2>6, <2>7, <2>8 DEF ReadersAgree, fs
<1> QED
  BY <1>1, Invariant, PTL
=============================================================================
