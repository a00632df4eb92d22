\* Two handles used one after the other, every failure of write, fsync and
\* the machine; the callers' discipline of the repository.
SPECIFICATION Spec
CONSTANTS
  Handles = {h1, h2}
  Records <- SmallAndLarge
  MaxFrames = 3
  Exclusive = TRUE
  StopOnError = TRUE
INVARIANTS TypeOK HeadIsReplay AckedOnDisk TornIsLast ReadersAgree
PROPERTIES AppendOnly ImplementsLog
SYMMETRY Symmetry
