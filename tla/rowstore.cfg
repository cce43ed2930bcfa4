CONSTANTS
  Writers = {w1, w2}
  Scope = {"QUEUED", "FAILED"}
  MaxVersion = 3
  MaxBorn = 2
  MaxMessage = 1
SPECIFICATION Spec
SYMMETRY WriterSymmetry
INVARIANTS
  RevisionTellsStaleness
  SnapshotCoherent
PROPERTIES
  SecondWriterLoses
  TombstoneFreezes
  BlobNeverWiped
