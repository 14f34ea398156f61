SPECIFICATION Spec
CONSTANTS
  Pins = {p, q}
  Target <- Newer
  FirstTag = 1
  WebTags = {w1, w2}
  Inodes = {i1, i2, i3}
  None = None
  MaxEdits = 2
SYMMETRY Symmetry
INVARIANTS TypeOK OneTransaction DriftLeavesEvidence
PROPERTIES CleanEndsAreSettled
CHECK_DEADLOCK FALSE
