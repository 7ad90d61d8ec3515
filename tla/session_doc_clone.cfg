\* Labels, no failing disk: a compaction keeps from a label on, and a clone
\* takes the labels out.
CONSTANTS
  Files = {f1, f2}
  NoFile = NoFile
  Cut = Cut
  Bad = Bad
  None = None
  Scenarios <- LabelledConversation
SPECIFICATION MCSpec
SYMMETRY FileSymmetry
PROPERTIES CloneDuplicates
CHECK_DEADLOCK FALSE
