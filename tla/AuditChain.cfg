\* Racing writers, interrupted in any step, whose torn writes leave a piece of
\* a record; and a file that is edited or loses lines from outside.
CONSTANTS
  Writers = {w1, w2, w3}
  NoWriter = NoWriter
  Bodies = {b1, b2}
  MaxLines = 4
  Torn = {"piece"}
  Changes = {"edit", "delete"}
SPECIFICATION Spec
SYMMETRY Symmetry
INVARIANTS
  TypeOK
  RecordedVerifies
  VerifiedIsComplete
