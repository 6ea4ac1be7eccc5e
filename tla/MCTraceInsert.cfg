SPECIFICATION Spec
CONSTANTS
  None = None
  s1 = s1  s2 = s2  s3 = s3
  b1 = b1  b2 = b2
  v1 = v1  v2 = v2
  SpanIds <- MCSpanIds
  Bodies = {b1, b2}
  AttrValues = {v1, v2}
  Spans <- MCSpans
  Times = {0}
SYMMETRY MCSymmetry
INVARIANTS ColumnsConsistent OrphansHeal
PROPERTIES RowsStable ImplementsTable
