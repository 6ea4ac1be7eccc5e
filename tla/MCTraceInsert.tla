--------------------------- MODULE MCTraceInsert ----------------------------
EXTENDS TraceInsert, TLC

CONSTANTS s1, s2, s3, b1, b2, v1, v2

MCSpanIds == {s1, s2, s3}

\* Slices of length 0, 1 and 2, so that an overwrite shrinks, keeps and grows a row.
MCContents ==
  {[body |-> b1, service |-> None, attrs |-> <<>>],
   [body |-> b2, service |-> 0,
    attrs |-> <<[key |-> 0, value |-> v1]>>],
   [body |-> b1, service |-> 1,
    attrs |-> <<[key |-> 1, value |-> v2], [key |-> 0, value |-> v2]>>]}

MCSpans ==
  {[id |-> s, parent |-> p, body |-> c.body, service |-> c.service, attrs |-> c.attrs] :
     s \in MCSpanIds, p \in Optional(MCSpanIds), c \in MCContents}
\* Span ids are compared, never ordered.
MCSymmetry == Permutations(MCSpanIds)
=============================================================================
