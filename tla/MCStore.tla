------------------------------ MODULE MCStore -------------------------------
(***************************************************************************)
(* The store with and without the demo traces.  The budget has room for    *)
(* the last of them and little else, and the interners for one name.       *)
(***************************************************************************)
EXTENDS Demo

CONSTANTS t1, t2, s1, s2, k1, k2, n1, n2, b1, b2, v1, q1, q2

MCQueries == <<q1, q2>>

MCTraceIds == DemoTraces \cup {t1, t2}
MCSpanIds  == {Seed[i].id : i \in 1..Len(Seed)} \cup {"neverprt", s1, s2}
MCServices == ({Seed[i].service : i \in 1..Len(Seed)} \ {None}) \cup {n1, n2}

MCBodies == {Seed[i].body : i \in 1..Len(Seed)} \cup {b1, b2}

MCNameLen ==
  [b \in MCBodies |->
     CASE b = b1 -> 1
       [] b = b2 -> 40
       [] b \in {q1, q2} -> 7
       [] OTHER -> Len(b)]

Span(t, s, p, b, n, ks) ==
  [trace |-> t, id |-> s, parent |-> p, body |-> b, service |-> n,
   attrs |-> [j \in 1..Len(ks) |-> [key |-> ks[j], value |-> v1]]]

\* A parent and a child in each trace, a repeat of the child that names no parent, and
\* more keys and services than the interners hold.
MCSpans ==
  UNION {{Span(t, s1, None, b1, n1, <<>>),
          Span(t, s2, s1, b2, n2, <<k1, k2>>),
          Span(t, s2, None, b1, None, <<k2>>)} : t \in {t1, t2}}

MCBatches ==
  {[spans |-> <<x>>, malformed |-> 0] : x \in MCSpans}
    \cup {[spans |-> <<p[1], p[2]>>, malformed |-> 1] :
            p \in {q \in MCSpans \X MCSpans : q[1].trace # q[2].trace \/ q[1].parent # q[2].parent}}
=============================================================================
