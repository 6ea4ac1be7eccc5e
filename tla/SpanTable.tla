----------------------------- MODULE SpanTable ------------------------------
(***************************************************************************)
(* What one trace promises its readers, without columns, offsets or        *)
(* pending lists: a table from span ids to spans.  A span that arrives     *)
(* again replaces the contents of its entry; the parent an entry names is  *)
(* the one its first arrival declared.                                     *)
(***************************************************************************)
CONSTANTS SpanIds, Spans, None

VARIABLES table,
          arrival   \* the span the latest call brought, None before the first

vars == <<table, arrival>>

Entry(span, parent) ==
  [parent |-> parent, body |-> span.body, service |-> span.service, attrs |-> span.attrs]

Init == table = [s \in SpanIds |-> None] /\ arrival = None

Put(span) ==
  LET known == table[span.id]
  IN  /\ arrival' = span
      /\ table' = [table EXCEPT ![span.id] =
                     Entry(span, IF known = None THEN span.parent ELSE known.parent)]

Next == \E span \in Spans : Put(span)

Spec == Init /\ [][Next]_vars

(***************************************************************************)
(* The table the documentation of `insert` describes: a repeated span      *)
(* replaces its entry, parent included.                                    *)
(***************************************************************************)
Replace(span) ==
  /\ arrival' = span
  /\ table' = [table EXCEPT ![span.id] = Entry(span, span.parent)]

LastWriteWinsSpec == Init /\ [][\E span \in Spans : Replace(span)]_vars
=============================================================================
