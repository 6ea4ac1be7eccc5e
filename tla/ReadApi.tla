------------------------------ MODULE ReadApi -------------------------------
(***************************************************************************)
(* api/traces.rs, attributes.rs and events.rs, and the `--dump` client of  *)
(* dump.rs, composed with the store and its writer.                        *)
(*                                                                         *)
(* A handler copies what it needs out of the store under the read lock, so *)
(* one request is one step between two batches.  What takes several        *)
(* requests is not: the browser keeps a trace on the page and asks for the *)
(* attributes of a row later, and `--dump` lists the traces and then       *)
(* fetches them one by one.  The writer runs in between.                   *)
(*                                                                         *)
(* The browser is external; what it does is what the routes are for:       *)
(* re-fetch when the event stream says so, open a trace, click on a row.   *)
(***************************************************************************)
EXTENDS Store, SequencesExt

CONSTANTS
  Strings,          \* what names, status messages and service names are made of
  NameOf,           \* the name in each body
  StatusMessageOf,  \* the status message in each body
  StartOf, EndOf    \* the times in each body

ASSUME ReadApiAssumption ==
  /\ ServiceNames \subseteq Strings
  /\ NameOf \in [Bodies -> Strings]
  /\ StatusMessageOf \in [Bodies -> Strings]
  /\ {StartOf, EndOf} \subseteq [Bodies -> Nat]

VARIABLES
  seen,      \* the sequence number the event stream yielded last, None before the first
  stale,     \* an event has come and the list has not been fetched since
  listing,   \* the browser's copy of GET /api/traces
  page,      \* its copy of GET /api/traces/:id, None when there is none
  pageIds,   \* history: the spans the rows of the page stand for
  clicked,   \* the answer to GET .../spans/:idx/attributes, with the spans meant and read
  dump,      \* the state of a `--dump`
  dumpStart  \* history: evictions counted and generations held when it listed the traces

browserVars == <<seen, stale, listing, page, pageIds, clicked>>
dumpVars    == <<dump, dumpStart>>
readVars    == <<vars, browserVars, dumpVars>>

Nothing == <<>>   \* a listing with no traces in it

NoBrowser ==
  /\ seen = None /\ stale = FALSE /\ listing = Nothing
  /\ page = None /\ pageIds = <<>> /\ clicked = None

DumpOff == dump.at = "off"

ReadInit ==
  /\ Init
  /\ NoBrowser
  /\ dump = [at |-> "off", left |-> {}, rows |-> Nothing, full |-> Nothing, receiver |-> None]
  /\ dumpStart = [evicted |-> 0, generation |-> Nothing]

CanRead == ~LockHeld

-----------------------------------------------------------------------------
(* What the routes return.                                                 *)

\* Mutant of EarliestStart: the start of the first row.
EarliestStartFirst(trace) == StartOf[trace.body[1]]

EarliestStart(trace) == Min({StartOf[b] : b \in Range(trace.body)})

\* checked_sub; a trace is never empty here.
DurationNanos(trace) ==
  LET latestEnd == Max({EndOf[b] : b \in Range(trace.body)})
  IN  IF latestEnd < EarliestStart(trace) THEN None ELSE latestEnd - EarliestStart(trace)

Summary(t) ==
  [spanCount |-> SpanCount(traces[t]),
   duration  |-> DurationNanos(traces[t]),
   services  |-> {Get(serviceInterner, id) : id \in Range(traces[t].serviceNameId) \ {None}}]

ListTraces == [t \in Resident |-> Summary(t)]

(***************************************************************************)
(* `StringTable`: one table for the names, the status messages and the     *)
(* service names of a payload.                                             *)
(***************************************************************************)
InternString(strings, s) == IF s \in Range(strings) THEN strings ELSE Append(strings, s)

\* Mutant of StringId: the length after the push in place of the one before it.
StringIdAfterPush(strings, s) == CHOOSE i \in 1..Len(strings) : strings[i] = s

StringId(strings, s) == (CHOOSE i \in 1..Len(strings) : strings[i] = s) - 1

PushPayloadRow(payload, trace, i) ==
  LET name    == NameOf[trace.body[i]]
      message == StatusMessageOf[trace.body[i]]
      service == trace.serviceNameId[i]
      named   == InternString(InternString(payload.stringTable, name), message)
      table   == IF service = None THEN named
                 ELSE InternString(named, Get(serviceInterner, service))
  IN  [payload EXCEPT
         !.stringTable      = table,
         !.nameIdx          = Append(@, StringId(table, name)),
         !.statusMessageIdx = Append(@, StringId(table, message)),
         !.serviceIdx       = Append(@, IF service = None THEN None
                                        ELSE StringId(table, Get(serviceInterner, service)))]

\* The loop of get_trace: the strings of the payload after each row.
PayloadStrings(trace) ==
  LET after[i \in 0..SpanCount(trace)] ==
        IF i = 0 THEN [stringTable |-> <<>>, nameIdx |-> <<>>,
                       statusMessageIdx |-> <<>>, serviceIdx |-> <<>>]
        ELSE PushPayloadRow(after[i - 1], trace, i)
  IN  after

GetTrace(trace) ==
  LET strings == PayloadStrings(trace)[SpanCount(trace)]
  IN  [generation |-> trace.generation, parentIdx |-> trace.parentIdx,
       orphan |-> trace.orphan, stringTable |-> strings.stringTable,
       nameIdx |-> strings.nameIdx, statusMessageIdx |-> strings.statusMessageIdx,
       serviceIdx |-> strings.serviceIdx]

GetAttributes(trace, i) ==
  [j \in 1..AttributeCount(trace, i) |->
     [key   |-> Get(keyInterner, Attributes(trace, i)[j].key),
      value |-> Attributes(trace, i)[j].value]]

-----------------------------------------------------------------------------
(* The browser.                                                            *)

\* WatchStream yields the current number on connect and then whenever it has changed.
Event ==
  /\ seen # seq
  /\ seen' = seq
  /\ stale' = TRUE
  /\ UNCHANGED <<vars, listing, page, pageIds, clicked, dumpVars>>

Refetch ==
  /\ stale /\ CanRead
  /\ listing' = ListTraces
  /\ stale' = FALSE
  /\ UNCHANGED <<vars, seen, page, pageIds, clicked, dumpVars>>

OpenTrace(t) ==
  /\ t \in DOMAIN listing /\ CanRead
  /\ IF t \in Resident
     THEN /\ page' = [trace |-> t, payload |-> GetTrace(traces[t])]
          /\ pageIds' = traces[t].spanIds
     ELSE page' = None /\ pageIds' = <<>>
  /\ clicked' = None
  /\ UNCHANGED <<vars, seen, stale, listing, dumpVars>>

ClickRow(i) ==
  /\ page # None /\ i \in 1..Len(pageIds) /\ CanRead
  /\ LET t == page.trace
     IN  IF t \in Resident /\ i <= SpanCount(traces[t])
         THEN clicked' = [row     |-> pageIds[i],
                          span    |-> traces[t].spanIds[i],
                          entries |-> GetAttributes(traces[t], i)]
         ELSE clicked' = None
  /\ UNCHANGED <<vars, seen, stale, listing, page, pageIds, dumpVars>>

-----------------------------------------------------------------------------
(* `fetch_dump`: GET /api/traces, then every trace, then /api/receiver.    *)

DumpList ==
  /\ dump.at = "off" /\ CanRead
  /\ dump' = [dump EXCEPT !.at = "traces", !.left = Resident, !.rows = ListTraces]
  /\ dumpStart' = [evicted    |-> counters.evictedTraces,
                   generation |-> [t \in Resident |-> traces[t].generation]]
  /\ UNCHANGED <<vars, browserVars>>

\* Mutant of DumpWithout: a trace that is gone is skipped.
DumpWithoutSkips(t) == [dump EXCEPT !.left = @ \ {t}]

\* A 404 for one trace is an error for the whole dump.
DumpWithout(t) == [dump EXCEPT !.at = "error"]

DumpTrace(t) ==
  /\ dump.at = "traces" /\ t \in dump.left /\ CanRead
  /\ dump' = IF t \in Resident
             THEN [dump EXCEPT
                     !.left = @ \ {t},
                     !.full = [x \in DOMAIN @ \cup {t} |->
                                 IF x = t THEN GetTrace(traces[t]) ELSE @[x]]]
             ELSE DumpWithout(t)
  /\ UNCHANGED <<vars, browserVars, dumpStart>>

DumpReceiver ==
  /\ dump.at = "traces" /\ dump.left = {} /\ CanRead
  /\ dump' = [dump EXCEPT !.at = "ok", !.receiver = counters]
  /\ UNCHANGED <<vars, browserVars, dumpStart>>

-----------------------------------------------------------------------------

StoreStep == Next /\ UNCHANGED <<browserVars, dumpVars>>

BrowserStep ==
  \/ Event \/ Refetch
  \/ \E t \in TraceIds : OpenTrace(t)
  \/ \E i \in 1..Len(pageIds) : ClickRow(i)

DumpStep == DumpList \/ (\E t \in TraceIds : DumpTrace(t)) \/ DumpReceiver

\* One client at a time: clients only read, so none can tell whether there is another.
BrowserAlone == DumpOff /\ BrowserStep
DumpAlone    == NoBrowser /\ DumpStep

ReadSpec == ReadInit /\ [][StoreStep \/ BrowserAlone \/ DumpAlone]_readVars

-----------------------------------------------------------------------------

(***************************************************************************)
(* What makes the generation in a payload useful: as long as the trace has *)
(* the generation the page was fetched with, the rows on the page are the  *)
(* first rows of the trace, so a stored index still means its span.        *)
(***************************************************************************)
GenerationPinsRows ==
  page # None /\ traces[page.trace] # None
    /\ traces[page.trace].generation = page.payload.generation
    => IsPrefix(pageIds, traces[page.trace].spanIds)

(***************************************************************************)
(* The payload's indices lead back to the strings of the columns, through  *)
(* a table the three kinds share and that holds each string once; each     *)
(* column has an entry for each row.                                       *)
(***************************************************************************)
Decodes(payload, trace) ==
  LET Str(id) == payload.stringTable[id + 1]
  IN  /\ \A column \in {"parentIdx", "orphan", "nameIdx", "statusMessageIdx", "serviceIdx"} :
           Len(payload[column]) = SpanCount(trace)
      /\ \A i, j \in 1..Len(payload.stringTable) :
           payload.stringTable[i] = payload.stringTable[j] => i = j
      /\ \A i \in 1..SpanCount(trace) :
           /\ Str(payload.nameIdx[i]) = NameOf[trace.body[i]]
           /\ Str(payload.statusMessageIdx[i]) = StatusMessageOf[trace.body[i]]
           /\ IF trace.serviceNameId[i] = None THEN payload.serviceIdx[i] = None
              ELSE Str(payload.serviceIdx[i]) = Get(serviceInterner, trace.serviceNameId[i])

PayloadDecodes ==
  CanRead => \A t \in Resident : Decodes(GetTrace(traces[t]), traces[t])

(***************************************************************************)
(* The list and the page agree on how long a trace took, whatever clocks   *)
(* the spans come from: it lasts at least as long as any of its spans that *)
(* does not end before it starts, and no longer than from the start of one *)
(* span to the end of another.                                             *)
(***************************************************************************)
DurationCoversSpans ==
  CanRead => \A t \in Resident :
    LET duration == ListTraces[t].duration
        bodies   == Range(traces[t].body)
    IN  /\ \A b \in bodies :
             EndOf[b] >= StartOf[b] => duration # None /\ duration >= EndOf[b] - StartOf[b]
        /\ duration # None => \E b, c \in bodies : duration = EndOf[c] - StartOf[b]

(***************************************************************************)
(* No change goes unannounced: when the writer waits for a batch and the   *)
(* browser has re-fetched after the latest event, it shows the store as it *)
(* is.  The number is bumped after the lock is released, so a fetch made   *)
(* on an event always sees the batch the event is about.                   *)
(***************************************************************************)
ListingCurrent ==
  pc = "recv" /\ seen = seq /\ ~stale => listing = ListTraces

(***************************************************************************)
(* A dump fails only when a trace it listed has been evicted since.  One   *)
(* that succeeds has every trace it listed, and none with fewer rows than  *)
(* listed unless it was evicted and came back in between.                  *)
(***************************************************************************)
DumpHonest ==
  /\ dump.at = "error" => counters.evictedTraces > dumpStart.evicted
  /\ dump.at = "ok" => \A t \in DOMAIN dump.rows :
       /\ t \in DOMAIN dump.full
       /\ dump.full[t].generation >= dumpStart.generation[t]
       /\ dump.full[t].generation = dumpStart.generation[t]
            => Len(dump.full[t].parentIdx) >= dump.rows[t].spanCount

(***************************************************************************)
(* The generation counter's purpose in the specification: the attributes   *)
(* shown for a row are those of the span on that row.                      *)
(***************************************************************************)
ClickShowsRow == clicked # None => clicked.span = clicked.row
=============================================================================
