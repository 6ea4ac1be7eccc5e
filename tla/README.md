# spanfall, specified in TLA+

spanfall is a local OpenTelemetry trace viewer: it receives spans over OTLP/gRPC
and OTLP/HTTP, keeps them in memory in a columnar store that evicts whole traces
when a budget is exceeded, and serves them over a small read API. This directory
holds TLA+ specifications of its core, TLC configurations that model-check them,
and proofs checked by TLAPS.

Paths below are relative to the repository root (`src/store/trace.rs` is the
file of that name under its Cargo `src/` directory).

## 1. Inventory

| Component | State | Operations | Interacts with |
|---|---|---|---|
| Trace columns, `src/store/trace.rs` | parallel columns, one row per span; dense attribute arrays cut by offsets; `span_index`; `pending_children`; generation; last activity | `new`, `insert` (append or `overwrite_at`), accessors | called by the store under the write lock |
| Interner, `src/store/interner.rs` | `map`, `values`, `cap`, `cap_hit_count` | `intern`, `lookup`, `get` | two of them in the store, one for keys, one for services |
| Store, `src/store/mod.rs`, `src/receiver.rs` | resident traces, interners, generations of evicted traces, counters | `insert_span_no_evict`, `evict_over_budget`, accessors | shared with the readers behind one `RwLock` |
| Writer, `src/store/writer.rs` | the receiving end of the channel; the watch channel's number | `run`: receive, lock, insert all, count malformed, evict, unlock, announce | the only task that changes the store |
| Conversion, `src/ingest/convert.rs` | none | `decode`, `convert` | called by the handlers |
| Ingest handlers, `src/ingest/handler.rs`, `http.rs`, `grpc.rs` | one task per request | decode, convert behind `catch_unwind`, send with a timeout, answer | channel to the writer; receiver state |
| Receiver state, `src/ingest/receiver_state.rs` | arrival counts, reject ring | `record`, `push` | behind its own `RwLock`; read by `/api/receiver` |
| Port sniffing, `src/ingest/sniff.rs` | accept loop | peek, fork to tonic or to a 400 | in front of the gRPC server |
| Read API, `src/api/` | none of its own | list, trace, attributes, filter, receiver, events, lint stub | read lock on store and receiver state, watch channel |
| Clients, `src/dump.rs`, `src/client.rs` | one connection per GET | `list`, `--dump` | whoever holds the API port |
| Demo, `src/demo.rs` | none | `seed`, before the writer exists | the store |
| Process start, `src/main.rs`, `cli.rs`, `port_conflict.rs` | three bound ports | parse, bind, banner, seed, serve, stop | other invocations and other programs, through the ports |

What is hard here, and hard to test:

* **Order of arrival.** Spans of a trace come in any order and may come again
  with other contents. The parent links are patched in after the fact, and the
  attribute slices are spliced in place.
* **Eviction and return.** A trace can be dropped and come back; the generation,
  the counters and the remembered generation have to agree.
* **One clock reading per batch.** Eviction order is decided by wall-clock time
  with ties.
* **Limits.** The interners' caps, the channel's capacity, the reject ring and
  the memory budget each have an edge.
* **Handlers against the writer.** Timeouts, disconnects, retries and a writer
  that dies, around one await.
* **Connections in one line.** A single loop accepts and peeks on :4317, so one
  client can hold up all others.
* **Readers over several requests.** Each request is atomic, a page with row
  indices or a dump is not: traces go and come back in between.
* **Two locks for one answer.** `/api/receiver` reads the counters and the arrivals
  one after the other, while handlers and writer go on.
* **Starting up.** Three ports are bound one by one while other programs, or another
  spanfall, do the same; the kernel accepts connections from the bind on, long before
  anything is served or seeded.
* **State that leaks.** The tokenizer's flags outlive a token, and the interner
  that resolves a filter's key is shared by all traces.

`PROJECT.json` lists each hazard at its line with the properties that cover it.
The properties that make each component correct are in section 4.

## 2. Modules

| Module | What it is |
|---|---|
| `Interner` | operators for the interner, its type and consistency |
| `Trace` | operators for a trace: `NewTrace`, `Insert` and its parts; `TraceInv` |
| `SpanTable` | abstract specification of a trace: a table from span ids to spans |
| `TraceInsert` | one trace receiving spans in any order; implements `SpanTable` |
| `SpanStore` | abstract specification of the store: tables, lives, learnt names, statistics |
| `Store` | store and writer |
| `Convert` | `convert` as a pure operator, its loops as recursive functions |
| `Ingest` | request handlers, channel, reject ring, arrival counts, abstract writer |
| `Sniff` | accept loop, peeks, channel to tonic and refusals on :4317 |
| `ReadApi` | the read routes, a browser and a `--dump`, beside the store and its writer |
| `Pipeline` | `Ingest` and `Store` joined by their channel, with `/api/receiver` reading both |
| `Demo` | the store seeded before its writer runs, or not; implements `SpanStore` |
| `Start` | invocations of the program, their ports, and the `list` and `--dump` clients |
| `Tokenize` | the filter's tokenizer, one step per character |
| `Query` | `Tokenize` and then one step per token: key, operator and value |
| `Filter` | terms, their evaluation and the filter's answer over the store |
| `MCTraceInsert`, `MCStore`, `MCIngest`, `MCPipeline`, `MCSniff`, `MCReadApi`, `MCStart` | instances for TLC, `MCReadApi` of `ReadApi` and `Filter` together; `Query` needs none |
| `TraceProofs` | lemmas about the operators of `Interner` and `Trace` |
| `TraceInsertProofs`, `StoreProofs`, `DemoProofs`, `PipelineProofs`, `SniffProofs`, `StartProofs`, `ApiProofs` | theorems about the specifications; `PipelineProofs` is about `Ingest`, `Convert` and `Pipeline`, `ApiProofs` about `ReadApi` and `Filter` |

`Store` and `TraceInsert` extend `Trace`, which extends `Interner`; `Ingest`
extends `Convert`. `Pipeline` extends `Ingest` and `Store` and makes joint
actions of theirs. `Demo` extends `Store` by the seeding; its steps are the store's,
so `MCStore` checks the store with and without it. `ReadApi` and `Filter` extend
`Store`: the first adds clients, the second only operators on the store's state.
`Query` extends `Tokenize`. `Sniff` and `Start` stand alone.

### How the models correspond to the code

**Trace.** A trace is a record of sequences, one per column. The six columns that
are only ever written together (`names`, the two times, the two status columns,
`unknown_service`) are one column `body`. Local indices start at 1. The hash maps
are total functions with `None` for a missing key; `pending_children` holds sets,
since a row waits once and the order of patching does not matter. `Insert`
covers the whole of `insert` after the keys are interned: touch the activity
time, overwrite or push every column, resolve the parent or wait, then adopt the
rows that waited. A span that names itself as parent first waits for itself and
is then patched, as in the code.

**Store and writer.** Each program point of `run` is a value of `pc`: receive,
append (one step for the service name, one per attribute key, one for the row and
the counters), evict (one step per trace), release, announce. The lock is held
except at `recv` and `notify`, so those are the states a reader can see.
`EvictOldest` chooses any trace with the least activity time, because
`min_by_key` over a hash map returns any of them. The clock moves by an element
of `ClockSteps` between two batches; `SystemTime` may stand still or step back,
and which of these an instance allows is stated with the run.

**Ingest.** Each request is a process with a program counter. The only await is
the send under the timeout, so it is the only place where the timeout can fire or
a disconnect can drop the handler. The channel is tokio's bounded channel,
modelled from how `handler.rs` uses it: free slots go to the waiting senders in
the order they came, `timeout` polls the send before the timer, and closing the
channel fails every waiter. Between the send and the counting of the arrival other
threads run, so they are two steps. `catch_unwind` is there for a panic nobody knows
of, so `Panics` are the requests on which `convert` may panic. Clients retry what they are told to retry and
what they got no answer to. The writer is abstract here: it takes a batch, applies
it, and may die with what it holds.

**Convert.** A request is a sequence of groups, each with the attributes of its
resource and with spans; an id of the wrong length or a missing parent is `None`, and
an attribute's value is a string, another scalar or neither. `convert` drops and
counts the malformed spans, one by one, and rejects only a request without any span.
`service_name_of` takes the first `service.name` that is a string.

**Pipeline.** The writer of `Ingest` and the writer of `Store` are one task, so taking
a batch and giving up the lock are joint actions of the two modules, and what happens
in between is a step of `Store` alone. A writer that panics stops where it is; its
lock is released by the unwinding and not poisoned. `get_receiver` is two steps, one
for each lock.

**Demo.** The seed is the fixed sequence of spans of `demo.rs`, the time of each its
place in it; the 200 uniquely named leaves of the search trace are the parameter
`Queries`. Seeding uses the steps of the writer, since `seed` calls the same functions,
but for the clock, and announces nothing.

**Start.** An invocation has flags, which decide its role, and a program counter. A
server binds its ports one step each, prints the banner, seeds, serves, and ends by
ctrl-c, by a signal at any point, or over a port that is taken; a process that ends
frees its ports, and whoever was connected loses its peer. A client makes one
connection per GET, to whoever holds the port at that moment, and reads to its end:
a whole answer, a part of one, a timeout, or anything at all from a program that is
not ours, at once or in drips. The timeout is that of one read, so anything that arrives
starts it anew. `--dump` goes on from the listing to each trace and the receiver, and ends
with an error at a row without a trace id.

**Sniff.** A socket is the number of bytes that have arrived and are unread, and
whether the client opened with an HTTP/1.1 request line. Bytes arrive in pieces of
any size at any time. `peek` waits while there is nothing to see and the peer is
there; with fewer than four bytes it returns at once, and the loop sleeps and looks
again. A send on a full channel waits, an accept error takes a slot as a connection
does, and a tonic that has stopped ends the loop. A refusal is a task of three
steps: drain what is there, write the reply, close. Closing with unread bytes makes
the kernel reset the connection, which may or may not overtake the reply.

**Read API.** A handler holds the read lock while it copies, so each request is one
step and is taken only where the writer does not hold the lock. The browser follows
the event stream, re-fetches the list, opens a trace and clicks on rows; `pageIds`
remembers which spans the rows stood for. A dump lists, gets each trace and ends
with the counters; a 404 is an error for the whole of it. The payload's string
table is built row by row as in `get_trace`, and a summary's duration is the latest
end less the earliest start, or nothing when that is negative.

**Tokenize.** One step per turn of the loop over the characters, an escape being one
turn that eats two. Only the kind of a character matters. `from` remembers where
each token began.

**Query.** One step per token: an unterminated one is reported, the others go through
`parse_term` up to key, operator and value. The table of operators is tried in its
order, as in the code.

**Filter.** Here a token carries its split into key, operator and raw value; what `std`
parses out of a raw value is a table, so is which printed texts contain which. An
`f64` is a whole number of halves, exact up to `Exact` and rounded to even beyond,
as `f64` is between 2^53 and 2^54; larger numbers, `NaN` and infinities are left out. The handler reads
under the lock, so an answer is a value of the store's state and no new variable is
needed.

## 3. Bounds and instances

| Run | Instance | Why it is enough |
|---|---|---|
| `trace_insert` | 3 span ids, every parent, attribute lists of length 0, 1, 2; no bound on the number of arrivals | a trace of three rows has a first, a middle and a last slice, chains of two links, self-parents and cycles; the state space is finite because rows are overwritten |
| `store` | the demo's 6 traces with 2 leaves instead of 200, and 2 traces of 2 spans; interners of capacity 1, 300 bytes, 3 batches of 1 or 2 spans, a clock that advances between batches | the budget has room for the last demo trace and little else; the second key and the second service are one too many; sweeps evict one and several traces, with ties within a batch; a trace is evicted, returns and is evicted again |
| `ingest` | 5 requests (one good, one with malformed spans, one with nothing else, one that does not decode, one without spans that may panic), 2 attempts of the first, 2 slots | more senders than slots; a retry after a timeout and after a disconnect |
| `pipeline` | 3 requests (two with a span in common, one with nothing but a malformed span; two of them may panic in their conversion), 1 slot, a ring of 1, 200 bytes, interners of capacity 2, 3 batches | the second request evicts; the ring wraps; the panel's two looks fall on either side of every step. An empty request is left to `ingest`, since its record takes the same path as a panic's |
| `panel_silent` | 3 requests (two with a service each, one that does not decode), interners of capacity 1 | the second service is one too many |
| `sniff`, `sniff_silent` | 2 connections, 5 bytes, 3 peeks of the 5 (2 in `sniff_silent`), 1 slot of the 16, 1 accept error | one connection in hand while the slot is taken; a preface that completes before, between and after the peeks, with a byte behind it |
| `read`, `read_click` | 2 traces, the first of 2 spans, 160 bytes, interners of 1, 4 batches of one span; `u64` up to 20, exact integers up to 4; terms of every kind, operators on numbers on both sides of `Exact`, a key twice in one span; in `read` the clock stands still, so that eviction may take any trace | room for about one trace: both are evicted and come back, the first with its spans in either order. A product past the width, an integer that rounds onto its neighbour, a refused key, one that another trace makes known. One client at a time, a browser or a dump: clients only read, so none can tell whether there is another |
| `query` | every query of up to 6 characters of 8 kinds: quote, backslash, space, a letter, a digit, `=`, `>`, `!` | three tokens with quotes, escapes, adjacent and empty quotes; every operator shape behind a key (`<` and `~` are treated as `>` and `!` are) |
| `start` | two servers, one with `--demo`, a client with any flags, and another program; listings of at most one trace | both servers race for every port, the program takes any of them in between, the server changes between two GETs of a client, and the program answers whole, in drips or not at all |

`MaxBatches`, `MaxAttempts`, `MaxBytes` and `MaxAcceptErrors` are the only bounds in
guards, and stand for what the code leaves open; `MaxLen` bounds the queries and `MaxRows` the
listings of `Start`. At the bound the writer and the clients stop, which
is why those configurations switch the deadlock check off: an idle server is a
legitimate final state. `trace_insert` never stops and keeps the check on. Span ids
are only compared, so `trace_insert` uses their symmetry; liveness runs use none.

## 4. What the runs show

Passing runs.

* `trace_insert`: `ColumnsConsistent` (columns aligned, index and id column
  inverse, offsets tiling the dense arrays), `OrphansHeal` (a row is an orphan
  exactly while it waits for its parent), `RowsStable` (rows never move, resolved
  links never change) and `ImplementsTable`: whatever the order, what is read back
  is the latest contents with the parent of the first arrival.
* `store`: `EvictionLedger`, `BudgetRestored`, `TracesConsistent`, and
  `ImplementsSpanStore`: what is read back is what was sent, but for names a full
  interner refused; an attribute left out for that reason is counted, a service name is
  not (`panel_silent`). A trace that comes back starts a new life. `SeedDeterministic`: the sweep after the seed never has a
  choice. `QuietEvictedFirst`: the part of the documented eviction rule that does
  hold, under a clock that advances; `EveryBatchAnnounced`: the loops end and every
  batch taken is announced.
* `ingest`: `ExactlyOnce`, `AckOrderKept`, and the liveness properties
  `EveryRequestAnswered` and `AcknowledgedApplied`. `IngestTypeOK` includes the
  channel's bound.
* `pipeline`: `AppliedIsReadable` (what was acknowledged and applied is in the store
  under its ids unless evicted since, reading as it was sent then or by a later request,
  with the service name of its resource unless the table of names is full),
  `NumbersAddUp` (arrivals and malformed spans, counted by different tasks under
  different locks, make up what was sent, and only a request without any span is passed
  over as empty), `PanelShowsAnswered` and `PanelsNeverGoBack` (an answer of
  `/api/receiver` mixes two moments, but it has the arrivals of all that was acknowledged
  before it began and a record of each request `accept` refused, and none goes back). A
  body that does not decode never comes to `accept`; `panel_silent` is about it.
* `sniff`: `OnlyPrefacesForwarded`, `NoConnectionDropped` and `PrefaceNeverRefused`,
  with hang-ups, a full channel and a tonic that stops; `EveryConnectionDecided`
  as long as every client sends a first byte; `CompleteRequestAnswered`, what the
  drain is for: a refused client with nothing more to send reads its 400.
* `read`: `GenerationPinsRows` (an unchanged generation means the rows of the page
  are still the first rows of the trace), `ListingCurrent` (no change goes
  unannounced), `PayloadDecodes`, `DurationCoversSpans`, and `DumpHonest` (a dump
  fails only over an eviction, and is complete when it succeeds). Of the filter's
  answers in the same states: `OrderingSound` (rounding costs no more than strictness,
  durations never wrap) and `AnswerStable` (what other traces do changes no answer about
  an unchanged trace, but for `key!=value`, which goes from no row to every row when the
  key first becomes known).
* `query`: `ContentKept` and `TermsByGrammar`, against the grammar read directly off
  the query. `TermsByGrammar` leaves out queries with a term of nothing but quotes,
  where the code departs from its comments (see below).
* `start`: `BannerTrue`, `OneOfUsListens` (servers started together do not knock each
  other out; it rests on the fixed order of the binds), `AnswersSeeded` (who connects
  while a server starts gets a seeded store), `OutputComplete`, and
  `EveryInvocationSettles`, which has two hypotheses: that bytes do not keep coming for
  ever from whoever holds the port, and that `lsof` ends. The code bounds neither, and
  without either of them TLC finds an invocation that hangs.

Runs that end in a counterexample, each a disagreement between the code and what
the repository says of it:

* `trace_last_write_wins`: a repeated span keeps the parent link of its first
  arrival, while the comment on `insert` and spec 01 say last write wins.
* `sniff_silent`: a client that sends nothing is never decided, and neither are the
  ones behind it, while the comment on `looks_like_h2_preface` has it fall to the 400.
* `read_click`: a click on a page from before an eviction shows another span's
  attributes; spec 01 has the generation compared when an index is dereferenced.
* `panel_silent`: two losses the panel says nothing about. A body that does not decode is
  answered 400 before `accept` and leaves no record, while the comment on `RejectRecord`
  names `DecodeError` as recorded. A service name the full interner refuses is in no
  counter, while spec 01 has the cap raise a Receiver warning for keys and services alike.
  Both are there in the last state.

Other disagreements met while modelling. They have no run of their own; the models
do what the code does.

* A batch over more traces than fit evicts a trace it has just written, since all of
  them have the same activity time; the comment on `evict_over_budget` says a trace
  still receiving spans is never the oldest. `QuietEvictedFirst` is what holds.
* What arrives of a refused request after the drain is unread at the close, and the
  reset can still cut the reply acceptance 2 of spec 01 calls readable.
* After an empty pair of quotes the next token counts as quoted whatever its first
  character, so `"" a=b` searches for the text `a=b`; the comment on `tokenize` (lines
  191-193 of `filter.rs`) has the flag say whether the token's very first character was a
  quote. A quote opened at the very end of a query makes no token and is not reported,
  while the comment on `get_filter` (lines 23-24) has an unterminated quote reported back.
* `key!=value` misses the spans without the key as long as no trace at all has
  brought the key, and finds them from then on: the comments on `Term::Attr` and in
  `matches` each describe one half.
* When `lsof` names nobody, a port conflict is reported in the program's own words; the
  comment on `describe_holder` has callers fall back to the raw OS error. It may also
  name a program that listens on the same number at another address.
* The ids in a URL are parsed with `u8::from_str_radix`, which takes `+f` for a byte;
  the comment in `types.rs` says exactly 32 hex characters.
* A dump makes a connection per GET, so it may mix the answers of two servers when one
  takes the other's place. `OutputComplete` is what holds.

Every property of a passing run has a mutant in `PROJECT.json`: a plausible slip in
the code's definition that makes TLC report that property.

### Fairness

`Demo!DemoFairSpec` has weak fairness on the steps of the seeding and on the writer's
steps after a receive: they are
straight-line code of one task on a multi-threaded runtime, and `parking_lot`'s
fair hand-over keeps readers from starving the writer. Nothing obliges a batch to
arrive. `Ingest!IngestFairSpec` has weak fairness on each handler, the timer included,
and none on the writer, so `EveryRequestAnswered` holds with a stuck writer; only
`AcknowledgedApplied` has the writer's fairness, as its hypothesis.
`Sniff!FairSpec` has weak fairness on the loop, its timer included, on each refusing
task and on tonic's taking of connections, and has every client that is not declared
silent send a first byte; no client is obliged to connect or to complete a preface.
`Start!FairSpec` has weak fairness on our processes, a client's timeout for a single read
included, and assumes nothing of whoever answers nor of `lsof`; what is needed of them
stands as hypotheses in `EveryInvocationSettles`.

## 5. What is proved

All theorems hold for every value of the constants, under the assumptions named in
the modules: `None` is no number, id, name, span or row; spans, batches, requests and
the seed have their types; a string has a value; the error of `convert` is no batch; the set of trace ids is finite; in
`Filter`, numbers are the ones the model's rounding covers; in `Pipeline`, the store's
batches are the conversions of the requests. `QuietTracesGoFirst` alone
has a hypothesis of its own, a clock that advances between batches. The properties in
the theorems are the ones the runs check.

Where an argument goes over the elements of a sequence or the numbers, it is put as a
least-number principle (`StoreProofs!EarliestExists`, from the well-foundedness of the
naturals): the first that fails would follow one that does not. Over finite sets it is
the smallest set that fails (`PipelineProofs!SmallestSet`). The loops written
as recursive functions, the string table of `get_trace`, what a batch's attributes
leave behind and the loops of `convert`, are shown to be well defined and computed step
by step in the same way (`ApiProofs!PayloadLoop`, `DemoProofs!KeptLoop`,
`PipelineProofs!GroupLoopIs` and `RequestLoopIs`). A sum over a set is a fold the provers
cannot look into; `PipelineProofs` begins with the few facts about sums that the counts
need (of the empty set, with one element more, over a disjoint union, of a smaller set).

**Operators** (`TraceProofs`).

* `InternInv`: `intern` keeps map and vector inverse and within the cap, and never
  changes an id.
* `InsertInv`: `Trace::insert` preserves `TraceInv`, moves no row and
  changes no resolved link. The argument follows the code: pushing a row preserves
  everything except that the new span may itself be waited for (`LinksExactBut`);
  adopting the children repairs exactly that; an overwrite splices two arrays and
  shifts the offsets behind the row (`SpliceType`, `OverwriteAtInv`).
* `InsertTable`: seen as a table, `insert` sets the entry of its span, with the parent
  of the first arrival, and disturbs no other, whatever is spliced.

**One trace** (`TraceInsertProofs`). `Spec => []TypeOK`, `[]ColumnsConsistent`,
`[]OrphansHeal`, `RowsStable` and the refinement `ImplementsTable`. `TraceInv` is the
inductive invariant. None of its parts is
inductive alone: the index must be the inverse of the id column for an overwrite
to hit a row, and the offsets must be ordered as a whole, not only neighbour by
neighbour, for a shift to keep them natural numbers.

**The store and its writer** (`StoreProofs`, and `DemoProofs` for a store that is
seeded first, with any number of leaves).

* `[]TypeOK`, `[]EvictionLedger`, `[]TracesConsistent`. The inductive invariant `IInv`
  adds that while keys are being interned the span is still at the head of the batch.
  The ledger rests on the two sets being disjoint: that is what makes a counted late
  span the removal of exactly one remembered trace.
* `[]BudgetRestored`: the sweep leaves its loop only at its guard, and nothing makes a
  trace larger before the lock is released. No property of the sum of the sizes is used.
* `[]SeedDeterministic`: while the seed runs, the traces' times are pairwise different
  and earlier than the next span's place (`SeedTimes`).
* `QuietEvictedFirst`: no trace is ahead of the clock, and under the lock the traces
  with the batch's time are the ones it has touched (`ActivityMarks`). With a clock that
  stands still the second part fails, which is why the hypothesis is there.
* `ImplementsSpanStore`, the refinement: every step of the writer and of the seeding is
  a step of `SpanStore` or changes nothing it sees. A further invariant, `NamesInv`, says
  that every id in a row is one its interner has given; `RInv` adds that what is in hand
  comes from a batch; that outside of a span the refusals counted are those of the interner; and,
  within a span, that the attributes treated so far are the abstract ones, resolved
  (`InHand`). The hard part is that rows hold ids while the abstract store holds
  names: an interner only grows, so no row changes its reading (`TablesStable`).

**Ingest** (`PipelineProofs`). `[]IngestTypeOK`, `[]ExactlyOnce` and `[]AckOrderKept`, with
timeouts, disconnects, retries and a writer that dies. `IngestInv` adds that the waiting
line holds exactly the handlers at their send, each once (`WaitLine`), that what is past
its conversion was converted (`Convertible`), that a batch on its way is
in one place (`OnePlace`), and that a batch acknowledged before another's send is ahead of
it all the way to the store (`AckedAhead`).

**Conversion** (`PipelineProofs`). For every decoded request: the spans of the batch are
the well-formed spans sent, each with a service name of its own resource
(`SpanConverted`, `GroupConverted`, `RequestConverted`, `BatchConverted`), and what is kept and what is counted as
malformed make up what was sent.

**The pipeline** (`PipelineProofs`). All four properties of the run.

* `PipelineRunsBothParts`: the joined process implements both `IngestSpec` and the store's
  `Spec`. A joint step is a step of each part or leaves it alone; that a batch taken from
  the channel is one the store's writer may receive needs `Convertible`. So every safety
  theorem about a part holds of the whole, and both invariants are at hand in what follows.
* `[]NumbersAddUp`: `CountInv` says that arrivals are, per transport, the spans of what was
  acknowledged, and that the malformed counter and what the writer has in hand are those of
  what was applied and of the batch it holds. That the two writers are in step
  (`WriterInStep`) is what lets one batch in hand stand for both. What was passed over as
  empty converts to the error (`EmptyHadNone`), so it had no span in any group.
* `[]PanelShowsAnswered` and `PanelsNeverGoBack`: `PanelInv`. The ring is the end of the
  history of rejects (`RingIsLast`); what `accept` refused is in that history
  (`RejectsRecorded`, where a refusal over a dead writer, which has the same answer and no
  record, has to be told apart); an answer begun or given is no newer than the state
  (`PanelBehind`); an answer given has the ring of a moment after which nothing answered
  before it began was rejected (`PanelComplete`). The cap-hit counter is set, not added to,
  so that it never falls rests on the interner's own count (`CapHitsKnown`).
* `[]AppliedIsReadable`: `ReadInv`. Every span of an applied request, and every span of the
  batch in hand that is no longer waiting, is found, as one of that request or of a
  later one (`InsertedFound`); the name of the span at hand was refused only by a full
  table (`ServiceRefused`). It rests on `InsertTable`, on no row changing its reading
  (`TablesStable`) and on an evicted trace being remembered or having begun another life.

**Sniff** (`SniffProofs`). `[]OnlyPrefacesForwarded`, `NoConnectionDropped`,
`PrefaceNeverRefused`, and that no connection is ever both served and refused
(`NeverServedAndRefused`). That a connection is in one place is what keeps a later
step from eating the preface of one that is already with tonic.

**Start** (`StartProofs`). `[]BannerTrue`, `[]OneOfUsListens`, `[]AnswersSeeded` and
`[]OutputComplete`. `ServerInv` says which ports a server holds at which program point,
in the order of the binds, and that as long as nobody interferes whoever gave up did so
before a server that has its first port or its banner (`FirstPortDecides`). `ClientInv`
says what an answer may be, and that the answers of a dump and the traces it has yet to
get add up to its listing.

**Read API** (`ApiProofs`). All five properties. They share one lemma about
the store, `StepLives`: a step keeps a trace in its life with its rows a prefix of the
new ones, or ends the life, counting an eviction, or begins one with a higher
generation.

* `[]ListingCurrent`: the writer changes nothing between its announcement and its next receive.
* `[]GenerationPinsRows`: since the page was read the generation has not gone back, and
  while it is the same the trace has been resident throughout (`PageInv`).
* `[]DumpHonest`: what was listed and is not yet fetched is still there or was evicted
  since (`DumpInv`).
* `[]DurationCoversSpans`: no resident trace is empty, so the earliest start and the
  latest end exist.
* `[]PayloadDecodes`: the table only grows, without repeats, so an id once written into a
  row keeps its string through the later rows.

**Filter** (`ApiProofs`), over the store of `Spec`. Both properties rest on `NamesInv`:
every id in a row is one its interner has given.

* `AnswerStable`: an unchanged trace gives the same answer after a step. Its rows hold
  known ids, a known id keeps its name (`InternInv`), and a key that has an id keeps it, so
  each term reads the same. A key without an id matches no row; the id it is given is one no
  row holds (`LookupFresh`), so afterwards every row is one without the key, which only
  `!=` matches (`MatchNewlyKnown`).
* `[]OrderingSound`: `Rounded` is monotone, so a comparison in `f64` can lose strictness
  and nothing else. It is shown by cases over the remainders, which are linear because the scale is
  a definition and no constant.

### Only model-checked

* Liveness is beyond the prover: `EveryBatchAnnounced`, `EveryRequestAnswered`,
  `AcknowledgedApplied`, `EveryConnectionDecided`, `CompleteRequestAnswered`,
  `EveryInvocationSettles`.
* `ContentKept` and `TermsByGrammar`, which compare a loop over characters or tokens with a
  grammar read off the whole query: what the loop has computed for every prefix is an
  induction over data whose statement is as long as the grammar itself.
* The four runs that end in a counterexample, which is found on an instance.

The types of a trace's columns are only proved (`TraceInsertProofs!TypeCorrect`), not
part of a run.

## 6. Not modelled

Byte-level decoding of OTLP and JSON (only whether a body decodes); formatting and
printing, the conflict message included; clap's parsing of the arguments (only the
flags it yields); the lint stub, which answers an empty list; `bump_generation`, which
nothing calls. The width of the ids and offsets (`u32`) and of the counters (`u64`) is
not modelled: the memory budget keeps the former far from its limit. Also left out:
`NaN` and infinities in the filter; malformed ids in a URL, which are answered 400
before the store is touched; the zero `now_unix_nano` falls back to when the clock is
before 1970, which is one more clock that steps back.

## 7. Order of work and what is left

The modules were written from the inside out: interner and trace, the store with its
writer, the handlers, their composition, then port sniffing, read API, filter, demo and
process start; and proved in the same order, a refinement last in each. Every safety
property of a passing run is proved except the two of the query's grammar. What is left:

1. `ContentKept` and `TermsByGrammar`, with the tokenizer's loop and the grammar related
   prefix by prefix.
2. The composition of `Pipeline` with `Demo`, whose seed is over before the writer starts,
   and with the readers of `ReadApi`.
