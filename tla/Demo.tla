-------------------------------- MODULE Demo --------------------------------
(***************************************************************************)
(* demo.rs: a server started with --demo seeds its store with a fixed set  *)
(* of traces before anything else can reach it, without the wall clock: a  *)
(* span's time is its place in the set.  One sweep at the end brings the   *)
(* store under its budget, and the writer takes over.  Nothing is          *)
(* announced: the sequence number counts batches.                          *)
(***************************************************************************)
EXTENDS Store

CONSTANT Queries   \* ids of the uniquely named leaves of the search trace (200 of them)

DemoSpan(trace, id, parent, name, service) ==
  [trace |-> trace, id |-> id, parent |-> parent, body |-> name, service |-> service,
   attrs |-> <<>>]

WithStatusCode(span, value) ==
  [span EXCEPT !.attrs = <<[key |-> "http.status_code", value |-> value]>>]

Checkout ==
  <<DemoSpan("checkout-flow-01", "root-001", None, "POST /checkout", "checkout"),
    DemoSpan("checkout-flow-01", "charge01", "root-001", "charge-card", "payments"),
    DemoSpan("checkout-flow-01", "reserve1", "root-001", "reserve-inventory", "inventory")>>

Anon == <<DemoSpan("missing-svc-name", "anon0001", None, "GET /health", None)>>

Broken ==
  <<DemoSpan("broken-propagatn", "gateway1", None, "gateway", "gateway"),
    DemoSpan("broken-propagatn", "authchld", "neverprt", "validate-token", "auth")>>

Drift ==
  <<WithStatusCode(DemoSpan("attribute-drift1", "drift001", None, "GET /orders", "orders"),
                   "Int(200)"),
    WithStatusCode(DemoSpan("attribute-drift1", "drift002", None, "GET /invoice", "billing"),
                   "Str(200)")>>

Slow ==
  <<DemoSpan("slow-leaf-span01", "slowroot", None, "batch-export", "reporting"),
    DemoSpan("slow-leaf-span01", "slowleaf", "slowroot", "render-pdf", "reporting")>>

Search ==
  <<DemoSpan("high-cardinality", "searchrt", None, "search-request", "search")>>
    \o [i \in 1..Len(Queries) |->
          DemoSpan("high-cardinality", Queries[i], "searchrt", Queries[i], "search")]

Seed == Checkout \o Anon \o Broken \o Drift \o Slow \o Search

DemoTraces == {Seed[i].trace : i \in 1..Len(Seed)}

ASSUME DemoAssumption == Seed \in Seq(NewSpanType)

Seeding == received = 0 /\ pc # "recv"

\* With --demo, `run_server` seeds the new store before the writer exists.
BeginSeed ==
  /\ pc = "recv" /\ received = 0 /\ Resident = {}
  /\ batch' = Seed
  /\ now' = 0
  /\ pc' = "append"
  /\ UNCHANGED <<storeVars, malformed, spanVars, seq, received, active>>

\* Mutant of SeedSpan: every span has the time of the first.
SeedSpanSameTime == InsertRow /\ UNCHANGED now

SeedSpan == InsertRow /\ now' = now + 1

EndSeed ==
  /\ pc = "evict" /\ ~MustEvict
  /\ active' = {}
  /\ pc' = "recv"
  /\ UNCHANGED <<storeVars, batch, malformed, now, spanVars, seq, received>>

SeedStep ==
  \/ BeginSpan \/ InternAttr \/ SeedSpan \/ EndAppend
  \/ \E t \in TraceIds : EvictOldest(t)
  \/ EndSeed

DemoNext ==
  \/ BeginSeed
  \/ Seeding /\ SeedStep
  \/ ~Seeding /\ Next

DemoSpec == Init /\ [][DemoNext]_vars

\* The process goes on with what it has begun.
DemoFairSpec ==
  DemoSpec /\ WF_vars(Seeding /\ SeedStep) /\ WF_vars(~Seeding /\ WriterStep)

-----------------------------------------------------------------------------

(***************************************************************************)
(* The module's promise, no wall clock and no randomness, kept under any   *)
(* budget: the sweep that ends the seeding never has a choice, so which    *)
(* demo traces are left does not depend on the order of a hash map.        *)
(***************************************************************************)
SeedDeterministic == Seeding /\ pc = "evict" /\ MustEvict => Cardinality(Oldest) = 1

Abstract == INSTANCE SpanStore WITH
  Batches  <- Batches \cup {[spans |-> Seed, malformed |-> 0]},
  Cap      <- InternerCap,
  tables   <- TablesOf,
  lives    <- LivesOf,
  keys     <- NamesOf(keyInterner),
  services <- NamesOf(serviceInterner),
  stats    <- counters,
  input    <- IF pc = "attrs" THEN Head(batch) ELSE None

(***************************************************************************)
(* The writer's steps on columns, ids and generations implement the        *)
(* abstract store, seeded or not.  What is read back is what was sent but  *)
(* for names a full interner refused: an attribute is left out for its key *)
(* and is counted, a service name is left out and is not counted.  A trace *)
(* that comes back has a generation it never had before.                   *)
(***************************************************************************)
ImplementsSpanStore == Abstract!Spec
=============================================================================
