----------------------------- MODULE MCPipeline -----------------------------
(***************************************************************************)
(* Instances of Pipeline.  Two requests have a span in common; the second  *)
(* has malformed spans and a group without a resource, and is too large    *)
(* for the budget, so that a trace is evicted when it comes.  One has      *)
(* nothing but a malformed span, one does not decode, and one has a        *)
(* service name of its own.                                                *)
(***************************************************************************)
EXTENDS Pipeline, TLC

CONSTANTS r1, r2, bad, garbled, other, t1, t2, s1, b1, b2, n1, n2, k1, v1

MCNameLen == b1 :> 1 @@ b2 :> 100

Pb(trace, id, body) ==
  [trace |-> trace, id |-> id, parent |-> None, body |-> body,
   attrs |-> <<[key |-> k1, kind |-> "other", value |-> v1]>>]

NamedResource(name) ==
  <<[key |-> "service.name", kind |-> "scalar", value |-> v1],
    [key |-> "service.name", kind |-> "string", value |-> name]>>

MCDecoded ==
  r1 :> <<[resource |-> NamedResource(n1), spans |-> <<Pb(t1, s1, b1)>>]>>
    @@ r2 :> <<[resource |-> NamedResource(n1), spans |-> <<Pb(t1, None, b1), Pb(t1, s1, b2), Pb(None, s1, b1)>>],
               [resource |-> <<>>, spans |-> <<Pb(t2, s1, b1)>>]>>
    @@ bad :> <<[resource |-> NamedResource(n1), spans |-> <<Pb(None, s1, b1)>>]>>
    @@ garbled :> None
    @@ other :> <<[resource |-> NamedResource(n2), spans |-> <<Pb(t2, s1, b1)>>]>>

MCTransport ==
  [r \in Requests |->
     CASE r \in {r1, garbled} -> "http_json_v4318"
       [] r = bad             -> "http_protobuf_v4318"
       [] r \in {r2, other}   -> "grpc_v4317"]

MCBatches == {BatchOf(r) : r \in Decodable} \ {EmptyPayload}

MCMaxAttempts == [r \in Requests |-> 1]
=============================================================================
