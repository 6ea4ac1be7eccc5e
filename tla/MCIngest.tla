------------------------------ MODULE MCIngest ------------------------------
EXTENDS Ingest, TLC

CONSTANTS r1, r2, r3, garbled, empty, t1, s1, b1, n1

Resource == <<[key |-> "service.name", kind |-> "string", value |-> n1]>>

PbSpan(trace, id) ==
  [trace |-> trace, id |-> id, parent |-> None, body |-> b1, attrs |-> <<>>]

Good == PbSpan(t1, s1)
Bad  == PbSpan(t1, None)

\* One good span; two groups with a malformed span between good ones; nothing but malformed; a
\* body that does not decode; no span at all.
MCDecoded ==
  r1 :> <<[resource |-> Resource, spans |-> <<Good>>]>>
    @@ r2 :> <<[resource |-> Resource, spans |-> <<Good, Bad>>],
               [resource |-> <<>>, spans |-> <<Good>>]>>
    @@ r3 :> <<[resource |-> Resource, spans |-> <<Bad>>]>>
    @@ garbled :> None
    @@ empty :> <<[resource |-> Resource, spans |-> <<>>]>>

MCTransport ==
  r1 :> "http_json_v4318" @@ r2 :> "grpc_v4317" @@ r3 :> "http_protobuf_v4318"
    @@ garbled :> "http_json_v4318" @@ empty :> "grpc_v4317"

MCMaxAttempts == [r \in Requests |-> IF r = r1 THEN 2 ELSE 1]
=============================================================================
