------------------------------ MODULE MCSniff -------------------------------
(***************************************************************************)
(* Instances of Sniff: an HTTP/1.1 client among gRPC clients, a channel    *)
(* of one slot that an accept error may fill, and three peeks of the five. *)
(***************************************************************************)
EXTENDS Sniff

CONSTANTS c1, c2

TwoConns == {c1, c2}
JustC1   == {c1}
Nobody   == {}
=============================================================================
