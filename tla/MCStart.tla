------------------------------ MODULE MCStart -------------------------------
(***************************************************************************)
(* Two servers, one with --demo, a third invocation with any other flags,  *)
(* and a program that is not ours, which may take any of the ports.        *)
(***************************************************************************)
EXTENDS Start, TLC

CONSTANTS demo, plain, asker, other

Flags(dumps, lists, demos) == [dump |-> dumps, list |-> lists, demo |-> demos]

MCArguments ==
  {demo :> Flags(FALSE, FALSE, TRUE) @@ plain :> Flags(FALSE, FALSE, FALSE) @@ asker :> a :
     a \in {Flags(TRUE, FALSE, FALSE), Flags(FALSE, TRUE, FALSE),
            Flags(TRUE, TRUE, FALSE), Flags(FALSE, TRUE, TRUE)}}
=============================================================================
