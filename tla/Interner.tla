------------------------------ MODULE Interner ------------------------------
(***************************************************************************)
(* store/interner.rs: the string table that turns attribute keys and       *)
(* service names into dense ids.  The store owns two of them and calls     *)
(* them under its write lock, so an interner is a value and its methods    *)
(* are operators on that value.                                            *)
(*                                                                         *)
(* The hash map is a total function whose missing entries are None.  Ids   *)
(* are the code's own, from 0; position id + 1 of `values` holds the       *)
(* string of an id.                                                        *)
(***************************************************************************)
EXTENDS Naturals, Sequences

CONSTANT None   \* Option::None, and the absence of a hash map entry

ASSUME NoneAssumption == None \notin Nat

Optional(S) == S \cup {None}

NewInterner(strings, cap) ==
  [map     |-> [s \in strings |-> None],
   values  |-> <<>>,
   cap     |-> cap,
   capHits |-> 0]

Lookup(interner, s) == interner.map[s]

Get(interner, id) == interner.values[id + 1]

(***************************************************************************)
(* Mutant of Intern: the cap is compared with > in place of >=.            *)
(***************************************************************************)
InternPastCap(interner, s) ==
  IF Lookup(interner, s) # None THEN interner
  ELSE IF Len(interner.values) > interner.cap
       THEN [interner EXCEPT !.capHits = @ + 1]
       ELSE [interner EXCEPT !.values = Append(@, s),
                             !.map    = [@ EXCEPT ![s] = Len(interner.values)]]

(***************************************************************************)
(* Mutant of Intern: a full table gives its last slot to the new string.   *)
(***************************************************************************)
InternReusesLast(interner, s) ==
  LET n == Len(interner.values)
  IN  IF Lookup(interner, s) # None THEN interner
      ELSE IF n >= interner.cap /\ n > 0
           THEN [interner EXCEPT !.values = [@ EXCEPT ![n] = s],
                                 !.map    = [@ EXCEPT ![s] = n - 1, ![interner.values[n]] = None]]
           ELSE [interner EXCEPT !.values = Append(@, s),
                                 !.map    = [@ EXCEPT ![s] = n]]

(***************************************************************************)
(* The interner after `intern(s)`: unchanged when s is known, one more     *)
(* refusal when s is new and the table is full, one more string otherwise. *)
(***************************************************************************)
Intern(interner, s) ==
  IF Lookup(interner, s) # None THEN interner
  ELSE IF Len(interner.values) >= interner.cap
       THEN [interner EXCEPT !.capHits = @ + 1]
       ELSE [interner EXCEPT !.values = Append(@, s),
                             !.map    = [@ EXCEPT ![s] = Len(interner.values)]]

(***************************************************************************)
(* What `intern(s)` returns: the id of s afterwards, None when refused.    *)
(***************************************************************************)
InternedId(interner, s) == Lookup(Intern(interner, s), s)

-----------------------------------------------------------------------------

InternerType(strings) ==
  [map : [strings -> Optional(Nat)], values : Seq(strings), cap : Nat, capHits : Nat]

(***************************************************************************)
(* The map and the vector are two views of one table: each id resolves to  *)
(* the string that has it, each string in the vector has its own id, and   *)
(* the vector never outgrows the cap.                                      *)
(***************************************************************************)
InternerConsistent(interner, strings) ==
  /\ Len(interner.values) <= interner.cap
  /\ \A s \in strings : Lookup(interner, s) # None =>
        /\ Lookup(interner, s) < Len(interner.values)
        /\ Get(interner, Lookup(interner, s)) = s
  /\ \A i \in 1..Len(interner.values) :
        Lookup(interner, interner.values[i]) = i - 1
=============================================================================
