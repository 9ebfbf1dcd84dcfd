----------------------------- MODULE MCIdentDb -----------------------------
(* Small instances of the identity database for TLC.                        *)
EXTENDS IdentDb, TLC

CONSTANTS sp, idp, p1, none

Symmetry == Permutations(Threads) \union Permutations(Values) \union Permutations(Users)

QualifierNames == {sp, idp, none}
SpProvided == {none, p1}

\* NameIDs an application stores itself: any value, in the slot
\* the SP uses.
AppStored ==
  {[value |-> v, format |-> Persistent, spq |-> q, nq |-> idp, spid |-> none] :
     v \in Values, q \in {sp}}
NothingStored == {}
=============================================================================
