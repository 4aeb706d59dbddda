-------------------------------- MODULE Sums --------------------------------
(***************************************************************************)
(* Totals of natural-valued functions, and partial functions used as the   *)
(* dictionaries of the code.                                               *)
(*                                                                         *)
(* The code computes every total with Python's sum() over a dictionary.    *)
(* A total is defined here without recursion: lay f[x] tokens at every x   *)
(* and count them.  The definition is first-order, so the lemmas of        *)
(* SumsProofs follow from the library's facts about cardinalities, for     *)
(* every finite set and every natural-valued function.                     *)
(***************************************************************************)
EXTENDS Integers, FiniteSets

\* The f[x] tokens that lie at x.
Pile(f, x) == {x} \X (1 .. f[x])

\* All tokens at the members of S.
Tokens(f, S) == UNION {Pile(f, x) : x \in S}

\* sum(f[x] for x in S), for f natural-valued on the finite set S.
SumOver(f, S) == Cardinality(Tokens(f, S))

\* The same for f integer-valued: there are no tokens where f[x] is not above
\* zero, and what lies below is taken off.
SignedSum(f, S) == SumOver(f, S) - SumOver([x \in S |-> 0 - f[x]], S)

\* d[k] = v for a dictionary d: k is added or overwritten.
Put(d, k, v) == [x \in DOMAIN d \cup {k} |-> IF x = k THEN v ELSE d[x]]

\* d.setdefault(k, v): v is stored only where k has no entry yet.
SetDefault(d, k, v) == IF k \in DOMAIN d THEN d ELSE Put(d, k, v)

\* The dictionary {}.
EmptyDict == [x \in {} |-> 0]
=============================================================================
