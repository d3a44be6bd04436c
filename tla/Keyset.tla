------------------------------- MODULE Keyset -------------------------------
(***************************************************************************)
(* Keyset pagination, the way every bounded scan of the store is written:  *)
(* SELECT ... WHERE key > cursor ORDER BY key LIMIT n, where the cursor of *)
(* the next page is the last key of this one.  Keys are natural numbers.   *)
(***************************************************************************)
EXTENDS Integers, FiniteSets

MaxOf(S) == CHOOSE x \in S : \A y \in S : y <= x

MinOf(S) == CHOOSE x \in S : \A y \in S : x <= y

\* ORDER BY key LIMIT n
LowestPage(n, S) == {x \in S : Cardinality({y \in S : y <= x}) <= n}
=============================================================================
