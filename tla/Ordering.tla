------------------------------ MODULE Ordering ------------------------------
(***************************************************************************)
(* Lists in an order, as the components use them.  A Vec that is filtered  *)
(* keeps the order of its indices; slice::sort_by is stable, so that such  *)
(* a list is then sorted by a key and by index, a strict total order.  An  *)
(* order is a set of pairs.                                                *)
(***************************************************************************)
EXTENDS Integers, FiniteSets

StrictTotalOrder(before, S) ==
  /\ \A x \in S : <<x, x>> \notin before
  /\ \A x, y, z \in S : <<x, y>> \in before /\ <<y, z>> \in before => <<x, z>> \in before
  /\ \A x, y \in S : x = y \/ <<x, y>> \in before \/ <<y, x>> \in before

(* The elements of S, each once, in the order given. *)
SortBy(S, before) ==
  CHOOSE q \in [1..Cardinality(S) -> S] :
    \A i, j \in DOMAIN q : i < j => <<q[i], q[j]>> \in before

(* The order of the numbers of S. *)
Ascending(S) == {p \in S \X S : p[1] < p[2]}

==============================================================================
