----------------------------- MODULE Enumeration -----------------------------
(***************************************************************************)
(* The order in which the service works through numbered things: a sweep   *)
(* through its sources (service.py), a load through the entries it adds to *)
(* sys.path and those it takes off again (checker/loader.py).              *)
(***************************************************************************)
EXTENDS Naturals, FiniteSets

\* The enumerations of K in increasing order: a single one if K is finite.
Increasing(K) ==
  {f \in [1..Cardinality(K) -> K] :
     /\ \A k \in K : \E i \in DOMAIN f : f[i] = k
     /\ \A i, j \in DOMAIN f : i < j => f[i] < f[j]}

\* The members of q at the positions K, in their order.
MembersAt(q, K) == {[i \in DOMAIN f |-> q[f[i]]] : f \in Increasing(K)}
=============================================================================
