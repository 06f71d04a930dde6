----------------------------- MODULE MCNestedWait -----------------------------
(* NestedWait of a few operations, with the stores of await_suspend buffered,  *)
(* and the types of their results.                                             *)
EXTENDS NestedWait

R == INSTANCE ResultTypes WITH Bases <- {"T", "U"}

Packs == UNION {[1..n -> R!Operations] : n \in 1..2} \cup [1..3 -> [returns : R!Types, noexcept : {TRUE}]]

\* The type lists and variants, for all packs of one and two operations and
\* those of three that are noexcept.
ASSUME ResultTypesServe ==
  \A ops \in Packs :
    /\ R!ListsAreRight([i \in DOMAIN ops |-> R!Storage(ops[i])])
    /\ R!VariantServes(ops, R!AnyVariant(ops))
    /\ \A i \in DOMAIN ops : R!VariantServes(<<ops[i]>>, R!AllVariant(ops[i]))
==============================================================================
