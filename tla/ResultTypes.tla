----------------------------- MODULE ResultTypes -----------------------------
(***************************************************************************)
(* What the compiler computes for the results of wait_any and wait_all:    *)
(* the type lists of include/detail/meta.hpp, and the variants that        *)
(* AwaitableResultAny and AwaitableResultAll store results in.             *)
(*                                                                         *)
(* A type is a record: a base type, and "", "&", "&&", or "wrapper" for    *)
(* its std::reference_wrapper.  A type list is a sequence.  An operation   *)
(* is what its await_resume() returns, and whether that is noexcept.       *)
(***************************************************************************)
EXTENDS Naturals, Sequences

CONSTANTS Bases  \* types that are not references

Void == [base |-> "void", ref |-> ""]
Monostate == [base |-> "monostate", ref |-> ""]
Error == [base |-> "Error", ref |-> ""]

Types == {Void} \cup [base : Bases, ref : {"", "&", "&&"}]
Operations == [returns : Types, noexcept : BOOLEAN]

-----------------------------------------------------------------------------
(* meta.hpp *)

\* reference_storage_t: a reference_wrapper for T&, T itself for T&&.
ReferenceStorage(t) ==
  CASE t.ref = "&" -> [t EXCEPT !.ref = "wrapper"]
    [] t.ref = "&&" -> [t EXCEPT !.ref = ""]
    [] OTHER -> t

VoidMap(t) == IF t = Void THEN Monostate ELSE t

RECURSIVE TypeListRemove(_, _), TypeListUnique(_)

TypeListRemove(list, u) ==
  IF list = << >> THEN << >>
  ELSE LET tail == TypeListRemove(Tail(list), u) IN
       IF Head(list) = u THEN tail ELSE <<Head(list)>> \o tail

TypeListUnique(list) ==
  IF list = << >> THEN << >>
  ELSE <<Head(list)>> \o TypeListRemove(TypeListUnique(Tail(list)), Head(list))

-----------------------------------------------------------------------------
(* awaitable.hpp *)

\* results_typelist_t, and the alternative that emplace and get use.
Storage(op) == ReferenceStorage(op.returns)
Alternative(op) == VoidMap(Storage(op))

ErrorUnless(noexcept) == IF noexcept THEN Monostate ELSE Error

\* AwaitableResultAny::results_variant_t
AnyVariant(ops) ==
  TypeListUnique(<<Monostate, ErrorUnless(\A i \in DOMAIN ops : ops[i].noexcept)>>
                 \o [i \in DOMAIN ops |-> Alternative(ops[i])])

\* AwaitableResultAll::ReslutMapper
AllVariant(op) == TypeListUnique(<<Monostate, Alternative(op), ErrorUnless(op.noexcept)>>)

\* get<N>() of an operation, when the variant holds that alternative.
Get(op, held) ==
  CASE ~op.noexcept /\ held = Error -> "throws"
    [] Storage(op) = Void -> "nothing"
    [] OTHER -> IF held = Storage(op) THEN "value" ELSE "bad_variant_access"

-----------------------------------------------------------------------------
(* Reference definitions and checks *)

Elements(list) == {list[i] : i \in DOMAIN list}
Once(t, list) == \E i \in DOMAIN list : \A j \in DOMAIN list : list[j] = t <=> j = i
FirstAt(t, list) == CHOOSE i \in DOMAIN list : list[i] = t /\ \A j \in 1..(i - 1) : list[j] # t

\* typelist_remove_t leaves out the one type and nothing else; typelist_unique_t
\* has each type once, in the order of first occurrences.
ListsAreRight(list) ==
  LET u == TypeListUnique(list) IN
  /\ \A t \in Elements(list) : TypeListRemove(list, t) = SelectSeq(list, LAMBDA x : x # t)
  /\ Elements(u) = Elements(list)
  /\ \A t \in Elements(list) : Once(t, u)
  /\ \A i, j \in DOMAIN u : i < j => FirstAt(u[i], list) < FirstAt(u[j], list)

\* emplace and emplace_error name an alternative that the variant has exactly
\* once, whatever types the operations have in common, and get<N>() finds what
\* they stored for N; the variant begins without a result, and is one of the
\* kind that std::variant takes, without references and void.
VariantServes(ops, variant) ==
  /\ variant[1] = Monostate
  /\ \A t \in Elements(variant) : t.ref \notin {"&", "&&"} /\ t # Void
  /\ \A i \in DOMAIN ops :
       /\ Once(Alternative(ops[i]), variant)
       /\ Get(ops[i], Alternative(ops[i])) = IF ops[i].returns = Void THEN "nothing" ELSE "value"
       /\ ~ops[i].noexcept => Once(Error, variant) /\ Get(ops[i], Error) = "throws"
  /\ (\A i \in DOMAIN ops : ops[i].noexcept) => Error \notin Elements(variant)
==============================================================================
