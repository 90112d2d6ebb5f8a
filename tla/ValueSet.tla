------------------------------ MODULE ValueSet ------------------------------
(***************************************************************************)
(* The allowed-values set of a domain (src/.../domain/detail/              *)
(* value_set_domain.hpp, containers in domain_base_impl.hpp):              *)
(* value_set_update_visitor replaces the allowed values from a list of     *)
(* ossia::value, value_set_get_visitor reads them back, value_set_clamp    *)
(* accepts or rejects one value against them.                              *)
(*                                                                         *)
(* One domain of a fixed kind is updated, read and used any number of      *)
(* times.  domain_base<T> keeps a std::vector<T>; vector_domain a vector   *)
(* of flat_set<value>, one per position; vecf_domain<2> an array of two    *)
(* flat_set<float>.  A value is [type, x] with type "float" or "string".   *)
(***************************************************************************)
EXTENDS Integers, Sequences, SequencesExt, FiniteSets

CONSTANTS
  Kinds,       \* domain kinds in use
  Floats,      \* float payloads
  Strings,     \* string payloads
  Positions,   \* number of positions of a vector_domain
  MaxVals,     \* longest list passed to an update
  Modes,       \* bounding modes
  NoValue

AllKinds == {"float", "string", "value", "vector", "vecf", "bool", "impulse"}
ASSUME Kinds \subseteq AllKinds

Vals == {[type |-> "float", x |-> f] : f \in Floats}
          \cup {[type |-> "string", x |-> s] : s \in Strings}
ValLists == UNION {[1..k -> Vals] : k \in 0..MaxVals}

\* value.target<T>() for the element type of a domain_base<T>.
Typed(vals, t) == SelectSeq(vals, LAMBDA v : v.type = t)

\* The number of per-position sets of a vector-shaped domain.
Width(k) == IF k = "vecf" THEN 2 ELSE Positions

VARIABLES
  kind,      \* the domain's alternative
  list,      \* domain_base<T>::values
  sets,      \* per-position sets of vector_domain / vecf_domain
  given,     \* the list passed to the last update, or NoValue
  lastOp,    \* "none", "update", "get" or "clamp"
  got,       \* what the last get returned
  clampIn,   \* the value the last clamp was given, and its mode
  clampMode,
  clampOut   \* what it returned

vars == <<kind, list, sets, given, lastOp, got, clampIn, clampMode, clampOut>>

Init ==
  /\ kind \in Kinds
  /\ list \in CASE kind = "value"              -> ValLists
              [] kind \in {"float", "string"} -> {Typed(l, kind) : l \in ValLists}
              [] OTHER                       -> {<<>>}
  /\ sets \in [1..Width(kind) -> SUBSET Vals]
  /\ kind = "vecf" => \A i \in DOMAIN sets : \A v \in sets[i] : v.type = "float"
  /\ given = NoValue /\ lastOp = "none" /\ got = <<>>
  /\ clampIn = NoValue /\ clampMode = "FREE" /\ clampOut = NoValue

---------------------------------------------------------------------------
\* A faulty update that appends to the old allowed values.
UpdateNoClear(vals) ==
  /\ list' = CASE kind \in {"float", "string"} -> list \o Typed(vals, kind)
               [] kind = "value"              -> list \o vals
               [] OTHER                       -> list
  /\ sets' = sets

\* value_set_update_visitor: domain_base<T> keeps the elements of type T;
\* domain_base<value> keeps them all; vector_domain clears every set and
\* inserts the values into values[0]; vecf_domain puts every float in every
\* component; bool and impulse domains ignore the update.
UpdateValues(vals) ==
  /\ list' = CASE kind \in {"float", "string"} -> Typed(vals, kind)
               [] kind = "value"              -> vals
               [] OTHER                       -> list
  /\ sets' = CASE kind = "vector" ->
                    [i \in DOMAIN sets |-> IF i = 1 THEN ToSet(vals) ELSE {}]
               [] kind = "vecf"   ->
                    [i \in DOMAIN sets |-> ToSet(Typed(vals, "float"))]
               [] OTHER           -> sets

Update ==
  \E vals \in ValLists :
    /\ UpdateValues(vals)
    /\ given' = vals /\ lastOp' = "update"
    /\ UNCHANGED <<kind, got, clampIn, clampMode, clampOut>>

\* value_set_get_visitor.
GetValues ==
  CASE kind = "bool"                 -> <<[type |-> "bool", x |-> 0],
                                         [type |-> "bool", x |-> 1]>>
    [] kind = "impulse"              -> <<>>
    [] kind \in {"vector", "vecf"}   -> sets
    [] OTHER                         -> list

Get ==
  /\ got' = GetValues /\ lastOp' = "get"
  /\ UNCHANGED <<kind, list, sets, given, clampIn, clampMode, clampOut>>

\* value_set_clamp: FREE or no allowed values pass; otherwise membership.
ValueSetClamp(b, v) ==
  IF b = "FREE" \/ list = <<>> THEN v
  ELSE IF v \in ToSet(list) THEN v ELSE NoValue

Clamp ==
  /\ kind \in {"float", "string", "value"}
  /\ \E b \in Modes, v \in Vals :
       /\ clampIn' = v /\ clampMode' = b /\ clampOut' = ValueSetClamp(b, v)
  /\ lastOp' = "clamp"
  /\ UNCHANGED <<kind, list, sets, given, got>>

Next == Update \/ Get \/ Clamp

Spec == Init /\ [][Next]_vars

---------------------------------------------------------------------------
\* The allowed values an update with vals asks for, for the element type of
\* the domain.
Asked(vals) ==
  CASE kind \in {"float", "string"} -> Typed(vals, kind)
    [] kind = "vecf"                -> Typed(vals, "float")
    [] OTHER                        -> vals

\* Reading the allowed values back after any sequence of updates, reads and
\* clamps gives what the last update set, at every position of a vector
\* domain, and nothing left from before it.
GetReflectsLastUpdate ==
  lastOp = "get" /\ given # NoValue /\ kind \notin {"bool", "impulse"} =>
    IF kind \in {"vector", "vecf"}
      THEN \A i \in DOMAIN got : got[i] = ToSet(Asked(given))
      ELSE got = Asked(given)
=============================================================================
