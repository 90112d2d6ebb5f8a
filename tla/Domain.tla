------------------------------- MODULE Domain -------------------------------
(***************************************************************************)
(* The bounding algorithm of ossia::domain (src/.../domain/detail/         *)
(* domain_impl.cpp): numeric_clamp on scalars and, broadcast, on fixed     *)
(* vectors; vec_clamp with one sub-domain per component; list_clamp with   *)
(* one sub-domain per position; generic_clamp over lists; the             *)
(* apply_domain_visitor case applying a generic domain to each element of *)
(* a list; the domain_base<bool> specialisations on bools and arrays.     *)
(*                                                                         *)
(* Values are integers and sequences of integers; NoValue is the invalid   *)
(* ossia::value{}.  An optional bound is a set with at most one element.   *)
(* ossia::clamp/wrap/fold themselves are not in this repository; they are  *)
(* written from the spec (WRAP maps into [min, max) with period max - min, *)
(* FOLD mirrors into [min, max]).                                          *)
(*                                                                         *)
(* Each step applies one shape of domain to one input, chosen from small   *)
(* sets; the invariants compare the result with the spec's rule.           *)
(***************************************************************************)
EXTENDS Integers, Sequences, SequencesExt, FiniteSets

CONSTANTS
  Shapes,       \* which shapes of domain are applied
  Xs,           \* integers used as inputs
  Mins, Maxs,   \* candidate bounds, every one of Mins below every one of Maxs
  AllowedSets,  \* candidate allowed-values sets
  MaxLen,       \* longest list input and list domain
  VecWidths,    \* widths N of the std::array<float, N> inputs
  VecXs,        \* components of the std::array inputs
  NoValue

Modes == {"FREE", "CLIP", "WRAP", "FOLD", "LOW", "HIGH"}
BoolShapes == {"bool", "boolVec"}
AllShapes == {"scalar", "vecBroadcast", "vec", "list", "valueList"}
               \cup BoolShapes
ASSUME Shapes \subseteq AllShapes
ASSUME VecWidths \subseteq 2..4
ASSUME \A lo \in Mins, hi \in Maxs : lo < hi

Opt(S) == {{}} \cup {{x} : x \in S}
The(o) == CHOOSE x \in o : TRUE
ScalarDomains == [min : Opt(Mins), max : Opt(Maxs), values : AllowedSets]
\* domain_base<ossia::value>: optional min and max and a vector of allowed
\* values, the form generic_clamp reads.
ValueDomains == [min : Opt(Mins), max : Opt(Maxs), values : AllowedSets]
SeqsUpTo(S, n) == UNION {[1..k -> S] : k \in 0..n}
ListDomains == [min : SeqsUpTo(Mins \cup {NoValue}, MaxLen),
                max : SeqsUpTo(Maxs \cup {NoValue}, MaxLen),
                values : SeqsUpTo(AllowedSets, MaxLen)]

---------------------------------------------------------------------------
(* The scalar bounding functions (ossia math, written from the spec).      *)
Clamp(v, lo, hi) == IF v < lo THEN lo ELSE IF v > hi THEN hi ELSE v
ClampMin(v, lo) == IF v < lo THEN lo ELSE v
ClampMax(v, hi) == IF v > hi THEN hi ELSE v
Wrap(v, lo, hi) == IF lo <= v /\ v < hi THEN v ELSE lo + ((v - lo) % (hi - lo))
Fold(v, lo, hi) ==
  IF lo <= v /\ v <= hi THEN v
  ELSE LET r == (v - lo) % (2 * (hi - lo))
       IN  IF r <= hi - lo THEN lo + r ELSE lo + (2 * (hi - lo) - r)

\* A faulty switch whose LOW case clamps against both bounds.
BoundLowBoth(mn, mx, b, v) ==
  CASE mn # {} /\ mx # {} ->
         CASE b \in {"CLIP", "LOW"} -> Clamp(v, The(mn), The(mx))
           [] b = "WRAP" -> Wrap(v, The(mn), The(mx))
           [] b = "FOLD" -> Fold(v, The(mn), The(mx))
           [] b = "HIGH" -> ClampMax(v, The(mx))
           [] OTHER      -> v
    [] mn # {} -> IF b \in {"CLIP", "LOW"} THEN ClampMin(v, The(mn)) ELSE v
    [] mx # {} -> IF b \in {"CLIP", "HIGH"} THEN ClampMax(v, The(mx)) ELSE v
    [] OTHER   -> v

\* The switch on the bounding mode shared by every clamp: both bounds, only
\* a min (CLIP and LOW clamp), only a max (CLIP and HIGH clamp), none.
Bound(mn, mx, b, v) ==
  CASE mn # {} /\ mx # {} ->
         CASE b = "CLIP" -> Clamp(v, The(mn), The(mx))
           [] b = "WRAP" -> Wrap(v, The(mn), The(mx))
           [] b = "FOLD" -> Fold(v, The(mn), The(mx))
           [] b = "LOW"  -> ClampMin(v, The(mn))
           [] b = "HIGH" -> ClampMax(v, The(mx))
           [] OTHER      -> v
    [] mn # {} -> IF b \in {"CLIP", "LOW"} THEN ClampMin(v, The(mn)) ELSE v
    [] mx # {} -> IF b \in {"CLIP", "HIGH"} THEN ClampMax(v, The(mx)) ELSE v
    [] OTHER   -> v

\* numeric_clamp<domain_base<T>> on a scalar: FREE passes, an allowed set
\* decides alone, otherwise the bounds.
NumericClamp(d, b, v) ==
  CASE b = "FREE"      -> v
    [] d.values = {}   -> Bound(d.min, d.max, b, v)
    [] v \in d.values  -> v
    [] OTHER           -> NoValue

\* numeric_clamp on std::array<float, N>: one scalar domain for every
\* component; one component outside the allowed set rejects the vector.
NumericClampVec(d, b, v) ==
  CASE b = "FREE"    -> v
    [] d.values = {} -> [i \in DOMAIN v |-> Bound(d.min, d.max, b, v[i])]
    [] \A i \in DOMAIN v : v[i] \in d.values -> v
    [] OTHER         -> NoValue

\* vec_clamp<N>: sub-domain i bounds component i; a component outside its
\* allowed set is left at the zero of the value-initialised result array.
VecClamp(ds, b, v) ==
  IF b = "FREE" THEN v
  ELSE [i \in DOMAIN v |->
          IF ds[i].values # {}
            THEN IF v[i] \in ds[i].values THEN v[i] ELSE 0
            ELSE Bound(ds[i].min, ds[i].max, b, v[i])]

\* Element i of a list-domain sequence, as an optional bound: present when
\* the sequence is long enough and the element is a valid value.
OptAt(s, i) == IF i <= Len(s) /\ s[i] # NoValue THEN {s[i]} ELSE {}

\* list_clamp: position i uses values[i] when that set exists and is not
\* empty (a miss leaves the default, invalid ossia::value at i), otherwise
\* min[i] / max[i] where they exist and are valid; positions past the
\* domain pass through.
ListClamp(ld, b, v) ==
  IF b = "FREE" THEN v
  ELSE [i \in DOMAIN v |->
          IF i <= Len(ld.values) /\ ld.values[i] # {}
            THEN IF v[i] \in ld.values[i] THEN v[i] ELSE NoValue
            ELSE Bound(OptAt(ld.min, i), OptAt(ld.max, i), b, v[i])]

\* list_clamp on an rvalue std::vector: the same loop as the const&
\* overload, moving each kept element instead of copying it.
ListClampMoved(ld, b, v) == ListClamp(ld, b, v)

\* generic_clamp on one ossia::value (the const& and value&& overloads are
\* the same switch): FREE passes, an allowed set decides alone (a miss is
\* the invalid value), otherwise the bounds.
GenericClamp(d, b, v) ==
  CASE b = "FREE"      -> v
    [] d.values = {}   -> Bound(d.min, d.max, b, v)
    [] v \in d.values  -> v
    [] OTHER           -> NoValue

\* apply_domain_visitor(std::vector<value>, domain_base<value>): the scalar
\* generic_clamp on each element in turn.
ValueListClamp(d, b, v) == [i \in DOMAIN v |-> GenericClamp(d, b, v[i])]

\* The C++ conversion to bool of a number: 0 is false, anything else true.
Truth(x) == IF x = 0 THEN 0 ELSE 1

\* domain_base<bool>: its min and max are the constants false and true.
BoolMin == 0
BoolMax == 1

\* The switch of the domain_base<bool> specialisations: the domain's own
\* min, max and values are never read; every mode bounds against the fixed
\* [false, true].
BoolBound(b, x) ==
  CASE b = "CLIP" -> Clamp(x, BoolMin, BoolMax)
    [] b = "WRAP" -> Wrap(x, BoolMin, BoolMax)
    [] b = "FOLD" -> Fold(x, BoolMin, BoolMax)
    [] b = "LOW"  -> ClampMin(x, BoolMin)
    [] b = "HIGH" -> ClampMax(x, BoolMax)
    [] OTHER      -> x

\* numeric_clamp<domain_base<bool>> on a scalar: bounds, then converts the
\* result to bool; the default case returns the input.
NumericClampBool(b, v) == IF b = "FREE" THEN v ELSE Truth(BoolBound(b, v))

\* numeric_clamp<domain_base<bool>> on std::array<float, N>: each component
\* is converted to bool first, then bounded, and stored back as a float.
NumericClampBoolVec(b, v) ==
  IF b = "FREE" THEN v ELSE [i \in DOMAIN v |-> BoolBound(b, Truth(v[i]))]

---------------------------------------------------------------------------
VARIABLES shape, mode, dom, input, output
vars == <<shape, mode, dom, input, output>>

Init ==
  /\ shape = "none" /\ mode = "FREE" /\ dom = NoValue
  /\ input = <<>> /\ output = NoValue

\* One call of the clamp, from the idle state; Done returns to idle.
Applied(s, b, d, v, r) ==
  /\ shape' = s /\ mode' = b /\ dom' = d /\ input' = v /\ output' = r

\* The scalar overloads: int32, float and char values under their
\* domain_base, and a bool value under domain_base<bool>.
ApplyScalar ==
  shape = "none" /\ \E b \in Modes :
    \/ "scalar" \in Shapes /\ \E d \in ScalarDomains, x \in Xs :
         Applied("scalar", b, d, <<x>>, LET r == NumericClamp(d, b, x)
                                        IN IF r = NoValue THEN r ELSE <<r>>)
    \/ "bool" \in Shapes /\ \E x \in {0, 1} :
         Applied("bool", b, "bool", <<x>>, <<NumericClampBool(b, x)>>)

\* The std::array<float, N> overloads, N = 2, 3, 4: a float, int32 or char
\* domain_base is broadcast to every component, a bool one converts every
\* component, and a vecf_domain<N> (or a vector_domain converted to one)
\* gives one sub-domain per component.
ApplyVec ==
  shape = "none" /\ \E n \in VecWidths, b \in Modes : \E v \in [1..n -> VecXs] :
    \/ "vecBroadcast" \in Shapes /\ \E d \in ScalarDomains :
         Applied("vecBroadcast", b, d, v, NumericClampVec(d, b, v))
    \/ "boolVec" \in Shapes /\
         Applied("boolVec", b, "bool", v, NumericClampBoolVec(b, v))
    \/ "vec" \in Shapes /\ \E ds \in [1..n -> ScalarDomains] :
         Applied("vec", b, ds, v, VecClamp(ds, b, v))

ApplyList ==
  shape = "none" /\ \E b \in Modes, ld \in ListDomains, v \in SeqsUpTo(Xs, MaxLen) :
    \E clamp \in {ListClamp(ld, b, v), ListClampMoved(ld, b, v)} :
      Applied("list", b, ld, v, clamp)

ApplyValueList ==
  shape = "none" /\ \E b \in Modes, d \in ValueDomains, v \in SeqsUpTo(Xs, MaxLen) :
    Applied("valueList", b, d, v, ValueListClamp(d, b, v))

Done ==
  /\ shape # "none"
  /\ shape' = "none" /\ mode' = "FREE" /\ dom' = NoValue
  /\ input' = <<>> /\ output' = NoValue

Next ==
  \/ Done
  \/ ApplyScalar
  \/ ApplyVec
  \/ "list" \in Shapes /\ ApplyList
  \/ "valueList" \in Shapes /\ ApplyValueList

Spec == Init /\ [][Next]_vars

---------------------------------------------------------------------------
(* The constraint the domain puts on position i of the input.              *)
PosMin(i) == CASE shape = "vec"  -> dom[i].min
               [] shape = "list" -> OptAt(dom.min, i)
               [] OTHER          -> dom.min
PosMax(i) == CASE shape = "vec"  -> dom[i].max
               [] shape = "list" -> OptAt(dom.max, i)
               [] OTHER          -> dom.max
PosAllowed(i) ==
  CASE shape = "vec"  -> dom[i].values
    [] shape = "list" -> IF i <= Len(dom.values) THEN dom.values[i] ELSE {}
    [] OTHER          -> dom.values

\* The spec's rule for one position (bounding modes, tie-break): a bound is
\* enforced by CLIP, by LOW (min) or HIGH (max), and by WRAP/FOLD only when
\* both bounds are present; without an enforced bound the input passes.
Expected(i, x) ==
  LET lowOn  == PosMin(i) # {} /\ (mode \in {"CLIP", "LOW"}
                  \/ (mode \in {"WRAP", "FOLD"} /\ PosMax(i) # {}))
      highOn == PosMax(i) # {} /\ (mode \in {"CLIP", "HIGH"}
                  \/ (mode \in {"WRAP", "FOLD"} /\ PosMin(i) # {}))
  IN  CASE lowOn /\ highOn /\ mode = "WRAP" -> Wrap(x, The(PosMin(i)), The(PosMax(i)))
        [] lowOn /\ highOn /\ mode = "FOLD" -> Fold(x, The(PosMin(i)), The(PosMax(i)))
        [] lowOn /\ x < The(PosMin(i))      -> The(PosMin(i))
        [] highOn /\ x > The(PosMax(i))     -> The(PosMax(i))
        [] OTHER                            -> x

Applying == shape \notin {"none"} \cup BoolShapes /\ mode # "FREE"
Governed(i) == PosAllowed(i) # {}

\* Whatever the shape of the domain, a position with no allowed set comes
\* out as the spec's bounding rule says: sub-domain indexing, broadcast,
\* positions past a short list domain and the one-sided tie-breaks agree.
BoundsMatchReference ==
  Applying /\ output # NoValue =>
    \A i \in DOMAIN input :
      ~Governed(i) => output[i] = Expected(i, input[i])
=============================================================================
