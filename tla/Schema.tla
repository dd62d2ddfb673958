------------------------------- MODULE Schema -------------------------------
(***************************************************************************)
(* The governed schema (schema.cpp): which descriptors are valid, and      *)
(* which values a descriptor accepts.  The table of canonical descriptors  *)
(* is left out; a descriptor here is any that ValidateDescriptor admits.   *)
(***************************************************************************)
EXTENDS Values

CONSTANT EnumCodes        \* the declared domains and the codes of each

ASSUME SchemaAssumption == DOMAIN EnumCodes \subseteq Name

\* The scalar kind a tuple component must have; "Absent" leaves it open.
ScalarKind == [Boolean |-> 0, Integer |-> 1, Quantity |-> 2, Enumeration |-> 3]

Numeric == {"Quantity", "NumericSet", "NumericRange"}

\* ValidateDescriptor.
ValidDescriptor(d) ==
    /\ d.minimum <= d.maximum /\ d.maximum <= MaxQuantity
    /\ d.cardinality \in 1..MaxCardinality
    /\ d.kind \in Numeric => d.unit \in QuantityUnit
    /\ d.kind \in {"Enumeration", "EnumSet"} => d.domain \in DOMAIN EnumCodes
    /\ d.kind = "BitSet" => d.bits \in 1..MaxBits
    /\ d.kind \in {"Tuple", "TupleSet"} => IsArity(d.arity)
    /\ d.kind = "Opaque" => d.extension
    /\ d.extension = d.vendorNamespace

Within(d, n) == n \in d.minimum..d.maximum

Declares(domain, code) == domain \in DOMAIN EnumCodes /\ code \in EnumCodes[domain]

\* A component kind that is not one of a scalar's matches nothing.
ComponentFits(d, i, scalar) ==
    \/ d.components[i] = "Absent"
    \/ /\ d.components[i] \in DOMAIN ScalarKind
       /\ scalar[1] = ScalarKind[d.components[i]]
       /\ d.components[i] = "Quantity" => scalar[2] <= d.maximum

TupleFits(d, tuple) ==
    Len(tuple) = d.arity /\ \A i \in DOMAIN tuple : ComponentFits(d, i, tuple[i])

\* ValidateValueAgainstDescriptor.  A negative integer has no bound, and the
\* fields of a record have none at all.
Accepts(d, v) ==
    /\ Canonical(v)
    /\ v.kind = d.kind
    /\ CASE v.kind \in {"Boolean", "VersionInterval", "Record", "Opaque"} -> TRUE
         [] v.kind = "Absent"      -> FALSE
         [] v.kind = "Integer"     -> v.integer <= d.maximum
         [] v.kind = "Quantity"    -> v.unit = d.unit /\ Within(d, v.quantity)
         [] v.kind = "Enumeration" -> v.domain = d.domain /\ Declares(v.domain, v.code)
         [] v.kind = "BitSet"      -> v.bits = d.bits
         [] v.kind = "NumericSet"  -> /\ v.unit = d.unit
                                      /\ Len(v.members) <= d.cardinality
                                      /\ \A i \in DOMAIN v.members : Within(d, v.members[i])
         [] v.kind = "NumericRange" ->
               v.unit = d.unit /\ v.maximum <= d.maximum /\ v.minimum >= d.minimum
         [] v.kind = "ProtocolSet" ->
               d.protocols # {} => \A i \in DOMAIN v.members : v.members[i] \in d.protocols
         [] v.kind = "EnumSet"     ->
               /\ v.domain = d.domain
               /\ Len(v.members) <= d.cardinality
               /\ \A i \in DOMAIN v.members : Declares(v.domain, v.members[i])
         [] v.kind = "Tuple"       -> TupleFits(d, v.elements)
         [] v.kind = "TupleSet"    -> /\ Len(v.members) <= d.cardinality
                                      /\ \A i \in DOMAIN v.members : TupleFits(d, v.members[i])
=============================================================================
