------------------------------- MODULE Values -------------------------------
(***************************************************************************)
(* Capability values (value.cpp): the constructors that make them          *)
(* canonical, the check that they are, their comparison and their          *)
(* encoding.  The limits are constants and small; a word of a bit set has  *)
(* WordBits bits.                                                          *)
(*                                                                         *)
(* Rendering, and the names of units and protocols, are left out.  An      *)
(* opaque payload is the token of its bytes.                               *)
(***************************************************************************)
EXTENDS Encoding

CONSTANTS
    MaxUnit, MaxProtocol,                      \* the last enumerator of each
    MaxQuantity, MaxInteger, MaxComponent,     \* limits.hpp
    MaxComponents, MaxCardinality, MaxProtocols, MaxArity, MaxTuples, MaxFields,
    MaxBits, WordBits

ASSUME ValuesAssumption ==
    /\ {MaxUnit, MaxProtocol, MaxQuantity, MaxInteger, MaxComponent} \subseteq Unsigned
    /\ {MaxComponents, MaxCardinality, MaxProtocols, MaxArity, MaxTuples, MaxFields,
        MaxBits} \subseteq Unsigned \ {0}
    /\ WordBits \in Nat \ {0}

\* The kinds by their tags, from zero.
Kinds == <<"Absent", "Boolean", "Integer", "Quantity", "Enumeration", "BitSet", "NumericSet",
           "NumericRange", "VersionInterval", "ProtocolSet", "Tuple", "TupleSet", "Record",
           "Opaque", "EnumSet">>

Tag(kind) == (CHOOSE i \in DOMAIN Kinds : Kinds[i] = kind) - 1

QuantityUnit == 1..MaxUnit

\* Identifiers and the names of fields are readable texts.
Name == ReadableText

-----------------------------------------------------------------------------
(* Orders.                                                                 *)

Lexicographic(s, t, Less(_, _)) ==
    \E i \in DOMAIN t :
        /\ \A j \in 1..(i - 1) : j \in DOMAIN s /\ s[j] = t[j]
        /\ i \in DOMAIN s => Less(s[i], t[i])

Smaller(a, b) == a < b

\* A scalar is the sequence of its kind (Boolean, Signed, Unsigned,
\* Enumeration, Text) and its payload.
ScalarLess(s, t) == Lexicographic(s, t, Smaller)

TupleLess(s, t) == Lexicographic(s, t, ScalarLess)

FieldLess(f, g) == f.name < g.name

Component(version, i) == IF i \in DOMAIN version THEN version[i] ELSE 0

SameVersion(v, w) == \A i \in 1..MaxComponents : Component(v, i) = Component(w, i)

VersionLess(v, w) ==
    \E i \in 1..MaxComponents :
        /\ Component(v, i) < Component(w, i)
        /\ \A j \in 1..(i - 1) : Component(v, j) = Component(w, j)

\* The order of the members of a set, or of the fields of a record.
MemberLess(kind, a, b) ==
    CASE kind = "TupleSet" -> TupleLess(a, b)
      [] kind = "Record"   -> FieldLess(a, b)
      [] OTHER             -> a < b

\* A sequence in every order.
Arrangements(s) == {[i \in DOMAIN s |-> s[p[i]]] : p \in Bijection(DOMAIN s, DOMAIN s)}

StrictlySorted(v) ==
    \A i \in 2..Len(v.members) : MemberLess(v.kind, v.members[i - 1], v.members[i])

-----------------------------------------------------------------------------
(* What a constructor requires besides the order of the members.           *)

Words(bits) == (bits + WordBits - 1) \div WordBits

ClearAbove(bits, words) ==
    /\ Len(words) = Words(bits)
    /\ bits % WordBits # 0 => Last(words) < 2 ^ (bits % WordBits)

Sized(s, max) == Len(s) \in 1..max

\* A version interval with both bounds in order, and not empty.
Ordered(v) ==
    /\ ~VersionLess(v.maximum, v.minimum)
    /\ SameVersion(v.minimum, v.maximum) => v.minimumInclusive /\ v.maximumInclusive

OneArity(tuples) == \A i \in DOMAIN tuples : Len(tuples[i]) = Len(tuples[1])

IsArity(n) == n \in 2..MaxArity

-----------------------------------------------------------------------------
(* What a constructor may be called with: versions and scalars, which have *)
(* constructors of their own, and fields of the types of value.hpp.        *)

\* Version::FromComponents; a version that was not set has no component.
Version == {v \in Seq(0..MaxComponent) : Len(v) <= MaxComponents}

\* ScalarValue: only an enumeration and a text are checked.
Scalar ==
    ({0} \X Bit) \cup ({1} \X Signed) \cup ({2} \X Unsigned)
    \cup ({3} \X Name \X Unsigned) \cup ({4} \X (Unsigned \ {EmptyText}))

NamedScalar == [name : Unsigned, scalar : Scalar]

Given(v) ==
    /\ v.kind \in ToSet(Kinds)
    /\ CASE v.kind = "Absent"       -> v \in [kind : {"Absent"}]
         [] v.kind = "Boolean"      -> v \in [kind : {"Boolean"}, boolean : BOOLEAN]
         [] v.kind = "Integer"      -> v \in [kind : {"Integer"}, integer : Signed]
         [] v.kind = "Quantity"     -> v \in [kind : {"Quantity"}, quantity : Nat, unit : Nat]
         [] v.kind = "Enumeration"  ->
               v \in [kind : {"Enumeration"}, domain : Unsigned, code : Unsigned]
         [] v.kind = "BitSet"       ->
               v \in [kind : {"BitSet"}, bits : Nat, words : Seq(Unsigned)]
         [] v.kind = "NumericSet"   ->
               v \in [kind : {"NumericSet"}, unit : Nat, members : Seq(Nat)]
         [] v.kind = "NumericRange" ->
               v \in [kind : {"NumericRange"}, unit : Nat, minimum : Nat, maximum : Nat]
         [] v.kind = "VersionInterval" ->
               v \in [kind : {"VersionInterval"}, minimum : Version, maximum : Version,
                      minimumInclusive : BOOLEAN, maximumInclusive : BOOLEAN]
         [] v.kind = "ProtocolSet"  -> v \in [kind : {"ProtocolSet"}, members : Seq(Nat)]
         [] v.kind = "Tuple"        -> v \in [kind : {"Tuple"}, elements : Seq(Scalar)]
         [] v.kind = "TupleSet"     -> v \in [kind : {"TupleSet"}, members : Seq(Seq(Scalar))]
         [] v.kind = "Record"       -> v \in [kind : {"Record"}, members : Seq(NamedScalar)]
         [] v.kind = "Opaque"       ->
               v \in [kind : {"Opaque"}, encoding : Unsigned, payload : Unsigned]
         [] v.kind = "EnumSet"      ->
               v \in [kind : {"EnumSet"}, domain : Unsigned, members : Seq(Unsigned)]

-----------------------------------------------------------------------------
(* The constructors.  What is unordered they sort, and refuse duplicates.  *)

\* Mutant of Arranged: the members are taken in the order given.
TakenAsGiven(v) == Made(TRUE, v)

\* The value with its members sorted, unless two are the same.
Arranged(v) ==
    LET sorted == {w \in {[v EXCEPT !.members = order] : order \in Arrangements(v.members)} :
                      StrictlySorted(w)}
    IN  IF sorted = {} THEN Fail ELSE Made(TRUE, CHOOSE w \in sorted : TRUE)

If(condition, made) == IF condition THEN made ELSE Fail

\* Construct, on a value that holds what the constructor was called with.  A
\* Boolean and an Integer are taken as they are.
Construct(v) ==
    CASE v.kind \in {"Absent", "Boolean", "Integer"} -> Made(TRUE, v)
      [] v.kind = "Quantity"    -> Made(v.unit \in QuantityUnit /\ v.quantity <= MaxQuantity, v)
      [] v.kind = "Enumeration" -> Made(v.domain \in Name, v)
      [] v.kind = "BitSet"      -> Made(v.bits \in 1..MaxBits /\ ClearAbove(v.bits, v.words), v)
      [] v.kind = "NumericSet"  ->
            If(/\ v.unit \in QuantityUnit
               /\ Sized(v.members, MaxCardinality)
               /\ \A i \in DOMAIN v.members : v.members[i] <= MaxQuantity, Arranged(v))
      [] v.kind = "NumericRange" ->
            Made(v.unit \in QuantityUnit /\ v.minimum <= v.maximum /\ v.maximum <= MaxQuantity, v)
      [] v.kind = "VersionInterval" ->
            Made(v.minimum # <<>> /\ v.maximum # <<>> /\ Ordered(v), v)
      [] v.kind = "ProtocolSet" ->
            If(/\ Sized(v.members, MaxProtocols)
               /\ \A i \in DOMAIN v.members : v.members[i] \in 1..MaxProtocol, Arranged(v))
      [] v.kind = "Tuple"    -> Made(IsArity(Len(v.elements)), v)
      [] v.kind = "TupleSet" ->
            If(/\ Sized(v.members, MaxTuples)
               /\ OneArity(v.members) /\ IsArity(Len(v.members[1])), Arranged(v))
      [] v.kind = "Record"   ->
            If(Sized(v.members, MaxFields)
                  /\ \A i \in DOMAIN v.members : v.members[i].name \in Name, Arranged(v))
      [] v.kind = "Opaque"   -> Made(v.encoding \in Name, v)
      [] v.kind = "EnumSet"  ->
            If(v.domain \in Name /\ Sized(v.members, MaxCardinality), Arranged(v))

\* ValidateCanonical.
Canonical(v) ==
    CASE v.kind \in {"Absent", "Boolean", "Integer"} -> TRUE
      [] v.kind = "Quantity"        -> v.unit \in QuantityUnit
      [] v.kind = "Enumeration"     -> v.domain \in Name
      [] v.kind = "BitSet"          -> v.bits \in 1..MaxBits /\ ClearAbove(v.bits, v.words)
      [] v.kind = "NumericSet"      -> /\ v.unit \in QuantityUnit
                                       /\ Sized(v.members, MaxCardinality)
                                       /\ StrictlySorted(v)
      [] v.kind = "NumericRange"    -> v.unit \in QuantityUnit /\ v.minimum <= v.maximum
      [] v.kind = "VersionInterval" -> Ordered(v)
      [] v.kind = "ProtocolSet"     -> /\ Sized(v.members, MaxProtocols)
                                       /\ StrictlySorted(v)
                                       /\ \A i \in DOMAIN v.members : v.members[i] \in 1..MaxProtocol
      [] v.kind = "Tuple"           -> IsArity(Len(v.elements))
      [] v.kind = "TupleSet"        -> /\ Sized(v.members, MaxTuples)
                                       /\ OneArity(v.members)
                                       /\ StrictlySorted(v)
      [] v.kind = "Record"          -> /\ Sized(v.members, MaxFields)
                                       /\ StrictlySorted(v)
      [] v.kind = "Opaque"          -> v.encoding # EmptyText
      [] v.kind = "EnumSet"         -> /\ v.domain \in Name
                                       /\ Sized(v.members, MaxCardinality)
                                       /\ StrictlySorted(v)

\* An integer or a scalar beyond what the decoder reads: the constructors do
\* not check these, and the schema only in part.
Unreadable(scalar) ==
    \/ scalar[1] = 1 /\ scalar[2] \notin (-MaxInteger)..MaxInteger
    \/ scalar[1] = 2 /\ scalar[2] > MaxQuantity
    \/ scalar[1] = 4 /\ scalar[2] \notin ReadableText

HasUnreadable(v) ==
    CASE v.kind = "Integer"  -> v.integer \notin (-MaxInteger)..MaxInteger
      [] v.kind = "Tuple"    -> \E i \in DOMAIN v.elements : Unreadable(v.elements[i])
      [] v.kind = "TupleSet" -> \E i \in DOMAIN v.members : \E j \in DOMAIN v.members[i] :
                                    Unreadable(v.members[i][j])
      [] v.kind = "Record"   -> \E i \in DOMAIN v.members : Unreadable(v.members[i].scalar)
      [] OTHER               -> FALSE

\* What a constructor made and the decoder reads.
Storable(v) == Given(v) /\ Construct(v) = Made(TRUE, v) /\ ~HasUnreadable(v)

\* Mutant of SameValue: two bit sets are the same when their words are.
SameContent(v, w) ==
    v.kind = w.kind /\ IF v.kind = "BitSet" THEN v.words = w.words ELSE v = w

\* Equality, which decides whether two claims agree.
SameValue(v, w) ==
    /\ v.kind = w.kind
    /\ IF v.kind = "VersionInterval"
       THEN /\ SameVersion(v.minimum, w.minimum) /\ SameVersion(v.maximum, w.maximum)
            /\ v.minimumInclusive = w.minimumInclusive /\ v.maximumInclusive = w.maximumInclusive
       ELSE v = w

-----------------------------------------------------------------------------
(* The encoding.                                                           *)

\* Mutant of EncodeVersion: the number of components is left out.
EncodeComponents(version) == version

EncodeVersion(version) == ListedFields(version)

\* The scalars of a tuple are encoded as they are represented: the kind, then
\* the payload.
EncodeTuple(tuple) == Listed(tuple)

EncodeField(field) == <<field.name>> \o field.scalar

Encode(v) ==
    <<Tag(v.kind)>> \o
    CASE v.kind = "Absent"          -> <<>>
      [] v.kind = "Boolean"         -> <<Flag(v.boolean)>>
      [] v.kind = "Integer"         -> <<v.integer>>
      [] v.kind = "Quantity"        -> <<v.quantity, v.unit>>
      [] v.kind = "Enumeration"     -> <<v.domain, v.code>>
      [] v.kind = "BitSet"          -> <<v.bits>> \o ListedFields(v.words)
      [] v.kind = "NumericSet"      -> <<v.unit>> \o ListedFields(v.members)
      [] v.kind = "NumericRange"    -> <<v.unit, v.minimum, v.maximum>>
      [] v.kind = "VersionInterval" ->
            EncodeVersion(v.minimum) \o <<Flag(v.minimumInclusive)>>
            \o EncodeVersion(v.maximum) \o <<Flag(v.maximumInclusive)>>
      [] v.kind = "ProtocolSet"     -> ListedFields(v.members)
      [] v.kind = "Tuple"           -> EncodeTuple(v.elements)
      [] v.kind = "TupleSet"        -> Listed([i \in DOMAIN v.members |-> EncodeTuple(v.members[i])])
      [] v.kind = "Record"          -> Listed([i \in DOMAIN v.members |-> EncodeField(v.members[i])])
      [] v.kind = "Opaque"          -> <<v.encoding, v.payload>>
      [] v.kind = "EnumSet"         -> <<v.domain>> \o ListedFields(v.members)

AnyField == FieldOf(Unsigned)

DecodeVersion(in) ==
    LET read == Counted(in, MaxComponents, FieldOf(0..MaxComponent))
    IN  IF read.ok /\ read.value # <<>> THEN read ELSE Fail

\* What may follow the kind of a scalar.
Payload(kind) ==
    CASE kind = 0 -> <<Bit>>
      [] kind = 1 -> <<(-MaxInteger)..MaxInteger>>
      [] kind = 2 -> <<0..MaxQuantity>>
      [] kind = 3 -> <<Name, Unsigned>>
      [] kind = 4 -> <<ReadableText>>

DecodeScalar == [in \in Stream |->
    Then(Field(in, 0..4), LAMBDA kind, rest :
        Then(Fields(rest, Payload(kind)), LAMBDA payload, left :
            Got(<<kind>> \o payload, left)))]

DecodeTuple == [in \in Stream |->
    Then(Field(in, 2..MaxArity), LAMBDA arity, rest : Counted(in, MaxArity, DecodeScalar))]

DecodeField == [in \in Stream |->
    Then(Text(in), LAMBDA name, rest :
        Then(DecodeScalar[rest], LAMBDA scalar, left :
            Got([name |-> name, scalar |-> scalar], left)))]

\* A bit set must have the words its width calls for.
DecodeBits(in) ==
    Then(Field(in, 0..MaxBits), LAMBDA bits, rest :
        Then(Field(rest, {Words(bits)}), LAMBDA count, first :
            Then(Counted(rest, Words(bits), AnyField), LAMBDA words, left :
                Result(Construct([kind |-> "BitSet", bits |-> bits, words |-> words]), left))))

\* A numeric set is refused when it is not sorted; the other sets are sorted
\* by their constructor.
DecodeNumericSet(in) ==
    Then(Field(in, 0..MaxUnit), LAMBDA unit, rest :
        Then(Counted(rest, MaxCardinality, AnyField), LAMBDA members, left :
            LET given == [kind |-> "NumericSet", unit |-> unit, members |-> members]
            IN  Result(If(StrictlySorted(given), Construct(given)), left)))

DecodeVersionInterval(in) ==
    Then(DecodeVersion(in), LAMBDA minimum, rest1 :
    Then(Field(rest1, Bit), LAMBDA minimumInclusive, rest2 :
    Then(DecodeVersion(rest2), LAMBDA maximum, rest3 :
    Then(Field(rest3, Bit), LAMBDA maximumInclusive, left :
        Result(Construct([kind |-> "VersionInterval", minimum |-> minimum, maximum |-> maximum,
                          minimumInclusive |-> minimumInclusive = 1,
                          maximumInclusive |-> maximumInclusive = 1]), left)))))

\* Fields that are read one after the other before Make constructs the value.
DecodeFlat(in, legal, Make(_)) ==
    Then(Fields(in, legal), LAMBDA f, left : Result(Construct(Make(f)), left))

DecodeMembers(in, kind, max, reader) ==
    Then(Counted(in, max, reader), LAMBDA members, left :
        Result(Construct([kind |-> kind, members |-> members]), left))

DecodeBody(kind, in) ==
    CASE kind = "Absent" -> Got([kind |-> kind], in)
      [] kind = "Boolean" ->
            DecodeFlat(in, <<Bit>>, LAMBDA f : [kind |-> kind, boolean |-> f[1] = 1])
      [] kind = "Integer" ->
            DecodeFlat(in, <<(-MaxInteger)..MaxInteger>>,
                       LAMBDA f : [kind |-> kind, integer |-> f[1]])
      [] kind = "Quantity" ->
            DecodeFlat(in, <<Unsigned, 0..MaxUnit>>,
                       LAMBDA f : [kind |-> kind, quantity |-> f[1], unit |-> f[2]])
      [] kind = "Enumeration" ->
            DecodeFlat(in, <<Name, Unsigned>>,
                       LAMBDA f : [kind |-> kind, domain |-> f[1], code |-> f[2]])
      [] kind = "BitSet" -> DecodeBits(in)
      [] kind = "NumericSet" -> DecodeNumericSet(in)
      [] kind = "NumericRange" ->
            DecodeFlat(in, <<0..MaxUnit, Unsigned, Unsigned>>,
                       LAMBDA f : [kind |-> kind, unit |-> f[1], minimum |-> f[2], maximum |-> f[3]])
      [] kind = "VersionInterval" -> DecodeVersionInterval(in)
      [] kind = "ProtocolSet" -> DecodeMembers(in, kind, MaxProtocols, AnyField)
      [] kind = "Tuple" ->
            Then(DecodeTuple[in], LAMBDA elements, left :
                Result(Construct([kind |-> kind, elements |-> elements]), left))
      [] kind = "TupleSet" -> DecodeMembers(in, kind, MaxTuples, DecodeTuple)
      [] kind = "Record" -> DecodeMembers(in, kind, MaxFields, DecodeField)
      [] kind = "Opaque" ->
            DecodeFlat(in, <<Name, Unsigned>>,
                       LAMBDA f : [kind |-> kind, encoding |-> f[1], payload |-> f[2]])
      [] kind = "EnumSet" ->
            Then(Field(in, Name), LAMBDA domain, rest :
                Then(Counted(rest, MaxCardinality, AnyField), LAMBDA members, left :
                    Result(Construct([kind |-> kind, domain |-> domain, members |-> members]),
                           left)))

Decode(in) ==
    Then(Field(in, 0..(Len(Kinds) - 1)), LAMBDA tag, rest : DecodeBody(Kinds[tag + 1], rest))
=============================================================================
