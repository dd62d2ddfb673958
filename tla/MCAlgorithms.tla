---------------------------- MODULE MCAlgorithms ----------------------------
(***************************************************************************)
(* The inputs of Algorithms for TLC: every short token sequence for every  *)
(* kind, every small value a constructor may be called with, ordered or    *)
(* not, and requirements over two capabilities.                            *)
(***************************************************************************)
EXTENDS Algorithms

MCEnumCodes == 2 :> {0, 1}

-----------------------------------------------------------------------------
(* Values as their constructors are given them.                            *)

Number == 0..(MaxQuantity + 1)

RawScalar == {<<0, 0>>, <<0, 1>>, <<1, -2>>, <<1, 1>>, <<2, 1>>, <<2, 3>>, <<3, 2, 1>>, <<4, 1>>, <<4, 2>>}

SmallTuple == SeqOf({<<0, 0>>, <<0, 1>>, <<2, 1>>}, 2) \ {<<>>}

RawField == [name : {1, 2, 3}, scalar : {<<0, 1>>, <<1, -2>>, <<4, 2>>}]

RawVersion == SeqOf(0..2, 2)

RawMembers == SeqOf(Number, 3)

Raw ==
    [kind : {"Absent"}]
    \cup [kind : {"Boolean"}, boolean : BOOLEAN]
    \cup [kind : {"Integer"}, integer : -2..3]
    \cup [kind : {"Quantity"}, quantity : Number, unit : 0..(MaxUnit + 1)]
    \cup [kind : {"Enumeration"}, domain : 0..3, code : 0..2]
    \cup [kind : {"BitSet"}, bits : 0..(MaxBits + 1), words : SeqOf(0..3, 2)]
    \cup [kind : {"NumericSet"}, unit : 0..1, members : RawMembers]
    \cup [kind : {"NumericRange"}, unit : 0..1, minimum : Number, maximum : Number]
    \cup [kind : {"VersionInterval"}, minimum : RawVersion, maximum : RawVersion,
          minimumInclusive : BOOLEAN, maximumInclusive : BOOLEAN]
    \cup [kind : {"ProtocolSet"}, members : RawMembers]
    \cup [kind : {"Tuple"}, elements : SeqOf(RawScalar, 2)]
    \cup [kind : {"TupleSet"}, members : SeqOf(SmallTuple, 2)]
    \cup [kind : {"Record"}, members : SeqOf(RawField, 2)]
    \cup [kind : {"Opaque"}, encoding : 0..3, payload : 0..1]
    \cup [kind : {"EnumSet"}, domain : {1, 2, 3}, members : SeqOf(0..2, 3)]

-----------------------------------------------------------------------------

\* Every short body after every kind, and the encodings of the values that
\* need more, in whatever order their members are.
MCInputs ==
    {<<tag>> \o body : tag \in 0..15, body \in SeqOf(-2..3, 3)}
    \cup {Encode(v) : v \in {w \in Raw : w.kind \in
                                  {"VersionInterval", "Tuple", "TupleSet", "Record", "EnumSet",
                                   "NumericSet", "ProtocolSet"}}}

Descriptors(kind) ==
    {d \in [kind : {kind}, minimum : {0, 1}, maximum : {1, 2}, cardinality : 1..2, unit : {1},
            domain : {2}, bits : {3}, arity : {2}, extension : BOOLEAN, vendorNamespace : {kind = "Opaque"},
            components : {<<"Absent", "Quantity">>, <<"Boolean", "Boolean">>,
                          <<"Absent", "Absent">>},
            protocols : {{}, {1}}] :
        /\ kind \notin {"Tuple", "TupleSet"} => d.components = <<"Absent", "Absent">>
        /\ kind # "ProtocolSet" => d.protocols = {}
        /\ ValidDescriptor(d)}

MCClaims ==
    UNION {[value : {v \in Raw : v.kind = kind}, descriptor : Descriptors(kind)] :
              kind \in ToSet(Kinds)}

Compared ==
    {v \in Raw : /\ v.kind \in {"Tuple", "TupleSet", "Record"} => FALSE
                 /\ v.kind = "VersionInterval" => v.minimum \in {<<1>>, <<1, 0>>, <<0>>}
                                                  /\ v.maximumInclusive}

MCComparisons ==
    UNION {LET same == {v \in Compared : v.kind = kind} IN [left : same, right : same] :
              kind \in ToSet(Kinds)}

-----------------------------------------------------------------------------
(* Requirements.                                                           *)

Quantity(q) == [kind |-> "Quantity", quantity |-> q, unit |-> 1]

None == [kind |-> "Absent"]

Leaf(kind, capability, operand, state, proof) ==
    <<[depth |-> 0, kind |-> kind, capability |-> capability, operand |-> operand,
       state |-> state, requireProof |-> proof]>>

LeafTrees ==
    {Leaf("StateIs", c, None, "Supported", TRUE) : c \in {"a", "b"}}
    \cup {Leaf("Minimum", c, Quantity(2), "Supported", proof) : c \in {"a", "b"}, proof \in BOOLEAN}
    \cup {Leaf("Maximum", "a", Quantity(1), "Supported", TRUE),
          Leaf("StateIs", "b", None, "Unsupported", TRUE)}

Below(tree) == [i \in DOMAIN tree |-> [tree[i] EXCEPT !.depth = @ + 1]]

Over(kind, trees) ==
    <<[depth |-> 0, kind |-> kind]>> \o FlattenSeq([i \in DOMAIN trees |-> Below(trees[i])])

Negated == {Over("Not", <<leaf>>) : leaf \in LeafTrees}

Pairs == {Over(kind, <<x, y>>) :
             kind \in {"AllOf", "AnyOf"}, x \in LeafTrees \cup Negated, y \in LeafTrees}

Requirements ==
    LeafTrees \cup Negated \cup Pairs
    \cup {Over(kind, <<Over("Not", <<x>>), leaf>>) :
             kind \in {"AllOf", "AnyOf"},
             x \in {Over("AnyOf", <<y, z>>) : y \in LeafTrees, z \in LeafTrees},
             leaf \in {Leaf("Minimum", "a", Quantity(2), "Supported", TRUE)}}

Answer ==
    [state : {"Unknown", "Unsupported", "Conflicted"}, value : {None}]
    \cup [state : {"Supported"}, value : {Quantity(1), Quantity(2)} \cup [kind : {"Boolean"}, boolean : {TRUE}]]

MCEvaluations == [requirement : Requirements, answers : [{"a", "b"} -> Answer]]

-----------------------------------------------------------------------------
(* Messages, frames and payloads.                                          *)

\* Every field of a layout at its smallest, or one of them at its largest.
Filled(layout) ==
    LET low == [i \in DOMAIN layout |-> Min(layout[i])]
    IN  {low} \cup {[low EXCEPT ![i] = Max(layout[i])] : i \in DOMAIN layout}

Values == {<<>>, <<[kind |-> "Boolean", boolean |-> TRUE]>>,
           <<[kind |-> "NumericSet", unit |-> 1, members |-> <<1, 2>>]>>}

Heads(layout) == {[i \in DOMAIN layout |-> Min(layout[i])], [i \in DOMAIN layout |-> Max(layout[i])]}

Claimed(head, tail) == [head : head, value : Values, tail : tail]

SomeClaims == Claimed(Heads(ClaimHead), Heads(ClaimTail))

Edits ==
    [operation : {0, 5}, capability : {2, 3},
     claim : {WithCapability(claim, capability) :
                 claim \in SomeClaims, capability \in {EmptyText, 2}}]

Requests == [type : {"Publish"}, fields : Filled(RequestLayout),
             claims : {<<>>} \cup {<<c>> : c \in SomeClaims}, edits : {<<>>}]

Incrementals ==
    [type : {"Publish"}, fields : Heads(RequestLayout), claims : {<<>>},
     edits : SeqOf(Edits, 1) \ {<<>>}]

Entries == [head : Heads(EntryHead), before : Values, after : Values, tail : Heads(EntryTail)]

LowPair == <<0, 2>>

Explanations ==
    [head : Heads(TextPair),
     steps : SeqOf([head : {LowPair}, fields : {<<>>, <<LowPair>>, <<LowPair, LowPair, LowPair>>}], 2)]

Results ==
    [type : {"PublishAck"}, fields : Filled(ResultLayout), entries : {<<>>}, explanation : Explanations]
    \cup [type : {"PublishAck"}, fields : Heads(ResultLayout), entries : SeqOf(Entries, 1),
           explanation : {[head |-> LowPair, steps |-> <<>>]}]

Hellos == [type : {"Hello"}, fields : Filled(HelloLayout), namespaces : SeqOf({2, 3}, 3)]

Plains == UNION {[type : {type}, fields : Filled(PlainLayout[type])] : type \in DOMAIN PlainLayout}

MCMessages == Requests \cup Incrementals \cup Results \cup Hellos \cup Plains

SomeFrames == [type : {0, 2, 9, 10}, flags : 0..1, request : 0..2, payload : SeqOf(0..2, 3)]

\* A frame as it was sent, cut, followed by more, or with one token changed.
MCDeliveries ==
    UNION {LET sent == EncodeFrame(frame).value
           IN  [frame : {frame},
                received : {SubSeq(sent, 1, n) : n \in 0..Len(sent)}
                           \cup {sent \o <<x>> : x \in 0..1}
                           \cup {[sent EXCEPT ![i] = x] : i \in DOMAIN sent, x \in 0..3}] :
           frame \in SomeFrames}

StoredClaims ==
    [fields : Filled(ClaimFields), notes : Heads(ClaimNotes),
     value : {[kind |-> "Absent"], [kind |-> "Boolean", boolean |-> FALSE],
              [kind |-> "NumericSet", unit |-> 1, members |-> <<0, 2>>]}]

Entities ==
    [fields : Filled(EntityFields), capabilities : {<<>>}, claims : {<<>>}, floors : {<<>>},
     history : {<<>>}]
    \cup [fields : {[i \in DOMAIN EntityFields |-> Min(EntityFields[i])]}, capabilities : {<<>>, <<<<2, 1>>, <<3, 0>>>>},
           claims : {<<>>} \cup {<<c>> : c \in StoredClaims},
           floors : {<<>>, <<<<2, 3, 1>>, <<2, 2, 0>>>>},
           history : {<<>>} \cup {<<h>> : h \in Heads(HistoryFields)}]

SomeGrants ==
    [scope : {2}, kinds : {<<>>, <<1, 11>>}, namespaces : {<<>>, <<2>>},
     fields : Filled(GrantFields), publishers : SeqOf({2, 3}, 2)]

Saved(authorities, fences, registrations, entities) ==
    [meta : {<<1, 3>>}, authorities : authorities, fences : fences, registrations : registrations,
     entities : entities]

MCPayloads ==
    Saved(SeqOf(SomeGrants, 1), {<<>>}, {<<<<2, 2, 3>>>>}, {<<>>})
    \cup Saved({<<>>}, SeqOf(Filled(FenceFields), 2), {<<>>}, {<<>>})
    \cup Saved({<<>>}, {<<>>}, SeqOf(Filled(RegistrationFields), 2), {<<>>})
    \cup Saved({<<>>}, {<<<<2, 0, 3>>>>}, {<<<<2, 2, 3>>>>}, {<<e>> : e \in Entities})
=============================================================================
