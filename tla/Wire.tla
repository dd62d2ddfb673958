-------------------------------- MODULE Wire --------------------------------
(***************************************************************************)
(* The wire protocol (wire.cpp): the messages of coordinator and worker,   *)
(* their encoding, and the frame that carries one.                         *)
(*                                                                         *)
(* The plain fields of a message are a sequence of tokens, whose layout    *)
(* says what each may be; its lists and its values stand beside them.  The *)
(* limits of the lists are one constant.  A checksum of a frame is any     *)
(* that a change to one token changes, as the CRC is.                      *)
(***************************************************************************)
EXTENDS Values

CONSTANTS
    MaxItems,          \* limits.hpp: claims, entries, steps, fields, namespaces
    MaxFrame           \* limits.hpp: the payload of a frame

ASSUME WireAssumption == {MaxItems, MaxFrame} \subseteq Nat

-----------------------------------------------------------------------------
(* What a field may be.  An enumerator is its index in the table of its    *)
(* type.                                                                   *)

Enumerators(n) == 0..(n - 1)

State == Enumerators(5)
Mode == Enumerators(3)
Status == Enumerators(3)
Provenance == Enumerators(7)
SourceClass == Enumerators(10)
Durability == Enumerators(2)
Coverage == Enumerators(2)
Operation == Enumerators(6)
DiffKind == Enumerators(10)
MessageType == Enumerators(10)

Word == Unsigned
Digest == Unsigned
ErrorCode == Unsigned
Optional == Unsigned \ {ControlText}

AuthorityLayout == <<Name, Name, Name, Name, Word>>

ClaimHead == <<Name, State>>
ClaimTail == <<Provenance, SourceClass, Durability, Coverage, Optional, Optional, Optional>>

EntryHead == <<Optional, DiffKind, State, State>>
EntryTail == <<Provenance, Provenance, Word, Word, Optional>>

TextPair == <<Optional, Optional>>

RequestLayout ==
    <<Mode, Name, Name, Word>> \o AuthorityLayout \o <<Name, Word, Word, Coverage, Optional>>

ResultLayout ==
    <<Status, ErrorCode, Optional, Optional, Optional, Optional>>
    \o [i \in 1..9 |-> Word] \o <<Digest>>
    \o <<Optional, Word, Word, Word, Word, Digest, Digest>>

HelloLayout == <<Name, Name, Name, Name, Word>>

\* The messages that are plain fields and nothing else.
PlainLayout ==
    [HelloAck |-> <<Bit, Word, Word, Optional>>,
     Status   |-> <<Optional, Word, Word, Word, Word>>,
     Fence    |-> <<Name, Optional>>,
     Error    |-> <<ErrorCode, Optional>>]

-----------------------------------------------------------------------------
(* What a sender may hold: fields of their types, and values that their    *)
(* constructors made.                                                      *)

FieldsOf(layout) ==
    {f \in Stream : Len(f) = Len(layout) /\ \A i \in DOMAIN layout : f[i] \in layout[i]}

IsSequence(s) == s \in Seq(ToSet(s))

IsOptionalValue(values) ==
    values = <<>> \/ (values = <<values[1]>> /\ Storable(values[1]))

\* A claim that has the absent value is one without a value.
IsClaim(claim) ==
    /\ claim = [head |-> claim.head, value |-> claim.value, tail |-> claim.tail]
    /\ claim.head \in FieldsOf(ClaimHead) /\ claim.tail \in FieldsOf(ClaimTail)
    /\ IsOptionalValue(claim.value)
    /\ claim.value # <<>> => claim.value[1].kind # "Absent"

IsDiffEntry(entry) ==
    /\ entry = [head |-> entry.head, before |-> entry.before, after |-> entry.after,
                tail |-> entry.tail]
    /\ entry.head \in FieldsOf(EntryHead) /\ entry.tail \in FieldsOf(EntryTail)
    /\ IsOptionalValue(entry.before) /\ IsOptionalValue(entry.after)

Pair == FieldsOf(TextPair)

Explanation == [head : Pair, steps : Seq([head : Pair, fields : Seq(Pair)])]

IsMessage(message) ==
    CASE message.type = "Publish" ->
            /\ message = [type |-> "Publish", fields |-> message.fields,
                          claims |-> message.claims, edits |-> message.edits]
            /\ message.fields \in FieldsOf(RequestLayout)
            /\ IsSequence(message.claims) /\ \A claim \in ToSet(message.claims) : IsClaim(claim)
            /\ IsSequence(message.edits)
      [] message.type = "PublishAck" ->
            /\ message = [type |-> "PublishAck", fields |-> message.fields,
                          entries |-> message.entries, explanation |-> message.explanation]
            /\ message.fields \in FieldsOf(ResultLayout)
            /\ IsSequence(message.entries)
            /\ \A entry \in ToSet(message.entries) : IsDiffEntry(entry)
            /\ message.explanation \in Explanation
      [] message.type = "Hello" ->
            message \in [type : {"Hello"}, fields : FieldsOf(HelloLayout), namespaces : Seq(Name)]
      [] OTHER ->
            /\ message.type \in DOMAIN PlainLayout
            /\ message \in [type : {message.type}, fields : FieldsOf(PlainLayout[message.type])]

-----------------------------------------------------------------------------
(* The parts of a message.                                                 *)

\* Mutant of WriteOptional: a value is written without saying that it is there.
WriteBare(values) == IF values = <<>> THEN <<0>> ELSE Encode(values[1])

\* A value that may be missing is a sequence of none or one.
WriteOptional(values) == IF values = <<>> THEN <<0>> ELSE <<1>> \o Encode(values[1])

ReadOptional(in) ==
    Then(Field(in, Bit), LAMBDA has, rest :
        IF has = 0 THEN Got(<<>>, rest)
        ELSE Then(Decode(rest), LAMBDA value, left : Got(<<value>>, left)))

\* A claim is [head, value, tail]; one with the absent value has none.
WriteClaim(claim) == claim.head \o WriteOptional(claim.value) \o claim.tail

ReadClaim == [in \in Stream |->
    Then(Fields(in, ClaimHead), LAMBDA head, rest1 :
    Then(ReadOptional(rest1), LAMBDA value, rest2 :
    Then(Fields(rest2, ClaimTail), LAMBDA tail, left :
        Got([head |-> head, tail |-> tail,
             value |-> IF value = <<[kind |-> "Absent"]>> THEN <<>> ELSE value], left))))]

\* An edit is [operation, capability, claim].  Its claim is encoded with the
\* capability of the edit; the decoder reads the capability, and then a claim.
WithCapability(claim, capability) == [claim EXCEPT !.head[1] = capability]

WriteEdit(edit) == <<edit.operation>> \o WriteClaim(WithCapability(edit.claim, edit.capability))

ReadEdit == [in \in Stream |->
    Then(Fields(in, <<Operation, Name>>), LAMBDA fields, rest :
        Then(ReadClaim[rest], LAMBDA claim, left :
            Got([operation |-> fields[1], capability |-> fields[2],
                 claim |-> WithCapability(claim, EmptyText)], left)))]

\* A diff entry is [head, before, after, tail].
WriteDiffEntry(entry) ==
    entry.head \o WriteOptional(entry.before) \o WriteOptional(entry.after) \o entry.tail

ReadDiffEntry == [in \in Stream |->
    Then(Fields(in, EntryHead), LAMBDA head, rest1 :
    Then(ReadOptional(rest1), LAMBDA before, rest2 :
    Then(ReadOptional(rest2), LAMBDA after, rest3 :
    Then(Fields(rest3, EntryTail), LAMBDA tail, left :
        Got([head |-> head, before |-> before, after |-> after, tail |-> tail], left)))))]

\* An explanation is [head, steps], a step [head, fields].
ReadPair == [in \in Stream |-> Fields(in, TextPair)]

WriteStep(step) == step.head \o Listed(step.fields)

ReadStep == [in \in Stream |->
    Then(ReadPair[in], LAMBDA head, rest :
        Then(Counted(rest, MaxItems, ReadPair), LAMBDA fields, left :
            Got([head |-> head, fields |-> fields], left)))]

WriteExplanation(explanation) ==
    explanation.head
    \o Listed([i \in DOMAIN explanation.steps |-> WriteStep(explanation.steps[i])])

ReadExplanation(in) ==
    Then(ReadPair[in], LAMBDA head, rest :
        Then(Counted(rest, MaxItems, ReadStep), LAMBDA steps, left :
            Got([head |-> head, steps |-> steps], left)))

-----------------------------------------------------------------------------
(* The messages, [type, fields, ...].  An encoder refuses a list that is   *)
(* too long, and an edit whose claim names a capability.                   *)

Fits(list) == Len(list) <= MaxItems

EncodePublicationRequest(request) ==
    Made(/\ Fits(request.claims) /\ Fits(request.edits)
         /\ \A i \in DOMAIN request.edits : request.edits[i].claim.head[1] = EmptyText,
         request.fields
         \o Listed([i \in DOMAIN request.claims |-> WriteClaim(request.claims[i])])
         \o Listed([i \in DOMAIN request.edits |-> WriteEdit(request.edits[i])]))

DecodePublicationRequest(payload) ==
    Whole(
        Then(Fields(payload, RequestLayout), LAMBDA fields, rest1 :
        Then(Counted(rest1, MaxItems, ReadClaim), LAMBDA claims, rest2 :
        Then(Counted(rest2, MaxItems, ReadEdit), LAMBDA edits, left :
            Got([type |-> "Publish", fields |-> fields, claims |-> claims, edits |-> edits],
                left)))))

EncodePublicationResult(result) ==
    Made(/\ Fits(result.entries) /\ Fits(result.explanation.steps)
         /\ \A i \in DOMAIN result.explanation.steps : Fits(result.explanation.steps[i].fields),
         result.fields
         \o Listed([i \in DOMAIN result.entries |-> WriteDiffEntry(result.entries[i])])
         \o WriteExplanation(result.explanation))

DecodePublicationResult(payload) ==
    Whole(
        Then(Fields(payload, ResultLayout), LAMBDA fields, rest1 :
        Then(Counted(rest1, MaxItems, ReadDiffEntry), LAMBDA entries, rest2 :
        Then(ReadExplanation(rest2), LAMBDA explanation, left :
            Got([type |-> "PublishAck", fields |-> fields, entries |-> entries,
                 explanation |-> explanation], left)))))

EncodeHello(hello) ==
    Made(Fits(hello.namespaces), hello.fields \o ListedFields(hello.namespaces))

DecodeHello(payload) ==
    Whole(
        Then(Fields(payload, HelloLayout), LAMBDA fields, rest :
        Then(Counted(rest, MaxItems, FieldOf(Name)), LAMBDA namespaces, left :
            Got([type |-> "Hello", fields |-> fields, namespaces |-> namespaces], left))))

\* HelloAck, Status, Fence and Error.
DecodePlain(type, payload) ==
    Whole(Then(Fields(payload, PlainLayout[type]), LAMBDA fields, left :
                  Got([type |-> type, fields |-> fields], left)))

EncodeMessage(message) ==
    CASE message.type = "Publish"    -> EncodePublicationRequest(message)
      [] message.type = "PublishAck" -> EncodePublicationResult(message)
      [] message.type = "Hello"      -> EncodeHello(message)
      [] OTHER                       -> Made(TRUE, message.fields)

DecodeMessage(type, payload) ==
    CASE type = "Publish"    -> DecodePublicationRequest(payload)
      [] type = "PublishAck" -> DecodePublicationResult(payload)
      [] type = "Hello"      -> DecodeHello(payload)
      [] OTHER               -> DecodePlain(type, payload)

-----------------------------------------------------------------------------
(* Frames, [type, flags, request, payload].                                *)

Magic == 1
ProtocolVersion == 1
HeaderLength == 6

Checksum(tokens) ==
    LET sum[n \in 0..Len(tokens)] ==
            IF n = 0 THEN 0 ELSE sum[n - 1] + n * (1 + tokens[n])
    IN  sum[Len(tokens)]

\* Mutant of ChecksumOf: only the payload is covered.
ChecksumOfPayload(header, payload) == Checksum(payload)

\* The checksum covers the header and the payload.
ChecksumOf(header, payload) == Checksum(header \o payload)

IsFrame(frame) == frame \in [type : Nat, flags : Nat, request : Nat, payload : Stream]

EncodeFrame(frame) ==
    LET header == <<Magic, ProtocolVersion, frame.type, frame.flags, frame.request,
                    Len(frame.payload)>>
    IN  Made(/\ Len(frame.payload) <= MaxFrame /\ frame.type \in MessageType,
             header \o frame.payload \o <<ChecksumOf(header, frame.payload)>>)

\* The type and the length are read before the rest of the header is checked,
\* which changes the error that is given and nothing else.
DecodeFrame(in) ==
    LET header == SubSeq(in, 1, HeaderLength)
        payload == SubSeq(in, HeaderLength + 1, HeaderLength + header[6])
    IN  IF /\ Len(in) >= HeaderLength
           /\ header[1] = Magic /\ header[2] = ProtocolVersion
           /\ header[3] \in MessageType
           /\ header[6] \in 0..MaxFrame
           /\ Len(in) = HeaderLength + header[6] + 1
           /\ Last(in) = ChecksumOf(header, payload)
        THEN Got([type |-> header[3], flags |-> header[4], request |-> header[5],
                  payload |-> payload], <<>>)
        ELSE Fail
=============================================================================
