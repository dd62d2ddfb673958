----------------------------- MODULE Algorithms -----------------------------
(***************************************************************************)
(* The pure parts of the registry, each called once with an input: decode  *)
(* a value, construct a value and offer it to a descriptor, compare two    *)
(* values, evaluate a requirement, send a message, receive a frame, save   *)
(* and load a payload.  The properties relate what one of them returned to *)
(* what the others do with it.                                             *)
(***************************************************************************)
EXTENDS Schema, StorePayload

CONSTANTS
    Inputs,          \* token sequences that may reach Decode
    Claims,          \* [value, descriptor]
    Comparisons,     \* [left, right], values given to their constructors
    Evaluations,     \* [requirement, answers]
    Messages,        \* messages to be sent
    Deliveries,      \* [frame, received], a frame sent and what arrived
    Payloads,        \* what a registry saves
    MaxRequirementDepth, MaxRequirementNodes

Tree == INSTANCE Requirement

\* An evaluation has an answer for every capability, wherever it is read.
AnswersByLeaf(requirement, answers) ==
    [i \in {j \in DOMAIN requirement : Tree!IsLeaf(requirement, j)} |->
        answers[requirement[i].capability]]

Outcome(requirement, answers) ==
    Tree!Evaluate(requirement, AnswersByLeaf(requirement, answers))

\* The one arrived: cut short, followed by more, or with one token damaged.
Arrived(sent, received) ==
    \/ IsPrefix(received, sent) \/ IsPrefix(sent, received)
    \/ /\ Len(received) = Len(sent)
       /\ \E i \in DOMAIN sent : \A j \in DOMAIN sent \ {i} : received[j] = sent[j]

ASSUME AlgorithmsAssumption ==
    /\ Inputs \subseteq Stream
    /\ \A c \in Claims :
          Given(c.value) /\ c.descriptor.minimum \in Nat /\ c.descriptor.maximum \in Nat
    /\ \A c \in Comparisons : Given(c.left) /\ Given(c.right)
    /\ \A e \in Evaluations :
          /\ Tree!IsTree(e.requirement)
          /\ \A i \in DOMAIN e.requirement :
                Tree!IsLeaf(e.requirement, i) => e.requirement[i].capability \in DOMAIN e.answers
    /\ \A m \in Messages : IsMessage(m)
    /\ \A d \in Deliveries :
          /\ IsFrame(d.frame) /\ d.received \in Stream
          /\ Arrived(EncodeFrame(d.frame).value, d.received)
    /\ \A p \in Payloads : IsSaved(p)

VARIABLES call, input, result

vars == <<call, input, result>>

Nothing == [returned |-> FALSE]

-----------------------------------------------------------------------------

Init ==
    /\ result = Nothing
    /\ \/ call = "decode"   /\ input \in Inputs
       \/ call = "claim"    /\ input \in Claims
       \/ call = "compare"  /\ input \in Comparisons
       \/ call = "evaluate" /\ input \in Evaluations
       \/ call = "send"     /\ input \in Messages
       \/ call = "receive"  /\ input \in Deliveries
       \/ call = "load"     /\ input \in Payloads

Return(answer) == result' = answer /\ UNCHANGED <<call, input>>

Pending(name) == call = name /\ result = Nothing

ReturnDecoded == Pending("decode") /\ Return(Decode(input))

ReturnClaim ==
    /\ Pending("claim")
    /\ LET made == Construct(input.value)
       IN  Return(IF made.ok /\ Accepts(input.descriptor, made.value) THEN made ELSE Fail)

ReturnComparison ==
    /\ Pending("compare")
    /\ LET left == Construct(input.left)
           right == Construct(input.right)
       IN  Return(IF left.ok /\ right.ok
                  THEN [ok |-> TRUE, same |-> SameValue(left.value, right.value)]
                  ELSE Fail)

ReturnOutcome ==
    /\ Pending("evaluate")
    /\ Return([ok |-> TRUE, outcome |-> Outcome(input.requirement, input.answers)])

\* What the other side decodes of a message, unless it could not be encoded.
ReturnMessage ==
    /\ Pending("send")
    /\ LET encoded == EncodeMessage(input)
       IN  Return(IF encoded.ok
                  THEN [ok |-> TRUE, decoded |-> DecodeMessage(input.type, encoded.value)]
                  ELSE Fail)

ReturnFrame == Pending("receive") /\ Return(DecodeFrame(input.received))

ReturnLoaded == Pending("load") /\ Return(DecodePayload(EncodePayload(input)))

Next ==
    \/ ReturnDecoded \/ ReturnClaim \/ ReturnComparison \/ ReturnOutcome
    \/ ReturnMessage \/ ReturnFrame \/ ReturnLoaded

Spec == Init /\ [][Next]_vars

-----------------------------------------------------------------------------
(* Properties.                                                             *)

Returned(name) == call = name /\ result # Nothing /\ result.ok

\* Reads back as itself from its encoding, whatever follows it.
RoundTrips(value) ==
    \A rest \in {<<>>, <<0>>, <<1, 0>>} : Decode(Encode(value) \o rest) = Got(value, rest)

\* Whatever bytes a client sends or a file holds, a value that was decoded is
\* canonical, and encodes to bytes that decode to it again and leave what
\* follows alone.  (CapabilityValue::Decode, whose constructors sort what the
\* bytes gave in another order.)
DecodedRoundTrips ==
    Returned("decode") => Canonical(result.value) /\ RoundTrips(result.value)

\* A value the schema accepts can be saved and loaded again, except for an
\* integer or a scalar that no constructor bounds and the decoder does.
\* (ValidateValueAgainstDescriptor admits a claim; DecodePayload reads it back.)
AcceptedIsStorable ==
    (Returned("claim") /\ ~HasUnreadable(result.value)) => RoundTrips(result.value)

\* Two claims agree exactly when they are encoded alike, so the digests of two
\* registries agree when their answers do.  A version is the exception: 1 and
\* 1.0 are equal and encoded apart.  (operator== decides a conflict,
\* Encode the digest.)
SameClaimSameEncoding ==
    Returned("compare") =>
        LET left == Construct(input.left).value
            right == Construct(input.right).value
        IN  IF left.kind = "VersionInterval"
            THEN Encode(left) = Encode(right) => result.same
            ELSE result.same <=> Encode(left) = Encode(right)

Condition(kind, quantity, unit) ==
    [kind |-> kind, operand |-> [kind |-> "Quantity", quantity |-> quantity, unit |-> unit]]

\* A quantity that a requirement finds in a value is within the minimum and
\* the maximum a requirement reads from it, and within a range exactly then.
\* (ExtractQuantity takes the ends of a set for its bounds.)
MembersWithinBounds ==
    (/\ Returned("claim")
     /\ result.value.kind \in Numeric) =>
        \A quantity \in 0..MaxQuantity :
            LET answer == [state |-> "Supported", value |-> result.value]
                Meets(kind) == Tree!Holds(Condition(kind, quantity, result.value.unit), answer)
                within == Meets("Minimum") /\ Meets("Maximum")
            IN  /\ Meets("InSet") => within
                /\ result.value.kind # "NumericSet" => (Meets("RangeContains") <=> within)

AsksForProof(requirement) ==
    \A i \in DOMAIN requirement :
        Tree!IsLeaf(requirement, i) => requirement[i].requireProof

\* What can be answered after more evidence has come in: a capability that is
\* supported keeps its answer.
Improved(answers) ==
    {better \in {e.answers : e \in Evaluations} :
        \A c \in DOMAIN answers : answers[c].state = "Supported" => better[c] = answers[c]}

\* A requirement that asks for proof and is decided stays decided as evidence
\* for the capabilities still open comes in.  (The three-valued evaluation:
\* only SUPPORTED proves a condition or refutes it.)
DecidedStaysDecided ==
    (/\ Returned("evaluate")
     /\ AsksForProof(input.requirement)
     /\ result.outcome # "Undetermined") =>
        \A better \in Improved(input.answers) :
            Outcome(input.requirement, better) = result.outcome

HasEdits(message) == message.type = "Publish" /\ message.edits # <<>>

Arrives(message) == result.decoded = Got(message, <<>>)

\* A message that could be encoded is decoded by the other side as it was
\* sent; an incremental publication is left to EditsArrive.  (Every Encode of
\* wire.cpp and the Decode of its message.)
MessagesArrive ==
    (Returned("send") /\ ~HasEdits(input)) => Arrives(input)

\* An incremental publication that could be encoded arrives as it was sent.
\* (tests/test_wire.cpp:81 has publication_request_round_trip, and wire.cpp:619
\* that an edit carries the capability in its own field.)
EditsArrive ==
    (Returned("send") /\ HasEdits(input)) => Arrives(input)

\* What arrives is the frame that was sent, whole and unchanged, or it is
\* refused, whichever of its tokens was damaged.  (wire.cpp:493: a corrupted
\* header field cannot be accepted as a valid frame.)
FrameIsWholeOrRefused ==
    (call = "receive" /\ result # Nothing) =>
        LET encoded == EncodeFrame(input.frame)
        IN  result = IF encoded.ok /\ input.received = encoded.value
                     THEN Got(input.frame, <<>>)
                     ELSE Fail

\* What the registry saves, within the bounds that Load checks, is loaded
\* again as it was.  (EncodePayload and DecodePayload, record by record.)
PayloadLoads ==
    (call = "load" /\ result # Nothing) => result = Got(input, <<>>)

TypeOK ==
    /\ call \in {"decode", "claim", "compare", "evaluate", "send", "receive", "load"}
    /\ result = Nothing \/ result.ok \in BOOLEAN
=============================================================================
