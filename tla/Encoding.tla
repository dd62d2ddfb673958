------------------------------ MODULE Encoding ------------------------------
(***************************************************************************)
(* The canonical encoding (encoding.cpp): what a ByteWriter appends and a  *)
(* ByteReader takes off the front.  A field of any width is one token, an  *)
(* integer; a text is the token of its class.  A reader that fails stops   *)
(* the decoding, whatever was read before is dropped.                      *)
(***************************************************************************)
EXTENDS Integers, SequencesExt

CONSTANT MaxToken              \* the largest integer a field can hold

ASSUME EncodingAssumption == MaxToken \in Nat

Unsigned == 0..MaxToken

Signed == (-MaxToken)..MaxToken

Bit == {0, 1}

\* Texts: the empty one, one with a control character, and readable ones in
\* their order.
EmptyText == 0
ControlText == 1
ReadableText == 2..MaxToken

Flag(b) == IF b THEN 1 ELSE 0

\* What a writer has appended, and what a reader has left.
Stream == Seq(Int)

-----------------------------------------------------------------------------
(* A reading is a failure or what was read and what is left.  A reader is  *)
(* a function of the stream that returns one.                              *)

Fail == [ok |-> FALSE]

Got(value, rest) == [ok |-> TRUE, value |-> value, rest |-> rest]

Then(reading, Next(_, _)) ==
    IF reading.ok THEN Next(reading.value, reading.rest) ELSE Fail

\* One field, whose token the caller goes on with only if it is legal.
Field(in, Legal) ==
    IF in # <<>> /\ Head(in) \in Legal THEN Got(Head(in), Tail(in)) ELSE Fail

FieldOf(Legal) == [in \in Stream |-> Field(in, Legal)]

\* ByteReader::Text refuses control characters.
Text(in) == Field(in, Unsigned \ {ControlText})

\* What was read so far, and one thing more.
AndThen(reading, reader) ==
    Then(reading, LAMBDA values, rest :
        Then(reader[rest], LAMBDA value, left : Got(Append(values, value), left)))

\* The readers one after the other, and the sequence of what they read.
ReadAll(in, readers) ==
    LET read[n \in 0..Len(readers)] ==
            IF n = 0 THEN Got(<<>>, in) ELSE AndThen(read[n - 1], readers[n])
    IN  read[Len(readers)]

\* Fields, as a sequence of their tokens.
Fields(in, legal) == ReadAll(in, [i \in DOMAIN legal |-> FieldOf(legal[i])])

\* A counted sequence: the count, which is bounded, and then that many items.
Counted(in, max, reader) ==
    Then(Field(in, 0..max), LAMBDA count, rest : ReadAll(rest, [i \in 1..count |-> reader]))

\* What a decoder makes of its fields: a value, or a failure of its checks.
Made(ok, value) == [ok |-> ok, value |-> value]

Result(made, rest) == IF made.ok THEN Got(made.value, rest) ELSE Fail

\* ExpectEnd.
Whole(reading) == IF reading.ok /\ reading.rest = <<>> THEN reading ELSE Fail

\* The writer's side of a counted sequence: of fields, and of items that are
\* encoded already.
ListedFields(tokens) == <<Len(tokens)>> \o tokens

Listed(items) == <<Len(items)>> \o FlattenSeq(items)
=============================================================================
