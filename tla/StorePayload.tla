---------------------------- MODULE StorePayload ----------------------------
(***************************************************************************)
(* The payload of the store file (persistence.cpp): the records that       *)
(* EncodePayload writes of a registry and DecodePayload reads back.  As in *)
(* Wire, the plain fields of a record are a sequence of tokens.  The       *)
(* length of a record counts the tokens of its body.                       *)
(***************************************************************************)
EXTENDS Wire

CONSTANT MaxRecords        \* the bound on each type of record

ASSUME StorePayloadAssumption == MaxRecords \in Nat

Currentness == Enumerators(5)
EntityKindCode == 1..11

ClaimFields ==
    [i \in 1..8 |-> Name] \o [i \in 1..3 |-> Word]
    \o <<Provenance, SourceClass, Durability, Coverage, State, Currentness>>
ClaimNotes == <<Optional, Optional, Optional>>

EntityFields == <<Name, Word \ {0}, Word, Bit, Word, Bit, Optional>>
CapabilityFields == <<Name, Word>>
FloorFields == <<Name, Name, Word>>
HistoryFields == <<Word, Word, Digest, Word, Word, Word, Optional>>

GrantFields == <<Word, Bit, Bit, Provenance, 0..MaxItems, Optional>>

\* The records that are plain fields, with their types.
MetaFields == <<Word, Word>>
FenceFields == <<Name, Optional, Optional>>
RegistrationFields == <<Name, Name, Name>>

-----------------------------------------------------------------------------
(* An entity is [fields, capabilities, claims, floors, history], a claim   *)
(* [fields, value, notes], a grant [scope, kinds, namespaces, fields,      *)
(* publishers].                                                            *)

IsStoredClaim(claim) ==
    /\ claim = [fields |-> claim.fields, value |-> claim.value, notes |-> claim.notes]
    /\ claim.fields \in FieldsOf(ClaimFields) /\ claim.notes \in FieldsOf(ClaimNotes)
    /\ Storable(claim.value)

\* The capabilities of an entity are a map: sorted by identifier, each once.
InOrder(capabilities) ==
    \A i \in 2..Len(capabilities) : capabilities[i - 1][1] < capabilities[i][1]

IsEntity(entity) ==
    /\ entity = [fields |-> entity.fields, capabilities |-> entity.capabilities,
                 claims |-> entity.claims, floors |-> entity.floors,
                 history |-> entity.history]
    /\ entity.fields \in FieldsOf(EntityFields)
    /\ entity.capabilities \in Seq(FieldsOf(CapabilityFields)) /\ InOrder(entity.capabilities)
    /\ IsSequence(entity.claims) /\ \A claim \in ToSet(entity.claims) : IsStoredClaim(claim)
    /\ entity.floors \in Seq(FieldsOf(FloorFields))
    /\ entity.history \in Seq(FieldsOf(HistoryFields))
    /\ Fits(entity.capabilities) /\ Fits(entity.claims)
    /\ Fits(entity.floors) /\ Fits(entity.history)

Grant ==
    {grant \in [scope : Name, kinds : Seq(EntityKindCode), namespaces : Seq(Name),
                fields : FieldsOf(GrantFields), publishers : Seq(Name)] :
        Fits(grant.kinds) /\ Fits(grant.namespaces) /\ Fits(grant.publishers)}

\* A registry that Load would accept.
IsSaved(payload) ==
    /\ payload = [meta |-> payload.meta, authorities |-> payload.authorities,
                  fences |-> payload.fences, registrations |-> payload.registrations,
                  entities |-> payload.entities]
    /\ payload.meta \in FieldsOf(MetaFields)
    /\ payload.authorities \in Seq(Grant)
    /\ payload.fences \in Seq(FieldsOf(FenceFields))
    /\ payload.registrations \in Seq(FieldsOf(RegistrationFields))
    /\ IsSequence(payload.entities) /\ \A entity \in ToSet(payload.entities) : IsEntity(entity)
    /\ {Len(payload.authorities), Len(payload.fences), Len(payload.registrations),
        Len(payload.entities)} \subseteq 0..MaxRecords

WriteStoredClaim(claim) == claim.fields \o Encode(claim.value) \o claim.notes

ReadStoredClaim == [in \in Stream |->
    Then(Fields(in, ClaimFields), LAMBDA fields, rest1 :
    Then(Decode(rest1), LAMBDA value, rest2 :
    Then(Fields(rest2, ClaimNotes), LAMBDA notes, left :
        Got([fields |-> fields, value |-> value, notes |-> notes], left))))]

WriteStoredClaims(claims) == Listed([i \in DOMAIN claims |-> WriteStoredClaim(claims[i])])

\* Mutant of WriteStoredEntity: the floors of the sources are left out.
WriteWithoutFloors(entity) ==
    entity.fields \o Listed(entity.capabilities) \o WriteStoredClaims(entity.claims)
    \o <<0>> \o Listed(entity.history)

WriteStoredEntity(entity) ==
    entity.fields \o Listed(entity.capabilities) \o WriteStoredClaims(entity.claims)
    \o Listed(entity.floors) \o Listed(entity.history)

Record(legal) == [in \in Stream |-> Fields(in, legal)]

\* The capabilities are sorted by their identifier, and refused when one is
\* declared twice.
ById(capabilities) ==
    LET sorted == {order \in Arrangements(capabilities) : InOrder(order)}
    IN  IF sorted = {} THEN Fail ELSE Made(TRUE, CHOOSE order \in sorted : TRUE)

ReadStoredEntity(in) ==
    Then(Fields(in, EntityFields), LAMBDA fields, rest1 :
    Then(Counted(rest1, MaxItems, Record(CapabilityFields)), LAMBDA given, rest2 :
    Then(Result(ById(given), rest2), LAMBDA capabilities, rest3 :
    Then(Counted(rest3, MaxItems, ReadStoredClaim), LAMBDA claims, rest4 :
    Then(Counted(rest4, MaxItems, Record(FloorFields)), LAMBDA floors, rest5 :
    Then(Counted(rest5, MaxItems, Record(HistoryFields)), LAMBDA history, left :
        Got([fields |-> fields, capabilities |-> capabilities, claims |-> claims,
             floors |-> floors, history |-> history], left)))))))

WriteGrant(grant) ==
    <<grant.scope>> \o ListedFields(grant.kinds) \o ListedFields(grant.namespaces)
    \o grant.fields \o ListedFields(grant.publishers)

ReadGrant(in) ==
    Then(Field(in, Name), LAMBDA scope, rest1 :
    Then(Counted(rest1, MaxItems, FieldOf(EntityKindCode)), LAMBDA kinds, rest2 :
    Then(Counted(rest2, MaxItems, FieldOf(Name)), LAMBDA namespaces, rest3 :
    Then(Fields(rest3, GrantFields), LAMBDA fields, rest4 :
    Then(Counted(rest4, MaxItems, FieldOf(Name)), LAMBDA publishers, left :
        Got([scope |-> scope, kinds |-> kinds, namespaces |-> namespaces, fields |-> fields,
             publishers |-> publishers], left))))))

-----------------------------------------------------------------------------
(* The payload, [meta, authorities, fences, registrations, entities].  One *)
(* that is being read has a sequence of none or one meta record.           *)

Records(type, bodies) ==
    FlattenSeq([i \in DOMAIN bodies |-> <<type, Len(bodies[i])>> \o bodies[i]])

EncodePayload(payload) ==
    Records(1, <<payload.meta>>)
    \o Records(2, [i \in DOMAIN payload.authorities |-> WriteGrant(payload.authorities[i])])
    \o Records(3, payload.fences)
    \o Records(5, payload.registrations)
    \o Records(4, [i \in DOMAIN payload.entities |-> WriteStoredEntity(payload.entities[i])])

Collection == <<"meta", "authorities", "fences", "entities", "registrations">>

MaxOf(type) == IF type = 1 THEN 1 ELSE MaxRecords

ReadRecord(type, body) ==
    Whole(CASE type = 1 -> Fields(body, MetaFields)
            [] type = 2 -> ReadGrant(body)
            [] type = 3 -> Fields(body, FenceFields)
            [] type = 4 -> ReadStoredEntity(body)
            [] type = 5 -> Fields(body, RegistrationFields))

\* One more record, which is added to its collection.
NextRecord(read, in) ==
    Then(Field(in, 1..5), LAMBDA type, rest :
    Then(Field(rest, 0..(Len(rest) - 1)), LAMBDA length, first :
        IF Len(read[Collection[type]]) >= MaxOf(type) THEN Fail
        ELSE Then(ReadRecord(type, SubSeq(first, 1, length)), LAMBDA record, end :
                Got([read EXCEPT ![Collection[type]] = Append(@, record)],
                    SubSeq(first, length + 1, Len(first))))))

\* Records are read while there are any; there are no more than tokens.
ReadRecords(in) ==
    LET after[n \in 0..Len(in)] ==
            IF n = 0 THEN Got([name \in ToSet(Collection) |-> <<>>], in)
            ELSE Then(after[n - 1], LAMBDA read, rest :
                     IF rest = <<>> THEN Got(read, rest) ELSE NextRecord(read, rest))
    IN  after[Len(in)]

DecodePayload(in) ==
    Then(ReadRecords(in), LAMBDA read, left :
        IF read["meta"] = <<>> THEN Fail
        ELSE Got([read EXCEPT !["meta"] = @[1]], <<>>))
=============================================================================
