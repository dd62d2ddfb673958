------------------------------ MODULE Evidence ------------------------------
(***************************************************************************)
(* The evidence algebra of the registry (registry.cpp, class Impl): the    *)
(* records one capability of one entity holds, how a set of records        *)
(* resolves to one answer, and the transformations the registry applies to *)
(* it.  Everything here is a pure operator on one capability entry; module *)
(* Registry holds the state and decides when each operator runs.           *)
(*                                                                         *)
(* The evidence vector of the code is a set of records; the field "order"  *)
(* is the record's place in the vector, which only TrimEvidence reads.     *)
(* Left out of a record: scope, coverage, source class, versions, reason   *)
(* and the identifiers derived from other fields.                          *)
(***************************************************************************)
EXTENDS Integers, FiniteSets

CONSTANTS
    Source,        \* SourceId, ordered: registry.cpp compares them with <
    Boot,          \* WorkerBootId, ordered
    Publisher,     \* PublisherId
    Value,         \* the capability values a claim may carry
    NoValue,       \* an absent CapabilityValue
    MaxEvidence    \* Options::max_evidence_per_capability

ASSUME EvidenceAssumption ==
    /\ Source \subseteq Nat
    /\ Boot \subseteq Nat
    /\ NoValue \notin Value
    /\ MaxEvidence \in Nat \ {0}

-----------------------------------------------------------------------------
CapabilityState ==
    {"Supported", "Unsupported", "Unknown", "RevalidationRequired", "Conflicted"}

\* ProvenanceClass by its rank; 0 is the strongest, 6 the synthetic backend.
Rank == 0..6

Currentness == {"Current", "RevalidationRequired", "Fenced", "Superseded"}

Identity == [source: Source, boot: Boot]

\* What a publication says about one capability (CapabilityClaim).
Claim == [state: CapabilityState, value: Value \cup {NoValue},
          rank: Rank, durable: BOOLEAN]

\* Who publishes (PublicationAuthority) and under which epoch and entity
\* generation the record is stamped.
Stamp == [source: Source, boot: Boot, publisher: Publisher,
          sourceGeneration: Nat, epoch: Nat, entityGeneration: Nat]

EvidenceRecord ==
    [source: Source, boot: Boot, publisher: Publisher,
     sourceGeneration: Nat, epoch: Nat, entityGeneration: Nat,
     state: CapabilityState, value: Value \cup {NoValue},
     rank: Rank, durable: BOOLEAN,
     currentness: Currentness, generation: Nat, order: Nat]

Resolution ==
    [state: CapabilityState, value: Value \cup {NoValue},
     rank: Rank, evidenceGeneration: Nat, generation: Nat]

-----------------------------------------------------------------------------
IsCurrent(r) == r.currentness = "Current"

\* Records the registry still answers from: current or marked, not retired.
IsLive(r) == r.currentness # "Superseded"

Live(E) == {r \in E : IsLive(r)}

Owns(id, r) == r.source = id.source /\ r.boot = id.boot

\* r is chosen before q: newest evidence generation, then lowest source,
\* then lowest boot.
PreferredTo(r, q) ==
    \/ r.generation > q.generation
    \/ /\ r.generation = q.generation
       /\ \/ r.source < q.source
          \/ r.source = q.source /\ r.boot <= q.boot

PickDeterministic(R) == CHOOSE r \in R : \A q \in R : PreferredTo(r, q)

SameClaim(r, q) == r.state = q.state /\ r.value = q.value

Strongest(R) == {r \in R : \A q \in R : r.rank <= q.rank}

Answer(state, value, winner, generation) ==
    [state |-> state, value |-> value, rank |-> winner.rank,
     evidenceGeneration |-> winner.generation, generation |-> generation]

NoAnswer(generation) ==
    [state |-> "Unknown", value |-> NoValue, rank |-> 6,
     evidenceGeneration |-> 0, generation |-> generation]

\* The answer for one capability.  Only the strongest provenance class that
\* holds any live record speaks; within it only current records do, and they
\* must agree.
ResolveCapability(E, generation) ==
    LET strongest == Strongest(Live(E))
        current   == {r \in strongest : IsCurrent(r)}
        stale     == PickDeterministic(strongest)
        winner    == PickDeterministic(current)
    IN  IF strongest = {} THEN NoAnswer(generation)
        ELSE IF current = {}
             THEN Answer("RevalidationRequired", stale.value, stale, generation)
        ELSE IF \A r \in current : SameClaim(r, winner)
             THEN Answer(winner.state, winner.value, winner, generation)
        ELSE Answer("Conflicted", NoValue, winner, generation)

-----------------------------------------------------------------------------
(* One capability entry of an entity: CapabilityEntry.                     *)

Entry == [exists: BOOLEAN, generation: Nat,
          evidence: SUBSET EvidenceRecord, resolution: Resolution]

NoEntry == [exists |-> FALSE, generation |-> 0, evidence |-> {},
            resolution |-> NoAnswer(0)]

\* Mutant of Touch: the answer is not resolved again.
TouchWithoutResolving(entry, E) ==
    [exists |-> TRUE, generation |-> entry.generation + 1, evidence |-> E,
     resolution |-> [entry.resolution EXCEPT !.generation = entry.generation + 1]]

\* Every change of an entry's evidence advances the capability generation
\* and resolves the entry again.
Touch(entry, E) ==
    [exists |-> TRUE, generation |-> entry.generation + 1, evidence |-> E,
     resolution |-> ResolveCapability(E, entry.generation + 1)]

\* The records of E that are in S take the given currentness.
Mark(E, S, currentness) ==
    (E \ S) \cup {[r EXCEPT !.currentness = currentness] : r \in S}

\* Mark S and touch the entry, unless S is empty.
MarkAndTouch(entry, S, currentness) ==
    IF S = {} THEN entry ELSE Touch(entry, Mark(entry.evidence, S, currentness))

OwnLive(E, id) == {r \in E : Owns(id, r) /\ IsLive(r)}

\* A publishing identity replaces its own surface.
SupersedeIdentity(entry, id) ==
    MarkAndTouch(entry, OwnLive(entry.evidence, id), "Superseded")

\* An exclusive snapshot retires what other publishing instances observed;
\* durable declarations survive.
SupersedeOtherIdentities(entry, publisher, boot) ==
    MarkAndTouch(entry,
                 {r \in entry.evidence : /\ ~(r.publisher = publisher /\ r.boot = boot)
                                         /\ ~r.durable
                                         /\ IsLive(r)},
                 "Superseded")

WithdrawIdentityClaim(entry, id) == SupersedeIdentity(entry, id)

\* The current records among S stop being current; the claim is kept.  The
\* four callers differ in which records they reach.
MarkNonCurrent(entry, S, currentness) ==
    MarkAndTouch(entry, {r \in S : IsCurrent(r)}, currentness)

\* Mutant of ExpireProcessBound: the durability test is inverted.
ExpireDurable(entry) ==
    MarkNonCurrent(entry, {r \in entry.evidence : r.durable}, "RevalidationRequired")

ExpireProcessBound(entry) ==
    MarkNonCurrent(entry, {r \in entry.evidence : ~r.durable}, "RevalidationRequired")

FenceBoot(entry, boot) ==
    MarkNonCurrent(entry, {r \in entry.evidence : r.boot = boot /\ ~r.durable}, "Fenced")

InvalidateAll(entry) == MarkNonCurrent(entry, entry.evidence, "RevalidationRequired")

InvalidateFrom(entry, source) ==
    MarkNonCurrent(entry, {r \in entry.evidence : r.source = source}, "RevalidationRequired")

\* Mutant of NextEvidenceGeneration: retired records are not counted.
NextAfterLive(E, id) ==
    LET own == {0} \cup {r.generation : r \in OwnLive(E, id)}
    IN  1 + (CHOOSE g \in own : \A h \in own : h <= g)

\* The generation after the newest retained record of the identity.
NextEvidenceGeneration(E, id) ==
    LET own == {0} \cup {r.generation : r \in {q \in E : Owns(id, q)}}
    IN  1 + (CHOOSE g \in own : \A h \in own : h <= g)

\* Drops the oldest retired records until the bound holds or only live
\* records remain.
TrimEvidence(E) ==
    {r \in E : \/ IsLive(r)
               \/ Cardinality({q \in E : ~IsLive(q) /\ q.order <= r.order})
                    > Cardinality(E) - MaxEvidence}

\* Mutant of MakeRoom: the identity's own record is left to speak.
MakeRoomOnly(E, id) == TrimEvidence(E)

\* What ApplyClaim leaves of the evidence before it adds the new record: the
\* identity's own live records superseded, then the trim.
MakeRoom(E, id) == TrimEvidence(Mark(E, OwnLive(E, id), "Superseded"))

\* Mutant of EvidenceLimitExceeded: off by one.
EvidenceLimitPassed(entry, id) ==
    Cardinality(Live(MakeRoom(entry.evidence, id))) > MaxEvidence

EvidenceLimitExceeded(entry, id) ==
    Cardinality(Live(MakeRoom(entry.evidence, id))) >= MaxEvidence

NewRecord(entry, stamp, claim) ==
    [source |-> stamp.source, boot |-> stamp.boot, publisher |-> stamp.publisher,
     sourceGeneration |-> stamp.sourceGeneration, epoch |-> stamp.epoch,
     entityGeneration |-> stamp.entityGeneration,
     state |-> claim.state, value |-> claim.value,
     rank |-> claim.rank, durable |-> claim.durable,
     currentness |-> "Current",
     generation |-> NextEvidenceGeneration(entry.evidence, stamp),
     order |-> entry.generation + 1]

\* A claim that the limits admit.
ApplyClaim(entry, stamp, claim) ==
    Touch(entry, MakeRoom(entry.evidence, stamp) \cup {NewRecord(entry, stamp, claim)})

\* The early return of ApplyClaim at the evidence limit: the room was already
\* made, and the entry is neither touched nor resolved again.
ApplyClaimAtLimit(entry, stamp) ==
    [entry EXCEPT !.evidence = MakeRoom(@, stamp)]

-----------------------------------------------------------------------------
(* What a store keeps of an entry, and what Load makes of it.              *)

StoredEntry(entry) == [entry EXCEPT !.evidence = Live(@)]

\* Claims are written sorted by source and evidence generation; the order in
\* which they are read back is the order of the restored vector.  The sort
\* leaves ties, two boots of one source, unspecified; here they keep their
\* order.
LoadOrder(E, r) ==
    Cardinality({q \in E : \/ q.source < r.source
                           \/ q.source = r.source /\ q.generation < r.generation
                           \/ /\ q.source = r.source
                              /\ q.generation = r.generation
                              /\ q.order <= r.order})

\* Mutant of LoadCurrentness: the stored currentness is trusted.
StoredCurrentness(r) == r.currentness

LoadCurrentness(r) ==
    IF r.currentness = "Fenced" THEN "Fenced"
    ELSE IF r.durable THEN "Current" ELSE "RevalidationRequired"

LoadedEvidence(E) ==
    {[r EXCEPT !.currentness = LoadCurrentness(r), !.order = LoadOrder(E, r)] : r \in E}

LoadedEntry(entry) ==
    IF ~entry.exists THEN NoEntry
    ELSE [exists |-> TRUE, generation |-> entry.generation,
          evidence |-> LoadedEvidence(entry.evidence),
          resolution |-> ResolveCapability(LoadedEvidence(entry.evidence), entry.generation)]
=============================================================================
