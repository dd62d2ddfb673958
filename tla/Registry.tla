------------------------------ MODULE Registry ------------------------------
(***************************************************************************)
(* CapabilityRegistry (registry.cpp): the coordinator's state and every    *)
(* public call that changes it.  Each call holds the registry's exclusive  *)
(* lock from beginning to end, so each call is one action.                 *)
(*                                                                         *)
(* Calls that fail before they change anything are not steps, except for   *)
(* Publish, whose outcomes are five actions.  Left out: the rejection      *)
(* journal, explanations, the namespace, publisher and source evidence     *)
(* indexes, and bound_generation, which always equals current_generation.  *)
(***************************************************************************)
EXTENDS Evidence, Sequences

CONSTANTS
    Entity, Capability, Scope, Attempt,
    Grants,              \* the grants DeclareAuthority is called with
    Workers,             \* the registrations RegisterPublisher is called with
    Requests,            \* the requests Publish is called with
    Descriptor,          \* the schema: what is declared of each capability
    EntityKind,          \* FabricEntityKind of each entity
    Kind, Namespace,
    NoGrant,             \* an undeclared scope
    NoRegistration,      \* an unregistered publishing instance
    EntityGenerations,   \* the generations Fabric Registry hands out
    MaxEntities, MaxCapabilities, MaxPublishers, MaxScopes,
    MaxFences, MaxReplay, MaxHistory,   \* Options::max_...
    \* Bounds of the model on counters that the code lets grow to 2^64 - 1.
    MaxRegistryGeneration, MaxCapabilityGeneration, MaxEpoch

Mode == {"FullSnapshot", "PartialObservation", "Incremental"}

\* "None" marks a capability the request does not mention.
Operation == {"None", "UpsertClaim", "MarkUnsupported", "MarkUnknown",
              "MarkRevalidationRequired", "WithdrawClaim"}

Grant == [scope: Scope, kinds: SUBSET Kind, namespaces: SUBSET Namespace,
          modes: SUBSET Mode, exclusive: BOOLEAN, durable: BOOLEAN,
          strongest: Rank, allowed: SUBSET Publisher, maxClaims: Nat]

\* One line of a request.  sourceRank is StrongestProvenanceForSource of the
\* claim's source class.  A line of a snapshot is an upsert.
Edit == [op: Operation, state: CapabilityState, value: Value \cup {NoValue},
         rank: Rank, durable: BOOLEAN, sourceRank: Rank]

Edits == [Capability -> Edit]

Named(lines) == {c \in Capability : lines[c].op # "None"}

\* A snapshot's claims are "edits".  An incremental request is split at its
\* first SupersedeSourceEvidence edit: "before" runs first, "supersede" names
\* the capabilities of those edits, "edits" runs last.
Request ==
    [attempt: Attempt, entity: Entity, generation: Nat, expected: Nat,
     epoch: Nat, mode: Mode, fullEnumeration: BOOLEAN,
     publisher: Publisher, boot: Boot, scope: Scope, source: Source,
     sourceGeneration: Nat,
     before: Edits, supersede: SUBSET Capability, edits: Edits,
     front: Capability]

VARIABLES
    epoch,               \* epoch_
    registryGeneration,  \* registry_generation_
    authorities,         \* scope -> grant, for the declared scopes
    publishers,          \* <<publisher, boot>> -> runtime, for the registered
    fences,              \* fences_: the fenced boots, oldest first
    entities,            \* EntityState without its capability entries
    capabilities,        \* EntityState::capabilities
    reverse,             \* reverse_: capability -> state -> entities
    revalidation,        \* revalidation_: <<entity, capability>> pairs
    store                \* the payload of the persisted store

vars == <<epoch, registryGeneration, authorities, publishers, fences, entities,
          capabilities, reverse, revalidation, store>>

-----------------------------------------------------------------------------
(* The parts of the state.                                                 *)

PublisherKey == Publisher \X Boot

Content == [mode: Mode, entity: Entity, generation: Nat, fullEnumeration: BOOLEAN,
            scope: Scope, source: Source, sourceGeneration: Nat, exclusive: BOOLEAN,
            before: Edits, supersede: SUBSET Capability, edits: Edits, front: Capability]

ReplayRecord == [attempt: Attempt, content: Content]

PublisherRuntime == [scope: Scope, epoch: Nat, active: BOOLEAN, replay: Seq(ReplayRecord)]

AnswerSet == [Capability -> Resolution]

EntityState ==
    [known: BOOLEAN, generation: Nat, hasSet: BOOLEAN, setGeneration: Nat,
     invalidated: BOOLEAN, highWater: [Identity -> Nat],
     history: Seq([generation: Nat, setGeneration: Nat]),
     materialised: BOOLEAN, set: AnswerSet]

ASSUME RegistryAssumption ==
    /\ Grants \subseteq Grant
    /\ NoGrant \notin Grant
    /\ NoRegistration \notin PublisherRuntime \cup Scope
    /\ Workers \subseteq [publisher: Publisher, scope: Scope, boot: Boot]
    /\ Requests \subseteq Request
    /\ Descriptor \in [Capability -> [namespace: Namespace, boolean: BOOLEAN,
                                      absenceIsNegative: BOOLEAN,
                                      values: SUBSET Value]]
    /\ EntityKind \in [Entity -> Kind]
    /\ EntityGenerations \subseteq Nat \ {0}
    /\ \A q \in Requests : q.generation \in Nat \ {0}
    /\ {MaxEntities, MaxCapabilities, MaxPublishers, MaxScopes, MaxFences, MaxHistory,
        MaxRegistryGeneration, MaxCapabilityGeneration, MaxEpoch} \subseteq Nat
    /\ MaxReplay \in Nat \ {0}

NoCapabilities == [c \in Capability |-> NoEntry]

NoAnswers == [c \in Capability |-> NoAnswer(0)]

NewEntity(generation) ==
    [known |-> TRUE, generation |-> generation, hasSet |-> FALSE, setGeneration |-> 0,
     invalidated |-> FALSE, highWater |-> [id \in Identity |-> 0], history |-> <<>>,
     materialised |-> FALSE, set |-> NoAnswers]

NoEntity == [NewEntity(0) EXCEPT !.known = FALSE]

Fenced(b) == \E i \in DOMAIN fences : fences[i] = b

\* Materialize: the immutable set is a copy of the cached answers.
Materialize(entries) == [c \in Capability |-> entries[c].resolution]

\* Mutant of Refreshed: the set is marked fresh without being rebuilt.
MarkedRefreshed(entity, entries) == [entity EXCEPT !.materialised = TRUE]

\* RefreshEntity on one entity whose entries are given.
Refreshed(entity, entries) ==
    [entity EXCEPT !.materialised = TRUE, !.set = Materialize(entries)]

\* Mutant of Reindex: an entity leaves its bucket and enters no other.
ReindexRemovingOnly(rev, old, new) ==
    [c \in Capability |-> [s \in CapabilityState |->
        {e \in Entity :
            IF ~old[e][c].exists THEN e \in rev[c][s] \/ (new[e][c].exists
                                         /\ s = new[e][c].resolution.state)
            ELSE e \in rev[c][s] /\ new[e][c].resolution.state = s}]]

\* Mutant of Reindex: an entity enters a bucket and leaves none.
ReindexAddingOnly(rev, old, new) ==
    [c \in Capability |-> [s \in CapabilityState |->
        {e \in Entity : \/ e \in rev[c][s]
                        \/ new[e][c].exists /\ s = new[e][c].resolution.state}]]

\* FinishResolution on the reverse index, for every entry that went from old
\* to new: leave the bucket of the previous state, enter the bucket of the
\* new one.
Reindex(rev, old, new) ==
    [c \in Capability |-> [s \in CapabilityState |->
        {e \in Entity :
            LET before == old[e][c]
                after  == new[e][c]
                moved  == /\ after.exists
                          /\ \/ ~before.exists
                             \/ before.resolution.state # after.resolution.state
            IN  IF moved /\ s = after.resolution.state THEN TRUE
                ELSE IF moved /\ before.exists /\ s = before.resolution.state THEN FALSE
                ELSE e \in rev[c][s]}]]

NoIndex == [c \in Capability |-> [s \in CapabilityState |-> {}]]

NeedsRevalidation(entry) ==
    entry.exists /\ entry.resolution.state = "RevalidationRequired"

\* UpdateRevalidationIndex, likewise.
Requeue(pairs, old, new) ==
    {p \in Entity \X Capability :
        LET was == NeedsRevalidation(old[p[1]][p[2]])
            is  == NeedsRevalidation(new[p[1]][p[2]])
        IN  IF was = is THEN p \in pairs ELSE is}

-----------------------------------------------------------------------------
Init ==
    /\ epoch = 1
    /\ registryGeneration = 0
    /\ authorities = [s \in Scope |-> NoGrant]
    /\ publishers = [k \in PublisherKey |-> NoRegistration]
    /\ fences = <<>>
    /\ entities = [e \in Entity |-> NoEntity]
    /\ capabilities = [e \in Entity |-> NoCapabilities]
    /\ reverse = NoIndex
    /\ revalidation = {}
    /\ store = [epoch |-> 1, registryGeneration |-> 0, authorities |-> [s \in Scope |-> NoGrant],
                registrations |-> [k \in PublisherKey |-> NoRegistration], fences |-> {},
                entities |-> [e \in Entity |-> NoEntity],
                capabilities |-> [e \in Entity |-> NoCapabilities]]

Declared == {s \in Scope : authorities[s] # NoGrant}

RegisteredKeys == {k \in PublisherKey : publishers[k] # NoRegistration}

Known == {e \in Entity : entities[e].known}

\* Bound of the model: no call that advances the registry generation starts
\* at the cap.
BelowCap == registryGeneration < MaxRegistryGeneration

-----------------------------------------------------------------------------
(* Authority and publishers.                                               *)

DeclareAuthority(g) ==
    /\ g.kinds # {} /\ g.namespaces # {} /\ g.modes # {} /\ g.maxClaims # 0
    /\ g.scope \in Declared \/ Cardinality(Declared) < MaxScopes
    /\ authorities' = [authorities EXCEPT ![g.scope] = g]
    /\ UNCHANGED <<epoch, registryGeneration, publishers, fences, entities,
                   capabilities, reverse, revalidation, store>>

RegisterPublisher(p, s, b) ==
    /\ ~Fenced(b)
    /\ s \in Declared
    /\ authorities[s].allowed # {} => p \in authorities[s].allowed
    /\ <<p, b>> \in RegisteredKeys \/ Cardinality(RegisteredKeys) < MaxPublishers
    /\ publishers' = [publishers EXCEPT ![<<p, b>>] =
                         [scope |-> s, epoch |-> epoch, active |-> TRUE, replay |-> <<>>]]
    /\ UNCHANGED <<epoch, registryGeneration, authorities, fences, entities,
                   capabilities, reverse, revalidation, store>>

RetirePublisher(p, b) ==
    /\ <<p, b>> \in RegisteredKeys
    /\ publishers' = [publishers EXCEPT ![<<p, b>>].active = FALSE]
    /\ UNCHANGED <<epoch, registryGeneration, authorities, fences, entities,
                   capabilities, reverse, revalidation, store>>

-----------------------------------------------------------------------------
(* Calls that take evidence out of currency.                               *)

\* The entries of every entity change; the indexes follow.
Resolve(new) ==
    /\ capabilities' = new
    /\ reverse' = Reindex(reverse, capabilities, new)
    /\ revalidation' = Requeue(revalidation, capabilities, new)

\* RefreshEntity on the entities of E, whose entries are now new.
Refresh(E, new) ==
    entities' = [e \in Entity |->
                    IF e \in E THEN Refreshed(entities[e], new[e]) ELSE entities[e]]

\* The new epoch drops every registration and fences its boot while there is
\* room for a fence; the order of publishers_ is unspecified.
AdvanceCoordinatorEpoch ==
    /\ BelowCap /\ epoch < MaxEpoch
    /\ epoch' = epoch + 1
    /\ publishers' = [k \in PublisherKey |-> NoRegistration]
    /\ \E n \in 0..MaxFences :
       \E added \in [1..n -> {k[2] : k \in RegisteredKeys}] :
          /\ \A i \in 1..n : ~Fenced(added[i])
          /\ \A i, j \in 1..n : added[i] = added[j] => i = j
          /\ n > 0 => Len(fences) + n <= MaxFences
          /\ \/ \A k \in RegisteredKeys : Fenced(k[2]) \/ \E i \in 1..n : added[i] = k[2]
             \/ Len(fences) + n >= MaxFences
          /\ fences' = fences \o added
    /\ LET new == [e \in Entity |-> [c \in Capability |->
                      ExpireProcessBound(capabilities[e][c])]]
       IN  Resolve(new) /\ Refresh(Known, new)
    /\ registryGeneration' = registryGeneration + 1
    /\ UNCHANGED <<authorities, store>>

OwnsCurrentEvidence(b) ==
    \E e \in Entity, c \in Capability : \E r \in capabilities[e][c].evidence :
        r.boot = b /\ IsCurrent(r)

\* At capacity the oldest fence whose boot owns no current evidence is
\* forgotten to make room; if there is none the call fails.
AddFence(b) ==
    \/ /\ Len(fences) < MaxFences
       /\ fences' = Append(fences, b)
    \/ /\ Len(fences) >= MaxFences
       /\ \E i \in DOMAIN fences :
             /\ ~OwnsCurrentEvidence(fences[i])
             /\ \A j \in 1..(i - 1) : OwnsCurrentEvidence(fences[j])
             /\ fences' = Append(SubSeq(fences, 1, i - 1)
                                   \o SubSeq(fences, i + 1, Len(fences)), b)

\* Of the publishers registered with the boot one, the last in the iteration
\* order of publishers_, loses its registration.
DropOnePublisher(b) ==
    \/ \E k \in RegisteredKeys :
          /\ k[2] = b
          /\ publishers' = [publishers EXCEPT ![k] = NoRegistration]
    \/ /\ \A k \in RegisteredKeys : k[2] # b
       /\ UNCHANGED publishers

FenceWorkerBoot(b) ==
    /\ BelowCap
    /\ ~Fenced(b)
    /\ AddFence(b)
    /\ DropOnePublisher(b)
    /\ LET new == [e \in Entity |-> [c \in Capability |-> FenceBoot(capabilities[e][c], b)]]
       IN  Resolve(new) /\ Refresh(Known, new)
    /\ registryGeneration' = registryGeneration + 1
    /\ UNCHANGED <<epoch, authorities, store>>

\* Refreshed and counted only when something changed: the entity was not yet
\* invalidated, or some answer is not SUPPORTED.
InvalidateEntity(e) ==
    /\ BelowCap
    /\ entities[e].known
    /\ LET entries == [c \in Capability |-> InvalidateAll(capabilities[e][c])]
       IN  /\ \/ ~entities[e].invalidated
              \/ \E c \in Capability : /\ entries[c].exists
                                       /\ entries[c].resolution.state # "Supported"
           /\ Resolve([capabilities EXCEPT ![e] = entries])
           /\ entities' = [entities EXCEPT ![e] =
                              Refreshed([@ EXCEPT !.invalidated = TRUE], entries)]
    /\ registryGeneration' = registryGeneration + 1
    /\ UNCHANGED <<epoch, authorities, publishers, fences, store>>

\* Every entity that has a capability entry is refreshed, reached or not.
InvalidateSource(s) ==
    LET claimed == {e \in Known : \E c \in Capability : capabilities[e][c].exists}
        new     == [e \in Entity |-> [c \in Capability |->
                      InvalidateFrom(capabilities[e][c], s)]]
    IN  /\ BelowCap
        /\ claimed # {}
        /\ Resolve(new)
        /\ Refresh(claimed, new)
        /\ registryGeneration' = registryGeneration + 1
        /\ UNCHANGED <<epoch, authorities, publishers, fences, store>>

-----------------------------------------------------------------------------
(* Entity generations.                                                     *)

\* Mutant of RetireGeneration: the summary is made after the generation has
\* advanced.
RetireAsNext(entity, next) ==
    [NewEntity(next) EXCEPT
        !.history = IF entity.hasSet /\ entity.materialised
                    THEN LET grown == <<[generation |-> next,
                                         setGeneration |-> entity.setGeneration]>>
                                        \o entity.history
                         IN  SubSeq(grown, 1, IF Len(grown) > MaxHistory
                                              THEN MaxHistory ELSE Len(grown))
                    ELSE entity.history]

\* RetireGeneration on the entity; its capability entries are cleared.  The
\* reverse and revalidation indexes are not visited.
RetireGeneration(entity, next) ==
    [NewEntity(next) EXCEPT
        !.history = IF entity.hasSet /\ entity.materialised
                    THEN LET grown == <<[generation |-> entity.generation,
                                         setGeneration |-> entity.setGeneration]>>
                                        \o entity.history
                         IN  SubSeq(grown, 1, IF Len(grown) > MaxHistory
                                              THEN MaxHistory ELSE Len(grown))
                    ELSE entity.history]

\* Mutant of ObserveEntityGeneration: an older generation is accepted too.
ObserveAnyGeneration(e, next) ==
    /\ entities[e].known
    /\ BelowCap
    /\ entities' = [entities EXCEPT ![e] = RetireGeneration(@, next)]
    /\ capabilities' = [capabilities EXCEPT ![e] = NoCapabilities]
    /\ registryGeneration' = registryGeneration + 1
    /\ UNCHANGED <<epoch, authorities, publishers, fences, reverse, revalidation,
                   store>>

ObserveEntityGeneration(e, next) ==
    /\ \/ /\ ~entities[e].known
          /\ Cardinality(Known) < MaxEntities
          /\ entities' = [entities EXCEPT ![e] = NewEntity(next)]
          /\ UNCHANGED <<registryGeneration, capabilities>>
       \/ /\ entities[e].known
          /\ entities[e].generation < next
          /\ BelowCap
          /\ entities' = [entities EXCEPT ![e] = RetireGeneration(@, next)]
          /\ capabilities' = [capabilities EXCEPT ![e] = NoCapabilities]
          /\ registryGeneration' = registryGeneration + 1
    /\ UNCHANGED <<epoch, authorities, publishers, fences, reverse, revalidation,
                   store>>

-----------------------------------------------------------------------------
(* Publish, steps 1 to 5: what is checked before anything may change.      *)

IdentityOf(q) == [source |-> q.source, boot |-> q.boot]

Newer(q) == entities[q.entity].known /\ q.generation > entities[q.entity].generation

\* ValidateClaimShape.
ValidShape(c, state, value) ==
    IF value = NoValue
    THEN Descriptor[c].boolean \/ state \notin {"Supported", "Unsupported"}
    ELSE state # "Unknown" /\ value \in Descriptor[c].values

\* The state a line claims: the Mark... operations override the claim's own.
ClaimedState(edit) ==
    CASE edit.op = "MarkUnsupported"          -> "Unsupported"
      [] edit.op = "MarkUnknown"              -> "Unknown"
      [] edit.op = "MarkRevalidationRequired" -> "RevalidationRequired"
      [] OTHER                                -> edit.state

\* Live observations (rank 0 and 1) are never durable.
LineAdmitted(grant, c, edit) ==
    /\ Descriptor[c].namespace \in grant.namespaces
    /\ edit.op # "WithdrawClaim" =>
          /\ edit.rank >= grant.strongest
          /\ edit.rank >= edit.sourceRank
          /\ edit.durable => grant.durable /\ edit.rank > 1
          /\ ValidShape(c, ClaimedState(edit), edit.value)

WellFormed(q) ==
    /\ q.mode # "Incremental" =>
          /\ Named(q.before) = {} /\ q.supersede = {}
          /\ \A c \in Named(q.edits) : q.edits[c].op = "UpsertClaim"
    /\ q.mode = "PartialObservation" => Named(q.edits) # {}
    /\ q.mode = "Incremental" => Named(q.before) \cup q.supersede \cup Named(q.edits) # {}

Registered(q) ==
    /\ <<q.publisher, q.boot>> \in RegisteredKeys
    /\ LET runtime == publishers[<<q.publisher, q.boot>>]
       IN  runtime.active /\ runtime.scope = q.scope /\ runtime.epoch = epoch

Authorised(q) ==
    /\ q.scope \in Declared
    /\ LET grant == authorities[q.scope]
       IN  /\ q.mode \in grant.modes
           /\ EntityKind[q.entity] \in grant.kinds
           /\ q.mode # "Incremental" => Cardinality(Named(q.edits)) <= grant.maxClaims
           /\ \A c \in Named(q.before) : LineAdmitted(grant, c, q.before[c])
           /\ \A c \in q.supersede : Descriptor[c].namespace \in grant.namespaces
           /\ \A c \in Named(q.edits) : LineAdmitted(grant, c, q.edits[c])

Admitted(q) ==
    /\ WellFormed(q)
    /\ q.epoch = epoch
    /\ ~Fenced(q.boot)
    /\ Registered(q)
    /\ Authorised(q)

-----------------------------------------------------------------------------
(* Steps 6 to 9.  Step 6 already creates the entity or retires its         *)
(* generation; the later checks can still reject the request.              *)

Located(q) ==
    IF entities[q.entity].known THEN q.generation >= entities[q.entity].generation
    ELSE Cardinality(Known) < MaxEntities

EntityAt(q) ==
    IF ~entities[q.entity].known THEN NewEntity(q.generation)
    ELSE IF Newer(q) THEN RetireGeneration(entities[q.entity], q.generation)
    ELSE entities[q.entity]

\* Mutant of EntriesAt: retiring a generation keeps its entries.
EntriesKept(q) == capabilities[q.entity]

EntriesAt(q) == IF Newer(q) THEN NoCapabilities ELSE capabilities[q.entity]

\* Mutant of GenerationAt: retiring a generation is not counted.
GenerationKept(q) == registryGeneration

GenerationAt(q) == IF Newer(q) THEN registryGeneration + 1 ELSE registryGeneration

\* Mutant of ContentOf: the entity generation is not part of the digest.
ContentOfAnyGeneration(q) ==
    [mode |-> q.mode, entity |-> q.entity, generation |-> 0,
     fullEnumeration |-> q.fullEnumeration, scope |-> q.scope, source |-> q.source,
     sourceGeneration |-> q.sourceGeneration,
     exclusive |-> authorities[q.scope].exclusive,
     before |-> q.before, supersede |-> q.supersede, edits |-> q.edits, front |-> q.front]

\* RequestContentDigest: the expected set generation, the epoch and the
\* publishing instance are not part of it.
ContentOf(q) ==
    [mode |-> q.mode, entity |-> q.entity, generation |-> q.generation,
     fullEnumeration |-> q.fullEnumeration, scope |-> q.scope, source |-> q.source,
     sourceGeneration |-> q.sourceGeneration,
     exclusive |-> authorities[q.scope].exclusive,
     before |-> q.before, supersede |-> q.supersede, edits |-> q.edits, front |-> q.front]

ReplayLog(q) == publishers[<<q.publisher, q.boot>>].replay

\* The latest accepted attempt, sent again with the same content.
Replayed(q) ==
    LET log == ReplayLog(q)
    IN  /\ log # <<>>
        /\ log[Len(log)].attempt = q.attempt
        /\ log[Len(log)].content = ContentOf(q)

\* An attempt reused with other content, or accepted and since superseded.
AttemptSpent(q) ==
    /\ ~Replayed(q)
    /\ \E i \in DOMAIN ReplayLog(q) : ReplayLog(q)[i].attempt = q.attempt

\* Mutant of PreconditionsHold: an older expected generation is accepted.
NotAheadOfSet(q) ==
    /\ q.sourceGeneration >= EntityAt(q).highWater[IdentityOf(q)]
    /\ q.expected <= EntityAt(q).setGeneration

PreconditionsHold(q) ==
    /\ q.sourceGeneration >= EntityAt(q).highWater[IdentityOf(q)]
    /\ q.expected = IF EntityAt(q).hasSet THEN EntityAt(q).setGeneration ELSE 0

\* What step 6 leaves behind, whatever the later steps decide.
Arrive(q) ==
    /\ entities' = [entities EXCEPT ![q.entity] = EntityAt(q)]
    /\ capabilities' = [capabilities EXCEPT ![q.entity] = EntriesAt(q)]
    /\ registryGeneration' = GenerationAt(q)
    /\ UNCHANGED <<epoch, authorities, publishers, fences, reverse, revalidation, store>>

-----------------------------------------------------------------------------
(* Step 10.  The lines of one stage name distinct capabilities, so their   *)
(* order only matters when one of them fails; a request stands for every   *)
(* order of its lines.                                                     *)

StampOf(q) ==
    [source |-> q.source, boot |-> q.boot, publisher |-> q.publisher,
     sourceGeneration |-> q.sourceGeneration, epoch |-> epoch,
     entityGeneration |-> q.generation]

ApplyLine(entry, stamp, edit) ==
    IF edit.op = "WithdrawClaim" THEN WithdrawIdentityClaim(entry, stamp)
    ELSE ApplyClaim(entry, stamp,
                    [state |-> ClaimedState(edit), value |-> edit.value,
                     rank |-> edit.rank, durable |-> edit.durable])

\* The entries after the lines named in D.
ApplyLines(entries, stamp, lines, D) ==
    [c \in Capability |->
        IF c \in D THEN ApplyLine(entries[c], stamp, lines[c]) ELSE entries[c]]

Claims(lines, D) == {c \in D : lines[c].op # "WithdrawClaim"}

CreatedBy(entries, lines, D) == {c \in Claims(lines, D) : ~entries[c].exists}

Existing(entries) == {c \in Capability : entries[c].exists}

\* No line of D meets a limit.
LinesFit(entries, stamp, lines, D) ==
    /\ \/ CreatedBy(entries, lines, D) = {}
       \/ Cardinality(Existing(entries) \cup CreatedBy(entries, lines, D)) <= MaxCapabilities
    /\ \A c \in Claims(lines, D) : ~EvidenceLimitExceeded(entries[c], stamp)

\* A line that meets a limit stops the request where it stands: the lines
\* done so far stay applied.
Stops(entries, stamp, lines, done, c) ==
    /\ LinesFit(entries, stamp, lines, done)
    /\ c \in Claims(lines, Named(lines)) \ done
    /\ IF entries[c].exists THEN EvidenceLimitExceeded(entries[c], stamp)
       ELSE Cardinality(Existing(entries) \cup CreatedBy(entries, lines, done))
              >= MaxCapabilities

Stopped(entries, stamp, lines, done, c) ==
    [ApplyLines(entries, stamp, lines, done) EXCEPT
        ![c] = IF entries[c].exists THEN ApplyClaimAtLimit(entries[c], stamp) ELSE @]

\* A full snapshot of an exclusive scope retires what others observed ...
OthersSuperseded(q, entries) ==
    [c \in Capability |->
        IF q.mode = "FullSnapshot" /\ authorities[q.scope].exclusive
        THEN SupersedeOtherIdentities(entries[c], q.publisher, q.boot)
        ELSE entries[c]]

\* ... and every full snapshot retires what the identity itself said before.
OwnSuperseded(q, entries) ==
    [c \in Capability |->
        IF q.mode = "FullSnapshot" \/ q.supersede # {}
        THEN SupersedeIdentity(entries[c], IdentityOf(q))
        ELSE entries[c]]

\* An exclusive full enumeration also denies what it does not mention.
Absent(q) ==
    IF q.mode = "FullSnapshot" /\ authorities[q.scope].exclusive /\ q.fullEnumeration
    THEN {c \in Capability \ Named(q.edits) :
             /\ Descriptor[c].absenceIsNegative
             /\ Descriptor[c].namespace \in authorities[q.scope].namespaces}
    ELSE {}

AbsenceLine(q) ==
    [op |-> "UpsertClaim", state |-> "Unsupported", value |-> NoValue, durable |-> FALSE,
     rank |-> IF Named(q.edits) = {} THEN authorities[q.scope].strongest
              ELSE q.edits[q.front].rank,
     sourceRank |-> 0]

LastLines(q) ==
    [c \in Capability |-> IF c \in Absent(q) THEN AbsenceLine(q) ELSE q.edits[c]]

\* The entries of the entity went through e0, e1, ..., e4; each stage
\* resolves what it touched.
Settle(q, e0, e1, e2, e3, e4) ==
    LET At(entries) == [capabilities EXCEPT ![q.entity] = entries]
    IN  /\ capabilities' = At(e4)
        /\ reverse' = Reindex(Reindex(Reindex(Reindex(reverse, At(e0), At(e1)),
                                              At(e1), At(e2)), At(e2), At(e3)), At(e3), At(e4))
        /\ revalidation' = Requeue(Requeue(Requeue(Requeue(revalidation, At(e0), At(e1)),
                                              At(e1), At(e2)), At(e2), At(e3)), At(e3), At(e4))

-----------------------------------------------------------------------------
(* The outcomes of Publish.                                                *)

\* Rejected by steps 1 to 5, or for a superseded entity generation.
PublishRefused(q) ==
    /\ ~(Admitted(q) /\ Located(q))
    /\ UNCHANGED <<epoch, registryGeneration, authorities, publishers, fences, entities,
                   capabilities, reverse, revalidation, store>>

\* Answered from the replay cache.
PublishReplayed(q) ==
    /\ Admitted(q) /\ Located(q)
    /\ Replayed(q)
    /\ Arrive(q)

\* Rejected by steps 7 to 9.
PublishHalted(q) ==
    /\ Admitted(q) /\ Located(q)
    /\ ~Replayed(q)
    /\ AttemptSpent(q) \/ ~PreconditionsHold(q)
    /\ Arrive(q)

Applicable(q) ==
    /\ Admitted(q) /\ Located(q)
    /\ ~Replayed(q) /\ ~AttemptSpent(q)
    /\ PreconditionsHold(q)

\* Rejected by a limit that ApplyClaim met in step 10.
PublishStopped(q) ==
    /\ Applicable(q)
    /\ LET stamp == StampOf(q)
           e0    == EntriesAt(q)
           e1    == ApplyLines(e0, stamp, q.before, Named(q.before))
           e2    == OthersSuperseded(q, e1)
           e3    == OwnSuperseded(q, e2)
           lines == LastLines(q)
       IN  \/ \E done \in SUBSET Named(q.before) : \E c \in Named(q.before) :
                 /\ Stops(e0, stamp, q.before, done, c)
                 /\ LET x == Stopped(e0, stamp, q.before, done, c)
                    IN  Settle(q, e0, x, x, x, x)
           \/ /\ LinesFit(e0, stamp, q.before, Named(q.before))
              /\ \E done \in SUBSET Named(lines) : \E c \in Named(lines) :
                    /\ done \cup {c} \subseteq Named(q.edits) \/ Named(q.edits) \subseteq done
                    /\ Stops(e3, stamp, lines, done, c)
                    /\ Settle(q, e0, e1, e2, e3, Stopped(e3, stamp, lines, done, c))
    /\ entities' = [entities EXCEPT ![q.entity] = EntityAt(q)]
    /\ registryGeneration' = GenerationAt(q)
    /\ UNCHANGED <<epoch, authorities, publishers, fences, store>>

\* Mutant of CommittedEntity: the set generation counts down.
CommittedBackwards(q, entity, entries, changed) ==
    [entity EXCEPT !.hasSet = TRUE, !.setGeneration = IF changed THEN @ - 1 ELSE @,
                   !.invalidated = FALSE, !.materialised = TRUE,
                   !.set = Materialize(entries)]

\* Mutant of CommittedEntity: the invalidation is not lifted.
CommittedInvalid(q, entity, entries, changed) ==
    [entity EXCEPT !.hasSet = TRUE, !.setGeneration = IF changed THEN @ + 1 ELSE @,
                   !.materialised = TRUE, !.set = Materialize(entries)]

\* Step 11: the set generation and the registry generation advance when the
\* set is new or its digest changed.
CommittedEntity(q, entity, entries, changed) ==
    [entity EXCEPT
        !.hasSet = TRUE,
        !.setGeneration = IF changed THEN @ + 1 ELSE @,
        !.invalidated = FALSE,
        !.materialised = TRUE,
        !.set = Materialize(entries),
        !.highWater[IdentityOf(q)] = IF q.sourceGeneration > @ THEN q.sourceGeneration ELSE @]

RegisterReplay(q) ==
    publishers' = [publishers EXCEPT ![<<q.publisher, q.boot>>].replay =
                      Append(IF Len(@) >= MaxReplay THEN Tail(@) ELSE @,
                             [attempt |-> q.attempt, content |-> ContentOf(q)])]

PublishCommitted(q) ==
    /\ Applicable(q)
    /\ LET stamp == StampOf(q)
           e0    == EntriesAt(q)
           e1    == ApplyLines(e0, stamp, q.before, Named(q.before))
           e2    == OthersSuperseded(q, e1)
           e3    == OwnSuperseded(q, e2)
           lines == LastLines(q)
           e4    == ApplyLines(e3, stamp, lines, Named(lines))
           changed == ~EntityAt(q).materialised \/ EntityAt(q).set # Materialize(e4)
       IN  /\ LinesFit(e0, stamp, q.before, Named(q.before))
           /\ LinesFit(e3, stamp, lines, Named(lines))
           /\ Settle(q, e0, e1, e2, e3, e4)
           /\ entities' = [entities EXCEPT ![q.entity] =
                              CommittedEntity(q, EntityAt(q), e4, changed)]
           /\ registryGeneration' = IF changed THEN GenerationAt(q) + 1 ELSE GenerationAt(q)
    /\ RegisterReplay(q)
    /\ UNCHANGED <<epoch, authorities, fences, store>>

Publish(q) ==
    /\ BelowCap
    /\ \A c \in Capability : capabilities[q.entity][c].generation < MaxCapabilityGeneration
    /\ \/ PublishRefused(q)
       \/ PublishReplayed(q)
       \/ PublishHalted(q)
       \/ PublishStopped(q)
       \/ PublishCommitted(q)

-----------------------------------------------------------------------------
(* Persistence.  The payload is captured under the lock; writing it is the *)
(* matter of the store file.                                               *)

Save ==
    /\ store' = [epoch |-> epoch, registryGeneration |-> registryGeneration,
                 authorities |-> authorities,
                 registrations |-> [k \in PublisherKey |->
                    IF publishers[k] = NoRegistration THEN NoRegistration
                    ELSE IF publishers[k].active THEN publishers[k].scope
                    ELSE NoRegistration],
                 fences |-> {fences[i] : i \in DOMAIN fences},
                 entities |-> [e \in Entity |-> [entities[e] EXCEPT !.materialised = FALSE,
                                                                    !.set = NoAnswers]],
                 capabilities |-> [e \in Entity |-> [c \in Capability |->
                                      StoredEntry(capabilities[e][c])]]]
    /\ UNCHANGED <<epoch, registryGeneration, authorities, publishers, fences, entities,
                   capabilities, reverse, revalidation>>

\* Also the start of a new process on the store: nothing survives Load but
\* the payload.  Registrations come back without authority.
Load ==
    LET loaded == [e \in Entity |-> [c \in Capability |->
                     LoadedEntry(store.capabilities[e][c])]]
        none   == [e \in Entity |-> NoCapabilities]
    IN  /\ epoch' = store.epoch
        /\ registryGeneration' = store.registryGeneration
        /\ authorities' = store.authorities
        /\ publishers' = [k \in PublisherKey |->
                IF k[2] \in store.fences \/ store.registrations[k] = NoRegistration
                THEN NoRegistration
                ELSE [scope |-> store.registrations[k], epoch |-> store.epoch,
                      active |-> FALSE, replay |-> <<>>]]
        /\ \E sorted \in [1..Cardinality(store.fences) -> store.fences] :
              /\ \A i, j \in DOMAIN sorted : i < j => sorted[i] < sorted[j]
              /\ fences' = sorted
        /\ capabilities' = loaded
        /\ reverse' = Reindex(NoIndex, none, loaded)
        /\ revalidation' = Requeue({}, none, loaded)
        /\ entities' = [e \in Entity |->
                          IF store.entities[e].known
                          THEN Refreshed(store.entities[e], loaded[e])
                          ELSE NoEntity]
        /\ UNCHANGED store

-----------------------------------------------------------------------------
NextInMemory ==
    \/ AdvanceCoordinatorEpoch
    \/ \E g \in Grants : DeclareAuthority(g)
    \/ \E w \in Workers : RegisterPublisher(w.publisher, w.scope, w.boot)
    \/ \E w \in Workers : RetirePublisher(w.publisher, w.boot)
    \/ \E b \in Boot : FenceWorkerBoot(b)
    \/ \E e \in Entity, g \in EntityGenerations : ObserveEntityGeneration(e, g)
    \/ \E e \in Entity : InvalidateEntity(e)
    \/ \E s \in Source : InvalidateSource(s)
    \/ \E q \in Requests : Publish(q)

Next == NextInMemory \/ Save \/ Load

Spec == Init /\ [][Next]_vars

\* A registry that is never saved or loaded.
SpecInMemory == Init /\ [][NextInMemory]_vars

-----------------------------------------------------------------------------
Store ==
    [epoch: Nat, registryGeneration: Nat,
     authorities: [Scope -> Grant \cup {NoGrant}],
     registrations: [PublisherKey -> Scope \cup {NoRegistration}],
     fences: SUBSET Boot,
     entities: [Entity -> EntityState],
     capabilities: [Entity -> [Capability -> Entry]]]

\* The type invariant.
TypeOK ==
    /\ epoch \in Nat
    /\ registryGeneration \in Nat
    /\ authorities \in [Scope -> Grant \cup {NoGrant}]
    /\ publishers \in [PublisherKey -> PublisherRuntime \cup {NoRegistration}]
    /\ fences \in Seq(Boot)
    /\ entities \in [Entity -> EntityState]
    /\ capabilities \in [Entity -> [Capability -> Entry]]
    /\ reverse \in [Capability -> [CapabilityState -> SUBSET Entity]]
    /\ revalidation \subseteq Entity \X Capability
    /\ store \in Store

-----------------------------------------------------------------------------
(* Safety: what every reachable state satisfies.                           *)

\* The answer cached in an entry, which Query returns, is always the answer
\* its evidence resolves to now: no call changes evidence and forgets to
\* resolve, not even one that stops half way at a limit.
ResolutionCoherent ==
    \A e \in Entity, c \in Capability :
        LET entry == capabilities[e][c]
        IN  IF entry.exists
            THEN entry.resolution = ResolveCapability(entry.evidence, entry.generation)
            ELSE entry = NoEntry

\* A publishing identity never contradicts itself: whatever sequence of
\* snapshots, edits, fences and restarts it went through, at most one record
\* of a capability still speaks for it.
OneLiveRecordPerIdentity ==
    \A e \in Entity, c \in Capability :
        \A r, q \in Live(capabilities[e][c].evidence) :
            Owns(r, q) => r = q

\* Retained records of one identity carry distinct evidence generations, so
\* the evidence identifiers derived from them are distinct, and the choice of
\* a winner does not depend on the order of the vector.
EvidenceKeyUnique ==
    \A e \in Entity, c \in Capability :
        \A r, q \in capabilities[e][c].evidence :
            Owns(r, q) /\ r.generation = q.generation => r = q

\* max_evidence_per_capability bounds the records that still speak; the
\* vector itself holds at most one record more, because ApplyClaim trims
\* before it adds.
EvidenceBounded ==
    \A e \in Entity, c \in Capability :
        LET E == capabilities[e][c].evidence
        IN  Cardinality(Live(E)) <= MaxEvidence /\ Cardinality(E) <= MaxEvidence + 1

\* The coordinator still vouches for the publishing instance r names.
WithinAuthority(r) ==
    /\ r.epoch = epoch
    /\ ~Fenced(r.boot)
    /\ <<r.publisher, r.boot>> \in RegisteredKeys

\* Evidence bound to a process is current only while its authority is: it was
\* accepted in the present coordinator epoch, from a boot that is not fenced
\* and a publishing instance the coordinator still lists.
NoCurrencyBeyondAuthority ==
    \A e \in Entity, c \in Capability : \A r \in capabilities[e][c].evidence :
        IsCurrent(r) /\ ~r.durable => WithinAuthority(r)

\* Every record an entity holds was claimed for the generation the entity is
\* in; nothing of a retired generation, and nothing of an unknown entity, is
\* left in the entries.
EvidenceOfThisGeneration ==
    \A e \in Entity, c \in Capability :
        /\ \A r \in capabilities[e][c].evidence :
               r.entityGeneration = entities[e].generation
        /\ capabilities[e][c].exists => entities[e].known

\* Query, which reads the entries, and QueryEntity and the snapshots, which
\* read the immutable set, give the same answers.
SetMirrorsEntries ==
    \A e \in Entity : entities[e].known =>
        entities[e].set = IF entities[e].materialised
                          THEN Materialize(capabilities[e]) ELSE NoAnswers

\* After InvalidateEntity no capability of the entity is answered with more
\* than REVALIDATION_REQUIRED or UNKNOWN until a publication is committed.
InvalidatedAnswersNothing ==
    \A e \in Entity, c \in Capability :
        entities[e].invalidated =>
            capabilities[e][c].resolution.state \in {"RevalidationRequired", "Unknown"}

\* The index queries miss nothing: EntitiesWithState and its siblings find an
\* entity in the bucket of its answer, CapabilitiesRequiringRevalidation
\* lists every answer that needs it.
IndexComplete ==
    \A e \in Entity, c \in Capability :
        LET entry == capabilities[e][c]
        IN  /\ entry.exists => e \in reverse[c][entry.resolution.state]
            /\ NeedsRevalidation(entry) => <<e, c>> \in revalidation

\* The index queries invent nothing: what they list is the present answer of
\* an entry of the present entity generation.
IndexExact ==
    \A e \in Entity, c \in Capability :
        LET entry == capabilities[e][c]
        IN  /\ \A s \in CapabilityState :
                  e \in reverse[c][s] => entry.exists /\ entry.resolution.state = s
            /\ <<e, c>> \in revalidation => NeedsRevalidation(entry)

-----------------------------------------------------------------------------
(* Action properties: what a step of a running registry never does.        *)

\* Consumers order what they read by generations.  They never run backwards:
\* not the epoch or the registry generation, not an entity generation, not a
\* set or capability generation within one entity generation.
GenerationsAdvance ==
    /\ epoch' >= epoch
    /\ registryGeneration' >= registryGeneration
    /\ \A e \in Entity : entities[e].known =>
          /\ entities'[e].known
          /\ entities'[e].generation >= entities[e].generation
          /\ entities'[e].generation = entities[e].generation =>
                /\ entities'[e].setGeneration >= entities[e].setGeneration
                /\ entities[e].hasSet => entities'[e].hasSet
                /\ \A c \in Capability :
                      capabilities'[e][c].generation >= capabilities[e][c].generation

GenerationsMonotone == [][GenerationsAdvance]_vars

\* CheckSnapshot tells a reader that its snapshot is stale by the registry
\* generation first of all: no answer changes unless that generation does.
AnswersChangeVisibly ==
    [][(\E e \in Entity : Materialize(capabilities[e]) # Materialize(capabilities'[e]))
          => registryGeneration' > registryGeneration]_vars

\* The set generation the request expects, or its entity generation, is past.
Spent(q) ==
    LET entity == entities[q.entity]
    IN  /\ entity.known
        /\ \/ q.generation < entity.generation
           \/ /\ q.generation = entity.generation
              /\ entity.hasSet
              /\ q.expected < entity.setGeneration

\* A retry cannot be applied twice, whatever happened to the replay cache (a
\* registration again, an eviction, an epoch): a commit that changed the set
\* spends its request, and a spent request stays spent and is never applied.
AppliedAtMostOnce ==
    [][\A q \in Requests :
          /\ Spent(q) => Spent(q)' /\ ~PublishCommitted(q)
          /\ /\ PublishCommitted(q)
             /\ entities'[q.entity].setGeneration # entities[q.entity].setGeneration
             => Spent(q)']_vars

\* An exact replay of the latest accepted attempt is answered without
\* touching anything, although step 6 of Publish comes before the replay is
\* recognised.
ReplayIsInert ==
    [][\A q \in Requests : PublishReplayed(q) =>
          UNCHANGED <<epoch, registryGeneration, authorities, publishers, fences,
                      entities, capabilities, reverse, revalidation>>]_vars

-----------------------------------------------------------------------------
(* The abstract specification of who may speak.                            *)

\* The boots whose process-bound evidence is current.
Speaking ==
    {b \in Boot : \E e \in Entity, c \in Capability :
                     \E r \in capabilities[e][c].evidence :
                         r.boot = b /\ IsCurrent(r) /\ ~r.durable}

Speakers == INSTANCE Authority WITH
    registered <- {k[2] : k \in RegisteredKeys},
    fenced     <- {fences[i] : i \in DOMAIN fences},
    speaking   <- Speaking,
    sets       <- [e \in Entity |-> entities[e].setGeneration]

\* However requests, fences, epochs and limits interleave, a boot only gains a
\* voice by a publication while it is registered and not fenced, loses it with
\* its fence or its epoch, and set generations move one at a time or restart:
\* the registry implements what the coordinator composes with.
ImplementsAuthority == Speakers!Spec
=============================================================================
