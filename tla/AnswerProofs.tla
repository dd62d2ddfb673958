---------------------------- MODULE AnswerProofs ----------------------------
(***************************************************************************)
(* What queries answer: the immutable set, the invalidation of an entity,  *)
(* the generations that announce a change, and the indexes; then what a    *)
(* reader beside the registry may rely on: bound queries, snapshots,       *)
(* evaluations and retired generations.                                    *)
(*                                                                         *)
(* A publication that a limit stops half way leaves changed entries behind *)
(* an unchanged set, and a retired generation leaves its index entries     *)
(* behind; the theorems that either would refute are stated of the         *)
(* executions that have no such step.                                      *)
(***************************************************************************)
EXTENDS GenerationProofs, Readers

\* Step 10 of a publication meets a limit.
Stopping == \E q \in Requests : PublishStopped(q)

NoneStopped == [][~Stopping]_vars

\* A known entity moves to another generation.
Retiring == \E e \in Entity : entities[e].known /\ entities'[e].generation > entities[e].generation

NoneRetired == [][~Retiring]_vars

-----------------------------------------------------------------------------
(* What a step makes of the answers of one entity.                         *)

\* No record is current.
Silent(entries) == \A c \in Capability : \A r \in entries[c].evidence : ~IsCurrent(r)

\* Nothing, unless a publication is stopped.
Left(e) ==
    /\ entities'[e] = entities[e]
    /\ capabilities'[e] = capabilities[e] \/ Stopping

\* A generation without answers, announced when it replaces another.
Begun(e) ==
    /\ entities'[e].known
    /\ ~entities'[e].materialised /\ ~entities'[e].invalidated
    /\ entities'[e].set = NoAnswers
    /\ \/ registryGeneration' > registryGeneration
       \/ ~entities[e].known /\ (capabilities'[e] = capabilities[e] \/ Stopping)

\* Weaker answers, announced.  The entity is invalidated if it was, or if
\* nothing is left that speaks.
Weakened(e) ==
    /\ entities'[e].known = entities[e].known
    /\ entities'[e].generation = entities[e].generation
    /\ entities'[e].materialised
    /\ entities'[e].set = Materialize(capabilities'[e])
    /\ registryGeneration' > registryGeneration
    /\ entities'[e].invalidated =>
          \/ Silent(capabilities'[e])
          \/ /\ entities[e].invalidated
             /\ \A c \in Capability :
                   Weakens(capabilities[e][c].evidence, capabilities'[e][c].evidence)

\* Answers that may be any, announced unless they are those of the set before.
Published(e) ==
    /\ entities'[e].known
    /\ entities'[e].materialised /\ ~entities'[e].invalidated
    /\ entities'[e].set = Materialize(capabilities'[e])
    /\ \/ registryGeneration' > registryGeneration
       \/ /\ entities[e].known /\ entities[e].materialised
          /\ entities'[e].generation = entities[e].generation
          /\ entities'[e].setGeneration = entities[e].setGeneration
          /\ entities'[e].set = entities[e].set

Told(e) == Left(e) \/ Begun(e) \/ Weakened(e) \/ Published(e)

\* A call that weakens entries, and refreshes every entity that has any.
LEMMA RefreshTells ==
    ASSUME Inv, NEW new \in Capabilities, Resolve(new), NEW E, Refresh(E, new),
           registryGeneration' = registryGeneration + 1,
           \A e \in Entity : e \notin E => \A c \in Capability : ~capabilities[e][c].exists,
           \A e \in Entity, c \in Capability :
              /\ SoundEntry(new[e][c])
              /\ Weakens(capabilities[e][c].evidence, new[e][c].evidence)
              /\ new[e][c].exists = capabilities[e][c].exists
    PROVE  \A e \in Entity : Told(e)
<1> SUFFICES ASSUME NEW e \in Entity PROVE Told(e)
  OBVIOUS
<1>1. capabilities' = new /\ registryGeneration' > registryGeneration
  BY InvTypes DEF Resolve
<1>2. CASE e \notin E
  <2>1. \A c \in Capability : new[e][c] = NoEntry /\ capabilities[e][c] = NoEntry
    BY <1>2, HeldSound DEF SoundEntry
  <2>2. new[e] \in [Capability -> Entry] /\ capabilities[e] \in [Capability -> Entry]
    BY InvTypes DEF Capabilities
  <2>3. new[e] = capabilities[e]
    BY <2>1, <2>2
  <2> QED
    BY <1>1, <1>2, <2>3 DEF Refresh, Told, Left
<1>3. CASE e \in E
  <2>1. entities'[e] = Refreshed(entities[e], new[e]) /\ entities[e] \in EntityState
    BY <1>3, InvTypes DEF Refresh
  <2>2. /\ entities'[e].known = entities[e].known
        /\ entities'[e].generation = entities[e].generation
        /\ entities'[e].invalidated = entities[e].invalidated
        /\ entities'[e].materialised
        /\ entities'[e].set = Materialize(new[e])
    BY <2>1 DEF Refreshed, EntityState
  <2> QED
    BY <1>1, <2>2 DEF Told, Weakened
<1> QED
  BY <1>2, <1>3

\* Epoch advances, fences and invalidations of a source.
LEMMA WeakeningTells ==
    ASSUME Inv,
           \/ AdvanceCoordinatorEpoch
           \/ \E b \in Boot : FenceWorkerBoot(b)
           \/ \E s \in Source : InvalidateSource(s)
    PROVE  \A e \in Entity : Told(e)
<1>1. \A e \in Entity : e \notin Known => \A c \in Capability : ~capabilities[e][c].exists
  BY DEF Inv, HeldOK, Known
<1>2. CASE AdvanceCoordinatorEpoch
  <2> DEFINE new == [e \in Entity |-> [c \in Capability |-> ExpireProcessBound(capabilities[e][c])]]
  <2>1. \A e \in Entity, c \in Capability :
           /\ SoundEntry(new[e][c])
           /\ Weakens(capabilities[e][c].evidence, new[e][c].evidence)
           /\ new[e][c].exists = capabilities[e][c].exists
    BY HeldSound, ExpireSound
  <2>2. new \in Capabilities
    BY <2>1 DEF SoundEntry, Capabilities
  <2>3. Resolve(new) /\ Refresh(Known, new) /\ registryGeneration' = registryGeneration + 1
    BY <1>2 DEF AdvanceCoordinatorEpoch
  <2> HIDE DEF new
  <2> QED
    BY <1>1, <2>1, <2>2, <2>3, RefreshTells
<1>3. ASSUME NEW b \in Boot, FenceWorkerBoot(b) PROVE \A e \in Entity : Told(e)
  <2> DEFINE new == [e \in Entity |-> [c \in Capability |-> FenceBoot(capabilities[e][c], b)]]
  <2>1. \A e \in Entity, c \in Capability :
           /\ SoundEntry(new[e][c])
           /\ Weakens(capabilities[e][c].evidence, new[e][c].evidence)
           /\ new[e][c].exists = capabilities[e][c].exists
    BY HeldSound, FenceBootSound
  <2>2. new \in Capabilities
    BY <2>1 DEF SoundEntry, Capabilities
  <2>3. Resolve(new) /\ Refresh(Known, new) /\ registryGeneration' = registryGeneration + 1
    BY <1>3 DEF FenceWorkerBoot
  <2> HIDE DEF new
  <2> QED
    BY <1>1, <2>1, <2>2, <2>3, RefreshTells
<1>4. ASSUME NEW s \in Source, InvalidateSource(s) PROVE \A e \in Entity : Told(e)
  <2> DEFINE new == [e \in Entity |-> [c \in Capability |-> InvalidateFrom(capabilities[e][c], s)]]
             claimed == {e \in Known : \E c \in Capability : capabilities[e][c].exists}
  <2>1. \A e \in Entity, c \in Capability :
           /\ SoundEntry(new[e][c])
           /\ Weakens(capabilities[e][c].evidence, new[e][c].evidence)
           /\ new[e][c].exists = capabilities[e][c].exists
    BY HeldSound, InvalidateSound
  <2>2. new \in Capabilities
    BY <2>1 DEF SoundEntry, Capabilities
  <2>3. Resolve(new) /\ Refresh(claimed, new) /\ registryGeneration' = registryGeneration + 1
    BY <1>4 DEF InvalidateSource
  <2>4. \A e \in Entity : e \notin claimed => \A c \in Capability : ~capabilities[e][c].exists
    BY <1>1
  <2> HIDE DEF new, claimed
  <2> QED
    BY <2>1, <2>2, <2>3, <2>4, RefreshTells
<1> QED
  BY <1>2, <1>3, <1>4

\* A step that changes one entity.
LEMMA OthersLeft ==
    ASSUME Inv, NEW e \in Entity, NEW entity, NEW entries,
           entities' = [entities EXCEPT ![e] = entity],
           capabilities' = [capabilities EXCEPT ![e] = entries]
    PROVE  /\ entities'[e] = entity /\ capabilities'[e] = entries
           /\ \A d \in Entity : d # e => Left(d)
BY InvTypes DEF Left

LEMMA InvalidateEntityTells ==
    ASSUME Inv, NEW e \in Entity, InvalidateEntity(e) PROVE \A d \in Entity : Told(d)
<1> DEFINE entries == [c \in Capability |-> InvalidateAll(capabilities[e][c])]
           entity == Refreshed([entities[e] EXCEPT !.invalidated = TRUE], entries)
<1>1. /\ capabilities' = [capabilities EXCEPT ![e] = entries]
      /\ entities' = [entities EXCEPT ![e] = entity]
      /\ registryGeneration' > registryGeneration
  BY InvTypes DEF InvalidateEntity, Resolve
<1>2. /\ entity.known = entities[e].known /\ entity.generation = entities[e].generation
      /\ entity.materialised /\ entity.set = Materialize(entries)
  BY InvTypes DEF Refreshed, EntityState
<1>3. Silent(entries)
  <2> SUFFICES ASSUME NEW c \in Capability, NEW r \in InvalidateAll(capabilities[e][c]).evidence
               PROVE  ~IsCurrent(r)
    BY DEF Silent
  <2>1. SoundEntry(capabilities[e][c])
    BY HeldSound
  <2>2. IsCurrent(r) => r \in capabilities[e][c].evidence \ capabilities[e][c].evidence
    BY <2>1, MarkNonCurrentSound DEF InvalidateAll
  <2> QED
    BY <2>2
<1> HIDE DEF entries, entity
<1>4. /\ entities'[e] = entity /\ capabilities'[e] = entries
      /\ \A d \in Entity : d # e => Left(d)
  BY <1>1, OthersLeft
<1>5. Weakened(e)
  BY <1>1, <1>2, <1>3, <1>4 DEF Weakened
<1> QED
  BY <1>4, <1>5 DEF Told

\* An entity that was not known has no entries to lose.
LEMMA ObserveTells ==
    ASSUME Inv, NEW e \in Entity, NEW g \in EntityGenerations, ObserveEntityGeneration(e, g)
    PROVE  \A d \in Entity : Told(d)
<1>1. CASE /\ ~entities[e].known
           /\ entities' = [entities EXCEPT ![e] = NewEntity(g)]
           /\ UNCHANGED capabilities
  <2>1. capabilities' = [capabilities EXCEPT ![e] = capabilities[e]]
    BY <1>1, InvTypes
  <2>2. /\ entities'[e] = NewEntity(g) /\ capabilities'[e] = capabilities[e]
        /\ \A d \in Entity : d # e => Left(d)
    BY <1>1, <2>1, OthersLeft
  <2>3. Begun(e)
    BY <1>1, <2>2 DEF Begun, NewEntity
  <2> QED
    BY <2>2, <2>3 DEF Told
<1>2. CASE /\ entities[e].known
           /\ entities' = [entities EXCEPT ![e] = RetireGeneration(@, g)]
           /\ capabilities' = [capabilities EXCEPT ![e] = NoCapabilities]
           /\ registryGeneration' = registryGeneration + 1
  <2> DEFINE entity == RetireGeneration(entities[e], g)
  <2>1. entities' = [entities EXCEPT ![e] = entity]
    BY <1>2
  <2>2. entity.known /\ ~entity.materialised /\ ~entity.invalidated /\ entity.set = NoAnswers
    BY DEF RetireGeneration, NewEntity
  <2> HIDE DEF entity
  <2>3. /\ entities'[e] = entity
        /\ \A d \in Entity : d # e => Left(d)
    BY <1>2, <2>1, OthersLeft
  <2>4. Begun(e)
    BY <1>2, <2>2, <2>3, InvTypes DEF Begun
  <2> QED
    BY <2>3, <2>4 DEF Told
<1> QED
  BY <1>1, <1>2 DEF ObserveEntityGeneration

\* What step 6 of Publish leaves of the entity.
LEMMA EntityAtBegun ==
    ASSUME Inv, NEW q \in Requests, Located(q)
    PROVE  \/ /\ entities[q.entity].known /\ EntityAt(q) = entities[q.entity]
              /\ EntriesAt(q) = capabilities[q.entity] /\ GenerationAt(q) = registryGeneration
           \/ /\ EntityAt(q).known /\ ~EntityAt(q).materialised /\ ~EntityAt(q).invalidated
              /\ EntityAt(q).set = NoAnswers
              /\ \/ GenerationAt(q) > registryGeneration
                 \/ /\ ~entities[q.entity].known /\ EntriesAt(q) = capabilities[q.entity]
                    /\ GenerationAt(q) = registryGeneration
<1>1. CASE ~entities[q.entity].known
  BY <1>1 DEF EntityAt, EntriesAt, GenerationAt, Newer, NewEntity
<1>2. CASE Newer(q)
  <2>1. EntityAt(q) = RetireGeneration(entities[q.entity], q.generation)
        /\ GenerationAt(q) > registryGeneration
    BY <1>2, InvTypes DEF EntityAt, GenerationAt, Newer
  <2> QED
    BY <2>1 DEF RetireGeneration, NewEntity
<1>3. CASE entities[q.entity].known /\ ~Newer(q)
  BY <1>3 DEF EntityAt, EntriesAt, GenerationAt
<1> QED
  BY <1>1, <1>2, <1>3

\* Publish.  Only a commit makes answers, and it announces them unless they
\* are those of the set it replaces.
LEMMA PublishTells ==
    ASSUME Inv, NEW q \in Requests, Publish(q) PROVE \A d \in Entity : Told(d)
<1>0. q.entity \in Entity
  BY RegistryAssumption DEF Request
<1>1. CASE PublishRefused(q)
  BY <1>1 DEF PublishRefused, Told, Left
<1>2. CASE PublishReplayed(q) \/ PublishHalted(q)
  <2>1. /\ Located(q) /\ entities' = [entities EXCEPT ![q.entity] = EntityAt(q)]
        /\ capabilities' = [capabilities EXCEPT ![q.entity] = EntriesAt(q)]
        /\ registryGeneration' = GenerationAt(q)
    BY <1>2 DEF PublishReplayed, PublishHalted, Arrive
  <2>2. /\ entities'[q.entity] = EntityAt(q) /\ capabilities'[q.entity] = EntriesAt(q)
        /\ \A d \in Entity : d # q.entity => Left(d)
    BY <1>0, <2>1, OthersLeft
  <2>3. Told(q.entity)
    BY <2>1, <2>2, EntityAtBegun DEF Told, Left, Begun
  <2> QED
    BY <2>2, <2>3 DEF Told
<1>3. CASE PublishStopped(q)
  <2>1. /\ Located(q) /\ Stopping
        /\ entities' = [entities EXCEPT ![q.entity] = EntityAt(q)]
        /\ registryGeneration' = GenerationAt(q)
    BY <1>3 DEF PublishStopped, Applicable, Stopping
  <2>2. PICK entries : capabilities' = [capabilities EXCEPT ![q.entity] = entries]
    BY <1>3, SettleEntries DEF PublishStopped
  <2>3. /\ entities'[q.entity] = EntityAt(q)
        /\ \A d \in Entity : d # q.entity => Left(d)
    BY <1>0, <2>1, <2>2, OthersLeft
  <2>4. Told(q.entity)
    BY <2>1, <2>3, EntityAtBegun DEF Told, Left, Begun
  <2> QED
    BY <2>3, <2>4 DEF Told
<1>4. CASE PublishCommitted(q)
  <2> DEFINE Changed(entries) == ~EntityAt(q).materialised \/ EntityAt(q).set # Materialize(entries)
  <2>1. PICK entries :
           /\ capabilities' = [capabilities EXCEPT ![q.entity] = entries]
           /\ entities' = [entities EXCEPT ![q.entity] =
                              CommittedEntity(q, EntityAt(q), entries, Changed(entries))]
           /\ registryGeneration' = IF Changed(entries) THEN GenerationAt(q) + 1 ELSE GenerationAt(q)
    <3> DEFINE e1 == ApplyLines(EntriesAt(q), StampOf(q), q.before, Named(q.before))
               e2 == OthersSuperseded(q, e1)
               e3 == OwnSuperseded(q, e2)
               e4 == ApplyLines(e3, StampOf(q), LastLines(q), Named(LastLines(q)))
    <3>1. /\ Settle(q, EntriesAt(q), e1, e2, e3, e4)
          /\ entities' = [entities EXCEPT ![q.entity] =
                             CommittedEntity(q, EntityAt(q), e4, Changed(e4))]
          /\ registryGeneration' = IF Changed(e4) THEN GenerationAt(q) + 1 ELSE GenerationAt(q)
      BY <1>4 DEF PublishCommitted
    <3>2. capabilities' = [capabilities EXCEPT ![q.entity] = e4]
      BY <3>1, SettleEntries
    <3> HIDE DEF e4
    <3> QED
      BY <3>1, <3>2
  <2>2. PICK changed \in BOOLEAN : changed = Changed(entries)
    OBVIOUS
  <2> DEFINE entity == CommittedEntity(q, EntityAt(q), entries, changed)
  <2>3. Located(q) /\ EntityAt(q) \in EntityState /\ EntityAt(q).known /\ GenerationAt(q) \in Nat
    BY <1>4, ArrivalOK DEF PublishCommitted, Applicable
  <2>4. /\ entity.known /\ entity.generation = EntityAt(q).generation
        /\ entity.materialised /\ ~entity.invalidated
        /\ entity.set = Materialize(entries)
        /\ ~changed => entity.setGeneration = EntityAt(q).setGeneration
    BY <2>3 DEF CommittedEntity, EntityState
  <2> HIDE DEF entity
  <2>5. /\ entities'[q.entity] = entity /\ capabilities'[q.entity] = entries
        /\ \A d \in Entity : d # q.entity => Left(d)
    BY <1>0, <2>1, <2>2, OthersLeft DEF entity
  <2>6. GenerationAt(q) >= registryGeneration /\ registryGeneration \in Nat
    BY <2>3, EntityAtAdvances, InvTypes
  <2>7. CASE changed
    <3>1. registryGeneration' > registryGeneration
      <4>1. registryGeneration' = GenerationAt(q) + 1
        BY <2>1, <2>2, <2>7
      <4> QED
        BY <2>3, <2>6, <4>1
    <3> QED
      BY <2>4, <2>5, <3>1 DEF Told, Published
  <2>8. CASE ~changed
    <3>1. EntityAt(q).materialised /\ EntityAt(q).set = entity.set
      BY <2>2, <2>4, <2>8
    <3>2. entities[q.entity].known /\ EntityAt(q) = entities[q.entity]
      BY <2>3, <3>1, EntityAtBegun
    <3> QED
      BY <2>4, <2>5, <2>8, <3>1, <3>2 DEF Told, Published
  <2> QED
    BY <2>5, <2>7, <2>8 DEF Told
<1> QED
  BY <1>1, <1>2, <1>3, <1>4 DEF Publish

LEMMA StepTells == Inv /\ [NextInMemory]_vars => \A e \in Entity : Told(e)
<1> SUFFICES ASSUME Inv, [NextInMemory]_vars PROVE \A e \in Entity : Told(e)
  OBVIOUS
<1>1. CASE UNCHANGED <<entities, capabilities>>
  BY <1>1 DEF Told, Left
<1>2. CASE \/ AdvanceCoordinatorEpoch
           \/ \E b \in Boot : FenceWorkerBoot(b)
           \/ \E s \in Source : InvalidateSource(s)
  BY <1>2, WeakeningTells
<1>3. CASE \E e \in Entity, g \in EntityGenerations : ObserveEntityGeneration(e, g)
  BY <1>3, ObserveTells
<1>4. CASE \E e \in Entity : InvalidateEntity(e)
  BY <1>4, InvalidateEntityTells
<1>5. CASE \E q \in Requests : Publish(q)
  BY <1>5, PublishTells
<1>6. CASE \/ \E s \in Grants : DeclareAuthority(s)
           \/ \E w \in Workers : RegisterPublisher(w.publisher, w.scope, w.boot)
           \/ \E w \in Workers : RetirePublisher(w.publisher, w.boot)
           \/ UNCHANGED vars
  BY <1>1, <1>6 DEF DeclareAuthority, RegisterPublisher, RetirePublisher, vars
<1> QED
  BY <1>2, <1>3, <1>4, <1>5, <1>6 DEF NextInMemory

-----------------------------------------------------------------------------
(* The set and the entries.                                                *)

\* A registry that is never loaded keeps the set of a known entity a copy of
\* its cached answers, unless a publication is stopped.
LEMMA MirrorKept ==
    ASSUME Inv, SetMirrorsEntries, ~Stopping, \A e \in Entity : Told(e)
    PROVE  SetMirrorsEntries'
<1> SUFFICES ASSUME NEW e \in Entity, entities'[e].known
             PROVE  entities'[e].set = IF entities'[e].materialised
                                       THEN Materialize(capabilities'[e]) ELSE NoAnswers
  BY DEF SetMirrorsEntries
<1>1. CASE Left(e)
  BY <1>1 DEF Left, SetMirrorsEntries
<1>2. CASE ~Left(e)
  BY <1>2 DEF Told, Begun, Weakened, Published
<1> QED
  BY <1>1, <1>2

\* Load refreshes every entity that it makes known.
LEMMA MirrorLoaded ==
    ASSUME Inv, Load PROVE SetMirrorsEntries'
<1> SUFFICES ASSUME NEW e \in Entity, entities'[e].known
             PROVE  entities'[e].set = IF entities'[e].materialised
                                       THEN Materialize(capabilities'[e]) ELSE NoAnswers
  BY DEF SetMirrorsEntries
<1>1. entities'[e] = IF store.entities[e].known
                     THEN Refreshed(store.entities[e], capabilities'[e]) ELSE NoEntity
  BY DEF Load
<1>2. ~NoEntity.known
  BY NoEntityType
<1>3. store.entities[e] \in EntityState
  BY DEF Inv, TypeOK, Store
<1>4. entities'[e] = Refreshed(store.entities[e], capabilities'[e])
  BY <1>1, <1>2
<1> QED
  BY <1>3, <1>4 DEF Refreshed, EntityState

\* Query, which reads the entries, and QueryEntity and the snapshots, which
\* read the immutable set, never disagree in an execution in which no
\* publication is stopped by a limit, restarts included.
THEOREM SetsMirrorEntries == Spec /\ NoneStopped => []SetMirrorsEntries
<1>1. Init => SetMirrorsEntries
  BY NoEntityType DEF Init, SetMirrorsEntries
<1>2. Inv /\ SetMirrorsEntries /\ [Next]_vars /\ [~Stopping]_vars => SetMirrorsEntries'
  <2> SUFFICES ASSUME Inv, SetMirrorsEntries, [Next]_vars, [~Stopping]_vars
               PROVE  SetMirrorsEntries'
    OBVIOUS
  <2>1. CASE UNCHANGED vars \/ Save
    BY <2>1 DEF vars, Save, SetMirrorsEntries
  <2>2. CASE Load
    BY <2>2, MirrorLoaded
  <2>3. CASE NextInMemory /\ ~(UNCHANGED vars)
    BY <2>3, StepTells, MirrorKept
  <2> QED
    BY <2>1, <2>2, <2>3 DEF Next
<1> QED
  BY <1>1, <1>2, Invariance, PTL DEF Spec, NoneStopped

\* The same of a registry that is never loaded.
LEMMA MirrorInMemory == SpecInMemory /\ NoneStopped => []SetMirrorsEntries
<1>1. Init => SetMirrorsEntries
  BY NoEntityType DEF Init, SetMirrorsEntries
<1>2. Inv /\ SetMirrorsEntries /\ [NextInMemory]_vars /\ [~Stopping]_vars => SetMirrorsEntries'
  <2> SUFFICES ASSUME Inv, SetMirrorsEntries, [NextInMemory]_vars, [~Stopping]_vars
               PROVE  SetMirrorsEntries'
    OBVIOUS
  <2>1. CASE UNCHANGED vars
    BY <2>1 DEF vars, SetMirrorsEntries
  <2>2. CASE ~(UNCHANGED vars)
    BY <2>2, StepTells, MirrorKept
  <2> QED
    BY <2>1, <2>2
<1> QED
  BY <1>1, <1>2, InvarianceInMemory, PTL DEF SpecInMemory, NoneStopped

-----------------------------------------------------------------------------
(* Changes of answers.                                                     *)

AnswersAnnounced ==
    (\E e \in Entity : Materialize(capabilities[e]) # Materialize(capabilities'[e]))
        => registryGeneration' > registryGeneration

LEMMA StepAnnounces ==
    Inv /\ SetMirrorsEntries /\ [NextInMemory]_vars /\ [~Stopping]_vars => [AnswersAnnounced]_vars
<1> SUFFICES ASSUME Inv, SetMirrorsEntries, [NextInMemory]_vars, ~Stopping, NEW e \in Entity
             PROVE  \/ Materialize(capabilities[e]) = Materialize(capabilities'[e])
                    \/ registryGeneration' > registryGeneration
  BY DEF AnswersAnnounced
<1>1. Told(e)
  BY StepTells
<1>2. CASE Left(e) \/ Begun(e) \/ Weakened(e)
  BY <1>2 DEF Left, Begun, Weakened
<1>3. CASE Published(e)
  <2>1. entities[e].known /\ entities[e].materialised =>
           entities[e].set = Materialize(capabilities[e])
    BY DEF SetMirrorsEntries
  <2> QED
    BY <1>3, <2>1 DEF Published
<1> QED
  BY <1>1, <1>2, <1>3 DEF Told

\* CheckSnapshot tells a reader that its snapshot is stale by the registry
\* generation first of all: no call but a publication that a limit stops
\* changes an answer under the same registry generation.  A publication that
\* does not advance it found its answers in the set already.
THEOREM AnswersNeverChangeUnseen == SpecInMemory /\ NoneStopped => AnswersChangeVisibly
<1>1. Inv /\ SetMirrorsEntries /\ [NextInMemory]_vars /\ [~Stopping]_vars => [AnswersAnnounced]_vars
  BY StepAnnounces
<1>2. AnswersChangeVisibly <=> [][AnswersAnnounced]_vars
  BY PTL DEF AnswersChangeVisibly, AnswersAnnounced
<1> QED
  BY <1>1, <1>2, InvarianceInMemory, MirrorInMemory, PTL DEF SpecInMemory, NoneStopped

-----------------------------------------------------------------------------
(* Invalidation.                                                           *)

\* The strengthening of InvalidatedAnswersNothing: nothing of an invalidated
\* entity is current.
InvalidatedSilent == \A e \in Entity : entities[e].invalidated => Silent(capabilities[e])

\* No record that is current, no answer but these.
LEMMA SilentAnswers ==
    ASSUME NEW entry, SoundEntry(entry), \A r \in entry.evidence : ~IsCurrent(r)
    PROVE  entry.resolution.state \in {"RevalidationRequired", "Unknown"}
<1> DEFINE S == Strongest(Live(entry.evidence))
           C == {r \in S : IsCurrent(r)}
           g == entry.generation
<1>1. C = {}
  BY DEF Strongest, Live
<1>2. entry.resolution = ResolveCapability(entry.evidence, g)
  BY DEF SoundEntry
<1>3. ResolveCapability(entry.evidence, g) =
        IF S = {} THEN NoAnswer(g)
        ELSE Answer("RevalidationRequired", PickDeterministic(S).value, PickDeterministic(S), g)
  BY <1>1 DEF ResolveCapability
<1> HIDE DEF S
<1> QED
  BY <1>2, <1>3 DEF NoAnswer, Answer

\* InvalidateEntity silences an entity until a publication is committed for
\* it, in an execution in which none is stopped by a limit: neither a fence,
\* an epoch, a registration, a replay nor a rejected request gives one of its
\* capabilities a definite answer.
THEOREM InvalidatedStaysSilent == SpecInMemory /\ NoneStopped => []InvalidatedAnswersNothing
<1>1. Init => InvalidatedSilent
  BY DEF Init, InvalidatedSilent, NoEntity, NewEntity
<1>2. Inv /\ InvalidatedSilent /\ [NextInMemory]_vars /\ [~Stopping]_vars => InvalidatedSilent'
  <2> SUFFICES ASSUME Inv, InvalidatedSilent, [NextInMemory]_vars, [~Stopping]_vars,
                      NEW e \in Entity, entities'[e].invalidated
               PROVE  Silent(capabilities'[e])
    BY DEF InvalidatedSilent
  <2>1. CASE UNCHANGED vars
    BY <2>1 DEF vars, InvalidatedSilent
  <2>2. CASE ~(UNCHANGED vars)
    <3>1. Told(e) /\ ~Stopping
      BY <2>2, StepTells
    <3>2. CASE Left(e)
      BY <3>1, <3>2 DEF Left, InvalidatedSilent
    <3>3. CASE Weakened(e)
      BY <3>3 DEF Weakened, InvalidatedSilent, Silent, Weakens
    <3>4. CASE Begun(e) \/ Published(e)
      BY <3>4 DEF Begun, Published
    <3> QED
      BY <3>1, <3>2, <3>3, <3>4 DEF Told
  <2> QED
    BY <2>1, <2>2
<1>3. Inv /\ InvalidatedSilent => InvalidatedAnswersNothing
  BY HeldSound, SilentAnswers DEF InvalidatedSilent, InvalidatedAnswersNothing, Silent
<1> QED
  BY <1>1, <1>2, <1>3, InvarianceInMemory, PTL DEF SpecInMemory, NoneStopped

-----------------------------------------------------------------------------
(* The indexes.                                                            *)

\* IndexExact of given indexes and entries.
Exact(rev, pairs, caps) ==
    \A e \in Entity, c \in Capability :
        /\ \A s \in CapabilityState :
              e \in rev[c][s] => caps[e][c].exists /\ caps[e][c].resolution.state = s
        /\ <<e, c>> \in pairs => NeedsRevalidation(caps[e][c])

LEMMA IndexIsExact == IndexExact <=> Exact(reverse, revalidation, capabilities)
BY DEF IndexExact, Exact

\* Entries come, and stay.
Stay(old, new) == \A e \in Entity, c \in Capability : old[e][c].exists => new[e][c].exists

\* FinishResolution keeps an exact index exact when no entry disappears.
LEMMA ReindexExact ==
    ASSUME NEW rev, NEW pairs, NEW old, NEW new, Exact(rev, pairs, old), Stay(old, new)
    PROVE  Exact(Reindex(rev, old, new), Requeue(pairs, old, new), new)
<1> SUFFICES ASSUME NEW e \in Entity, NEW c \in Capability
             PROVE  /\ \A s \in CapabilityState :
                          e \in Reindex(rev, old, new)[c][s] =>
                             new[e][c].exists /\ new[e][c].resolution.state = s
                    /\ <<e, c>> \in Requeue(pairs, old, new) => NeedsRevalidation(new[e][c])
  BY DEF Exact
<1>1. ASSUME NEW s \in CapabilityState, e \in Reindex(rev, old, new)[c][s]
      PROVE  new[e][c].exists /\ new[e][c].resolution.state = s
  <2> DEFINE before == old[e][c]
             after  == new[e][c]
             moved  == /\ after.exists
                       /\ \/ ~before.exists
                          \/ before.resolution.state # after.resolution.state
  <2>1. IF moved /\ s = after.resolution.state THEN TRUE
        ELSE IF moved /\ before.exists /\ s = before.resolution.state THEN FALSE
        ELSE e \in rev[c][s]
    BY <1>1 DEF Reindex
  <2>2. e \in rev[c][s] => before.exists /\ before.resolution.state = s
    BY DEF Exact
  <2>3. before.exists => after.exists
    BY DEF Stay
  <2> HIDE DEF before, after
  <2>4. after.exists /\ after.resolution.state = s
    BY <2>1, <2>2, <2>3
  <2> QED
    BY <2>4 DEF after
<1>2. ASSUME <<e, c>> \in Requeue(pairs, old, new) PROVE NeedsRevalidation(new[e][c])
  <2>1. <<e, c>> \in pairs => NeedsRevalidation(old[e][c])
    BY DEF Exact
  <2>2. IF NeedsRevalidation(old[e][c]) = NeedsRevalidation(new[e][c]) THEN <<e, c>> \in pairs
        ELSE NeedsRevalidation(new[e][c])
    BY <1>2 DEF Requeue
  <2> QED
    BY <2>1, <2>2
<1> QED
  BY <1>1, <1>2

\* The calls that resolve the entries they weaken.
LEMMA ResolveExact ==
    ASSUME IndexExact, NEW new, Resolve(new), Stay(capabilities, new)
    PROVE  IndexExact'
<1>1. Exact(reverse', revalidation', capabilities')
  BY IndexIsExact, ReindexExact DEF Resolve
<1> QED
  BY <1>1 DEF IndexExact, Exact

LEMMA WeakeningExact ==
    ASSUME Inv, IndexExact,
           \/ AdvanceCoordinatorEpoch
           \/ \E b \in Boot : FenceWorkerBoot(b)
           \/ \E s \in Source : InvalidateSource(s)
           \/ \E e \in Entity : InvalidateEntity(e)
    PROVE  IndexExact'
<1>1. CASE AdvanceCoordinatorEpoch
  <2> DEFINE new == [e \in Entity |-> [c \in Capability |-> ExpireProcessBound(capabilities[e][c])]]
  <2>1. Stay(capabilities, new)
    BY HeldSound, ExpireSound DEF Stay
  <2>2. Resolve(new)
    BY <1>1 DEF AdvanceCoordinatorEpoch
  <2> HIDE DEF new
  <2> QED
    BY <2>1, <2>2, ResolveExact
<1>2. ASSUME NEW b \in Boot, FenceWorkerBoot(b) PROVE IndexExact'
  <2> DEFINE new == [e \in Entity |-> [c \in Capability |-> FenceBoot(capabilities[e][c], b)]]
  <2>1. Stay(capabilities, new)
    BY HeldSound, FenceBootSound DEF Stay
  <2>2. Resolve(new)
    BY <1>2 DEF FenceWorkerBoot
  <2> HIDE DEF new
  <2> QED
    BY <2>1, <2>2, ResolveExact
<1>3. ASSUME NEW s \in Source, InvalidateSource(s) PROVE IndexExact'
  <2> DEFINE new == [e \in Entity |-> [c \in Capability |-> InvalidateFrom(capabilities[e][c], s)]]
  <2>1. Stay(capabilities, new)
    BY HeldSound, InvalidateSound DEF Stay
  <2>2. Resolve(new)
    BY <1>3 DEF InvalidateSource
  <2> HIDE DEF new
  <2> QED
    BY <2>1, <2>2, ResolveExact
<1>4. ASSUME NEW e \in Entity, InvalidateEntity(e) PROVE IndexExact'
  <2> DEFINE entries == [c \in Capability |-> InvalidateAll(capabilities[e][c])]
             new == [capabilities EXCEPT ![e] = entries]
  <2>1. \A d \in Entity : new[d] = IF d = e THEN entries ELSE capabilities[d]
    BY InvTypes
  <2>2. \A c \in Capability : entries[c].exists = capabilities[e][c].exists
    BY HeldSound, InvalidateSound
  <2>3. Resolve(new)
    BY <1>4 DEF InvalidateEntity
  <2> HIDE DEF new, entries
  <2>4. Stay(capabilities, new)
    BY <2>1, <2>2 DEF Stay
  <2> QED
    BY <2>3, <2>4, ResolveExact
<1> QED
  BY <1>1, <1>2, <1>3, <1>4

\* No line of a request makes an entry disappear, and no stage does.
EntriesStay(old, new) == \A c \in Capability : old[c].exists => new[c].exists

LEMMA StagesStay ==
    ASSUME NEW entries, NEW g, EntriesOK(entries, g)
    PROVE  /\ \A stamp, lines, D : EntriesStay(entries, ApplyLines(entries, stamp, lines, D))
           /\ \A stamp, lines, D, c : EntriesStay(entries, Stopped(entries, stamp, lines, D, c))
           /\ \A q : /\ EntriesStay(entries, OthersSuperseded(q, entries))
                     /\ EntriesStay(entries, OwnSuperseded(q, entries))
<1>1. \A c \in Capability : SoundEntry(entries[c])
  BY DEF EntriesOK, EntryOK
<1>2. ASSUME NEW stamp, NEW line, NEW c \in Capability, entries[c].exists
      PROVE  ApplyLine(entries[c], stamp, line).exists
  <2>1. SupersedeIdentity(entries[c], stamp).exists
    BY <1>1, <1>2, SupersedeSound
  <2>2. \A claim : ApplyClaim(entries[c], stamp, claim).exists
    BY DEF ApplyClaim, Touch
  <2> QED
    BY <2>1, <2>2 DEF ApplyLine, WithdrawIdentityClaim
<1>3. ASSUME NEW stamp, NEW lines, NEW D, NEW c \in Capability, entries[c].exists
      PROVE  ApplyLines(entries, stamp, lines, D)[c].exists
  BY <1>2, <1>3 DEF ApplyLines
<1>4. ASSUME NEW stamp, NEW lines, NEW D, NEW d, NEW c \in Capability, entries[c].exists
      PROVE  Stopped(entries, stamp, lines, D, d)[c].exists
  <2>1. ApplyClaimAtLimit(entries[c], stamp).exists
    BY <1>1, <1>4 DEF ApplyClaimAtLimit, SoundEntry, Entry
  <2>2. Stopped(entries, stamp, lines, D, d)[c] =
            IF c = d THEN ApplyClaimAtLimit(entries[c], stamp)
            ELSE ApplyLines(entries, stamp, lines, D)[c]
    BY <1>4 DEF Stopped, ApplyLines
  <2> QED
    BY <1>3, <1>4, <2>1, <2>2
<1>5. ASSUME NEW q, NEW c \in Capability, entries[c].exists
      PROVE  OthersSuperseded(q, entries)[c].exists /\ OwnSuperseded(q, entries)[c].exists
  BY <1>1, <1>5, SupersedeSound, SupersedeOthersSound DEF OthersSuperseded, OwnSuperseded
<1> QED
  BY <1>3, <1>4, <1>5 DEF EntriesStay

\* Four stages, each of which resolves what it touched.
LEMMA SettleExact ==
    ASSUME Inv, IndexExact, NEW q, q.entity \in Entity,
           NEW e1, NEW e2, NEW e3, NEW e4,
           EntriesStay(capabilities[q.entity], e1), EntriesStay(e1, e2),
           EntriesStay(e2, e3), EntriesStay(e3, e4),
           Settle(q, capabilities[q.entity], e1, e2, e3, e4)
    PROVE  IndexExact'
<1> DEFINE e0 == capabilities[q.entity]
           At(entries) == [capabilities EXCEPT ![q.entity] = entries]
           r1 == Reindex(reverse, At(e0), At(e1))
           r2 == Reindex(r1, At(e1), At(e2))
           r3 == Reindex(r2, At(e2), At(e3))
           p1 == Requeue(revalidation, At(e0), At(e1))
           p2 == Requeue(p1, At(e1), At(e2))
           p3 == Requeue(p2, At(e2), At(e3))
<1>1. \A x, y : EntriesStay(x, y) => Stay(At(x), At(y))
  BY InvTypes DEF Stay, EntriesStay
<1>2. At(e0) = capabilities
  BY InvTypes
<1>3. /\ capabilities' = At(e4)
      /\ reverse' = Reindex(r3, At(e3), At(e4))
      /\ revalidation' = Requeue(p3, At(e3), At(e4))
  BY DEF Settle
<1>4. Stay(At(e0), At(e1)) /\ Stay(At(e1), At(e2)) /\ Stay(At(e2), At(e3)) /\ Stay(At(e3), At(e4))
  BY <1>1
<1> HIDE DEF At
<1>5. Exact(reverse, revalidation, At(e0))
  BY <1>2, IndexIsExact
<1>6. Exact(r1, p1, At(e1))
  BY <1>4, <1>5, ReindexExact
<1> HIDE DEF r1, p1
<1>7. Exact(r2, p2, At(e2))
  BY <1>4, <1>6, ReindexExact
<1> HIDE DEF r2, p2
<1>8. Exact(r3, p3, At(e3))
  BY <1>4, <1>7, ReindexExact
<1> HIDE DEF r3, p3
<1>9. Exact(reverse', revalidation', capabilities')
  BY <1>3, <1>4, <1>8, ReindexExact
<1> QED
  BY <1>9 DEF IndexExact, Exact

\* Without a newer generation step 6 of Publish keeps the entries.
LEMMA EntriesKeptUnlessRetired ==
    ASSUME Inv, NEW q \in Requests, Located(q), ~Retiring,
           NEW entity, entity.generation = q.generation,
           entities' = [entities EXCEPT ![q.entity] = entity]
    PROVE  EntriesAt(q) = capabilities[q.entity]
<1>1. q.entity \in Entity
  BY RegistryAssumption DEF Request
<1>2. entities'[q.entity].generation = q.generation
  BY <1>1, InvTypes
<1>3. ~Newer(q)
  BY <1>1, <1>2 DEF Retiring, Newer
<1> QED
  BY <1>3 DEF EntriesAt

\* Steps 6 to 10 leave the entries sound for the generation of the request.
LEMMA ApplicableStages ==
    ASSUME Inv, NEW q \in Requests, Admitted(q), Located(q),
           LinesFit(EntriesAt(q), StampOf(q), q.before, Named(q.before))
    PROVE  LET e1 == ApplyLines(EntriesAt(q), StampOf(q), q.before, Named(q.before))
               e2 == OthersSuperseded(q, e1)
               e3 == OwnSuperseded(q, e2)
           IN  /\ EntriesStay(EntriesAt(q), e1) /\ EntriesStay(e1, e2) /\ EntriesStay(e2, e3)
               /\ EntriesOK(e3, q.generation)
<1> DEFINE e1 == ApplyLines(EntriesAt(q), StampOf(q), q.before, Named(q.before))
           e2 == OthersSuperseded(q, e1)
           e3 == OwnSuperseded(q, e2)
<1>1. /\ EntriesOK(EntriesAt(q), q.generation)
      /\ EntriesOK(e1, q.generation) /\ EntriesOK(e2, q.generation) /\ EntriesOK(e3, q.generation)
  BY ArrivalOK, StagesOK
<1>2. EntriesStay(EntriesAt(q), e1)
  BY <1>1, StagesStay
<1> HIDE DEF e1
<1>3. EntriesStay(e1, e2)
  BY <1>1, StagesStay
<1> HIDE DEF e2
<1>4. EntriesStay(e2, e3)
  BY <1>1, StagesStay
<1> QED
  BY <1>1, <1>2, <1>3, <1>4 DEF e1, e2

LEMMA StoppedExact ==
    ASSUME Inv, IndexExact, NEW q \in Requests, PublishStopped(q), ~Retiring
    PROVE  IndexExact'
<1> DEFINE stamp == StampOf(q)
           e0 == EntriesAt(q)
           e1 == ApplyLines(e0, stamp, q.before, Named(q.before))
           e2 == OthersSuperseded(q, e1)
           e3 == OwnSuperseded(q, e2)
           lines == LastLines(q)
<1>1. Admitted(q) /\ Located(q) /\ q.entity \in Entity /\ EntriesOK(e0, q.generation)
  BY ArrivalOK DEF PublishStopped, Applicable
<1>2. e0 = capabilities[q.entity]
  BY <1>1, ArrivalOK, EntriesKeptUnlessRetired DEF PublishStopped
<1>3. CASE \E done \in SUBSET Named(q.before) : \E c \in Named(q.before) :
             LET x == Stopped(e0, stamp, q.before, done, c)
             IN  Settle(q, e0, x, x, x, x)
  <2>1. PICK done \in SUBSET Named(q.before), c \in Named(q.before) :
             LET x == Stopped(e0, stamp, q.before, done, c)
             IN  Settle(q, e0, x, x, x, x)
    BY <1>3
  <2> DEFINE x == Stopped(e0, stamp, q.before, done, c)
  <2> HIDE DEF e0, stamp
  <2>2. EntriesStay(e0, x)
    BY <1>1, StagesStay
  <2>3. Settle(q, e0, x, x, x, x)
    BY <2>1
  <2> HIDE DEF x
  <2>4. EntriesStay(x, x)
    BY DEF EntriesStay
  <2> QED
    BY <1>1, <1>2, <2>2, <2>3, <2>4, SettleExact
<1>4. CASE /\ LinesFit(e0, stamp, q.before, Named(q.before))
           /\ \E done \in SUBSET Named(lines) : \E c \in Named(lines) :
                 Settle(q, e0, e1, e2, e3, Stopped(e3, stamp, lines, done, c))
  <2>1. /\ EntriesStay(e0, e1) /\ EntriesStay(e1, e2) /\ EntriesStay(e2, e3)
        /\ EntriesOK(e3, q.generation)
    BY <1>1, <1>4, ApplicableStages
  <2>2. PICK done \in SUBSET Named(lines), c \in Named(lines) :
             Settle(q, e0, e1, e2, e3, Stopped(e3, stamp, lines, done, c))
    BY <1>4
  <2> DEFINE x == Stopped(e3, stamp, lines, done, c)
  <2> HIDE DEF e0, e1, e2, e3, stamp, lines
  <2>3. EntriesStay(e3, x)
    BY <2>1, StagesStay
  <2>4. Settle(q, e0, e1, e2, e3, x)
    BY <2>2
  <2> HIDE DEF x
  <2> QED
    BY <1>1, <1>2, <2>1, <2>3, <2>4, SettleExact
<1> QED
  BY <1>3, <1>4 DEF PublishStopped

LEMMA CommittedExact ==
    ASSUME Inv, IndexExact, NEW q \in Requests, PublishCommitted(q), ~Retiring
    PROVE  IndexExact'
<1> DEFINE stamp == StampOf(q)
           e0 == EntriesAt(q)
           e1 == ApplyLines(e0, stamp, q.before, Named(q.before))
           e2 == OthersSuperseded(q, e1)
           e3 == OwnSuperseded(q, e2)
           lines == LastLines(q)
           e4 == ApplyLines(e3, stamp, lines, Named(lines))
           changed == ~EntityAt(q).materialised \/ EntityAt(q).set # Materialize(e4)
           entity == CommittedEntity(q, EntityAt(q), e4, changed)
<1>1. /\ Admitted(q) /\ Located(q) /\ q.entity \in Entity
      /\ LinesFit(e0, stamp, q.before, Named(q.before))
      /\ Settle(q, e0, e1, e2, e3, e4)
      /\ entities' = [entities EXCEPT ![q.entity] = entity]
      /\ EntityAt(q) \in EntityState /\ EntityAt(q).generation = q.generation
  BY ArrivalOK DEF PublishCommitted, Applicable
<1>2. /\ EntriesStay(e0, e1) /\ EntriesStay(e1, e2) /\ EntriesStay(e2, e3)
      /\ EntriesOK(e3, q.generation)
  BY <1>1, ApplicableStages
<1> HIDE DEF e0, e1, e2, e3, stamp, lines
<1>3. EntriesStay(e3, e4)
  BY <1>2, StagesStay
<1> HIDE DEF e4, changed
<1>4. entity.generation = q.generation
  BY <1>1 DEF CommittedEntity, EntityState
<1> HIDE DEF entity
<1>5. e0 = capabilities[q.entity]
  BY <1>1, <1>4, EntriesKeptUnlessRetired DEF e0
<1> QED
  BY <1>1, <1>2, <1>3, <1>5, SettleExact

LEMMA PublishExact ==
    ASSUME Inv, IndexExact, NEW q \in Requests, Publish(q), ~Retiring
    PROVE  IndexExact'
<1>1. CASE PublishRefused(q)
  BY <1>1 DEF PublishRefused, IndexExact
<1>2. CASE PublishReplayed(q) \/ PublishHalted(q)
  <2>1. Located(q) /\ Arrive(q)
    BY <1>2 DEF PublishReplayed, PublishHalted
  <2>2. EntriesAt(q) = capabilities[q.entity]
    BY <2>1, ArrivalOK, EntriesKeptUnlessRetired DEF Arrive
  <2>3. UNCHANGED <<capabilities, reverse, revalidation>>
    BY <2>1, <2>2, InvTypes DEF Arrive
  <2> QED
    BY <2>3 DEF IndexExact
<1> QED
  BY <1>1, <1>2, StoppedExact, CommittedExact DEF Publish

LEMMA ObserveExact ==
    ASSUME Inv, IndexExact, NEW e \in Entity, NEW g \in EntityGenerations,
           ObserveEntityGeneration(e, g), ~Retiring
    PROVE  IndexExact'
<1>1. CASE UNCHANGED <<capabilities, reverse, revalidation>>
  BY <1>1 DEF IndexExact
<1>2. CASE /\ entities[e].known /\ entities[e].generation < g
           /\ entities' = [entities EXCEPT ![e] = RetireGeneration(@, g)]
  <2>1. entities'[e].generation = g
    BY <1>2, InvTypes DEF RetireGeneration, NewEntity
  <2>2. g \in Nat
    BY RegistryAssumption
  <2>3. entities'[e].generation > entities[e].generation
    BY <1>2, <2>1, <2>2, InvTypes
  <2> QED
    BY <1>2, <2>3 DEF Retiring
<1> QED
  BY <1>1, <1>2 DEF ObserveEntityGeneration

\* Load builds the indexes anew.
LEMMA LoadExact == ASSUME Load PROVE IndexExact'
<1> DEFINE loaded == [e \in Entity |-> [c \in Capability |-> LoadedEntry(store.capabilities[e][c])]]
           none == [e \in Entity |-> NoCapabilities]
<1>1. /\ capabilities' = loaded /\ reverse' = Reindex(NoIndex, none, loaded)
      /\ revalidation' = Requeue({}, none, loaded)
  BY DEF Load
<1>2. Exact(NoIndex, {}, none)
  BY DEF Exact, NoIndex
<1>3. Stay(none, loaded)
  BY DEF Stay, NoCapabilities, NoEntry
<1> HIDE DEF loaded, none
<1>4. Exact(reverse', revalidation', capabilities')
  BY <1>1, <1>2, <1>3, ReindexExact
<1> QED
  BY <1>4 DEF IndexExact, Exact

\* The index queries invent nothing in an execution in which no entity moves
\* to a newer generation, however publications are stopped, evidence is
\* weakened and the registry restarts: RetireGeneration is the one call that
\* drops entries and leaves their index entries behind.
THEOREM IndexesInventNothing == Spec /\ NoneRetired => []IndexExact
<1>1. Init => IndexExact
  BY DEF Init, IndexExact, NoIndex
<1>2. Inv /\ IndexExact /\ [Next]_vars /\ [~Retiring]_vars => IndexExact'
  <2> SUFFICES ASSUME Inv, IndexExact, [Next]_vars, [~Retiring]_vars PROVE IndexExact'
    OBVIOUS
  <2>1. CASE UNCHANGED <<capabilities, reverse, revalidation>>
    BY <2>1 DEF IndexExact
  <2>2. CASE UNCHANGED vars
    BY <2>1, <2>2 DEF vars
  <2>3. CASE \/ AdvanceCoordinatorEpoch
             \/ \E b \in Boot : FenceWorkerBoot(b)
             \/ \E e \in Entity : InvalidateEntity(e)
             \/ \E s \in Source : InvalidateSource(s)
    BY <2>3, WeakeningExact
  <2>4. CASE \E e \in Entity, g \in EntityGenerations : ObserveEntityGeneration(e, g)
    BY <2>2, <2>4, ObserveExact
  <2>5. CASE \E q \in Requests : Publish(q)
    BY <2>2, <2>5, PublishExact
  <2>6. CASE \/ \E g \in Grants : DeclareAuthority(g)
             \/ \E w \in Workers : RegisterPublisher(w.publisher, w.scope, w.boot)
             \/ \E w \in Workers : RetirePublisher(w.publisher, w.boot)
             \/ Save
    BY <2>1, <2>6 DEF DeclareAuthority, RegisterPublisher, RetirePublisher, Save
  <2>7. CASE Load
    BY <2>7, LoadExact
  <2> QED
    BY <2>2, <2>3, <2>4, <2>5, <2>6, <2>7 DEF Next, NextInMemory
<1> QED
  BY <1>1, <1>2, Invariance, PTL DEF Spec, NoneRetired

-----------------------------------------------------------------------------
(* Limits that no publication meets.                                       *)

\* Room for every capability, and in every capability for every identity.
AmpleLimits ==
    /\ IsFiniteSet(Capability) /\ Cardinality(Capability) <= MaxCapabilities
    /\ IsFiniteSet(Identity) /\ Cardinality(Identity) <= MaxEvidence

\* The records that speak besides those of id are each of another identity.
LEMMA RoomForIdentity ==
    ASSUME AmpleLimits, NEW E, E \subseteq EvidenceRecord, IsFiniteSet(E), Unique(E),
           NEW id, id.source \in Source, id.boot \in Boot
    PROVE  Cardinality(Live(MakeRoom(E, id))) < MaxEvidence
<1> DEFINE L == Live(E) \ OwnLive(E, id)
           Name(r) == [source |-> r.source, boot |-> r.boot]
           Others == Identity \ {Name(id)}
           f == [r \in L |-> Name(r)]
<1>1. Live(MakeRoom(E, id)) = L
  BY MakeRoomSound
<1>2. \A r \in EvidenceRecord : r.source \in Source /\ r.boot \in Boot
  BY DEF EvidenceRecord
<1>3. L \subseteq EvidenceRecord /\ \A r \in L : ~Owns(id, r)
  BY DEF Live, OwnLive
<1>4. \A r \in L : Name(r) \in Others
  BY <1>2, <1>3 DEF Owns, Identity
<1>5. \A r, q \in L : Name(r) = Name(q) => r = q
  BY DEF Unique, Live, Owns
<1>6. f \in Injection(L, Others)
  <2> HIDE DEF L, Others
  <2>1. f \in [L -> Others]
    BY <1>4
  <2>2. \A r, q \in L : f[r] = f[q] => r = q
    BY <1>5
  <2> QED
    BY <2>1, <2>2 DEF Injection, IsInjective
<1>7. IsFiniteSet(Others) /\ Cardinality(Others) = Cardinality(Identity) - 1
  <2>1. Name(id) \in Identity /\ IsFiniteSet(Identity)
    BY DEF Identity, AmpleLimits
  <2> QED
    BY <2>1, FS_RemoveElement
<1> HIDE DEF L, Others, f
<1>8. Cardinality(L) <= Cardinality(Others) /\ IsFiniteSet(L)
  BY <1>6, <1>7, FS_Injection
<1>9. Cardinality(L) \in Nat /\ Cardinality(Identity) \in Nat
  BY <1>8, FS_CardinalityType DEF AmpleLimits
<1> QED
  BY <1>1, <1>7, <1>8, <1>9, EvidenceAssumption DEF AmpleLimits

\* No line meets a limit, in whatever order the lines are taken.
LEMMA NoLineStops ==
    ASSUME AmpleLimits, NEW entries, NEW g, EntriesOK(entries, g), TidyEntries(entries),
           NEW stamp \in Stamp, NEW lines, NEW done, done \subseteq Capability, NEW c
    PROVE  ~Stops(entries, stamp, lines, done, c)
<1> SUFFICES ASSUME Stops(entries, stamp, lines, done, c) PROVE FALSE
  OBVIOUS
<1>1. c \in Capability /\ c \notin done
  BY DEF Stops, Claims, Named
<1>2. CASE entries[c].exists
  <2>1. SoundEntry(entries[c]) /\ Unique(entries[c].evidence)
    BY <1>1 DEF EntriesOK, EntryOK, TidyEntries, Tidy
  <2>2. stamp.source \in Source /\ stamp.boot \in Boot
    BY DEF Stamp
  <2>3. entries[c].evidence \subseteq EvidenceRecord /\ IsFiniteSet(entries[c].evidence)
    BY <2>1 DEF SoundEntry, Entry
  <2>4. Cardinality(Live(MakeRoom(entries[c].evidence, stamp))) < MaxEvidence
    BY <2>1, <2>2, <2>3, RoomForIdentity
  <2>5. Cardinality(Live(MakeRoom(entries[c].evidence, stamp))) \in Nat
    BY <2>3, MakeRoomSound, LiveSubset, FS_Subset, FS_CardinalityType
  <2> QED
    BY <1>2, <2>4, <2>5, EvidenceAssumption DEF Stops, EvidenceLimitExceeded
<1>3. CASE ~entries[c].exists
  <2> DEFINE S == Existing(entries) \cup CreatedBy(entries, lines, done)
  <2>1. c \notin S /\ S \subseteq Capability
    BY <1>1, <1>3 DEF Existing, CreatedBy, Claims
  <2>2. Cardinality(S) >= MaxCapabilities
    BY <1>3 DEF Stops
  <2>3. IsFiniteSet(Capability) /\ S # Capability
    BY <1>1, <2>1 DEF AmpleLimits
  <2> HIDE DEF S
  <2>4. /\ Cardinality(S) <= Cardinality(Capability) /\ Cardinality(S) # Cardinality(Capability)
        /\ Cardinality(S) \in Nat /\ Cardinality(Capability) \in Nat
    BY <2>1, <2>3, FS_Subset, FS_CardinalityType
  <2> QED
    BY <2>2, <2>4, RegistryAssumption DEF AmpleLimits
<1> QED
  BY <1>2, <1>3

\* The hypothesis of the theorems above is met by a registry whose limits
\* leave room for every capability and every publishing identity there is:
\* whatever is withdrawn, fenced, superseded or loaded again, the identities
\* that still speak for a capability are never more than there are.
THEOREM NeverStoppedWithinLimits == AmpleLimits => (Spec => NoneStopped)
<1> SUFFICES ASSUME AmpleLimits PROVE Spec => NoneStopped
  OBVIOUS
<1>1. Inv /\ AllTidy => ~Stopping
  <2> SUFFICES ASSUME Inv, AllTidy, NEW q \in Requests, PublishStopped(q) PROVE FALSE
    BY DEF Stopping
  <2> DEFINE stamp == StampOf(q)
             e0 == EntriesAt(q)
             e1 == ApplyLines(e0, stamp, q.before, Named(q.before))
             e2 == OthersSuperseded(q, e1)
             e3 == OwnSuperseded(q, e2)
             lines == LastLines(q)
             g == q.generation
  <2>1. /\ Admitted(q) /\ Located(q)
        /\ \/ \E done \in SUBSET Named(q.before) : \E c \in Named(q.before) :
                 Stops(e0, stamp, q.before, done, c)
           \/ /\ LinesFit(e0, stamp, q.before, Named(q.before))
              /\ \E done \in SUBSET Named(lines) : \E c \in Named(lines) :
                    Stops(e3, stamp, lines, done, c)
    BY DEF PublishStopped, Applicable
  <2>2. EntriesOK(e0, g) /\ TidyEntries(e0) /\ stamp \in Stamp
    BY <2>1, ArrivalOK, ArrivalTidy, AdmittedOK DEF StampOK
  <2>3. Named(q.before) \subseteq Capability /\ Named(lines) \subseteq Capability
    BY DEF Named
  <2>4. ASSUME LinesFit(e0, stamp, q.before, Named(q.before))
        PROVE  EntriesOK(e3, g) /\ TidyEntries(e3)
    <3>1. EntriesOK(e1, g) /\ EntriesOK(e2, g) /\ EntriesOK(e3, g)
      BY <2>1, <2>4, StagesOK
    <3> HIDE DEF e0, stamp, g
    <3>2. TidyEntries(e1)
      BY <2>2, <2>3, <2>4, ApplyLinesTidy
    <3> HIDE DEF e1
    <3>3. TidyEntries(e2)
      BY <3>1, <3>2, SupersedeStagesTidy
    <3> HIDE DEF e2
    <3> QED
      BY <3>1, <3>3, SupersedeStagesTidy
  <2> HIDE DEF e0, e3, stamp, lines, g
  <2>5. \A done \in SUBSET Named(q.before) : \A c : ~Stops(e0, stamp, q.before, done, c)
    BY <2>2, <2>3, NoLineStops
  <2>6. LinesFit(e0, stamp, q.before, Named(q.before)) =>
           \A done \in SUBSET Named(lines) : \A c : ~Stops(e3, stamp, lines, done, c)
    BY <2>2, <2>3, <2>4, NoLineStops
  <2> QED
    BY <2>1, <2>5, <2>6
<1> QED
  BY <1>1, Invariance, TidyInvariance, PTL DEF NoneStopped

-----------------------------------------------------------------------------
(* The reader.                                                             *)

readingVars == <<vars, readerVars>>

\* A reader leaves the registry alone, and the registry leaves the reader
\* alone.
LEMMA ReaderSteps ==
    ASSUME [ReaderNext]_readingVars
    PROVE  \/ Read /\ UNCHANGED vars
           \/ [NextInMemory]_vars /\ UNCHANGED readerVars
BY DEF ReaderNext, Read, CreateSnapshot, BeginBoundQuery, AnswerBoundQuery, BeginEvaluation,
       ReadLeaf, EndEvaluation, readingVars

LEMMA ReaderRegistry == ReaderSpec => SpecInMemory
<1>1. ReaderInit => Init
  BY DEF ReaderInit
<1>2. [ReaderNext]_readingVars => [NextInMemory]_vars
  BY ReaderSteps
<1> QED
  BY <1>1, <1>2, PTL DEF ReaderSpec, SpecInMemory, readingVars

\* What one lock section of an evaluation reads.
Reading == [state: CapabilityState, value: Value \cup {NoValue}]

QueryCall == [op: {"Query"}, entity: Entity, generation: Nat]

EvaluationCall ==
    [op: {"Evaluate"}, entity: Entity, requirement: Requirements, generation: Nat,
     since: Nat, read: Seq(Reading)]

CallOK == call \in {NoCall} \cup QueryCall \cup EvaluationCall

\* The entry of an entity that is not known, or of a capability that it does
\* not have, resolves to what Query answers for it.
LEMMA EntryAnswers ==
    ASSUME NEW entry, SoundEntry(entry), NEW known, entry.exists => known
    PROVE  LET answer == [state |-> entry.resolution.state, value |-> entry.resolution.value]
           IN  /\ answer \in Reading
               /\ answer = IF known /\ entry.exists THEN answer
                           ELSE [state |-> "Unknown", value |-> NoValue]
<1>1. entry \in Entry /\ (~entry.exists => entry = NoEntry)
  BY DEF SoundEntry
<1>2. entry.resolution \in Resolution
  BY <1>1 DEF Entry
<1>3. ~entry.exists => entry.resolution.state = "Unknown" /\ entry.resolution.value = NoValue
  BY <1>1 DEF NoEntry, NoAnswer
<1> QED
  BY <1>2, <1>3 DEF Reading, Resolution

LEMMA QueryAnswers ==
    ASSUME Inv, NEW e \in Entity, NEW c \in Capability
    PROVE  /\ Query(e, c) \in Reading
           /\ Query(e, c) = [state |-> capabilities[e][c].resolution.state,
                             value |-> capabilities[e][c].resolution.value]
<1>1. /\ SoundEntry(capabilities[e][c])
      /\ capabilities[e][c].exists => entities[e].known
  BY HeldSound DEF Inv, HeldOK
<1> QED
  BY <1>1, EntryAnswers DEF Query

\* A leaf of the evaluation in progress.
LEMMA LeafRead ==
    ASSUME Inv, CallOK, ReadLeaf
    PROVE  /\ call # NoCall /\ call \in EvaluationCall
           /\ Len(call.read) < Len(LeavesRead(call.requirement))
           /\ LET c == LeavesRead(call.requirement)[Len(call.read) + 1]
              IN  /\ c \in Capability /\ Query(call.entity, c) \in Reading
                  /\ call' = [call EXCEPT !.read = Append(@, Query(call.entity, c))]
           /\ UNCHANGED <<vars, held>>
<1>1. call # NoCall /\ call \in EvaluationCall
  BY DEF ReadLeaf, CallOK, QueryCall
<1>2. /\ call.requirement \in Requirements /\ call.entity \in Entity
      /\ call.read \in Seq(Reading)
  BY <1>1 DEF EvaluationCall
<1> DEFINE leaves == LeavesRead(call.requirement)
           c == leaves[Len(call.read) + 1]
<1>3. leaves \in Seq(Capability)
  BY <1>2, ReadersAssumption
<1>4. Len(call.read) < Len(leaves) /\ Len(call.read) \in Nat
  BY <1>2 DEF ReadLeaf
<1>5. c \in Capability
  <2> HIDE DEF leaves
  <2>1. Len(call.read) + 1 \in 1..Len(leaves)
    BY <1>3, <1>4
  <2> QED
    BY <1>3, <2>1, ElementOfSeq
<1>6. Query(call.entity, c) \in Reading
  BY <1>2, <1>5, QueryAnswers
<1> QED
  BY <1>1, <1>4, <1>5, <1>6 DEF ReadLeaf

LEMMA CallTyped == ReaderSpec => []CallOK
<1>1. ReaderInit => CallOK
  BY DEF ReaderInit, CallOK
<1>2. Inv /\ CallOK /\ [ReaderNext]_readingVars => CallOK'
  <2> SUFFICES ASSUME Inv, CallOK, [ReaderNext]_readingVars PROVE CallOK'
    OBVIOUS
  <2>1. CASE UNCHANGED call
    BY <2>1 DEF CallOK
  <2>2. CASE call' = NoCall
    BY <2>2 DEF CallOK
  <2>3. ASSUME NEW e \in Entity, NEW g \in EntityGenerations, BeginBoundQuery(e, g)
        PROVE  CallOK'
    BY <2>3, RegistryAssumption DEF BeginBoundQuery, CallOK, QueryCall
  <2>4. ASSUME NEW e \in Entity, NEW r \in Requirements, BeginEvaluation(e, r)
        PROVE  CallOK'
    <3>1. entities[e].generation \in Nat /\ registryGeneration \in Nat
      BY InvTypes
    <3>2. call' \in EvaluationCall
      BY <2>4, <3>1 DEF BeginEvaluation, EvaluationCall
    <3> QED
      BY <3>2 DEF CallOK
  <2>5. CASE ReadLeaf
    <3> DEFINE c == LeavesRead(call.requirement)[Len(call.read) + 1]
               answer == Query(call.entity, c)
    <3>1. /\ call \in EvaluationCall /\ answer \in Reading
          /\ call' = [call EXCEPT !.read = Append(@, answer)]
      BY <2>5, LeafRead
    <3> HIDE DEF answer
    <3>2. Append(call.read, answer) \in Seq(Reading)
      <4> HIDE DEF Reading
      <4> QED
        BY <3>1 DEF EvaluationCall
    <3>3. call' \in EvaluationCall
      <4> HIDE DEF Reading
      <4> QED
        BY <3>1, <3>2 DEF EvaluationCall
    <3> QED
      BY <3>3 DEF CallOK
  <2> QED
    BY <2>1, <2>2, <2>3, <2>4, <2>5, ReaderSteps
       DEF Read, CreateSnapshot, AnswerBoundQuery, EndEvaluation, readerVars
<1> QED
  BY <1>1, <1>2, ReaderRegistry, InvarianceInMemory, PTL DEF ReaderSpec, readingVars

-----------------------------------------------------------------------------
(* Bound queries.                                                          *)

\* The generation that the first section compared is not ahead of the
\* entity's.
BoundOK ==
    call # NoCall /\ call.op = "Query" =>
        entities[call.entity].known /\ entities[call.entity].generation >= call.generation

\* A bound query is never answered from evidence of an older generation than
\* it was asked for, however often the entity moves on, is fenced, invalidated
\* or published between the two sections of the call.
THEOREM BoundAnswersNotOlder == ReaderSpec => []BoundAnswerIsNotOlder
<1>1. ReaderInit => BoundOK
  BY DEF ReaderInit, BoundOK
<1>2. Inv /\ Inv' /\ CallOK /\ BoundOK /\ [ReaderNext]_readingVars => BoundOK'
  <2> SUFFICES ASSUME Inv, Inv', CallOK, BoundOK, [ReaderNext]_readingVars,
                      call' # NoCall, call'.op = "Query"
               PROVE  /\ entities'[call'.entity].known
                      /\ entities'[call'.entity].generation >= call'.generation
    BY DEF BoundOK
  <2>1. CASE Read /\ UNCHANGED vars
    <3>1. CASE UNCHANGED call
      BY <2>1, <3>1 DEF BoundOK, vars
    <3>2. ASSUME NEW e \in Entity, NEW g \in EntityGenerations, BeginBoundQuery(e, g)
          PROVE  /\ entities'[call'.entity].known
                 /\ entities'[call'.entity].generation >= call'.generation
      BY <2>1, <3>2, InvTypes DEF BeginBoundQuery, vars
    <3>3. ASSUME NEW e \in Entity, NEW r \in Requirements, BeginEvaluation(e, r)
          PROVE  FALSE
      BY <3>3 DEF BeginEvaluation
    <3>4. CASE ReadLeaf
      <4>1. call \in EvaluationCall /\ \E x : call' = [call EXCEPT !.read = x]
        BY <3>4, LeafRead
      <4>2. call'.op = "Evaluate"
        BY <4>1 DEF EvaluationCall
      <4> QED
        BY <4>2
    <3> QED
      BY <2>1, <3>1, <3>2, <3>3, <3>4
         DEF Read, CreateSnapshot, AnswerBoundQuery, EndEvaluation
  <2>2. CASE [NextInMemory]_vars /\ UNCHANGED readerVars
    <3>1. call' = call /\ call \in QueryCall
      BY <2>2 DEF readerVars, CallOK, EvaluationCall
    <3>2. call.entity \in Entity /\ call.generation \in Nat
      BY <3>1 DEF QueryCall
    <3>3. GenerationsAdvance
      BY <2>2, StepAdvances
    <3>4. /\ entities[call.entity].known
          /\ entities[call.entity].generation >= call.generation
          /\ entities[call.entity].generation \in Nat
      BY <3>1, <3>2, InvTypes DEF BoundOK
    <3>5. /\ entities'[call.entity].known
          /\ entities'[call.entity].generation >= entities[call.entity].generation
      BY <3>2, <3>3, <3>4 DEF GenerationsAdvance
    <3>6. entities'[call.entity].generation \in Nat
      <4>1. entities'[call.entity] \in EntityState
        BY <3>2 DEF Inv, TypeOK
      <4> QED
        BY <4>1 DEF EntityState
    <3> QED
      BY <3>1, <3>2, <3>4, <3>5, <3>6
  <2> QED
    BY <2>1, <2>2, ReaderSteps
<1>3. Inv /\ CallOK /\ BoundOK => BoundAnswerIsNotOlder
  <2> SUFFICES ASSUME Inv, CallOK, BoundOK, call # NoCall, call.op = "Query"
               PROVE  /\ entities[call.entity].generation >= call.generation
                      /\ \A c \in Capability : \A r \in capabilities[call.entity][c].evidence :
                            r.entityGeneration >= call.generation
    BY DEF BoundAnswerIsNotOlder
  <2>1. call.entity \in Entity
    BY DEF CallOK, QueryCall, EvaluationCall
  <2>2. \A c \in Capability : \A r \in capabilities[call.entity][c].evidence :
            r.entityGeneration = entities[call.entity].generation
    BY <2>1 DEF Inv, HeldOK, EntriesOK, EntryOK, RecordOK
  <2> QED
    BY <2>2 DEF BoundOK
<1> QED
  BY <1>1, <1>2, <1>3, CallTyped, ReaderRegistry, InvarianceInMemory, PTL
     DEF ReaderSpec, readingVars

-----------------------------------------------------------------------------
(* Current snapshots.                                                      *)

\* What the snapshot noted of an entity, while the registry generation is the
\* one it noted: an entity that had a valid set was not invalidated since, and
\* one that an unfiltered snapshot does not hold got no set.
SnapshotOK ==
    held # NoSnapshot =>
        /\ held.registryGeneration \in Nat /\ held.registryGeneration <= registryGeneration
        /\ \A e \in DOMAIN held.entities :
              LET then == held.entities[e]
              IN  /\ e \in Entity
                  /\ then.set # NoSet =>
                        /\ then.set.generation = then.generation
                        /\ then.set.invalidated \in BOOLEAN
                        /\ then.set.answers \in AnswerSet
                        /\ held.registryGeneration = registryGeneration /\ ~then.set.invalidated
                              => ~entities[e].invalidated
        /\ held.registryGeneration = registryGeneration /\ Unfiltered(held.scope) =>
              \A e \in Known \ DOMAIN held.entities : ~entities[e].materialised

\* No step invalidates an entity, or gives it its first set, under the same
\* registry generation.
LEMMA QuietCall ==
    ASSUME Inv, [NextInMemory]_vars, NEW e \in Entity,
           ~(registryGeneration' > registryGeneration)
    PROVE  /\ entities'[e].invalidated => entities[e].invalidated
           /\ entities'[e].known /\ entities'[e].materialised =>
                 entities[e].known /\ entities[e].materialised
<1>1. Told(e)
  BY StepTells
<1> QED
  BY <1>1 DEF Told, Left, Begun, Weakened, Published

LEMMA SnapshotTaken ==
    ASSUME Inv, NEW scope \in SnapshotScopes, CreateSnapshot(scope), UNCHANGED vars
    PROVE  SnapshotOK'
<1>1. /\ held'.registryGeneration = registryGeneration
      /\ held'.scope = scope
      /\ held'.entities = [e \in Selected(scope) |->
                              [generation |-> entities[e].generation,
                               setGeneration |-> entities[e].setGeneration,
                               set |-> SetOf(entities[e])]]
  BY DEF CreateSnapshot
<1>2. registryGeneration' = registryGeneration /\ entities' = entities /\ registryGeneration \in Nat
  BY InvTypes DEF vars
<1>3. Selected(scope) \subseteq Entity /\ Known' = Known
  BY <1>2 DEF Selected, Known
<1>4. ASSUME NEW e \in DOMAIN held'.entities, held'.entities[e].set # NoSet
      PROVE  /\ held'.entities[e].set.generation = held'.entities[e].generation
             /\ held'.entities[e].set.invalidated \in BOOLEAN
             /\ held'.entities[e].set.invalidated = entities[e].invalidated
             /\ held'.entities[e].set.answers \in AnswerSet
  <2>1. e \in Entity /\ held'.entities[e].set = SetOf(entities[e])
        /\ held'.entities[e].generation = entities[e].generation
    BY <1>1, <1>3
  <2>2. entities[e].invalidated \in BOOLEAN /\ entities[e].set \in AnswerSet
    BY <2>1, InvTypes DEF EntityState
  <2> QED
    BY <1>4, <2>1, <2>2 DEF SetOf
<1>5. Unfiltered(scope) => Selected(scope) = Known
  BY DEF Unfiltered, Selected
<1>6. \A e \in DOMAIN held'.entities : e \in Entity
  BY <1>1, <1>3
<1>7. \A e \in (Known \ DOMAIN held'.entities) : ~Unfiltered(scope)
  BY <1>1, <1>5
<1> HIDE DEF Selected, Known
<1> QED
  BY <1>1, <1>2, <1>3, <1>4, <1>6, <1>7 DEF SnapshotOK

LEMMA SnapshotKept ==
    ASSUME Inv, Inv', SnapshotOK, [NextInMemory]_vars, UNCHANGED readerVars
    PROVE  SnapshotOK'
<1> SUFFICES ASSUME held # NoSnapshot PROVE SnapshotOK'
  BY DEF SnapshotOK, readerVars
<1>1. held' = held /\ held.registryGeneration \in Nat /\ held.registryGeneration <= registryGeneration
  BY DEF SnapshotOK, readerVars
<1>2. /\ registryGeneration \in Nat /\ registryGeneration' \in Nat
      /\ registryGeneration' >= registryGeneration
  BY InvTypes, StepAdvances DEF Inv, TypeOK, GenerationsAdvance
<1>3. held.registryGeneration <= registryGeneration'
  BY <1>1, <1>2
<1>4. held.registryGeneration = registryGeneration' =>
         /\ held.registryGeneration = registryGeneration
         /\ ~(registryGeneration' > registryGeneration)
  BY <1>1, <1>2
<1>5. held.registryGeneration = registryGeneration' =>
         \A e \in Entity :
            /\ entities'[e].invalidated => entities[e].invalidated
            /\ entities'[e].known /\ entities'[e].materialised =>
                  entities[e].known /\ entities[e].materialised
  BY <1>4, QuietCall
<1> QED
  BY <1>1, <1>3, <1>4, <1>5 DEF SnapshotOK, Known

\* The difference of an entity whose digest, generation and set generation are
\* those that the snapshot holds.
LEMMA SameDigestDiff ==
    ASSUME NEW before, NEW after,
           Digest(after) = Digest(before), before # NoSet, after # NoSet,
           after.generation = before.generation
    PROVE  BuildDiff(before, after) =
              {kind \in {"EntityInvalidated"} : before.invalidated # after.invalidated}
<1>1. after.answers = before.answers
  BY DEF Digest
<1>2. \A c \in Capability : DiffKind(before, after, c) = "None"
  BY <1>1 DEF DiffKind, Has, Holds
<1> QED
  BY <1>2 DEF BuildDiff

LEMMA NoSetDiff == BuildDiff(NoSet, NoSet) = {}
<1>1. \A c \in Capability : DiffKind(NoSet, NoSet, c) = "None"
  BY DEF DiffKind, Has
<1> QED
  BY <1>1 DEF BuildDiff

\* A snapshot that CheckSnapshot calls current differs from the registry in
\* nothing but a lifted invalidation, and if it is unfiltered it misses no
\* entity that has answers: for any scopes, limits and requests, and also when
\* publications are stopped half way.
THEOREM SnapshotsHideOnlyRevival == ReaderSpec => []CurrentSnapshotHidesOnlyRevival
<1>1. ReaderInit => SnapshotOK
  BY DEF ReaderInit, SnapshotOK
<1>2. Inv /\ Inv' /\ SnapshotOK /\ [ReaderNext]_readingVars => SnapshotOK'
  <2> SUFFICES ASSUME Inv, Inv', SnapshotOK, [ReaderNext]_readingVars PROVE SnapshotOK'
    OBVIOUS
  <2>1. CASE UNCHANGED vars /\ UNCHANGED held
    BY <2>1 DEF SnapshotOK, vars, Known
  <2>2. CASE UNCHANGED vars /\ \E scope \in SnapshotScopes : CreateSnapshot(scope)
    BY <2>2, SnapshotTaken
  <2>3. CASE [NextInMemory]_vars /\ UNCHANGED readerVars
    BY <2>3, SnapshotKept
  <2> QED
    BY <2>1, <2>2, <2>3, ReaderSteps
       DEF Read, BeginBoundQuery, AnswerBoundQuery, BeginEvaluation, ReadLeaf, EndEvaluation
<1>3. Inv /\ SnapshotOK => CurrentSnapshotHidesOnlyRevival
  <2> SUFFICES ASSUME Inv, SnapshotOK, held # NoSnapshot, CheckSnapshot(held),
                      NEW e \in DOMAIN held.entities
                                \cup (IF Unfiltered(held.scope) THEN Known ELSE {})
               PROVE  LET diff == DiffAgainstSnapshot(held)[e]
                      IN  \/ diff = {}
                          \/ diff = {"EntityInvalidated"} /\ ~entities[e].invalidated
    BY DEF CurrentSnapshotHidesOnlyRevival
  <2> DEFINE then == held.entities[e]
             now == SetOf(entities[e])
             before == IF e \in DOMAIN held.entities THEN then.set ELSE NoSet
  <2>1. DiffAgainstSnapshot(held)[e] = BuildDiff(before, now)
    BY DEF DiffAgainstSnapshot
  <2>2. held.registryGeneration = registryGeneration
    BY DEF CheckSnapshot
  <2>3. CASE e \notin DOMAIN held.entities
    <3>1. ~entities[e].materialised
      BY <2>2, <2>3 DEF SnapshotOK
    <3> QED
      BY <2>1, <2>3, <3>1, NoSetDiff DEF SetOf
  <2>4. CASE e \in DOMAIN held.entities
    <3>1. /\ entities[e].generation = then.generation
          /\ Digest(now) = Digest(then.set)
      BY <2>4 DEF CheckSnapshot
    <3>2. /\ e \in Entity
          /\ then.set # NoSet =>
                /\ then.set.generation = then.generation
                /\ then.set.invalidated \in BOOLEAN
                /\ then.set.answers \in AnswerSet
                /\ ~then.set.invalidated => ~entities[e].invalidated
      BY <2>2, <2>4 DEF SnapshotOK
    <3>3. entities[e] \in EntityState
      BY <3>2, InvTypes
    <3>4. now # NoSet => /\ entities[e].materialised /\ now.answers \in AnswerSet
                         /\ now.generation = entities[e].generation
                         /\ now.invalidated = entities[e].invalidated
                         /\ now.invalidated \in BOOLEAN
      BY <3>3 DEF SetOf, EntityState
    <3>5. CASE now # NoSet /\ then.set # NoSet
      <4>1. BuildDiff(then.set, now) =
               {kind \in {"EntityInvalidated"} : then.set.invalidated # now.invalidated}
        BY <3>1, <3>2, <3>4, <3>5, SameDigestDiff
      <4> QED
        BY <2>1, <2>4, <3>2, <3>4, <3>5, <4>1
    <3>6. CASE now = NoSet /\ then.set = NoSet
      BY <2>1, <2>4, <3>6, NoSetDiff
    <3>7. CASE now # NoSet /\ then.set = NoSet
      BY <3>1, <3>4, <3>7, ReadersAssumption DEF Digest
    <3>8. CASE now = NoSet /\ then.set # NoSet
      BY <3>1, <3>2, <3>8, ReadersAssumption DEF Digest
    <3> QED
      BY <3>5, <3>6, <3>7, <3>8
  <2> QED
    BY <2>3, <2>4
<1> QED
  BY <1>1, <1>2, <1>3, ReaderRegistry, InvarianceInMemory, PTL DEF ReaderSpec, readingVars

-----------------------------------------------------------------------------
(* Evaluations.                                                            *)

\* An entity that is not known is in no generation.
UnknownAtZero == \A e \in Entity : ~entities[e].known => entities[e].generation = 0

\* What Query answers, from the entry.
Said(entry) == [state |-> entry.resolution.state, value |-> entry.resolution.value]

\* While the registry generation is the one at the beginning, what was read is
\* what would be read now.
EvaluationOK ==
    call # NoCall /\ call.op = "Evaluate" =>
        LET leaves == LeavesRead(call.requirement)
        IN  /\ call.since <= registryGeneration
            /\ Len(call.read) <= Len(leaves)
            /\ registryGeneration = call.since =>
                  /\ \/ call.generation = 0
                     \/ /\ entities[call.entity].known
                        /\ entities[call.entity].generation = call.generation
                  /\ \A i \in 1..Len(call.read) :
                        call.read[i] = Said(capabilities[call.entity][leaves[i]])

\* A step under the same registry generation changes no answer, and leaves a
\* known entity in its generation.
LEMMA QuietAnswers ==
    ASSUME Inv, Inv', SetMirrorsEntries, [NextInMemory]_vars, [~Stopping]_vars,
           ~(registryGeneration' > registryGeneration), NEW e \in Entity
    PROVE  /\ \A c \in Capability : Said(capabilities'[e][c]) = Said(capabilities[e][c])
           /\ entities[e].known =>
                 entities'[e].known /\ entities'[e].generation = entities[e].generation
<1>1. Materialize(capabilities[e]) = Materialize(capabilities'[e])
  <2>1. CASE UNCHANGED vars
    BY <2>1 DEF vars
  <2>2. CASE ~(UNCHANGED vars)
    BY <2>2, StepAnnounces DEF AnswersAnnounced
  <2> QED
    BY <2>1, <2>2
<1>2. ASSUME NEW c \in Capability PROVE Said(capabilities'[e][c]) = Said(capabilities[e][c])
  <2>1. capabilities'[e][c].resolution = capabilities[e][c].resolution
    BY <1>1 DEF Materialize
  <2> QED
    BY <2>1 DEF Said
<1>3. Told(e)
  BY StepTells
<1>4. entities[e].known =>
         entities'[e].known /\ entities'[e].generation = entities[e].generation
  BY <1>3 DEF Told, Left, Begun, Weakened, Published
<1> QED
  BY <1>2, <1>4

LEMMA UnknownStaysAtZero == SpecInMemory => []UnknownAtZero
<1>1. Init => UnknownAtZero
  BY NoEntityType DEF Init, UnknownAtZero
<1>2. Inv /\ UnknownAtZero /\ [NextInMemory]_vars => UnknownAtZero'
  <2> SUFFICES ASSUME Inv, UnknownAtZero, [NextInMemory]_vars, NEW e \in Entity, ~entities'[e].known
               PROVE  entities'[e].generation = 0
    BY DEF UnknownAtZero
  <2>1. Told(e)
    BY StepTells
  <2> QED
    BY <2>1 DEF Told, Left, Begun, Weakened, Published, UnknownAtZero
<1> QED
  BY <1>1, <1>2, InvarianceInMemory, PTL DEF SpecInMemory

\* The registry beside an evaluation.
LEMMA EvaluationKept ==
    ASSUME Inv, Inv', SetMirrorsEntries, CallOK, EvaluationOK, [NextInMemory]_vars,
           [~Stopping]_vars, UNCHANGED readerVars
    PROVE  EvaluationOK'
<1> SUFFICES ASSUME call # NoCall, call.op = "Evaluate" PROVE EvaluationOK'
  BY DEF EvaluationOK, readerVars
<1>1. call' = call /\ call \in EvaluationCall
  BY DEF readerVars, CallOK, QueryCall
<1>2. /\ call.entity \in Entity /\ call.requirement \in Requirements
      /\ call.since \in Nat /\ call.read \in Seq(Reading)
  BY <1>1 DEF EvaluationCall
<1> DEFINE leaves == LeavesRead(call.requirement)
<1>3. call.since <= registryGeneration /\ Len(call.read) <= Len(leaves)
  BY DEF EvaluationOK
<1>4. /\ registryGeneration \in Nat /\ registryGeneration' \in Nat
      /\ registryGeneration' >= registryGeneration
  BY InvTypes, StepAdvances DEF Inv, TypeOK, GenerationsAdvance
<1>5. call.since <= registryGeneration'
  BY <1>2, <1>3, <1>4
<1>6. PICK e \in Entity : e = call.entity
  BY <1>2
<1>7. \A i \in 1..Len(call.read) : leaves[i] \in Capability
  <2>1. leaves \in Seq(Capability)
    BY <1>2, ReadersAssumption
  <2> HIDE DEF leaves
  <2>2. Len(call.read) \in Nat /\ Len(leaves) \in Nat
    BY <1>2, <2>1
  <2>3. Len(call.read) <= Len(leaves)
    BY <1>3 DEF leaves
  <2> QED
    BY <2>1, <2>2, <2>3
<1>8. ASSUME registryGeneration' = call.since
      PROVE  /\ \/ call.generation = 0
                \/ entities'[e].known /\ entities'[e].generation = call.generation
             /\ \A i \in 1..Len(call.read) :
                   call.read[i] = Said(capabilities'[e][leaves[i]])
  <2>1. registryGeneration = call.since /\ ~(registryGeneration' > registryGeneration)
    BY <1>2, <1>3, <1>4, <1>8
  <2>2. /\ \A c \in Capability : Said(capabilities'[e][c]) = Said(capabilities[e][c])
        /\ entities[e].known =>
              entities'[e].known /\ entities'[e].generation = entities[e].generation
    BY <2>1, QuietAnswers
  <2>3. /\ \/ call.generation = 0
           \/ entities[e].known /\ entities[e].generation = call.generation
        /\ \A i \in 1..Len(call.read) :
              call.read[i] = Said(capabilities[e][leaves[i]])
    BY <1>6, <2>1 DEF EvaluationOK
  <2> QED
    BY <1>7, <2>2, <2>3
<1> QED
  BY <1>1, <1>3, <1>5, <1>6, <1>8 DEF EvaluationOK

\* The evaluation beside a registry at rest.
LEMMA EvaluationReads ==
    ASSUME Inv, UnknownAtZero, CallOK, EvaluationOK, Read, UNCHANGED vars
    PROVE  EvaluationOK'
<1>1. registryGeneration' = registryGeneration /\ entities' = entities /\ capabilities' = capabilities
  BY DEF vars
<1>2. CASE UNCHANGED call
  BY <1>1, <1>2 DEF EvaluationOK
<1>3. CASE call' = NoCall
  BY <1>3 DEF EvaluationOK
<1>4. ASSUME NEW e \in Entity, NEW g \in EntityGenerations, BeginBoundQuery(e, g)
      PROVE  EvaluationOK'
  BY <1>4 DEF BeginBoundQuery, EvaluationOK
<1>5. ASSUME NEW e \in Entity, NEW r \in Requirements, BeginEvaluation(e, r)
      PROVE  EvaluationOK'
  <2>1. call' = [op |-> "Evaluate", entity |-> e, requirement |-> r,
                 generation |-> entities[e].generation, since |-> registryGeneration,
                 read |-> <<>>]
    BY <1>5 DEF BeginEvaluation
  <2>2. LeavesRead(r) \in Seq(Capability)
    BY <1>5, ReadersAssumption
  <2>3. Len(LeavesRead(r)) \in Nat /\ registryGeneration \in Nat
    BY <2>2, InvTypes
  <2>4. ~entities[e].known => entities[e].generation = 0
    BY DEF UnknownAtZero
  <2> QED
    BY <1>1, <2>1, <2>3, <2>4 DEF EvaluationOK
<1>6. CASE ReadLeaf
  <2> DEFINE leaves == LeavesRead(call.requirement)
             n == Len(call.read)
             c == leaves[n + 1]
             answer == Query(call.entity, c)
  <2>1. /\ call # NoCall /\ call \in EvaluationCall /\ n < Len(leaves)
        /\ c \in Capability /\ answer \in Reading
        /\ call' = [call EXCEPT !.read = Append(@, answer)]
    BY <1>6, LeafRead
  <2>2. /\ call.entity \in Entity /\ call.requirement \in Requirements
        /\ call.read \in Seq(Reading)
    BY <2>1 DEF EvaluationCall
  <2>3. answer = Said(capabilities[call.entity][c])
    BY <2>1, <2>2, QueryAnswers DEF Said
  <2>4. leaves \in Seq(Capability)
    BY <2>2, ReadersAssumption
  <2>5. n \in Nat /\ Len(leaves) \in Nat
    BY <2>2, <2>4
  <2> HIDE DEF answer
  <2> DEFINE read == Append(call.read, answer)
  <2>6. Len(read) = n + 1 /\ \A i \in 1..(n + 1) : read[i] = IF i = n + 1 THEN answer ELSE call.read[i]
    <3> HIDE DEF Reading
    <3> QED
      BY <2>1, <2>2
  <2>7. /\ call'.read = read /\ call'.requirement = call.requirement
        /\ call'.entity = call.entity /\ call'.generation = call.generation
        /\ call'.since = call.since
    BY <2>1 DEF EvaluationCall
  <2>8. /\ call.since <= registryGeneration
        /\ registryGeneration = call.since =>
              /\ \/ call.generation = 0
                 \/ /\ entities[call.entity].known
                    /\ entities[call.entity].generation = call.generation
              /\ \A i \in 1..n :
                    call.read[i] = Said(capabilities[call.entity][leaves[i]])
    <3>1. call.op = "Evaluate"
      BY <2>1 DEF EvaluationCall
    <3> QED
      BY <2>1, <3>1 DEF EvaluationOK
  <2> HIDE DEF read
  <2>9. \A i \in 1..(n + 1) : registryGeneration = call.since =>
            read[i] = Said(capabilities[call.entity][leaves[i]])
    <3> HIDE DEF leaves, n
    <3> QED
      BY <2>3, <2>5, <2>6, <2>8
  <2>10. n + 1 <= Len(leaves)
    BY <2>1, <2>5
  <2> QED
    BY <1>1, <2>6, <2>7, <2>8, <2>9, <2>10 DEF EvaluationOK
<1> QED
  BY <1>2, <1>3, <1>4, <1>5, <1>6
     DEF Read, CreateSnapshot, AnswerBoundQuery, EndEvaluation

\* An evaluation at whose end the registry generation is still the one at its
\* beginning read answers of one instant, and reports the generation they
\* belong to: for every requirement, in an execution in which no publication
\* is stopped by a limit.
THEOREM QuietEvaluationsAtomic ==
    ReaderSpec /\ NoneStopped => []QuietEvaluationIsAtomic
<1>1. ReaderInit => EvaluationOK
  BY DEF ReaderInit, EvaluationOK
<1>2. Inv /\ Inv' /\ SetMirrorsEntries /\ UnknownAtZero /\ CallOK /\ EvaluationOK
         /\ [ReaderNext]_readingVars /\ [~Stopping]_vars => EvaluationOK'
  <2> SUFFICES ASSUME Inv, Inv', SetMirrorsEntries, UnknownAtZero, CallOK, EvaluationOK,
                      [ReaderNext]_readingVars, [~Stopping]_vars
               PROVE  EvaluationOK'
    OBVIOUS
  <2> QED
    BY ReaderSteps, EvaluationReads, EvaluationKept
<1>3. Inv /\ CallOK /\ EvaluationOK => QuietEvaluationIsAtomic
  <2> SUFFICES ASSUME Inv, CallOK, EvaluationOK, call # NoCall, call.op = "Evaluate",
                      registryGeneration = call.since
               PROVE  LET leaves == LeavesRead(call.requirement)
                      IN  /\ call.generation \in {0, entities[call.entity].generation}
                          /\ Len(call.read) = Len(leaves) =>
                                OutcomeOf(call.requirement, call.read) =
                                OutcomeOf(call.requirement,
                                        [i \in DOMAIN leaves |->
                                            Query(call.entity, leaves[i])])
    BY DEF QuietEvaluationIsAtomic
  <2> DEFINE leaves == LeavesRead(call.requirement)
  <2>1. /\ call.entity \in Entity /\ call.requirement \in Requirements
        /\ call.read \in Seq(Reading)
    BY DEF CallOK, QueryCall, EvaluationCall
  <2>2. leaves \in Seq(Capability)
    BY <2>1, ReadersAssumption
  <2>3. \A i \in DOMAIN leaves : leaves[i] \in Capability
    <3> HIDE DEF leaves
    <3> QED
      BY <2>2
  <2>4. \A i \in DOMAIN leaves :
           Query(call.entity, leaves[i]) =
              Said(capabilities[call.entity][leaves[i]])
    BY <2>1, <2>3, QueryAnswers DEF Said
  <2>5. ASSUME Len(call.read) = Len(leaves)
        PROVE  call.read = [i \in DOMAIN leaves |-> Query(call.entity, leaves[i])]
    <3>1. \A i \in 1..Len(call.read) :
             call.read[i] = Said(capabilities[call.entity][leaves[i]])
      BY DEF EvaluationOK
    <3>2. DOMAIN call.read = 1..Len(call.read) /\ DOMAIN leaves = 1..Len(leaves)
          /\ call.read = [i \in 1..Len(call.read) |-> call.read[i]]
      <4> HIDE DEF Reading, leaves
      <4> QED
        BY <2>1, <2>2
    <3> HIDE DEF leaves
    <3> QED
      BY <2>4, <2>5, <3>1, <3>2
  <2>6. call.generation \in {0, entities[call.entity].generation}
    BY DEF EvaluationOK
  <2> QED
    BY <2>5, <2>6
<1> QED
  BY <1>1, <1>2, <1>3, CallTyped, ReaderRegistry, InvarianceInMemory, MirrorInMemory,
     UnknownStaysAtZero, PTL DEF ReaderSpec, readingVars, NoneStopped

-----------------------------------------------------------------------------
(* Retired generations.                                                    *)

\* The summaries of an entity, newest first, are of generations it has left;
\* a set that has a number is there to be summarised.
Recorded(entity) ==
    /\ \A i \in DOMAIN entity.history : entity.history[i].generation < entity.generation
    /\ \A i, j \in DOMAIN entity.history :
          i < j => entity.history[j].generation < entity.history[i].generation
    /\ entity.setGeneration > 0 => entity.hasSet /\ entity.materialised

\* What becomes of an entity: it is left in its generation, or begins one.
Continues(old, new) ==
    /\ old.known /\ new.known
    /\ new.generation = old.generation /\ new.history = old.history
    /\ new.setGeneration >= old.setGeneration
    /\ \/ /\ new.setGeneration = old.setGeneration /\ new.hasSet = old.hasSet
          /\ old.materialised => new.materialised
       \/ new.hasSet /\ new.materialised

Opens(old, new) ==
    /\ ~old.known /\ new.known
    /\ new.history = <<>>
    /\ new.setGeneration > 0 => new.hasSet /\ new.materialised

Closes(old, new) ==
    /\ old.known /\ new.known
    /\ new.generation > old.generation
    /\ new.history = RetireGeneration(old, new.generation).history
    /\ new.setGeneration > 0 => new.hasSet /\ new.materialised

Moves(old, new) == new = old \/ Continues(old, new) \/ Opens(old, new) \/ Closes(old, new)

\* RefreshEntity.
LEMMA RefreshMoves ==
    ASSUME NEW entity \in EntityState, NEW entries
    PROVE  /\ entity.known => Moves(entity, Refreshed(entity, entries))
           /\ entity.known =>
                 Moves(entity, Refreshed([entity EXCEPT !.invalidated = TRUE], entries))
<1>1. entity.setGeneration >= entity.setGeneration
  BY DEF EntityState
<1> QED
  BY <1>1 DEF Moves, Continues, Refreshed, EntityState

\* Step 6 of Publish, and step 11 after it.
LEMMA EntityAtMoves ==
    ASSUME Inv, NEW q \in Requests, Located(q)
    PROVE  /\ Moves(entities[q.entity], EntityAt(q))
           /\ \A entries, changed :
                 Moves(entities[q.entity], CommittedEntity(q, EntityAt(q), entries, changed))
<1> DEFINE old == entities[q.entity]
           at == EntityAt(q)
<1>1. /\ old \in EntityState /\ at \in EntityState /\ at.known /\ at.generation = q.generation
      /\ q.generation \in Nat
  BY EntityAtAdvances, InvTypes
<1>2. ASSUME NEW entries, NEW changed
      PROVE  LET new == CommittedEntity(q, at, entries, changed)
             IN  /\ new.known /\ new.generation = at.generation /\ new.history = at.history
                 /\ new.setGeneration >= at.setGeneration /\ new.hasSet /\ new.materialised
  BY <1>1 DEF CommittedEntity, EntityState
<1>3. CASE ~old.known
  <2>1. at = NewEntity(q.generation)
    BY <1>3 DEF EntityAt
  <2>2. at.history = <<>> /\ at.setGeneration = 0
    BY <2>1 DEF NewEntity
  <2> QED
    BY <1>1, <1>2, <1>3, <2>2 DEF Moves, Opens
<1>4. CASE Newer(q)
  <2>1. at = RetireGeneration(old, q.generation) /\ old.known /\ q.generation > old.generation
    BY <1>4 DEF EntityAt, Newer
  <2>2. at.setGeneration = 0
    BY <2>1 DEF RetireGeneration, NewEntity
  <2>3. Closes(old, at)
    BY <1>1, <2>1, <2>2 DEF Closes
  <2> HIDE DEF at, old
  <2> QED
    BY <1>1, <1>2, <2>3 DEF Moves, Closes, old, at
<1>5. CASE old.known /\ ~Newer(q)
  <2>1. at = old
    BY <1>5 DEF EntityAt
  <2> QED
    BY <1>1, <1>2, <1>5, <2>1 DEF Moves, Continues
<1> QED
  BY <1>3, <1>4, <1>5

LEMMA StepMoves ==
    Inv /\ [NextInMemory]_vars => \A e \in Entity : Moves(entities[e], entities'[e])
<1> SUFFICES ASSUME Inv, [NextInMemory]_vars, NEW e \in Entity
             PROVE  Moves(entities[e], entities'[e])
  OBVIOUS
<1>1. entities \in [Entity -> EntityState] /\ entities[e] \in EntityState
  BY InvTypes
<1>2. CASE UNCHANGED entities
  BY <1>2 DEF Moves
<1>3. ASSUME NEW E, E \subseteq Known, NEW new, Refresh(E, new)
      PROVE  Moves(entities[e], entities'[e])
  <2>1. entities'[e] = IF e \in E THEN Refreshed(entities[e], new[e]) ELSE entities[e]
    BY <1>3 DEF Refresh
  <2>2. e \in E => entities[e].known
    BY <1>3 DEF Known
  <2> QED
    BY <1>1, <2>1, <2>2, RefreshMoves DEF Moves
<1>4. CASE \/ AdvanceCoordinatorEpoch
           \/ \E b \in Boot : FenceWorkerBoot(b)
           \/ \E s \in Source : InvalidateSource(s)
  <2>1. \E E \in SUBSET Known : \E new : Refresh(E, new)
    BY <1>4 DEF AdvanceCoordinatorEpoch, FenceWorkerBoot, InvalidateSource
  <2> QED
    BY <1>3, <2>1
<1>5. ASSUME NEW d \in Entity, NEW g \in EntityGenerations, ObserveEntityGeneration(d, g)
      PROVE  Moves(entities[e], entities'[e])
  <2>1. g \in Nat
    BY RegistryAssumption
  <2>2. CASE ~entities[d].known /\ entities' = [entities EXCEPT ![d] = NewEntity(g)]
    BY <1>1, <2>2 DEF Moves, Opens, NewEntity
  <2>3. CASE /\ entities[d].known /\ entities[d].generation < g
             /\ entities' = [entities EXCEPT ![d] = RetireGeneration(@, g)]
    <3> DEFINE new == RetireGeneration(entities[d], g)
    <3>1. new.known /\ new.generation = g /\ new.setGeneration = 0
      BY DEF RetireGeneration, NewEntity
    <3>2. new.generation > entities[d].generation /\ ~(new.setGeneration > 0)
      BY <2>1, <2>3, <3>1, InvTypes
    <3>3. Closes(entities[d], new)
      BY <2>3, <3>1, <3>2 DEF Closes
    <3>4. entities'[e] = IF e = d THEN new ELSE entities[e]
      BY <1>1, <2>3
    <3> QED
      BY <3>3, <3>4 DEF Moves
  <2> QED
    BY <1>5, <2>2, <2>3 DEF ObserveEntityGeneration
<1>6. ASSUME NEW d \in Entity, InvalidateEntity(d)
      PROVE  Moves(entities[e], entities'[e])
  <2>1. /\ entities[d].known
        /\ \E entries : entities' = [entities EXCEPT ![d] =
                            Refreshed([@ EXCEPT !.invalidated = TRUE], entries)]
    BY <1>6 DEF InvalidateEntity
  <2>2. PICK entries : entities' = [entities EXCEPT ![d] =
                            Refreshed([@ EXCEPT !.invalidated = TRUE], entries)]
    BY <2>1
  <2>3. entities'[e] = IF e = d THEN Refreshed([entities[e] EXCEPT !.invalidated = TRUE], entries)
                       ELSE entities[e]
    BY <1>1, <2>2
  <2> QED
    BY <1>1, <2>1, <2>3, RefreshMoves DEF Moves
<1>7. ASSUME NEW q \in Requests, Publish(q)
      PROVE  Moves(entities[e], entities'[e])
  <2>1. \/ UNCHANGED entities
        \/ Located(q) /\ entities' = [entities EXCEPT ![q.entity] = EntityAt(q)]
        \/ Located(q) /\ \E entries, changed :
              entities' = [entities EXCEPT ![q.entity] =
                              CommittedEntity(q, EntityAt(q), entries, changed)]
    <3>1. PublishCommitted(q) => Located(q) /\ \E entries, changed :
              entities' = [entities EXCEPT ![q.entity] =
                              CommittedEntity(q, EntityAt(q), entries, changed)]
      BY DEF PublishCommitted, Applicable
    <3> QED
      BY <1>7, <3>1 DEF Publish, PublishRefused, PublishReplayed, PublishHalted, PublishStopped,
                        Applicable, Arrive
  <2>2. CASE Located(q) /\ entities' = [entities EXCEPT ![q.entity] = EntityAt(q)]
    BY <1>1, <2>2, EntityAtMoves DEF Moves
  <2>3. ASSUME Located(q), NEW entries, NEW changed,
               entities' = [entities EXCEPT ![q.entity] =
                               CommittedEntity(q, EntityAt(q), entries, changed)]
        PROVE  Moves(entities[e], entities'[e])
    <3>1. Moves(entities[q.entity], CommittedEntity(q, EntityAt(q), entries, changed))
      BY <2>3, EntityAtMoves
    <3>2. entities'[e] = IF e = q.entity THEN CommittedEntity(q, EntityAt(q), entries, changed)
                         ELSE entities[e]
      BY <1>1, <2>3
    <3> QED
      BY <3>1, <3>2 DEF Moves
  <2> QED
    BY <1>2, <2>1, <2>2, <2>3
<1> QED
  BY <1>2, <1>4, <1>5, <1>6, <1>7
     DEF NextInMemory, DeclareAuthority, RegisterPublisher, RetirePublisher, vars

\* The history of an entity whose generation is retired: what it had, behind
\* the summary of that generation if it has one, cut at MaxHistory.
LEMMA RetiredHistory ==
    ASSUME NEW entity \in EntityState, NEW g \in Nat
    PROVE  LET h == RetireGeneration(entity, g).history
           IN  IF entity.hasSet /\ entity.materialised
               THEN /\ Len(h) = IF Len(entity.history) + 1 > MaxHistory
                                THEN MaxHistory ELSE Len(entity.history) + 1
                    /\ \A k \in DOMAIN h :
                          /\ k = 1 => /\ h[k].generation = entity.generation
                                      /\ h[k].setGeneration = entity.setGeneration
                          /\ k # 1 => /\ k - 1 \in DOMAIN entity.history
                                      /\ h[k] = entity.history[k - 1]
               ELSE h = entity.history
<1> DEFINE Past == [generation: Nat, setGeneration: Nat]
           first == [generation |-> entity.generation, setGeneration |-> entity.setGeneration]
           grown == <<first>> \o entity.history
           size == IF Len(grown) > MaxHistory THEN MaxHistory ELSE Len(grown)
           h == RetireGeneration(entity, g).history
<1>1. /\ entity.generation \in Nat /\ entity.setGeneration \in Nat
      /\ entity.history \in Seq(Past) /\ first \in Past
  BY DEF EntityState
<1>2. MaxHistory \in Nat
  BY RegistryAssumption
<1>3. /\ grown \in Seq(Past) /\ Len(grown) = Len(entity.history) + 1
      /\ Len(entity.history) \in Nat
      /\ \A k \in 1..Len(grown) : grown[k] = IF k = 1 THEN first ELSE entity.history[k - 1]
  <2> HIDE DEF Past, first
  <2> QED
    BY <1>1
<1>4. size \in 0..Len(grown)
  BY <1>2, <1>3
<1>5. CASE entity.hasSet /\ entity.materialised
  <2>1. h = SubSeq(grown, 1, size)
    BY <1>5 DEF RetireGeneration, NewEntity
  <2>2. Len(h) = size /\ DOMAIN h = 1..size /\ \A k \in 1..size : h[k] = grown[k]
    <3> HIDE DEF Past, grown, h, size
    <3> QED
      BY <1>3, <1>4, <2>1
  <2>3. ASSUME NEW k \in 1..size
        PROVE  /\ k = 1 => h[k] = first
               /\ k # 1 => k - 1 \in DOMAIN entity.history /\ h[k] = entity.history[k - 1]
    <3> HIDE DEF Past, first, grown, h, size
    <3>1. k \in 1..Len(grown) /\ DOMAIN entity.history = 1..Len(entity.history)
      BY <1>1, <1>3, <1>4
    <3> QED
      BY <1>3, <2>2, <3>1
  <2>4. Len(h) = IF Len(entity.history) + 1 > MaxHistory
                 THEN MaxHistory ELSE Len(entity.history) + 1
    BY <1>3, <2>2
  <2> HIDE DEF grown, h, size
  <2> QED
    BY <1>5, <2>2, <2>3, <2>4 DEF h
<1>6. CASE ~(entity.hasSet /\ entity.materialised)
  BY <1>6 DEF RetireGeneration, NewEntity
<1> QED
  BY <1>5, <1>6

LEMMA RecordedMoves ==
    ASSUME NEW old \in EntityState, NEW new \in EntityState,
           Recorded(old), Moves(old, new)
    PROVE  Recorded(new)
<1>1. CASE new = old
  BY <1>1
<1>2. CASE Continues(old, new)
  BY <1>2 DEF Recorded, Continues, EntityState
<1>3. CASE Opens(old, new)
  BY <1>3 DEF Recorded, Opens
<1>4. CASE Closes(old, new)
  <2> DEFINE Past == [generation: Nat, setGeneration: Nat]
             H == old.history
             h == new.history
  <2>1. /\ old.generation \in Nat /\ new.generation \in Nat
        /\ H \in Seq(Past) /\ h \in Seq(Past)
    BY DEF EntityState
  <2>2. /\ \A i \in DOMAIN H : H[i].generation \in Nat /\ H[i].generation < old.generation
        /\ \A i, j \in DOMAIN H : i < j => H[j].generation < H[i].generation
        /\ DOMAIN h \subseteq Nat
    <3>1. \A i \in DOMAIN H : H[i] \in Past
      <4> HIDE DEF Past
      <4> QED
        BY <2>1
    <3> QED
      BY <2>1, <3>1 DEF Recorded
  <2>3. /\ h = RetireGeneration(old, new.generation).history
        /\ new.generation > old.generation
        /\ new.setGeneration > 0 => new.hasSet /\ new.materialised
    BY <1>4 DEF Closes
  <2>4. CASE old.hasSet /\ old.materialised
    <3>1. \A k \in DOMAIN h :
             /\ k = 1 => h[k].generation = old.generation
             /\ k # 1 => k - 1 \in DOMAIN H /\ h[k] = H[k - 1]
      BY <2>1, <2>3, <2>4, RetiredHistory
    <3> HIDE DEF H, h
    <3>2. ASSUME NEW i \in DOMAIN h PROVE h[i].generation < new.generation
      <4>1. CASE i = 1
        BY <2>1, <2>3, <3>1, <4>1
      <4>2. CASE i # 1
        <5>1. PICK j \in DOMAIN H : h[i] = H[j]
          BY <3>1, <4>2
        <5>2. H[j].generation \in Nat /\ H[j].generation < old.generation
          BY <2>2
        <5> QED
          BY <2>1, <2>3, <5>1, <5>2
      <4> QED
        BY <4>1, <4>2
    <3>3. ASSUME NEW i \in DOMAIN h, NEW j \in DOMAIN h, i < j
          PROVE  h[j].generation < h[i].generation
      <4>1. i \in Nat /\ j \in Nat /\ j # 1
        <5>1. DOMAIN h = 1..Len(h)
          BY <2>1
        <5> QED
          BY <3>3, <5>1, <2>1
      <4>2. j - 1 \in DOMAIN H /\ h[j] = H[j - 1]
        BY <3>1, <4>1
      <4>3. CASE i = 1
        BY <2>2, <3>1, <4>2, <4>3
      <4>4. CASE i # 1
        <5>1. i - 1 \in DOMAIN H /\ h[i] = H[i - 1] /\ i - 1 < j - 1
          BY <3>1, <3>3, <4>1, <4>4
        <5> QED
          BY <2>2, <4>2, <5>1
      <4> QED
        BY <4>3, <4>4
    <3> QED
      BY <2>3, <3>2, <3>3 DEF Recorded, h
  <2>5. CASE ~(old.hasSet /\ old.materialised)
    <3>1. h = H
      BY <2>1, <2>3, <2>5, RetiredHistory
    <3>2. \A i \in DOMAIN h : h[i].generation < new.generation
      <4> HIDE DEF H, h
      <4> QED
        BY <2>1, <2>2, <2>3, <3>1
    <3> QED
      BY <2>2, <2>3, <3>1, <3>2 DEF Recorded
  <2> QED
    BY <2>4, <2>5
<1> QED
  BY <1>1, <1>2, <1>3, <1>4 DEF Moves

\* What a snapshot took of an entity that is still in that generation, or of
\* one that has left it.
Retained(entity, then) ==
    /\ entity.known
    /\ then.generation \in Nat /\ then.setGeneration \in Nat
    /\ \/ /\ then.generation = entity.generation
          /\ then.setGeneration <= entity.setGeneration
       \/ /\ then.generation < entity.generation
          /\ \A i \in DOMAIN entity.history :
                entity.history[i].generation = then.generation =>
                    entity.history[i].setGeneration >= then.setGeneration
          /\ then.setGeneration > 0 /\ Len(entity.history) < MaxHistory =>
                \E i \in DOMAIN entity.history :
                    entity.history[i].generation = then.generation

\* A generation just left is at the head of the history; the others move back.
LEMMA RetainedMoves ==
    ASSUME NEW old \in EntityState, NEW new \in EntityState, NEW then,
           Recorded(old), Moves(old, new), Retained(old, then)
    PROVE  Retained(new, then)
<1>1. CASE new = old
  BY <1>1
<1>2. CASE Continues(old, new)
  BY <1>2 DEF Retained, Continues, EntityState
<1>3. CASE Opens(old, new)
  BY <1>3 DEF Retained, Opens
<1>4. CASE Closes(old, new)
  <2> DEFINE Past == [generation: Nat, setGeneration: Nat]
             H == old.history
             h == new.history
  <2>1. /\ old.generation \in Nat /\ new.generation \in Nat
        /\ old.setGeneration \in Nat
        /\ H \in Seq(Past) /\ h \in Seq(Past)
    BY DEF EntityState
  <2>2. /\ DOMAIN H = 1..Len(H) /\ Len(H) \in Nat
        /\ DOMAIN h = 1..Len(h) /\ Len(h) \in Nat
    <3> HIDE DEF Past, H, h
    <3> QED
      BY <2>1
  <2>3. /\ h = RetireGeneration(old, new.generation).history
        /\ new.generation > old.generation /\ new.known
    BY <1>4 DEF Closes
  <2>4. /\ \A i \in DOMAIN H : /\ H[i].generation \in Nat /\ H[i].setGeneration \in Nat
                               /\ H[i].generation < old.generation
        /\ old.setGeneration > 0 => old.hasSet /\ old.materialised
    <3>1. \A i \in DOMAIN H : H[i] \in Past
      <4> HIDE DEF Past
      <4> QED
        BY <2>1
    <3> QED
      BY <3>1 DEF Recorded
  <2>5. then.generation \in Nat /\ then.setGeneration \in Nat
    BY DEF Retained
  <2>6. MaxHistory \in Nat
    BY RegistryAssumption
  <2>7. /\ then.generation < new.generation
        /\ \A i \in DOMAIN h : h[i].generation = then.generation =>
                                   h[i].setGeneration >= then.setGeneration
        /\ then.setGeneration > 0 /\ Len(h) < MaxHistory =>
              \E i \in DOMAIN h : h[i].generation = then.generation
    <3>1. CASE old.hasSet /\ old.materialised
      <4>1. /\ Len(h) = IF Len(H) + 1 > MaxHistory THEN MaxHistory ELSE Len(H) + 1
            /\ \A k \in DOMAIN h :
                  /\ k = 1 => /\ h[k].generation = old.generation
                              /\ h[k].setGeneration = old.setGeneration
                  /\ k # 1 => k - 1 \in DOMAIN H /\ h[k] = H[k - 1]
        BY <2>1, <2>3, <3>1, RetiredHistory
      <4>2. CASE /\ then.generation = old.generation
                 /\ then.setGeneration <= old.setGeneration
        <5> HIDE DEF H, h
        <5>1. ASSUME NEW i \in DOMAIN h, h[i].generation = then.generation PROVE i = 1
          <6>1. i # 1 => \E j \in DOMAIN H : H[j].generation = old.generation
            BY <4>1, <4>2, <5>1
          <6>2. ASSUME NEW j \in DOMAIN H PROVE H[j].generation # old.generation
            <7>1. H[j].generation \in Nat /\ H[j].generation < old.generation
              BY <2>4
            <7> QED
              BY <2>1, <7>1
          <6> QED
            BY <6>1, <6>2
        <5>2. Len(h) < MaxHistory => 1 \in DOMAIN h
          BY <2>2, <2>6, <4>1
        <5> QED
          BY <2>1, <2>3, <2>5, <4>1, <4>2, <5>1, <5>2
      <4>3. CASE ~(/\ then.generation = old.generation
                   /\ then.setGeneration <= old.setGeneration)
        <5>1. /\ then.generation < old.generation
              /\ \A i \in DOMAIN H : H[i].generation = then.generation =>
                                         H[i].setGeneration >= then.setGeneration
              /\ then.setGeneration > 0 /\ Len(H) < MaxHistory =>
                    \E i \in DOMAIN H : H[i].generation = then.generation
          BY <4>3 DEF Retained
        <5> HIDE DEF H, h
        <5>2. ASSUME NEW i \in DOMAIN h, h[i].generation = then.generation
              PROVE  h[i].setGeneration >= then.setGeneration
          <6>1. i # 1
            BY <2>1, <2>5, <4>1, <5>1, <5>2
          <6> QED
            BY <4>1, <5>1, <5>2, <6>1
        <5>3. ASSUME then.setGeneration > 0, Len(h) < MaxHistory
              PROVE  \E i \in DOMAIN h : h[i].generation = then.generation
          <6>1. Len(h) = Len(H) + 1 /\ Len(H) < MaxHistory
            BY <2>2, <2>6, <4>1, <5>3
          <6>2. PICK i \in DOMAIN H : H[i].generation = then.generation
            BY <5>1, <5>3, <6>1
          <6>3. i + 1 \in DOMAIN h /\ i + 1 # 1 /\ (i + 1) - 1 = i
            BY <2>2, <6>1
          <6> QED
            BY <4>1, <6>2, <6>3
        <5> QED
          <6>1. then.generation < new.generation
            BY <2>1, <2>3, <2>5, <5>1
          <6> QED
            BY <5>2, <5>3, <6>1
      <4> QED
        BY <4>2, <4>3
    <3>2. CASE ~(old.hasSet /\ old.materialised)
      <4>1. h = H
        BY <2>1, <2>3, <3>2, RetiredHistory
      <4>2. old.setGeneration = 0
        BY <2>1, <2>4, <3>2
      <4>3. CASE /\ then.generation = old.generation
                 /\ then.setGeneration <= old.setGeneration
        <5> HIDE DEF H, h
        <5> QED
          BY <2>1, <2>3, <2>4, <2>5, <4>1, <4>2, <4>3
      <4>4. CASE ~(/\ then.generation = old.generation
                   /\ then.setGeneration <= old.setGeneration)
        <5>1. /\ then.generation < old.generation
              /\ \A i \in DOMAIN H : H[i].generation = then.generation =>
                                         H[i].setGeneration >= then.setGeneration
              /\ then.setGeneration > 0 /\ Len(H) < MaxHistory =>
                    \E i \in DOMAIN H : H[i].generation = then.generation
          BY <4>4 DEF Retained
        <5> HIDE DEF H, h
        <5> QED
          BY <2>1, <2>3, <2>5, <4>1, <5>1
      <4> QED
        BY <4>3, <4>4
    <3> QED
      BY <3>1, <3>2
  <2> QED
    BY <2>3, <2>5, <2>7 DEF Retained
<1> QED
  BY <1>1, <1>2, <1>3, <1>4 DEF Moves

\* The invariant of the theorem.
LastWords ==
    /\ \A e \in Entity : Recorded(entities[e])
    /\ held # NoSnapshot =>
          \A e \in DOMAIN held.entities :
              e \in Entity /\ Retained(entities[e], held.entities[e])

\* A snapshot is never ahead of what the registry keeps of the generation it
\* saw, and that generation is kept while there is room (RetiredGeneration,
\* RetireGeneration).
THEOREM RetiredKeepLastWord == ReaderSpec => []RetiredHasTheLastWord
<1>1. ReaderInit => LastWords
  <2> SUFFICES ASSUME ReaderInit PROVE LastWords
    OBVIOUS
  <2>1. \A e \in Entity : entities[e].history = <<>> /\ entities[e].setGeneration = 0
    BY DEF ReaderInit, Init, NoEntity, NewEntity
  <2> QED
    BY <2>1 DEF ReaderInit, LastWords, Recorded
<1>2. Inv /\ Inv' /\ LastWords /\ [ReaderNext]_readingVars => LastWords'
  <2> SUFFICES ASSUME Inv, Inv', LastWords, [ReaderNext]_readingVars PROVE LastWords'
    OBVIOUS
  <2>1. CASE UNCHANGED entities /\ UNCHANGED held
    BY <2>1 DEF LastWords
  <2>2. ASSUME UNCHANGED vars, NEW scope \in SnapshotScopes, CreateSnapshot(scope)
        PROVE  LastWords'
    <3>1. entities' = entities
      BY <2>2 DEF vars
    <3>2. ASSUME NEW e \in DOMAIN held'.entities
          PROVE  e \in Entity /\ Retained(entities[e], held'.entities[e])
      <4>1. DOMAIN held'.entities = Selected(scope)
        BY <2>2 DEF CreateSnapshot
      <4>2. e \in Entity /\ entities[e].known
        BY <3>2, <4>1 DEF Selected, Known
      <4>3. /\ held'.entities[e].generation = entities[e].generation
            /\ held'.entities[e].setGeneration = entities[e].setGeneration
        BY <2>2, <3>2, <4>1 DEF CreateSnapshot
      <4>4. entities[e].generation \in Nat /\ entities[e].setGeneration \in Nat
        BY <4>2, InvTypes DEF EntityState
      <4> QED
        BY <4>2, <4>3, <4>4 DEF Retained
    <3> QED
      BY <3>1, <3>2 DEF LastWords
  <2>3. CASE [NextInMemory]_vars /\ UNCHANGED readerVars
    <3>1. \A e \in Entity : /\ entities[e] \in EntityState /\ entities'[e] \in EntityState
                            /\ Moves(entities[e], entities'[e])
      <4>1. entities \in [Entity -> EntityState]
        BY InvTypes
      <4>2. entities' \in [Entity -> EntityState]
        BY DEF Inv, TypeOK
      <4>3. \A e \in Entity : Moves(entities[e], entities'[e])
        BY <2>3, StepMoves
      <4> QED
        BY <4>1, <4>2, <4>3
    <3>2. \A e \in Entity : Recorded(entities'[e])
      BY <3>1, RecordedMoves DEF LastWords
    <3>3. held' = held
      BY <2>3 DEF readerVars
    <3>4. ASSUME held # NoSnapshot, NEW e \in DOMAIN held.entities
          PROVE  e \in Entity /\ Retained(entities'[e], held.entities[e])
      BY <3>1, <3>4, RetainedMoves DEF LastWords
    <3> QED
      BY <3>2, <3>3, <3>4 DEF LastWords
  <2> QED
    BY <2>1, <2>2, <2>3, ReaderSteps
       DEF Read, BeginBoundQuery, AnswerBoundQuery, BeginEvaluation, ReadLeaf, EndEvaluation, vars
<1>3. Inv /\ LastWords => RetiredHasTheLastWord
  <2> SUFFICES ASSUME Inv, LastWords, held # NoSnapshot, NEW e \in DOMAIN held.entities
               PROVE  LET then  == held.entities[e]
                          found == Retired(e, then.generation)
                      IN  /\ \A i \in found :
                                entities[e].history[i].setGeneration >= then.setGeneration
                          /\ /\ then.setGeneration > 0
                             /\ then.generation # entities[e].generation
                             /\ Len(entities[e].history) < MaxHistory
                             => found # {}
    BY DEF RetiredHasTheLastWord
  <2> DEFINE then == held.entities[e]
             entity == entities[e]
             found == Retired(e, then.generation)
  <2>1. e \in Entity /\ Recorded(entity) /\ Retained(entity, then)
    BY DEF LastWords
  <2>2. entity \in EntityState /\ entity.generation \in Nat
    BY <2>1, InvTypes DEF EntityState
  <2>3. /\ DOMAIN entity.history \subseteq Nat
        /\ \A i \in DOMAIN entity.history : entity.history[i].generation \in Nat
        /\ \A i \in DOMAIN entity.history : 1..(i - 1) \subseteq DOMAIN entity.history
    <3> DEFINE Past == [generation: Nat, setGeneration: Nat]
    <3>1. entity.history \in Seq(Past)
      BY <2>2 DEF EntityState
    <3>2. /\ DOMAIN entity.history = 1..Len(entity.history)
          /\ \A i \in DOMAIN entity.history : entity.history[i] \in Past
      <4> HIDE DEF Past, entity
      <4> QED
        BY <3>1
    <3>3. Len(entity.history) \in Nat
      <4> HIDE DEF Past, entity
      <4> QED
        BY <3>1
    <3> HIDE DEF entity
    <3> QED
      BY <3>2, <3>3
  <2>4. ASSUME NEW i \in found
        PROVE  entity.history[i].setGeneration >= then.setGeneration
    <3>1. /\ then.generation # entity.generation /\ i \in DOMAIN entity.history
          /\ entity.history[i].generation = then.generation
      BY <2>4 DEF Retired
    <3> QED
      BY <2>1, <3>1 DEF Retained
  <2>5. ASSUME then.setGeneration > 0, then.generation # entity.generation,
               Len(entity.history) < MaxHistory
        PROVE  found # {}
    <3>1. PICK i \in DOMAIN entity.history : entity.history[i].generation = then.generation
      BY <2>1, <2>5 DEF Retained
    <3>2. ASSUME NEW j \in 1..(i - 1) PROVE entity.history[j].generation # then.generation
      <4>1. j \in DOMAIN entity.history /\ j < i /\ i \in Nat
        BY <2>3, <3>1
      <4>2. entity.history[i].generation < entity.history[j].generation
        BY <2>1, <3>1, <4>1 DEF Recorded
      <4> QED
        BY <2>3, <3>1, <4>1, <4>2
    <3>3. i \in found
      BY <2>5, <3>1, <3>2 DEF Retired
    <3> QED
      BY <3>3
  <2> QED
    BY <2>4, <2>5
<1> QED
  BY <1>1, <1>2, <1>3, ReaderRegistry, InvarianceInMemory, PTL DEF ReaderSpec, readingVars
====
