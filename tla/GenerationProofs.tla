-------------------------- MODULE GenerationProofs --------------------------
(***************************************************************************)
(* What the steps of a running registry never do: generations never run    *)
(* backwards, a retry is never applied a second time, and a replay is      *)
(* answered without a change.  And what the evidence vector of a           *)
(* capability keeps: a publishing identity never contradicts itself, its   *)
(* retained records are told apart by their evidence generations, and the  *)
(* vector stays within its bound.  The invariant of RegistryProofs, which  *)
(* bounds the evidence generations, is enough for the first part and is    *)
(* strengthened for the second.                                            *)
(***************************************************************************)
EXTENDS RegistryProofs

-----------------------------------------------------------------------------
(* Capability generations: what an operation makes of an entry's.          *)

Grown(old, new) == new.generation \in Nat /\ new.generation >= old.generation

\* Every operation touches the entry, which advances it, or leaves it.
LEMMA OperationsGrow ==
    ASSUME NEW entry, entry.generation \in Nat
    PROVE  /\ \A S, currentness : Grown(entry, MarkAndTouch(entry, S, currentness))
           /\ \A S, currentness : Grown(entry, MarkNonCurrent(entry, S, currentness))
           /\ \A id : Grown(entry, SupersedeIdentity(entry, id))
           /\ \A p, b : Grown(entry, SupersedeOtherIdentities(entry, p, b))
           /\ \A stamp, claim : Grown(entry, ApplyClaim(entry, stamp, claim))
           /\ \A stamp, line : Grown(entry, ApplyLine(entry, stamp, line))
<1>1. \A E : Grown(entry, Touch(entry, E))
  BY DEF Grown, Touch
<1>2. \A S, currentness : Grown(entry, MarkAndTouch(entry, S, currentness))
  BY <1>1 DEF MarkAndTouch, Grown
<1>3. \A S, currentness : Grown(entry, MarkNonCurrent(entry, S, currentness))
  BY <1>2 DEF MarkNonCurrent
<1>4. \A id : Grown(entry, SupersedeIdentity(entry, id))
  BY <1>2 DEF SupersedeIdentity
<1>5. \A p, b : Grown(entry, SupersedeOtherIdentities(entry, p, b))
  BY <1>2 DEF SupersedeOtherIdentities
<1>6. \A stamp, claim : Grown(entry, ApplyClaim(entry, stamp, claim))
  BY <1>1 DEF ApplyClaim
<1>7. \A stamp, line : Grown(entry, ApplyLine(entry, stamp, line))
  BY <1>4, <1>6 DEF ApplyLine, WithdrawIdentityClaim
<1> QED
  BY <1>2, <1>3, <1>4, <1>5, <1>6, <1>7

\* The same of all entries of an entity.
AllGrown(old, new) == \A c \in Capability : Grown(old[c], new[c])

Numbered(entries) == \A c \in Capability : entries[c].generation \in Nat

\* The stages of step 10, each on its own.
LEMMA StagesGrow ==
    ASSUME NEW entries, Numbered(entries), NEW q, NEW stamp, NEW lines, NEW D
    PROVE  /\ AllGrown(entries, ApplyLines(entries, stamp, lines, D))
           /\ AllGrown(entries, OthersSuperseded(q, entries))
           /\ AllGrown(entries, OwnSuperseded(q, entries))
<1> SUFFICES ASSUME NEW c \in Capability
             PROVE  /\ Grown(entries[c], ApplyLines(entries, stamp, lines, D)[c])
                    /\ Grown(entries[c], OthersSuperseded(q, entries)[c])
                    /\ Grown(entries[c], OwnSuperseded(q, entries)[c])
  BY DEF AllGrown
<1>1. entries[c].generation \in Nat /\ Grown(entries[c], entries[c])
  BY DEF Numbered, Grown
<1>2. Grown(entries[c], ApplyLines(entries, stamp, lines, D)[c])
  BY <1>1, OperationsGrow DEF ApplyLines
<1>3. Grown(entries[c], OthersSuperseded(q, entries)[c])
  BY <1>1, OperationsGrow DEF OthersSuperseded
<1>4. Grown(entries[c], OwnSuperseded(q, entries)[c])
  BY <1>1, OperationsGrow DEF OwnSuperseded
<1> QED
  BY <1>2, <1>3, <1>4

\* Growth adds up.
LEMMA GrownTransitive ==
    ASSUME NEW x, NEW y, NEW z, Numbered(x), AllGrown(x, y), AllGrown(y, z)
    PROVE  AllGrown(x, z) /\ Numbered(y) /\ Numbered(z)
BY DEF AllGrown, Grown, Numbered

\* The lines that were done before a limit was met.
LEMMA StoppedGrows ==
    ASSUME NEW entries \in [Capability -> Entry], NEW stamp, NEW lines, NEW D,
           NEW c \in Capability
    PROVE  AllGrown(entries, Stopped(entries, stamp, lines, D, c))
<1>1. Numbered(entries)
  BY DEF Numbered, Entry
<1>2. AllGrown(entries, ApplyLines(entries, stamp, lines, D))
  BY <1>1, StagesGrow
<1>3. Grown(entries[c], ApplyClaimAtLimit(entries[c], stamp))
  BY DEF ApplyClaimAtLimit, Entry, Grown
<1>4. \A d \in Capability :
         Stopped(entries, stamp, lines, D, c)[d] =
            IF d = c /\ entries[c].exists THEN ApplyClaimAtLimit(entries[c], stamp)
            ELSE ApplyLines(entries, stamp, lines, D)[d]
  BY DEF Stopped, ApplyLines
<1> QED
  BY <1>2, <1>3, <1>4 DEF AllGrown

-----------------------------------------------------------------------------
(* The generations of one step.                                            *)

\* What GenerationsAdvance asks of one entity.
EntityAdvances(e, entity, entries) ==
    entities[e].known =>
        /\ entity.known
        /\ entity.generation >= entities[e].generation
        /\ entity.generation = entities[e].generation =>
              /\ entity.setGeneration >= entities[e].setGeneration
              /\ entities[e].hasSet => entity.hasSet
              /\ \A c \in Capability : entries[c].generation >= capabilities[e][c].generation

\* The types the arguments need.
LEMMA InvTypes ==
    ASSUME Inv
    PROVE  /\ epoch \in Nat /\ registryGeneration \in Nat
           /\ entities \in [Entity -> EntityState]
           /\ capabilities \in [Entity -> [Capability -> Entry]]
           /\ \A e \in Entity : /\ entities[e].generation \in Nat
                                /\ entities[e].setGeneration \in Nat
                                /\ Numbered(capabilities[e])
           /\ publishers \in [PublisherKey -> PublisherRuntime \cup {NoRegistration}]
<1>1. /\ entities \in [Entity -> EntityState]
      /\ capabilities \in [Entity -> [Capability -> Entry]]
      /\ epoch \in Nat /\ registryGeneration \in Nat
      /\ publishers \in [PublisherKey -> PublisherRuntime \cup {NoRegistration}]
  BY DEF Inv, TypeOK
<1>2. \A e \in Entity : entities[e].generation \in Nat /\ entities[e].setGeneration \in Nat
  BY <1>1 DEF EntityState
<1>3. \A e \in Entity : Numbered(capabilities[e])
  BY <1>1 DEF Numbered, Entry
<1> QED
  BY <1>1, <1>2, <1>3

\* A step that leaves the entities and their entries alone.
LEMMA NothingMoves ==
    ASSUME Inv, UNCHANGED <<epoch, registryGeneration, entities, capabilities>>
    PROVE  GenerationsAdvance
<1>1. \A e \in Entity, c \in Capability : capabilities[e][c].generation \in Nat
  BY InvTypes DEF Numbered
<1> QED
  BY <1>1, InvTypes DEF GenerationsAdvance

\* A step that refreshes entities whose entries grew.
LEMMA RefreshAdvances ==
    ASSUME Inv, NEW new, NEW E, Resolve(new), Refresh(E, new),
           epoch' \in Nat, epoch' >= epoch, registryGeneration' = registryGeneration + 1,
           \A e \in Entity : AllGrown(capabilities[e], new[e])
    PROVE  GenerationsAdvance
<1>1. capabilities' = new
  BY DEF Resolve
<1>2. \A e \in Entity : /\ entities'[e].known = entities[e].known
                        /\ entities'[e].generation = entities[e].generation
                        /\ entities'[e].setGeneration = entities[e].setGeneration
                        /\ entities'[e].hasSet = entities[e].hasSet
  BY InvTypes DEF Refresh, Refreshed, EntityState
<1>3. \A e \in Entity, c \in Capability :
         capabilities'[e][c].generation >= capabilities[e][c].generation
  BY <1>1 DEF AllGrown, Grown
<1> QED
  BY <1>2, <1>3, InvTypes DEF GenerationsAdvance

\* A step that changes one entity.
LEMMA EntityStepAdvances ==
    ASSUME Inv, NEW e \in Entity, NEW entity, NEW entries,
           entities' = [entities EXCEPT ![e] = entity],
           capabilities' = [capabilities EXCEPT ![e] = entries],
           epoch' = epoch, registryGeneration' >= registryGeneration,
           EntityAdvances(e, entity, entries)
    PROVE  GenerationsAdvance
<1>1. \A d \in Entity : /\ entities'[d] = IF d = e THEN entity ELSE entities[d]
                        /\ capabilities'[d] = IF d = e THEN entries ELSE capabilities[d]
  BY InvTypes
<1>2. \A d \in Entity, c \in Capability : capabilities[d][c].generation \in Nat
  BY InvTypes DEF Numbered
<1> QED
  BY <1>1, <1>2, InvTypes DEF GenerationsAdvance, EntityAdvances

-----------------------------------------------------------------------------
(* The calls.                                                              *)

\* Epoch advances, fences and invalidations.
LEMMA WeakeningAdvances ==
    ASSUME Inv,
           \/ AdvanceCoordinatorEpoch
           \/ \E b \in Boot : FenceWorkerBoot(b)
           \/ \E s \in Source : InvalidateSource(s)
    PROVE  GenerationsAdvance
<1>1. \A e \in Entity, c \in Capability : capabilities[e][c].generation \in Nat
  BY InvTypes DEF Numbered
<1>2. CASE AdvanceCoordinatorEpoch
  <2> DEFINE new == [e \in Entity |-> [c \in Capability |-> ExpireProcessBound(capabilities[e][c])]]
  <2>1. \A e \in Entity : AllGrown(capabilities[e], new[e])
    BY <1>1, OperationsGrow DEF AllGrown, ExpireProcessBound
  <2>2. /\ Resolve(new) /\ Refresh(Known, new) /\ registryGeneration' = registryGeneration + 1
        /\ epoch' \in Nat /\ epoch' >= epoch
    BY <1>2, InvTypes DEF AdvanceCoordinatorEpoch
  <2> HIDE DEF new
  <2> QED
    BY <2>1, <2>2, RefreshAdvances
<1>3. ASSUME NEW b \in Boot, FenceWorkerBoot(b) PROVE GenerationsAdvance
  <2> DEFINE new == [e \in Entity |-> [c \in Capability |-> FenceBoot(capabilities[e][c], b)]]
  <2>1. \A e \in Entity : AllGrown(capabilities[e], new[e])
    BY <1>1, OperationsGrow DEF AllGrown, FenceBoot
  <2>2. /\ Resolve(new) /\ Refresh(Known, new) /\ registryGeneration' = registryGeneration + 1
        /\ epoch' \in Nat /\ epoch' >= epoch
    BY <1>3, InvTypes DEF FenceWorkerBoot
  <2> HIDE DEF new
  <2> QED
    BY <2>1, <2>2, RefreshAdvances
<1>4. ASSUME NEW s \in Source, InvalidateSource(s) PROVE GenerationsAdvance
  <2> DEFINE new == [e \in Entity |-> [c \in Capability |-> InvalidateFrom(capabilities[e][c], s)]]
             claimed == {e \in Known : \E c \in Capability : capabilities[e][c].exists}
  <2>1. \A e \in Entity : AllGrown(capabilities[e], new[e])
    BY <1>1, OperationsGrow DEF AllGrown, InvalidateFrom
  <2>2. /\ Resolve(new) /\ Refresh(claimed, new) /\ registryGeneration' = registryGeneration + 1
        /\ epoch' \in Nat /\ epoch' >= epoch
    BY <1>4, InvTypes DEF InvalidateSource
  <2> HIDE DEF new, claimed
  <2> QED
    BY <2>1, <2>2, RefreshAdvances
<1> QED
  BY <1>2, <1>3, <1>4

LEMMA InvalidateEntityAdvances ==
    ASSUME Inv, NEW e \in Entity, InvalidateEntity(e) PROVE GenerationsAdvance
<1> DEFINE entries == [c \in Capability |-> InvalidateAll(capabilities[e][c])]
           entity == Refreshed([entities[e] EXCEPT !.invalidated = TRUE], entries)
<1>1. AllGrown(capabilities[e], entries)
  BY InvTypes, OperationsGrow DEF Numbered, AllGrown, InvalidateAll
<1>2. /\ entity.known = entities[e].known /\ entity.generation = entities[e].generation
      /\ entity.setGeneration = entities[e].setGeneration /\ entity.hasSet = entities[e].hasSet
  BY InvTypes DEF Refreshed, EntityState
<1>3. /\ capabilities' = [capabilities EXCEPT ![e] = entries]
      /\ entities' = [entities EXCEPT ![e] = entity]
      /\ registryGeneration' >= registryGeneration /\ epoch' = epoch
  BY InvTypes DEF InvalidateEntity, Resolve
<1> HIDE DEF entries, entity
<1>4. EntityAdvances(e, entity, entries)
  BY <1>1, <1>2, InvTypes DEF EntityAdvances, AllGrown, Grown
<1> QED
  BY <1>3, <1>4, EntityStepAdvances

LEMMA ObserveAdvances ==
    ASSUME Inv, NEW e \in Entity, NEW g \in EntityGenerations, ObserveEntityGeneration(e, g)
    PROVE  GenerationsAdvance
<1>1. g \in Nat /\ entities[e] \in EntityState
  BY InvTypes, RegistryAssumption
<1>2. CASE /\ ~entities[e].known
           /\ entities' = [entities EXCEPT ![e] = NewEntity(g)]
           /\ UNCHANGED <<registryGeneration, capabilities>>
  <2>1. capabilities' = [capabilities EXCEPT ![e] = capabilities[e]]
    BY <1>2, InvTypes
  <2>2. EntityAdvances(e, NewEntity(g), capabilities[e])
    BY <1>2 DEF EntityAdvances
  <2>3. epoch' = epoch /\ registryGeneration' >= registryGeneration
    BY <1>2, InvTypes DEF ObserveEntityGeneration
  <2> QED
    BY <1>2, <2>1, <2>2, <2>3, EntityStepAdvances
<1>3. CASE /\ entities[e].generation < g
           /\ entities' = [entities EXCEPT ![e] = RetireGeneration(@, g)]
           /\ capabilities' = [capabilities EXCEPT ![e] = NoCapabilities]
           /\ registryGeneration' = registryGeneration + 1
  <2> DEFINE entity == RetireGeneration(entities[e], g)
  <2>1. entity.generation = g /\ entity.known
    BY <1>1, RetireGenerationType
  <2>2. entities' = [entities EXCEPT ![e] = entity]
    BY <1>3
  <2> HIDE DEF entity
  <2>3. EntityAdvances(e, entity, NoCapabilities)
    BY <1>1, <1>3, <2>1, InvTypes DEF EntityAdvances
  <2>4. epoch' = epoch /\ registryGeneration' >= registryGeneration
    BY <1>3, InvTypes DEF ObserveEntityGeneration
  <2> QED
    BY <1>3, <2>2, <2>3, <2>4, EntityStepAdvances
<1> QED
  BY <1>2, <1>3 DEF ObserveEntityGeneration

\* Step 6 of Publish leaves a known entity as it is or moves it to a newer
\* generation.
LEMMA EntityAtAdvances ==
    ASSUME Inv, NEW q \in Requests, Located(q)
    PROVE  /\ q.entity \in Entity /\ q.generation \in Nat /\ q.expected \in Nat
           /\ EntityAt(q) \in EntityState /\ EntityAt(q).known
           /\ EntityAt(q).generation = q.generation
           /\ GenerationAt(q) \in Nat /\ GenerationAt(q) >= registryGeneration
           /\ EntriesAt(q) \in [Capability -> Entry]
           /\ \/ ~entities[q.entity].known /\ ~EntityAt(q).materialised
              \/ entities[q.entity].generation < q.generation /\ ~EntityAt(q).materialised
              \/ /\ entities[q.entity].known
                 /\ EntityAt(q) = entities[q.entity]
                 /\ EntriesAt(q) = capabilities[q.entity]
                 /\ GenerationAt(q) = registryGeneration
<1>1. /\ q \in Request /\ q.entity \in Entity /\ q.generation \in Nat /\ q.expected \in Nat
  BY RegistryAssumption DEF Request
<1>2. /\ EntityAt(q) \in EntityState /\ EntityAt(q).known /\ EntityAt(q).generation = q.generation
      /\ GenerationAt(q) \in Nat /\ EntriesAt(q) \in [Capability -> Entry]
  BY ArrivalOK DEF EntriesOK
<1>3. GenerationAt(q) >= registryGeneration
  BY InvTypes DEF GenerationAt
<1>4. CASE ~entities[q.entity].known
  BY <1>1, <1>2, <1>3, <1>4 DEF EntityAt, NewEntity
<1>5. CASE Newer(q)
  <2>1. EntityAt(q) = RetireGeneration(entities[q.entity], q.generation)
    BY <1>5 DEF EntityAt, Newer
  <2>2. ~EntityAt(q).materialised
    BY <2>1 DEF RetireGeneration, NewEntity
  <2> QED
    BY <1>1, <1>2, <1>3, <1>5, <2>2, InvTypes DEF Newer
<1>6. CASE entities[q.entity].known /\ ~Newer(q)
  BY <1>1, <1>2, <1>3, <1>6 DEF EntityAt, EntriesAt, GenerationAt
<1> QED
  BY <1>4, <1>5, <1>6

\* What is left of the entity after the steps of Publish.
LEMMA SettledAdvances ==
    ASSUME Inv, NEW q \in Requests, Located(q),
           NEW entity, NEW entries,
           entity.known, entity.generation = q.generation,
           entity.setGeneration >= EntityAt(q).setGeneration,
           EntityAt(q).hasSet => entity.hasSet,
           AllGrown(EntriesAt(q), entries),
           entities' = [entities EXCEPT ![q.entity] = entity],
           capabilities' = [capabilities EXCEPT ![q.entity] = entries],
           epoch' = epoch, registryGeneration' >= registryGeneration
    PROVE  GenerationsAdvance
<1>1. EntityAdvances(q.entity, entity, entries)
  BY EntityAtAdvances, InvTypes DEF EntityAdvances, AllGrown, Grown
<1> QED
  BY <1>1, EntityAtAdvances, EntityStepAdvances

\* Publish, answered from the replay cache or rejected by steps 7 to 9.
LEMMA ArriveAdvances ==
    ASSUME Inv, NEW q \in Requests, Located(q), Arrive(q) PROVE GenerationsAdvance
<1>1. AllGrown(EntriesAt(q), EntriesAt(q))
  BY EntityAtAdvances DEF AllGrown, Grown, Entry
<1>2. EntityAt(q).setGeneration >= EntityAt(q).setGeneration
  BY EntityAtAdvances DEF EntityState
<1>3. /\ entities' = [entities EXCEPT ![q.entity] = EntityAt(q)]
      /\ capabilities' = [capabilities EXCEPT ![q.entity] = EntriesAt(q)]
      /\ registryGeneration' >= registryGeneration /\ epoch' = epoch
  BY EntityAtAdvances DEF Arrive
<1> QED
  BY <1>1, <1>2, <1>3, EntityAtAdvances, SettledAdvances

\* What Settle leaves in the entries.
LEMMA SettleEntries ==
    ASSUME NEW q, NEW e0, NEW e1, NEW e2, NEW e3, NEW e4, Settle(q, e0, e1, e2, e3, e4)
    PROVE  capabilities' = [capabilities EXCEPT ![q.entity] = e4]
BY DEF Settle

\* Publish, stopped by a limit in step 10.
LEMMA StoppedAdvances ==
    ASSUME Inv, NEW q \in Requests, PublishStopped(q) PROVE GenerationsAdvance
<1> DEFINE stamp == StampOf(q)
           e0 == EntriesAt(q)
           e1 == ApplyLines(e0, stamp, q.before, Named(q.before))
           e2 == OthersSuperseded(q, e1)
           e3 == OwnSuperseded(q, e2)
           lines == LastLines(q)
<1>1. Admitted(q) /\ Located(q)
  BY DEF PublishStopped, Applicable
<1>2. /\ e0 \in [Capability -> Entry] /\ Numbered(e0)
      /\ EntityAt(q).known /\ EntityAt(q).generation = q.generation
      /\ EntityAt(q).setGeneration >= EntityAt(q).setGeneration
  BY <1>1, EntityAtAdvances DEF Numbered, Entry, EntityState
<1>3. /\ entities' = [entities EXCEPT ![q.entity] = EntityAt(q)]
      /\ registryGeneration' >= registryGeneration /\ epoch' = epoch
  BY <1>1, EntityAtAdvances DEF PublishStopped
<1>4. Named(q.before) \subseteq Capability /\ Named(lines) \subseteq Capability
  BY DEF Named
<1>5. \/ \E done \in SUBSET Named(q.before) : \E c \in Named(q.before) :
             LET x == Stopped(e0, stamp, q.before, done, c)
             IN  Settle(q, e0, x, x, x, x)
      \/ /\ LinesFit(e0, stamp, q.before, Named(q.before))
         /\ \E done \in SUBSET Named(lines) : \E c \in Named(lines) :
               Settle(q, e0, e1, e2, e3, Stopped(e3, stamp, lines, done, c))
  BY DEF PublishStopped
<1>6. SUFFICES \E x : /\ AllGrown(e0, x)
                      /\ capabilities' = [capabilities EXCEPT ![q.entity] = x]
  BY <1>1, <1>2, <1>3, SettledAdvances
<1>7. CASE \E done \in SUBSET Named(q.before) : \E c \in Named(q.before) :
             LET x == Stopped(e0, stamp, q.before, done, c)
             IN  Settle(q, e0, x, x, x, x)
  <2>1. PICK done \in SUBSET Named(q.before), c \in Named(q.before) :
             LET x == Stopped(e0, stamp, q.before, done, c)
             IN  Settle(q, e0, x, x, x, x)
    BY <1>7
  <2> DEFINE x == Stopped(e0, stamp, q.before, done, c)
  <2> HIDE DEF e0, stamp
  <2>2. AllGrown(e0, x)
    BY <1>2, <1>4, StoppedGrows
  <2>3. capabilities' = [capabilities EXCEPT ![q.entity] = x]
    BY <2>1, SettleEntries
  <2> QED
    BY <2>2, <2>3
<1>8. CASE /\ LinesFit(e0, stamp, q.before, Named(q.before))
           /\ \E done \in SUBSET Named(lines) : \E c \in Named(lines) :
                 Settle(q, e0, e1, e2, e3, Stopped(e3, stamp, lines, done, c))
  <2>1. e3 \in [Capability -> Entry]
    BY <1>1, <1>8, StagesOK DEF EntriesOK
  <2>2. PICK done \in SUBSET Named(lines), c \in Named(lines) :
                 Settle(q, e0, e1, e2, e3, Stopped(e3, stamp, lines, done, c))
    BY <1>8
  <2>3. AllGrown(e0, e1) /\ Numbered(e1)
    <3> HIDE DEF e0, stamp
    <3>1. AllGrown(e0, e1)
      BY <1>2, StagesGrow
    <3> HIDE DEF e1
    <3> QED
      BY <3>1 DEF AllGrown, Grown, Numbered
  <2> HIDE DEF e0, stamp, e1
  <2>4. AllGrown(e0, e2) /\ Numbered(e2)
    <3>1. AllGrown(e1, e2)
      BY <2>3, StagesGrow
    <3> QED
      BY <1>2, <2>3, <3>1, GrownTransitive
  <2> HIDE DEF e2
  <2>5. AllGrown(e0, e3)
    <3>1. AllGrown(e2, e3)
      BY <2>4, StagesGrow
    <3> QED
      BY <1>2, <2>4, <3>1, GrownTransitive
  <2> HIDE DEF e3, lines
  <2> DEFINE x == Stopped(e3, stamp, lines, done, c)
  <2>6. AllGrown(e3, x)
    BY <1>4, <2>1, StoppedGrows
  <2>7. capabilities' = [capabilities EXCEPT ![q.entity] = x]
    BY <2>2, SettleEntries
  <2> HIDE DEF x
  <2> QED
    BY <1>2, <2>5, <2>6, <2>7, GrownTransitive
<1> QED
  BY <1>5, <1>7, <1>8

\* Publish, committed.
LEMMA CommittedAdvances ==
    ASSUME Inv, NEW q \in Requests, PublishCommitted(q)
    PROVE  /\ GenerationsAdvance
           /\ Located(q) /\ PreconditionsHold(q)
           /\ \E changed \in BOOLEAN :
                 /\ changed \/ EntityAt(q).materialised
                 /\ entities'[q.entity].known
                 /\ entities'[q.entity].generation = q.generation
                 /\ entities'[q.entity].hasSet
                 /\ entities'[q.entity].setGeneration =
                       IF changed THEN EntityAt(q).setGeneration + 1 ELSE EntityAt(q).setGeneration
<1> DEFINE stamp == StampOf(q)
           e0 == EntriesAt(q)
           e1 == ApplyLines(e0, stamp, q.before, Named(q.before))
           e2 == OthersSuperseded(q, e1)
           e3 == OwnSuperseded(q, e2)
           lines == LastLines(q)
           e4 == ApplyLines(e3, stamp, lines, Named(lines))
           changed == ~EntityAt(q).materialised \/ EntityAt(q).set # Materialize(e4)
           entity == CommittedEntity(q, EntityAt(q), e4, changed)
<1>1. /\ Located(q) /\ PreconditionsHold(q)
      /\ Settle(q, e0, e1, e2, e3, e4)
      /\ entities' = [entities EXCEPT ![q.entity] = entity]
      /\ registryGeneration' = IF changed THEN GenerationAt(q) + 1 ELSE GenerationAt(q)
      /\ epoch' = epoch
  BY DEF PublishCommitted, Applicable
<1>2. /\ e0 \in [Capability -> Entry] /\ Numbered(e0)
      /\ EntityAt(q) \in EntityState /\ EntityAt(q).setGeneration \in Nat
      /\ EntityAt(q).known /\ EntityAt(q).generation = q.generation
  BY <1>1, EntityAtAdvances DEF Numbered, Entry, EntityState
<1>3. capabilities' = [capabilities EXCEPT ![q.entity] = e4]
  BY <1>1, SettleEntries
<1>4. changed \in BOOLEAN /\ (changed \/ EntityAt(q).materialised)
  OBVIOUS
<1>5. AllGrown(e0, e4)
  <2> HIDE DEF e0, stamp
  <2>1. AllGrown(e0, e1) /\ Numbered(e1)
    <3>1. AllGrown(e0, e1)
      BY <1>2, StagesGrow
    <3> HIDE DEF e1
    <3> QED
      BY <3>1 DEF AllGrown, Grown, Numbered
  <2> HIDE DEF e1
  <2>2. AllGrown(e0, e2) /\ Numbered(e2)
    <3>1. AllGrown(e1, e2)
      BY <2>1, StagesGrow
    <3> QED
      BY <1>2, <2>1, <3>1, GrownTransitive
  <2> HIDE DEF e2
  <2>3. AllGrown(e0, e3) /\ Numbered(e3)
    <3>1. AllGrown(e2, e3)
      BY <2>2, StagesGrow
    <3> QED
      BY <1>2, <2>2, <3>1, GrownTransitive
  <2> HIDE DEF e3, lines
  <2>4. AllGrown(e3, e4)
    BY <2>3, StagesGrow
  <2> QED
    BY <1>2, <2>3, <2>4, GrownTransitive
<1> HIDE DEF e0, e4, changed
<1>6. /\ entity.known /\ entity.generation = q.generation /\ entity.hasSet
      /\ entity.setGeneration =
            IF changed THEN EntityAt(q).setGeneration + 1 ELSE EntityAt(q).setGeneration
  BY <1>2, <1>4 DEF CommittedEntity, EntityState
<1> HIDE DEF entity
<1>7. entity.setGeneration >= EntityAt(q).setGeneration
  BY <1>2, <1>6
<1>8. registryGeneration' >= registryGeneration
  BY <1>1, EntityAtAdvances, InvTypes
<1>9. GenerationsAdvance
  BY <1>1, <1>3, <1>5, <1>6, <1>7, <1>8, SettledAdvances DEF e0
<1>10. entities'[q.entity] = entity
  BY <1>1, EntityAtAdvances, InvTypes
<1> QED
  BY <1>1, <1>4, <1>6, <1>9, <1>10

LEMMA PublishAdvances ==
    ASSUME Inv, NEW q \in Requests, Publish(q) PROVE GenerationsAdvance
<1>1. CASE PublishRefused(q)
  BY <1>1, NothingMoves DEF PublishRefused
<1>2. CASE PublishReplayed(q) \/ PublishHalted(q)
  BY <1>2, ArriveAdvances DEF PublishReplayed, PublishHalted
<1>3. CASE PublishStopped(q)
  BY <1>3, StoppedAdvances
<1>4. CASE PublishCommitted(q)
  BY <1>4, CommittedAdvances
<1> QED
  BY <1>1, <1>2, <1>3, <1>4 DEF Publish

-----------------------------------------------------------------------------
(* Every step of a running registry.                                       *)

LEMMA StepAdvances ==
    Inv /\ [NextInMemory]_vars => GenerationsAdvance
<1> SUFFICES ASSUME Inv, [NextInMemory]_vars PROVE GenerationsAdvance
  OBVIOUS
<1>1. CASE UNCHANGED vars
  BY <1>1, NothingMoves DEF vars
<1>2. CASE \/ AdvanceCoordinatorEpoch
           \/ \E b \in Boot : FenceWorkerBoot(b)
           \/ \E s \in Source : InvalidateSource(s)
  BY <1>2, WeakeningAdvances
<1>3. CASE \E g \in Grants : DeclareAuthority(g)
  BY <1>3, NothingMoves DEF DeclareAuthority
<1>4. CASE \E w \in Workers : RegisterPublisher(w.publisher, w.scope, w.boot)
  BY <1>4, NothingMoves DEF RegisterPublisher
<1>5. CASE \E w \in Workers : RetirePublisher(w.publisher, w.boot)
  BY <1>5, NothingMoves DEF RetirePublisher
<1>6. CASE \E e \in Entity, g \in EntityGenerations : ObserveEntityGeneration(e, g)
  BY <1>6, ObserveAdvances
<1>7. CASE \E e \in Entity : InvalidateEntity(e)
  BY <1>7, InvalidateEntityAdvances
<1>8. CASE \E q \in Requests : Publish(q)
  BY <1>8, PublishAdvances
<1> QED
  BY <1>1, <1>2, <1>3, <1>4, <1>5, <1>6, <1>7, <1>8 DEF NextInMemory

\* A registry that is never loaded is a registry.
LEMMA InvarianceInMemory == SpecInMemory => []Inv
<1>1. Init => Inv
  BY InitInv
<1>2. Inv /\ [NextInMemory]_vars => Inv'
  BY NextInv DEF Next
<1> QED
  BY <1>1, <1>2, PTL DEF SpecInMemory

\* What consumers order their reads by never runs backwards, for any number
\* of entities, publishers and requests and any limits: not the epoch or the
\* registry generation, not an entity generation, not a set or capability
\* generation within one entity generation.
THEOREM GenerationsNeverFall == SpecInMemory => GenerationsMonotone
<1>1. Inv /\ [NextInMemory]_vars => [GenerationsAdvance]_vars
  BY StepAdvances
<1> QED
  BY <1>1, InvarianceInMemory, PTL DEF SpecInMemory, GenerationsMonotone

-----------------------------------------------------------------------------
(* Retries.                                                                *)

\* A spent request stays spent: the generations it lags behind only advance.
LEMMA SpentStaysSpent ==
    ASSUME Inv, GenerationsAdvance, TypeOK', NEW q \in Requests, Spent(q)
    PROVE  Spent(q)'
<1>1. q.entity \in Entity /\ q.generation \in Nat /\ q.expected \in Nat
  BY RegistryAssumption DEF Request
<1>2. /\ entities[q.entity].generation \in Nat /\ entities[q.entity].setGeneration \in Nat
  BY <1>1, InvTypes
<1>3. /\ entities'[q.entity].generation \in Nat /\ entities'[q.entity].setGeneration \in Nat
  BY <1>1 DEF TypeOK, EntityState
<1> QED
  BY <1>1, <1>2, <1>3 DEF Spent, GenerationsAdvance

\* A spent request is never applied: step 6 or step 9 refuses it.
LEMMA SpentNotApplied ==
    ASSUME Inv, NEW q \in Requests, Spent(q) PROVE ~PublishCommitted(q)
<1> SUFFICES ASSUME Located(q), PreconditionsHold(q) PROVE FALSE
  BY DEF PublishCommitted, Applicable
<1>1. /\ q.entity \in Entity /\ q.generation \in Nat /\ q.expected \in Nat
      /\ entities[q.entity].generation \in Nat /\ entities[q.entity].setGeneration \in Nat
  BY EntityAtAdvances, InvTypes
<1>2. EntityAt(q) = entities[q.entity] /\ q.generation = entities[q.entity].generation
  BY <1>1 DEF Spent, Located, EntityAt, Newer
<1> QED
  BY <1>1, <1>2 DEF Spent, PreconditionsHold

\* A commit that moves the set generation spends its request.
LEMMA CommitSpends ==
    ASSUME Inv, NEW q \in Requests, PublishCommitted(q),
           entities'[q.entity].setGeneration # entities[q.entity].setGeneration
    PROVE  Spent(q)'
<1>1. /\ Located(q) /\ PreconditionsHold(q)
      /\ q.expected \in Nat /\ EntityAt(q).setGeneration \in Nat
  BY CommittedAdvances, EntityAtAdvances DEF EntityState
<1>2. PICK changed \in BOOLEAN :
         /\ changed \/ EntityAt(q).materialised
         /\ entities'[q.entity].known
         /\ entities'[q.entity].generation = q.generation
         /\ entities'[q.entity].hasSet
         /\ entities'[q.entity].setGeneration =
               IF changed THEN EntityAt(q).setGeneration + 1 ELSE EntityAt(q).setGeneration
  BY CommittedAdvances
<1>3. changed
  BY <1>1, <1>2, EntityAtAdvances
<1>4. q.expected < entities'[q.entity].setGeneration
  BY <1>1, <1>2, <1>3 DEF PreconditionsHold
<1> QED
  BY <1>2, <1>4 DEF Spent

\* A retry is never applied twice, whatever became of the replay cache in
\* between (a registration again, an eviction, an epoch), for any number of
\* publishers and any cache size.
THEOREM RetriesAppliedOnce == SpecInMemory => AppliedAtMostOnce
<1> DEFINE A == \A q \in Requests :
                  /\ Spent(q) => Spent(q)' /\ ~PublishCommitted(q)
                  /\ /\ PublishCommitted(q)
                     /\ entities'[q.entity].setGeneration # entities[q.entity].setGeneration
                     => Spent(q)'
<1>1. Inv /\ Inv' /\ [NextInMemory]_vars => [A]_vars
  <2> SUFFICES ASSUME Inv, Inv', [NextInMemory]_vars, NEW q \in Requests
               PROVE  /\ Spent(q) => Spent(q)' /\ ~PublishCommitted(q)
                      /\ /\ PublishCommitted(q)
                         /\ entities'[q.entity].setGeneration # entities[q.entity].setGeneration
                         => Spent(q)'
    OBVIOUS
  <2>1. GenerationsAdvance /\ TypeOK'
    BY StepAdvances DEF Inv
  <2>2. Spent(q) => Spent(q)'
    BY <2>1, SpentStaysSpent
  <2>3. Spent(q) => ~PublishCommitted(q)
    BY SpentNotApplied
  <2>4. /\ PublishCommitted(q)
        /\ entities'[q.entity].setGeneration # entities[q.entity].setGeneration
        => Spent(q)'
    BY CommitSpends
  <2> QED
    BY <2>2, <2>3, <2>4
<1>2. AppliedAtMostOnce <=> [][A]_vars
  BY DEF AppliedAtMostOnce
<1> QED
  BY <1>1, <1>2, InvarianceInMemory, PTL DEF SpecInMemory

-----------------------------------------------------------------------------
(* Replays.                                                                *)

\* The entity has reached the generation the content speaks of.
Reached(content, states) ==
    /\ states[content.entity].known
    /\ content.generation <= states[content.entity].generation

\* The replay cache remembers only what was applied.
ReplayOK ==
    \A k \in RegisteredKeys : \A i \in DOMAIN publishers[k].replay :
        Reached(publishers[k].replay[i].content, entities)

\* The replay log of a registered publishing instance.
LEMMA LogType ==
    ASSUME Inv, NEW k \in RegisteredKeys
    PROVE  /\ k \in PublisherKey
           /\ publishers[k].replay \in Seq(ReplayRecord)
           /\ \A i \in DOMAIN publishers[k].replay : publishers[k].replay[i].content \in Content
<1>1. k \in PublisherKey /\ publishers[k] \in PublisherRuntime
  BY InvTypes DEF RegisteredKeys
<1>2. publishers[k].replay \in Seq(ReplayRecord)
  BY <1>1 DEF PublisherRuntime
<1>3. \A i \in DOMAIN publishers[k].replay : publishers[k].replay[i] \in ReplayRecord
  BY <1>2
<1> QED
  BY <1>1, <1>2, <1>3 DEF ReplayRecord

\* What an entity has reached it does not fall behind.
LEMMA ReachedStays ==
    ASSUME Inv, TypeOK', GenerationsAdvance, NEW content \in Content, Reached(content, entities)
    PROVE  Reached(content, entities')
<1>1. content.entity \in Entity /\ content.generation \in Nat
  BY DEF Content
<1>2. entities[content.entity].generation \in Nat /\ entities'[content.entity].generation \in Nat
  BY <1>1, InvTypes DEF TypeOK, EntityState
<1> QED
  BY <1>1, <1>2 DEF Reached, GenerationsAdvance

\* Logs that a step leaves alone, drops or starts anew.
LEMMA LogsKept ==
    ASSUME Inv, TypeOK', GenerationsAdvance, ReplayOK,
           \A k \in PublisherKey :
              \/ publishers'[k] = NoRegistration
              \/ publishers'[k].replay = <<>>
              \/ k \in RegisteredKeys /\ publishers'[k].replay = publishers[k].replay
    PROVE  ReplayOK'
<1>1. SUFFICES ASSUME NEW k \in PublisherKey, publishers'[k] # NoRegistration,
                      NEW i \in DOMAIN publishers'[k].replay
               PROVE  Reached(publishers'[k].replay[i].content, entities')
  BY DEF ReplayOK, RegisteredKeys
<1>2. k \in RegisteredKeys /\ publishers'[k].replay = publishers[k].replay
  BY <1>1
<1>3. /\ Reached(publishers[k].replay[i].content, entities)
      /\ publishers[k].replay[i].content \in Content
  BY <1>2, LogType DEF ReplayOK
<1> QED
  BY <1>2, <1>3, ReachedStays

\* A commit remembers its own request, of the generation the entity is now in.
LEMMA CommitRemembers ==
    ASSUME Inv, TypeOK', GenerationsAdvance, ReplayOK,
           NEW q \in Requests, PublishCommitted(q)
    PROVE  ReplayOK'
<1> DEFINE key == <<q.publisher, q.boot>>
           log == publishers[key].replay
           kept == IF Len(log) >= MaxReplay THEN Tail(log) ELSE log
           record == [attempt |-> q.attempt, content |-> ContentOf(q)]
<1>1. Admitted(q) /\ RegisterReplay(q)
  BY DEF PublishCommitted, Applicable
<1>2. key \in RegisteredKeys
  BY <1>1 DEF Admitted, Registered
<1>3. key \in PublisherKey /\ log \in Seq(ReplayRecord) /\ publishers[key] \in PublisherRuntime
  BY <1>1, <1>2, LogType, AdmittedOK
<1>4. publishers' = [publishers EXCEPT ![key].replay = Append(kept, record)]
  BY <1>1 DEF RegisterReplay
<1>5. /\ entities'[q.entity].known /\ entities'[q.entity].generation = q.generation
      /\ q.generation \in Nat
  BY CommittedAdvances, EntityAtAdvances
<1>6. Reached(record.content, entities')
  BY <1>5 DEF Reached, ContentOf
<1>7. \A i \in DOMAIN log : Reached(log[i].content, entities')
  BY <1>2, LogType, ReachedStays DEF ReplayOK
<1> HIDE DEF log, record
<1>8. kept \in Seq(ReplayRecord) /\ \A i \in DOMAIN kept : Reached(kept[i].content, entities')
  <2>1. CASE Len(log) >= MaxReplay
    <3>1. kept = Tail(log) /\ log # <<>>
      BY <1>3, <2>1, RegistryAssumption
    <3>2. kept \in Seq(ReplayRecord) /\ \A i \in 1..Len(kept) : kept[i] = log[i + 1] /\ i + 1 \in DOMAIN log
      BY <1>3, <3>1
    <3> QED
      BY <1>7, <3>2
  <2>2. CASE ~(Len(log) >= MaxReplay)
    BY <1>3, <1>7, <2>2
  <2> QED
    BY <2>1, <2>2
<1> HIDE DEF kept
<1>9. \A i \in DOMAIN Append(kept, record) : Reached(Append(kept, record)[i].content, entities')
  BY <1>6, <1>8
<1> HIDE DEF key
<1>10. \A k \in PublisherKey :
          IF k = key THEN publishers'[k].replay = Append(kept, record)
          ELSE publishers'[k] = publishers[k]
  BY <1>3, <1>4, InvTypes DEF PublisherRuntime
<1>11. \A k \in PublisherKey : publishers'[k] # NoRegistration =>
          \A i \in DOMAIN publishers'[k].replay :
             Reached(publishers'[k].replay[i].content, entities')
  <2> SUFFICES ASSUME NEW k \in PublisherKey, publishers'[k] # NoRegistration,
                      NEW i \in DOMAIN publishers'[k].replay
               PROVE  Reached(publishers'[k].replay[i].content, entities')
    OBVIOUS
  <2>1. CASE k = key
    BY <1>9, <1>10, <2>1
  <2>2. CASE k # key
    <3>1. publishers'[k] = publishers[k] /\ k \in RegisteredKeys
      BY <1>10, <2>2 DEF RegisteredKeys
    <3> QED
      BY <3>1, LogType, ReachedStays DEF ReplayOK
  <2> QED
    BY <2>1, <2>2
<1> QED
  BY <1>11 DEF ReplayOK, RegisteredKeys

\* What any step but a commit makes of the logs.
LEMMA LogsElsewhere ==
    ASSUME Inv, [NextInMemory]_vars, \A q \in Requests : ~PublishCommitted(q),
           NEW k \in PublisherKey
    PROVE  \/ publishers'[k] = NoRegistration
           \/ publishers'[k].replay = <<>>
           \/ k \in RegisteredKeys /\ publishers'[k].replay = publishers[k].replay
<1>1. publishers \in [PublisherKey -> PublisherRuntime \cup {NoRegistration}]
  BY InvTypes
<1>2. CASE UNCHANGED publishers
  BY <1>2 DEF RegisteredKeys
<1>3. CASE AdvanceCoordinatorEpoch
  BY <1>3 DEF AdvanceCoordinatorEpoch
<1>4. ASSUME NEW w \in Workers, RegisterPublisher(w.publisher, w.scope, w.boot)
      PROVE  publishers'[k] = publishers[k] \/ publishers'[k].replay = <<>>
  BY <1>1, <1>4 DEF RegisterPublisher
<1>5. ASSUME NEW w \in Workers, RetirePublisher(w.publisher, w.boot)
      PROVE  publishers'[k] = publishers[k]
             \/ (k \in RegisteredKeys /\ publishers'[k].replay = publishers[k].replay)
  <2>1. CASE k = <<w.publisher, w.boot>>
    <3>1. k \in RegisteredKeys /\ publishers[k] \in PublisherRuntime
      BY <1>1, <1>5, <2>1 DEF RetirePublisher, RegisteredKeys
    <3>2. publishers'[k] = [publishers[k] EXCEPT !.active = FALSE]
      BY <1>1, <1>5, <2>1 DEF RetirePublisher
    <3> QED
      BY <3>1, <3>2 DEF PublisherRuntime
  <2>2. CASE k # <<w.publisher, w.boot>>
    BY <1>1, <1>5, <2>2 DEF RetirePublisher
  <2> QED
    BY <2>1, <2>2
<1>6. ASSUME NEW b \in Boot, FenceWorkerBoot(b)
      PROVE  publishers'[k] = publishers[k] \/ publishers'[k] = NoRegistration
  <2>1. \/ UNCHANGED publishers
        \/ \E j \in RegisteredKeys : publishers' = [publishers EXCEPT ![j] = NoRegistration]
    BY <1>6 DEF FenceWorkerBoot, DropOnePublisher
  <2> QED
    BY <1>1, <2>1 DEF RegisteredKeys
<1>7. \/ UNCHANGED publishers
      \/ AdvanceCoordinatorEpoch
      \/ \E w \in Workers : RegisterPublisher(w.publisher, w.scope, w.boot)
      \/ \E w \in Workers : RetirePublisher(w.publisher, w.boot)
      \/ \E b \in Boot : FenceWorkerBoot(b)
  BY DEF NextInMemory, vars, DeclareAuthority, ObserveEntityGeneration, InvalidateEntity,
         InvalidateSource, Publish, PublishRefused, PublishReplayed, PublishHalted,
         PublishStopped, Arrive
<1>8. publishers'[k] = publishers[k] =>
        publishers'[k] = NoRegistration
        \/ (k \in RegisteredKeys /\ publishers'[k].replay = publishers[k].replay)
  BY DEF RegisteredKeys
<1> QED
  BY <1>2, <1>3, <1>4, <1>5, <1>6, <1>7, <1>8

LEMMA ReplayInv == Inv /\ Inv' /\ ReplayOK /\ [NextInMemory]_vars => ReplayOK'
<1> SUFFICES ASSUME Inv, Inv', ReplayOK, [NextInMemory]_vars PROVE ReplayOK'
  OBVIOUS
<1>1. GenerationsAdvance /\ TypeOK'
  BY StepAdvances DEF Inv
<1>2. CASE \E q \in Requests : PublishCommitted(q)
  BY <1>1, <1>2, CommitRemembers
<1>3. CASE \A q \in Requests : ~PublishCommitted(q)
  BY <1>1, <1>3, LogsElsewhere, LogsKept
<1> QED
  BY <1>2, <1>3

\* The replayed content is of the generation the entity is in, so step 6,
\* which comes first, finds nothing to do.
LEMMA ReplayedIsInert ==
    ASSUME Inv, ReplayOK, NEW q \in Requests, PublishReplayed(q)
    PROVE  UNCHANGED <<epoch, registryGeneration, authorities, publishers, fences,
                       entities, capabilities, reverse, revalidation>>
<1> DEFINE key == <<q.publisher, q.boot>>
           log == publishers[key].replay
<1>1. Admitted(q) /\ Located(q) /\ Replayed(q) /\ Arrive(q)
  BY DEF PublishReplayed
<1>2. key \in RegisteredKeys
  BY <1>1 DEF Admitted, Registered
<1>3. log \in Seq(ReplayRecord) /\ log # <<>> /\ log[Len(log)].content = ContentOf(q)
  BY <1>1, <1>2, LogType DEF Replayed, ReplayLog
<1>4. Len(log) \in DOMAIN log
  BY <1>3
<1>5. Reached(ContentOf(q), entities)
  BY <1>2, <1>3, <1>4 DEF ReplayOK
<1>6. entities[q.entity].known /\ q.generation <= entities[q.entity].generation
  BY <1>5 DEF Reached, ContentOf
<1>7. /\ q.entity \in Entity /\ q.generation \in Nat
      /\ entities[q.entity].generation \in Nat
  BY <1>1, EntityAtAdvances, InvTypes
<1>8. ~Newer(q)
  BY <1>6, <1>7 DEF Newer
<1>9. /\ EntityAt(q) = entities[q.entity] /\ EntriesAt(q) = capabilities[q.entity]
      /\ GenerationAt(q) = registryGeneration
  BY <1>6, <1>8 DEF EntityAt, EntriesAt, GenerationAt
<1> QED
  BY <1>1, <1>7, <1>9, InvTypes DEF Arrive

\* An exact replay is answered without touching anything, although step 6 of
\* Publish comes before the replay is recognised: the cache remembers only
\* content whose generation the entity has reached.
THEOREM ReplaysChangeNothing == SpecInMemory => ReplayIsInert
<1> DEFINE A == \A q \in Requests : PublishReplayed(q) =>
                  UNCHANGED <<epoch, registryGeneration, authorities, publishers, fences,
                              entities, capabilities, reverse, revalidation>>
<1>1. Init => ReplayOK
  BY DEF Init, ReplayOK, RegisteredKeys
<1>2. Inv /\ Inv' /\ ReplayOK /\ [NextInMemory]_vars => ReplayOK'
  BY ReplayInv
<1>3. Inv /\ ReplayOK => A
  BY ReplayedIsInert
<1>4. ReplayIsInert <=> [][A]_vars
  BY DEF ReplayIsInert
<1> QED
  BY <1>1, <1>2, <1>3, <1>4, InvarianceInMemory, PTL DEF SpecInMemory

-----------------------------------------------------------------------------
(* Evidence.                                                               *)

\* OneLiveRecordPerIdentity and EvidenceKeyUnique of one capability.
Unique(E) ==
    /\ \A r, q \in Live(E) : Owns(r, q) => r = q
    /\ \A r, q \in E : Owns(r, q) /\ r.generation = q.generation => r = q

\* q is what became of r.
Became(r, q) ==
    /\ q.source = r.source /\ q.boot = r.boot /\ q.generation = r.generation
    /\ IsLive(q) => IsLive(r)

\* Each record of F is what became of a record of E, of another one for each.
Descends(E, F) ==
    \A q1, q2 \in F : \E r1, r2 \in E : Became(r1, q1) /\ Became(r2, q2) /\ (r1 = r2 => q1 = q2)

\* Records that descend one to one from unique ones are unique.
LEMMA DescendsUnique ==
    ASSUME NEW E, NEW F, Unique(E), Descends(E, F) PROVE Unique(F)
<1>1. ASSUME NEW q1 \in F, NEW q2 \in F, Owns(q1, q2),
             (IsLive(q1) /\ IsLive(q2)) \/ q1.generation = q2.generation
      PROVE  q1 = q2
  <2>1. PICK r1 \in E, r2 \in E : Became(r1, q1) /\ Became(r2, q2) /\ (r1 = r2 => q1 = q2)
    BY DEF Descends
  <2>2. Owns(r1, r2)
    BY <1>1, <2>1 DEF Became, Owns
  <2>3. (IsLive(r1) /\ IsLive(r2)) \/ r1.generation = r2.generation
    BY <1>1, <2>1 DEF Became
  <2>4. r1 = r2
    BY <2>2, <2>3 DEF Unique, Live
  <2> QED
    BY <2>1, <2>4
<1> QED
  BY <1>1 DEF Unique, Live

\* Dropping records keeps the rest unique.
LEMMA SubsetUnique ==
    ASSUME NEW E, Unique(E), NEW F, F \subseteq E PROVE Unique(F)
BY DEF Unique, Live

\* Marking changes the currentness of records, and revives none.
LEMMA MarkUnique ==
    ASSUME NEW E, E \subseteq EvidenceRecord, Unique(E), NEW S, S \subseteq E,
           NEW currentness \in Currentness,
           currentness = "Superseded" \/ S \subseteq Live(E)
    PROVE  Unique(Mark(E, S, currentness))
<1> DEFINE Re(r) == [r EXCEPT !.currentness = currentness]
           To(r) == IF r \in S THEN Re(r) ELSE r
<1>1. \A r \in EvidenceRecord :
         /\ Re(r).source = r.source /\ Re(r).boot = r.boot /\ Re(r).generation = r.generation
         /\ Re(r).currentness = currentness
  BY DEF EvidenceRecord
<1>2. \A q \in Mark(E, S, currentness) : \E r \in E : q = To(r)
  BY DEF Mark
<1>3. \A r \in E : Became(r, To(r))
  <2> SUFFICES ASSUME NEW r \in E PROVE Became(r, To(r))
    OBVIOUS
  <2>1. CASE r \in S
    <3>1. currentness # "Superseded" => IsLive(r)
      BY <2>1 DEF Live
    <3> QED
      BY <1>1, <2>1, <3>1 DEF Became, IsLive
  <2>2. CASE r \notin S
    BY <2>2 DEF Became
  <2> QED
    BY <2>1, <2>2
<1> HIDE DEF To
<1>4. Descends(E, Mark(E, S, currentness))
  BY <1>2, <1>3 DEF Descends
<1> QED
  BY <1>4, DescendsUnique

\* The operations that only mark.
LEMMA MarkAndTouchUnique ==
    ASSUME NEW entry, SoundEntry(entry), Unique(entry.evidence),
           NEW S, S \subseteq Live(entry.evidence), NEW currentness \in Currentness
    PROVE  Unique(MarkAndTouch(entry, S, currentness).evidence)
<1>1. entry.evidence \subseteq EvidenceRecord /\ S \subseteq entry.evidence
  BY DEF SoundEntry, Entry, Live
<1>2. Unique(Mark(entry.evidence, S, currentness))
  BY <1>1, MarkUnique
<1> QED
  BY <1>2 DEF MarkAndTouch, Touch

LEMMA SupersedeUnique ==
    ASSUME NEW entry, SoundEntry(entry), Unique(entry.evidence)
    PROVE  /\ \A id : Unique(SupersedeIdentity(entry, id).evidence)
           /\ \A p, b : Unique(SupersedeOtherIdentities(entry, p, b).evidence)
<1>1. "Superseded" \in Currentness
  BY DEF Currentness
<1>2. ASSUME NEW id PROVE Unique(SupersedeIdentity(entry, id).evidence)
  <2>1. OwnLive(entry.evidence, id) \subseteq Live(entry.evidence)
    BY DEF OwnLive, Live
  <2> QED
    BY <1>1, <2>1, MarkAndTouchUnique DEF SupersedeIdentity
<1>3. ASSUME NEW p, NEW b PROVE Unique(SupersedeOtherIdentities(entry, p, b).evidence)
  <2> DEFINE S == {r \in entry.evidence : ~(r.publisher = p /\ r.boot = b) /\ ~r.durable /\ IsLive(r)}
  <2>1. S \subseteq Live(entry.evidence)
    BY DEF Live
  <2>2. SupersedeOtherIdentities(entry, p, b) = MarkAndTouch(entry, S, "Superseded")
    BY DEF SupersedeOtherIdentities
  <2> HIDE DEF S
  <2> QED
    BY <1>1, <2>1, <2>2, MarkAndTouchUnique
<1> QED
  BY <1>2, <1>3

LEMMA MarkNonCurrentUnique ==
    ASSUME NEW entry, SoundEntry(entry), Unique(entry.evidence),
           NEW S, S \subseteq entry.evidence, NEW currentness \in Currentness
    PROVE  Unique(MarkNonCurrent(entry, S, currentness).evidence)
<1> DEFINE T == {r \in S : IsCurrent(r)}
<1>1. T \subseteq Live(entry.evidence)
  BY DEF Live, IsLive, IsCurrent
<1>2. MarkNonCurrent(entry, S, currentness) = MarkAndTouch(entry, T, currentness)
  BY DEF MarkNonCurrent
<1> HIDE DEF T
<1> QED
  BY <1>1, <1>2, MarkAndTouchUnique

\* Before a record is added the identity's own live one is superseded.
LEMMA MakeRoomUnique ==
    ASSUME NEW E, E \subseteq EvidenceRecord, Unique(E), NEW id
    PROVE  Unique(MakeRoom(E, id))
<1> DEFINE M == Mark(E, OwnLive(E, id), "Superseded")
<1>1. "Superseded" \in Currentness /\ OwnLive(E, id) \subseteq E
  BY DEF Currentness, OwnLive
<1>2. Unique(M)
  BY <1>1, MarkUnique
<1>3. MakeRoom(E, id) \subseteq M
  BY DEF MakeRoom, TrimEvidence
<1> HIDE DEF M
<1> QED
  BY <1>2, <1>3, SubsetUnique

\* The new record speaks alone for its identity, with a generation that none
\* of its retained records has.
LEMMA ApplyClaimUnique ==
    ASSUME NEW entry, SoundEntry(entry), Unique(entry.evidence), NEW stamp, NEW claim
    PROVE  Unique(ApplyClaim(entry, stamp, claim).evidence)
<1> DEFINE E == entry.evidence
           R == MakeRoom(E, stamp)
           n == NewRecord(entry, stamp, claim)
<1>1. /\ E \subseteq EvidenceRecord /\ IsFiniteSet(E) /\ entry.generation \in Nat
      /\ \A r \in E : r.generation \in Nat /\ r.generation <= entry.generation
  BY RecordFields DEF SoundEntry, Entry
<1>2. ApplyClaim(entry, stamp, claim).evidence = R \cup {n}
  BY DEF ApplyClaim, Touch
<1>3. Unique(R) /\ Live(R) = Live(E) \ OwnLive(E, stamp)
  BY <1>1, MakeRoomUnique, MakeRoomSound
<1>4. n.source = stamp.source /\ n.boot = stamp.boot /\ n.generation = NextEvidenceGeneration(E, stamp)
  BY DEF NewRecord
<1>5. /\ NextEvidenceGeneration(E, stamp) \in Nat
      /\ \A r \in E : Owns(stamp, r) => r.generation < NextEvidenceGeneration(E, stamp)
  BY <1>1, NextGenerationBounded
<1>6. \A q \in R : \E r \in E : q.source = r.source /\ q.boot = r.boot /\ q.generation = r.generation
  <2>1. R \subseteq Mark(E, OwnLive(E, stamp), "Superseded")
    BY DEF MakeRoom, TrimEvidence
  <2> DEFINE Re(r) == [r EXCEPT !.currentness = "Superseded"]
  <2>2. \A r \in E : /\ Re(r).source = r.source /\ Re(r).boot = r.boot
                     /\ Re(r).generation = r.generation
    BY <1>1 DEF EvidenceRecord
  <2>3. \A q \in Mark(E, OwnLive(E, stamp), "Superseded") : q \in E \/ \E r \in E : q = Re(r)
    BY DEF Mark, OwnLive
  <2> HIDE DEF E, R, Re
  <2> QED
    BY <2>1, <2>2, <2>3
<1> HIDE DEF E, R, n
<1>7. \A q \in R : q.source = stamp.source /\ q.boot = stamp.boot => q.generation < n.generation
  BY <1>4, <1>5, <1>6 DEF Owns
<1>8. \A q \in R : q.source = stamp.source /\ q.boot = stamp.boot => ~IsLive(q)
  BY <1>3 DEF Live, OwnLive, Owns
<1>9. \A q \in R : Owns(q, n) \/ Owns(n, q) => q.source = stamp.source /\ q.boot = stamp.boot
  BY <1>4 DEF Owns
<1>10. \A q \in R : q.generation \in Nat
  BY <1>1, <1>6
<1>11. n.generation \in Nat
  BY <1>4, <1>5
<1>12. \A q \in R : Owns(q, n) \/ Owns(n, q) => ~IsLive(q) /\ q.generation # n.generation
  BY <1>7, <1>8, <1>9, <1>10, <1>11
<1> QED
  BY <1>2, <1>3, <1>12 DEF Unique, Live

LEMMA AtLimitUnique ==
    ASSUME NEW entry, SoundEntry(entry), Unique(entry.evidence), NEW stamp
    PROVE  Unique(ApplyClaimAtLimit(entry, stamp).evidence)
<1>1. entry \in Entry /\ entry.evidence \subseteq EvidenceRecord
  BY DEF SoundEntry, Entry
<1>2. ApplyClaimAtLimit(entry, stamp).evidence = MakeRoom(entry.evidence, stamp)
  BY <1>1 DEF ApplyClaimAtLimit, Entry
<1> QED
  BY <1>1, <1>2, MakeRoomUnique

\* Load invents no record and confuses none: what was saved was live.
LEMMA LoadedUnique ==
    ASSUME NEW entry, SoundStored(entry), Unique(entry.evidence),
           \A r \in entry.evidence : IsLive(r)
    PROVE  Unique(LoadedEntry(entry).evidence)
<1> DEFINE E == entry.evidence
           Re(r) == [r EXCEPT !.currentness = LoadCurrentness(r), !.order = LoadOrder(E, r)]
<1>1. E \subseteq EvidenceRecord
  BY DEF SoundStored, Entry
<1>2. CASE ~entry.exists
  BY <1>2 DEF LoadedEntry, NoEntry, Unique, Live
<1>3. CASE entry.exists
  <2>1. LoadedEntry(entry).evidence = {Re(r) : r \in E}
    BY <1>3 DEF LoadedEntry, LoadedEvidence
  <2>2. \A r \in E : Became(r, Re(r))
    BY <1>1 DEF Became, EvidenceRecord
  <2> HIDE DEF Re, E
  <2>3. Descends(E, {Re(r) : r \in E})
    BY <2>2 DEF Descends
  <2> QED
    BY <2>1, <2>3, DescendsUnique DEF E
<1> QED
  BY <1>2, <1>3

-----------------------------------------------------------------------------
(* The evidence vector: its order and its bound.                           *)

\* Of the evidence of an entry in generation g: the records stand in distinct
\* places of the vector, and there is at most one record more than the bound.
\* Each record was added by a step of the generation, which the places and
\* the number of records therefore do not exceed: the next place is free.
Ordered(E, g) ==
    /\ \A r, q \in E : r.order = q.order => r = q
    /\ \A r \in E : r.order <= g
    /\ Cardinality(E) <= g
    /\ Cardinality(E) <= MaxEvidence + 1

\* Dropping records, or advancing the generation, keeps the rest in order.
LEMMA SubsetOrdered ==
    ASSUME NEW E, E \subseteq EvidenceRecord, IsFiniteSet(E), NEW g \in Nat, Ordered(E, g),
           NEW F, F \subseteq E
    PROVE  Ordered(F, g) /\ Ordered(F, g + 1)
<1>1. Cardinality(F) <= Cardinality(E) /\ Cardinality(F) \in Nat /\ Cardinality(E) \in Nat
  BY FS_Subset, FS_CardinalityType
<1>2. \A r \in E : r.order \in Nat
  BY DEF EvidenceRecord
<1> QED
  BY <1>1, <1>2, EvidenceAssumption DEF Ordered

\* Marking leaves every record in its place.
LEMMA MarkOrdered ==
    ASSUME NEW E, E \subseteq EvidenceRecord, IsFiniteSet(E), NEW g \in Nat, Ordered(E, g),
           NEW S, S \subseteq E, NEW currentness \in Currentness
    PROVE  Ordered(Mark(E, S, currentness), g)
<1> DEFINE M == Mark(E, S, currentness)
           Re(r) == [r EXCEPT !.currentness = currentness]
           f == [r \in E |-> IF r \in S THEN Re(r) ELSE r]
<1>1. M = {f[r] : r \in E}
  BY DEF Mark
<1>2. \A r \in E : f[r].order = r.order /\ r.order \in Nat
  BY DEF EvidenceRecord
<1>3. f = [r \in E |-> f[r]]
  OBVIOUS
<1> HIDE DEF f, M
<1>4. IsFiniteSet(M) /\ Cardinality(M) <= Cardinality(E)
  BY <1>1, <1>3, ImageCardinality
<1>5. Cardinality(M) \in Nat /\ Cardinality(E) \in Nat
  BY <1>4, FS_CardinalityType
<1>6. \A r, q \in M : r.order = q.order => r = q
  BY <1>1, <1>2 DEF Ordered
<1>7. \A r \in M : r.order <= g
  BY <1>1, <1>2 DEF Ordered
<1> QED
  BY <1>4, <1>5, <1>6, <1>7, EvidenceAssumption DEF Ordered, M

LEMMA MarkAndTouchOrdered ==
    ASSUME NEW entry, SoundEntry(entry), Ordered(entry.evidence, entry.generation),
           NEW S, S \subseteq Live(entry.evidence), NEW currentness \in Currentness
    PROVE  LET new == MarkAndTouch(entry, S, currentness)
           IN  Ordered(new.evidence, new.generation)
<1> DEFINE E == entry.evidence
           M == Mark(E, S, currentness)
<1>1. E \subseteq EvidenceRecord /\ IsFiniteSet(E) /\ entry.generation \in Nat /\ S \subseteq E
  BY DEF SoundEntry, Entry, Live
<1>2. Ordered(M, entry.generation)
  <2> HIDE DEF E
  <2> QED
    BY <1>1, MarkOrdered DEF E
<1>3. M \subseteq EvidenceRecord /\ IsFiniteSet(M)
  <2>1. \A r \in EvidenceRecord : [r EXCEPT !.currentness = currentness] \in EvidenceRecord
    BY DEF EvidenceRecord
  <2>2. M \subseteq EvidenceRecord
    BY <1>1, <2>1 DEF Mark
  <2> DEFINE f == [r \in E |-> IF r \in S THEN [r EXCEPT !.currentness = currentness] ELSE r]
  <2>3. M = {f[r] : r \in E} /\ f = [r \in E |-> f[r]]
    BY <1>1 DEF Mark
  <2> HIDE DEF f, M
  <2>4. IsFiniteSet(M)
    BY <1>1, <2>3, ImageCardinality
  <2> QED
    BY <2>2, <2>4
<1> HIDE DEF M
<1>4. Ordered(M, entry.generation + 1)
  BY <1>1, <1>2, <1>3, SubsetOrdered
<1> QED
  BY <1>4 DEF MarkAndTouch, Touch, M

\* With less than a full vector of records that speak, the trim brings a
\* vector that is one over its bound back to it: the oldest retired record
\* goes.
LEMMA TrimBounds ==
    ASSUME NEW E, E \subseteq EvidenceRecord, IsFiniteSet(E), NEW g \in Nat, Ordered(E, g),
           Cardinality(Live(E)) < MaxEvidence
    PROVE  /\ TrimEvidence(E) \subseteq E
           /\ Cardinality(TrimEvidence(E)) <= MaxEvidence
<1> DEFINE T == TrimEvidence(E)
           D == E \ Live(E)
           Up(r) == {q \in E : ~IsLive(q) /\ q.order <= r.order}
<1>1. T \subseteq E
  BY DEF TrimEvidence
<1>2. /\ Cardinality(E) \in Nat /\ Cardinality(E) <= MaxEvidence + 1
      /\ Cardinality(T) \in Nat /\ Cardinality(T) <= Cardinality(E)
      /\ Cardinality(Live(E)) \in Nat /\ MaxEvidence \in Nat
  BY <1>1, FS_Subset, FS_CardinalityType, LiveSubset, EvidenceAssumption DEF Ordered
<1>3. CASE Cardinality(E) <= MaxEvidence
  BY <1>1, <1>2, <1>3
<1>4. CASE ~(Cardinality(E) <= MaxEvidence)
  <2>1. Cardinality(E) = MaxEvidence + 1
    BY <1>2, <1>4
  <2>2. D # {}
    <3> SUFFICES ASSUME D = {} PROVE FALSE
      OBVIOUS
    <3>1. E = Live(E)
      BY DEF Live
    <3> QED
      BY <1>2, <2>1, <3>1
  <2> DEFINE O == {r.order : r \in D}
  <2>3. O \subseteq Nat /\ O # {}
    BY <2>2 DEF EvidenceRecord
  <2>4. PICK k \in O : \A n \in O : k <= n
    <3> HIDE DEF O
    <3> QED
      BY <2>3, LeastNatural
  <2>5. PICK m \in D : m.order = k
    BY <2>4
  <2>6. Up(m) = {m}
    <3>1. \A q \in E : ~IsLive(q) => q \in D
      BY DEF Live
    <3>2. \A q \in D : k <= q.order /\ q.order \in Nat /\ k \in Nat
      BY <2>3, <2>4
    <3>3. m \in E /\ ~IsLive(m) /\ m.order \in Nat
      BY <2>5, <3>2 DEF Live
    <3>4. \A q \in Up(m) : q = m
      <4> SUFFICES ASSUME NEW q \in E, ~IsLive(q), q.order <= m.order PROVE q = m
        OBVIOUS
      <4>1. q.order = m.order
        BY <2>5, <3>1, <3>2
      <4> QED
        BY <3>3, <4>1 DEF Ordered
    <3> QED
      BY <3>3, <3>4
  <2>7. Cardinality(Up(m)) = 1
    BY <2>6, FS_Singleton
  <2>8. m \in E /\ m \notin T
    <3>1. m \in E /\ ~IsLive(m)
      BY <2>5 DEF Live
    <3>2. ~(Cardinality(Up(m)) > Cardinality(E) - MaxEvidence)
      BY <1>2, <2>1, <2>7
    <3> QED
      BY <3>1, <3>2 DEF TrimEvidence
  <2>9. Cardinality(E \ {m}) = Cardinality(E) - 1 /\ IsFiniteSet(E \ {m})
    BY <2>8, FS_RemoveElement
  <2>10. T \subseteq E \ {m}
    BY <1>1, <2>8
  <2> HIDE DEF T, D
  <2>11. Cardinality(T) <= Cardinality(E \ {m})
    BY <2>9, <2>10, FS_Subset
  <2> QED
    BY <1>1, <1>2, <2>1, <2>9, <2>11 DEF T
<1> QED
  BY <1>3, <1>4

\* What is left before a record is added, or when the limit stops the call.
LEMMA MakeRoomOrdered ==
    ASSUME NEW E, E \subseteq EvidenceRecord, IsFiniteSet(E), NEW g \in Nat, Ordered(E, g), NEW id
    PROVE  /\ Ordered(MakeRoom(E, id), g)
           /\ Cardinality(Live(MakeRoom(E, id))) < MaxEvidence =>
                 Cardinality(MakeRoom(E, id)) <= MaxEvidence
<1> DEFINE S == OwnLive(E, id)
           M == Mark(E, S, "Superseded")
<1>1. S \subseteq E /\ "Superseded" \in Currentness
  BY DEF OwnLive, Currentness
<1>2. M \subseteq EvidenceRecord /\ IsFiniteSet(M) /\ Ordered(M, g)
  <2> HIDE DEF S
  <2>1. M \subseteq EvidenceRecord /\ IsFiniteSet(M)
    BY <1>1, MarkSound
  <2>2. Ordered(M, g)
    BY <1>1, MarkOrdered
  <2> QED
    BY <2>1, <2>2
<1>3. MakeRoom(E, id) = TrimEvidence(M)
  BY DEF MakeRoom
<1>4. TrimEvidence(M) \subseteq M /\ Live(TrimEvidence(M)) = Live(M)
  BY DEF TrimEvidence, Live
<1> HIDE DEF S, M
<1>5. Ordered(TrimEvidence(M), g)
  BY <1>2, <1>4, SubsetOrdered
<1>6. Cardinality(Live(M)) < MaxEvidence => Cardinality(TrimEvidence(M)) <= MaxEvidence
  BY <1>2, TrimBounds
<1> QED
  BY <1>3, <1>4, <1>5, <1>6

\* The new record takes the next place; after the trim there is room for it.
LEMMA ApplyClaimOrdered ==
    ASSUME NEW entry, SoundEntry(entry), Ordered(entry.evidence, entry.generation),
           NEW stamp, NEW claim, ~EvidenceLimitExceeded(entry, stamp)
    PROVE  LET new == ApplyClaim(entry, stamp, claim)
           IN  Ordered(new.evidence, new.generation)
<1> DEFINE E == entry.evidence
           g == entry.generation
           R == MakeRoom(E, stamp)
           n == NewRecord(entry, stamp, claim)
           F == R \cup {n}
<1>1. E \subseteq EvidenceRecord /\ IsFiniteSet(E) /\ g \in Nat
  BY DEF SoundEntry, Entry
<1>2. /\ Ordered(R, g)
      /\ Cardinality(Live(R)) < MaxEvidence => Cardinality(R) <= MaxEvidence
  <2> HIDE DEF E, g
  <2> QED
    BY <1>1, MakeRoomOrdered DEF E, g
<1>3. R \subseteq EvidenceRecord /\ IsFiniteSet(R)
  <2> HIDE DEF E
  <2> QED
    BY <1>1, MakeRoomSound
<1>4. ~(Cardinality(Live(R)) >= MaxEvidence)
  BY DEF EvidenceLimitExceeded
<1>5. n.order = g + 1
  BY DEF NewRecord
<1>6. ApplyClaim(entry, stamp, claim).evidence = F /\ ApplyClaim(entry, stamp, claim).generation = g + 1
  BY DEF ApplyClaim, Touch
<1> HIDE DEF E, g, R, n
<1>7. Cardinality(R) \in Nat /\ Cardinality(R) <= MaxEvidence /\ MaxEvidence \in Nat
      /\ Cardinality(R) <= g
  <2>1. Cardinality(Live(R)) \in Nat /\ Cardinality(R) \in Nat
    BY <1>3, LiveSubset, FS_CardinalityType
  <2> QED
    BY <1>2, <1>4, <2>1, EvidenceAssumption DEF Ordered
<1>8. \A r \in R : r.order \in Nat /\ r.order <= g
  BY <1>2, <1>3 DEF Ordered, EvidenceRecord
<1>9. \A r, q \in F : r.order = q.order => r = q
  <2>1. \A r \in R : r.order # n.order
    BY <1>1, <1>5, <1>8
  <2> QED
    BY <1>2, <2>1 DEF Ordered
<1>10. \A r \in F : r.order <= g + 1
  BY <1>1, <1>5, <1>8
<1>11. Cardinality(F) <= Cardinality(R) + 1 /\ Cardinality(F) \in Nat
  <2>1. /\ Cardinality(F) = IF n \in R THEN Cardinality(R) ELSE Cardinality(R) + 1
        /\ IsFiniteSet(F)
    BY <1>3, FS_AddElement
  <2> HIDE DEF F
  <2> QED
    BY <1>7, <2>1
<1> HIDE DEF F
<1>12. Ordered(F, g + 1)
  BY <1>1, <1>7, <1>9, <1>10, <1>11 DEF Ordered
<1> QED
  BY <1>6, <1>12

LEMMA AtLimitOrdered ==
    ASSUME NEW entry, SoundEntry(entry), Ordered(entry.evidence, entry.generation), NEW stamp
    PROVE  LET new == ApplyClaimAtLimit(entry, stamp)
           IN  Ordered(new.evidence, new.generation)
<1>1. /\ entry \in Entry /\ entry.evidence \subseteq EvidenceRecord /\ IsFiniteSet(entry.evidence)
      /\ entry.generation \in Nat
  BY DEF SoundEntry, Entry
<1>2. /\ ApplyClaimAtLimit(entry, stamp).evidence = MakeRoom(entry.evidence, stamp)
      /\ ApplyClaimAtLimit(entry, stamp).generation = entry.generation
  BY <1>1 DEF ApplyClaimAtLimit, Entry
<1> QED
  BY <1>1, <1>2, MakeRoomOrdered

\* The place of a record in the loaded vector is the number of records not
\* sorted after it.  Distinct places in the saved vector settle every tie.
LEMMA LoadOrderRanks ==
    ASSUME NEW E, E \subseteq EvidenceRecord, IsFiniteSet(E), NEW g \in Nat, Ordered(E, g)
    PROVE  /\ \A r \in E : LoadOrder(E, r) \in Nat /\ LoadOrder(E, r) <= Cardinality(E)
           /\ \A r, q \in E : LoadOrder(E, r) = LoadOrder(E, q) => r = q
<1> DEFINE UpTo(q, r) == \/ q.source < r.source
                         \/ q.source = r.source /\ q.generation < r.generation
                         \/ /\ q.source = r.source
                            /\ q.generation = r.generation
                            /\ q.order <= r.order
           T(r) == {q \in E : UpTo(q, r)}
<1>0. \A r \in E : r.source \in Nat /\ r.generation \in Nat /\ r.order \in Nat
  BY RecordFields DEF EvidenceRecord
<1>1. \A r \in E : LoadOrder(E, r) = Cardinality(T(r)) /\ T(r) \subseteq E
  BY DEF LoadOrder
<1>2. \A r \in E : /\ IsFiniteSet(T(r)) /\ Cardinality(T(r)) \in Nat
                   /\ Cardinality(T(r)) <= Cardinality(E)
  <2> SUFFICES ASSUME NEW r \in E
               PROVE  /\ IsFiniteSet(T(r)) /\ Cardinality(T(r)) \in Nat
                      /\ Cardinality(T(r)) <= Cardinality(E)
    OBVIOUS
  <2>1. T(r) \subseteq E
    OBVIOUS
  <2> HIDE DEF T
  <2> QED
    BY <2>1, FS_Subset, FS_CardinalityType
<1>3. ASSUME NEW r \in E, NEW q \in E, r # q, UpTo(r, q)
      PROVE  Cardinality(T(r)) # Cardinality(T(q))
  <2>1. r.order # q.order
    BY <1>3 DEF Ordered
  <2>2. ~UpTo(q, r)
    BY <1>0, <1>3, <2>1
  <2>3. T(r) \subseteq T(q)
    <3> SUFFICES ASSUME NEW x \in E, UpTo(x, r) PROVE UpTo(x, q)
      OBVIOUS
    <3> QED
      BY <1>0, <1>3
  <2>4. q \in T(q) /\ q \notin T(r)
    BY <1>0, <2>2
  <2>5. IsFiniteSet(T(q))
    BY <1>2
  <2> HIDE DEF T, UpTo
  <2>6. Cardinality(T(r)) = Cardinality(T(q)) => T(r) = T(q)
    BY <2>3, <2>5, FS_Subset
  <2> QED
    BY <2>4, <2>6
<1>4. \A r, q \in E : UpTo(r, q) \/ UpTo(q, r)
  BY <1>0
<1>5. ASSUME NEW r \in E, NEW q \in E, LoadOrder(E, r) = LoadOrder(E, q) PROVE r = q
  <2>1. Cardinality(T(r)) = Cardinality(T(q))
    BY <1>1, <1>5
  <2> HIDE DEF T, UpTo
  <2> QED
    BY <1>3, <1>4, <2>1
<1> HIDE DEF T, UpTo
<1> QED
  BY <1>1, <1>2, <1>5

LEMMA LoadedOrdered ==
    ASSUME NEW entry, SoundStored(entry), Ordered(entry.evidence, entry.generation)
    PROVE  LET new == LoadedEntry(entry)
           IN  Ordered(new.evidence, new.generation)
<1> DEFINE E == entry.evidence
           Re(r) == [r EXCEPT !.currentness = LoadCurrentness(r), !.order = LoadOrder(E, r)]
           f == [r \in E |-> Re(r)]
           L == LoadedEvidence(E)
<1>1. E \subseteq EvidenceRecord /\ IsFiniteSet(E) /\ entry.generation \in Nat
  BY DEF SoundStored, Entry
<1>2. CASE ~entry.exists
  <2>1. LoadedEntry(entry) = NoEntry
    BY <1>2 DEF LoadedEntry
  <2>2. entry = NoEntry
    BY <1>2 DEF SoundStored
  <2> QED
    BY <2>1, <2>2
<1>3. CASE entry.exists
  <2>1. LoadedEntry(entry).evidence = L /\ LoadedEntry(entry).generation = entry.generation
    BY <1>3 DEF LoadedEntry
  <2>2. L = {f[r] : r \in E} /\ f = [r \in E |-> f[r]]
    BY DEF LoadedEvidence
  <2>3. \A r \in E : f[r].order = LoadOrder(E, r)
    BY <1>1 DEF EvidenceRecord
  <2>4. /\ \A r \in E : LoadOrder(E, r) \in Nat /\ LoadOrder(E, r) <= Cardinality(E)
        /\ \A r, q \in E : LoadOrder(E, r) = LoadOrder(E, q) => r = q
    <3> HIDE DEF E
    <3> QED
      BY <1>1, LoadOrderRanks DEF E
  <2> HIDE DEF f, L
  <2>5. IsFiniteSet(L) /\ Cardinality(L) <= Cardinality(E)
    <3> HIDE DEF E
    <3> QED
      BY <1>1, <2>2, ImageCardinality
  <2>6. Cardinality(L) \in Nat /\ Cardinality(E) \in Nat
    BY <1>1, <2>5, FS_CardinalityType
  <2>7. ASSUME NEW x \in L PROVE \E r \in E : x = f[r] /\ x.order = LoadOrder(E, r)
    <3> HIDE DEF E
    <3> QED
      BY <2>2, <2>3
  <2>8. ASSUME NEW x \in L, NEW y \in L, x.order = y.order PROVE x = y
    <3>1. PICK r \in E : x = f[r] /\ x.order = LoadOrder(E, r)
      BY <2>7
    <3>2. PICK q \in E : y = f[q] /\ y.order = LoadOrder(E, q)
      BY <2>7
    <3>3. r = q
      BY <2>4, <2>8, <3>1, <3>2
    <3> QED
      BY <3>1, <3>2, <3>3
  <2>9. ASSUME NEW x \in L PROVE x.order <= entry.generation
    <3>1. PICK r \in E : x = f[r] /\ x.order = LoadOrder(E, r)
      BY <2>7
    <3>2. Cardinality(E) <= entry.generation
      BY DEF Ordered
    <3> HIDE DEF E
    <3> QED
      BY <1>1, <2>4, <2>6, <3>1, <3>2
  <2>10. Ordered(L, entry.generation)
    BY <1>1, <2>5, <2>6, <2>8, <2>9, EvidenceAssumption DEF Ordered
  <2> QED
    BY <2>1, <2>10
<1> QED
  BY <1>2, <1>3

-----------------------------------------------------------------------------
(* Both, of one entry.                                                     *)

Tidy(entry) == Unique(entry.evidence) /\ Ordered(entry.evidence, entry.generation)

\* The operations that mark keep an entry tidy.
LEMMA SupersedeTidy ==
    ASSUME NEW entry, SoundEntry(entry), Tidy(entry)
    PROVE  /\ \A id : Tidy(SupersedeIdentity(entry, id))
           /\ \A p, b : Tidy(SupersedeOtherIdentities(entry, p, b))
<1>1. "Superseded" \in Currentness
  BY DEF Currentness
<1>2. ASSUME NEW id
      PROVE  Ordered(SupersedeIdentity(entry, id).evidence, SupersedeIdentity(entry, id).generation)
  <2>1. OwnLive(entry.evidence, id) \subseteq Live(entry.evidence)
    BY DEF OwnLive, Live
  <2> QED
    BY <1>1, <2>1, MarkAndTouchOrdered DEF SupersedeIdentity, Tidy
<1>3. ASSUME NEW p, NEW b
      PROVE  Ordered(SupersedeOtherIdentities(entry, p, b).evidence,
                     SupersedeOtherIdentities(entry, p, b).generation)
  <2> DEFINE S == {r \in entry.evidence : ~(r.publisher = p /\ r.boot = b) /\ ~r.durable /\ IsLive(r)}
  <2>1. S \subseteq Live(entry.evidence)
    BY DEF Live
  <2>2. SupersedeOtherIdentities(entry, p, b) = MarkAndTouch(entry, S, "Superseded")
    BY DEF SupersedeOtherIdentities
  <2> HIDE DEF S
  <2> QED
    BY <1>1, <2>1, <2>2, MarkAndTouchOrdered DEF Tidy
<1> QED
  BY <1>2, <1>3, SupersedeUnique DEF Tidy

LEMMA MarkNonCurrentTidy ==
    ASSUME NEW entry, SoundEntry(entry), Tidy(entry),
           NEW S, S \subseteq entry.evidence, NEW currentness \in Currentness
    PROVE  Tidy(MarkNonCurrent(entry, S, currentness))
<1> DEFINE T == {r \in S : IsCurrent(r)}
<1>1. T \subseteq Live(entry.evidence)
  BY DEF Live, IsLive, IsCurrent
<1>2. MarkNonCurrent(entry, S, currentness) = MarkAndTouch(entry, T, currentness)
  BY DEF MarkNonCurrent
<1> HIDE DEF T
<1> QED
  BY <1>1, <1>2, MarkAndTouchUnique, MarkAndTouchOrdered DEF Tidy

-----------------------------------------------------------------------------
(* The entries of one entity.                                              *)

TidyEntries(entries) == \A c \in Capability : Tidy(entries[c])

LEMMA NoneTidy == Tidy(NoEntry) /\ TidyEntries(NoCapabilities)
<1>1. Tidy(NoEntry)
  BY FS_EmptySet, EvidenceAssumption DEF NoEntry, Tidy, Unique, Ordered, Live
<1> QED
  BY <1>1 DEF NoCapabilities, TidyEntries

LEMMA ApplyLinesTidy ==
    ASSUME NEW entries, NEW g, EntriesOK(entries, g), TidyEntries(entries),
           NEW stamp, NEW lines, NEW D, D \subseteq Capability, LinesFit(entries, stamp, lines, D)
    PROVE  TidyEntries(ApplyLines(entries, stamp, lines, D))
<1> SUFFICES ASSUME NEW c \in Capability
             PROVE  Tidy(ApplyLines(entries, stamp, lines, D)[c])
  BY DEF TidyEntries
<1>1. SoundEntry(entries[c]) /\ Tidy(entries[c])
  BY DEF EntriesOK, EntryOK, TidyEntries
<1>2. ASSUME c \in D PROVE Tidy(ApplyLine(entries[c], stamp, lines[c]))
  <2>1. CASE lines[c].op = "WithdrawClaim"
    BY <1>1, <2>1, SupersedeTidy DEF ApplyLine, WithdrawIdentityClaim
  <2>2. CASE lines[c].op # "WithdrawClaim"
    <3>1. ~EvidenceLimitExceeded(entries[c], stamp)
      BY <1>2, <2>2 DEF LinesFit, Claims
    <3>2. \A claim : Tidy(ApplyClaim(entries[c], stamp, claim))
      BY <1>1, <3>1, ApplyClaimUnique, ApplyClaimOrdered DEF Tidy
    <3> QED
      BY <2>2, <3>2 DEF ApplyLine
  <2> QED
    BY <2>1, <2>2
<1> QED
  BY <1>1, <1>2 DEF ApplyLines

LEMMA StoppedTidy ==
    ASSUME NEW entries, NEW g, EntriesOK(entries, g), TidyEntries(entries),
           NEW stamp, NEW lines, NEW D, D \subseteq Capability, NEW c \in Capability,
           Stops(entries, stamp, lines, D, c)
    PROVE  TidyEntries(Stopped(entries, stamp, lines, D, c))
<1>1. TidyEntries(ApplyLines(entries, stamp, lines, D))
  BY ApplyLinesTidy DEF Stops
<1>2. Tidy(ApplyClaimAtLimit(entries[c], stamp))
  BY AtLimitUnique, AtLimitOrdered DEF EntriesOK, EntryOK, TidyEntries, Tidy
<1>3. \A d \in Capability :
         Stopped(entries, stamp, lines, D, c)[d] =
            IF d = c /\ entries[c].exists THEN ApplyClaimAtLimit(entries[c], stamp)
            ELSE ApplyLines(entries, stamp, lines, D)[d]
  BY DEF Stopped, ApplyLines
<1> QED
  BY <1>1, <1>2, <1>3 DEF TidyEntries

LEMMA SupersedeStagesTidy ==
    ASSUME NEW entries, NEW g, EntriesOK(entries, g), TidyEntries(entries), NEW q
    PROVE  TidyEntries(OthersSuperseded(q, entries)) /\ TidyEntries(OwnSuperseded(q, entries))
<1> SUFFICES ASSUME NEW c \in Capability
             PROVE  /\ Tidy(OthersSuperseded(q, entries)[c])
                    /\ Tidy(OwnSuperseded(q, entries)[c])
  BY DEF TidyEntries
<1>1. SoundEntry(entries[c]) /\ Tidy(entries[c])
  BY DEF EntriesOK, EntryOK, TidyEntries
<1>2. Tidy(OthersSuperseded(q, entries)[c])
  BY <1>1, SupersedeTidy DEF OthersSuperseded
<1>3. Tidy(OwnSuperseded(q, entries)[c])
  BY <1>1, SupersedeTidy DEF OwnSuperseded
<1> QED
  BY <1>2, <1>3

-----------------------------------------------------------------------------
(* The calls.                                                              *)

AllTidy == \A e \in Entity : TidyEntries(capabilities[e])

\* What Save kept spoke, and is unique.
StoreTidy ==
    \A e \in Entity, c \in Capability :
        /\ Tidy(store.capabilities[e][c])
        /\ \A r \in store.capabilities[e][c].evidence : IsLive(r)

\* Epoch advances, fences and invalidations mark, and do no more.
LEMMA WeakeningTidy ==
    ASSUME Inv, AllTidy,
           \/ AdvanceCoordinatorEpoch
           \/ \E b \in Boot : FenceWorkerBoot(b)
           \/ \E s \in Source : InvalidateSource(s)
           \/ \E e \in Entity : InvalidateEntity(e)
    PROVE  AllTidy'
<1>1. \A e \in Entity, c \in Capability :
         SoundEntry(capabilities[e][c]) /\ Tidy(capabilities[e][c])
  BY HeldSound DEF AllTidy, TidyEntries
<1>2. "RevalidationRequired" \in Currentness /\ "Fenced" \in Currentness
  BY DEF Currentness
<1>3. CASE AdvanceCoordinatorEpoch
  <2>1. capabilities' = [e \in Entity |-> [c \in Capability |-> ExpireProcessBound(capabilities[e][c])]]
    BY <1>3 DEF AdvanceCoordinatorEpoch, Resolve
  <2>2. \A e \in Entity, c \in Capability : Tidy(ExpireProcessBound(capabilities[e][c]))
    BY <1>1, <1>2, MarkNonCurrentTidy DEF ExpireProcessBound
  <2> QED
    BY <2>1, <2>2 DEF AllTidy, TidyEntries
<1>4. ASSUME NEW b \in Boot, FenceWorkerBoot(b) PROVE AllTidy'
  <2>1. capabilities' = [e \in Entity |-> [c \in Capability |-> FenceBoot(capabilities[e][c], b)]]
    BY <1>4 DEF FenceWorkerBoot, Resolve
  <2>2. \A e \in Entity, c \in Capability : Tidy(FenceBoot(capabilities[e][c], b))
    BY <1>1, <1>2, MarkNonCurrentTidy DEF FenceBoot
  <2> QED
    BY <2>1, <2>2 DEF AllTidy, TidyEntries
<1>5. ASSUME NEW s \in Source, InvalidateSource(s) PROVE AllTidy'
  <2>1. capabilities' = [e \in Entity |-> [c \in Capability |-> InvalidateFrom(capabilities[e][c], s)]]
    BY <1>5 DEF InvalidateSource, Resolve
  <2>2. \A e \in Entity, c \in Capability : Tidy(InvalidateFrom(capabilities[e][c], s))
    BY <1>1, <1>2, MarkNonCurrentTidy DEF InvalidateFrom
  <2> QED
    BY <2>1, <2>2 DEF AllTidy, TidyEntries
<1>6. ASSUME NEW e \in Entity, InvalidateEntity(e) PROVE AllTidy'
  <2>1. capabilities' = [capabilities EXCEPT ![e] =
                            [c \in Capability |-> InvalidateAll(capabilities[e][c])]]
    BY <1>6 DEF InvalidateEntity, Resolve
  <2>2. \A c \in Capability : Tidy(InvalidateAll(capabilities[e][c]))
    BY <1>1, <1>2, MarkNonCurrentTidy DEF InvalidateAll
  <2>3. \A d \in Entity : \A c \in Capability :
           capabilities'[d][c] = IF d = e THEN InvalidateAll(capabilities[e][c]) ELSE capabilities[d][c]
    BY <2>1 DEF Inv, TypeOK
  <2> QED
    BY <1>1, <2>2, <2>3 DEF AllTidy, TidyEntries
<1> QED
  BY <1>3, <1>4, <1>5, <1>6

\* A step that gives one entity other entries.
LEMMA EntityTidy ==
    ASSUME Inv, AllTidy, NEW e, NEW entries, TidyEntries(entries),
           capabilities' = [capabilities EXCEPT ![e] = entries]
    PROVE  AllTidy'
<1>1. \A d \in Entity : capabilities'[d] = IF d = e THEN entries ELSE capabilities[d]
  BY DEF Inv, TypeOK
<1> QED
  BY <1>1 DEF AllTidy, TidyEntries

LEMMA ArrivalTidy ==
    ASSUME Inv, AllTidy, NEW q \in Requests, Located(q)
    PROVE  TidyEntries(EntriesAt(q))
<1>1. q.entity \in Entity
  BY ArrivalOK
<1> QED
  BY <1>1, NoneTidy DEF EntriesAt, AllTidy

\* Publish, stopped by a limit or committed: the stages of step 10.
LEMMA AppliedTidy ==
    ASSUME Inv, AllTidy, NEW q \in Requests, PublishStopped(q) \/ PublishCommitted(q)
    PROVE  AllTidy'
<1> DEFINE stamp == StampOf(q)
           e0 == EntriesAt(q)
           e1 == ApplyLines(e0, stamp, q.before, Named(q.before))
           e2 == OthersSuperseded(q, e1)
           e3 == OwnSuperseded(q, e2)
           lines == LastLines(q)
           e4 == ApplyLines(e3, stamp, lines, Named(lines))
           g == q.generation
<1>1. Admitted(q) /\ Located(q)
  BY DEF PublishStopped, PublishCommitted, Applicable
<1>2. EntriesOK(e0, g) /\ TidyEntries(e0)
  BY <1>1, ArrivalOK, ArrivalTidy
<1>3. Named(q.before) \subseteq Capability /\ Named(lines) \subseteq Capability
  BY DEF Named
<1>4. \/ \E done \in SUBSET Named(q.before) : \E c \in Named(q.before) :
             /\ Stops(e0, stamp, q.before, done, c)
             /\ capabilities' = [capabilities EXCEPT ![q.entity] =
                                    Stopped(e0, stamp, q.before, done, c)]
      \/ /\ LinesFit(e0, stamp, q.before, Named(q.before))
         /\ \/ \E done \in SUBSET Named(lines) : \E c \in Named(lines) :
                  /\ Stops(e3, stamp, lines, done, c)
                  /\ capabilities' = [capabilities EXCEPT ![q.entity] =
                                         Stopped(e3, stamp, lines, done, c)]
            \/ /\ LinesFit(e3, stamp, lines, Named(lines))
               /\ capabilities' = [capabilities EXCEPT ![q.entity] = e4]
  BY DEF PublishStopped, PublishCommitted, Settle
<1>5. ASSUME NEW done \in SUBSET Named(q.before), NEW c \in Named(q.before),
             Stops(e0, stamp, q.before, done, c),
             capabilities' = [capabilities EXCEPT ![q.entity] =
                                 Stopped(e0, stamp, q.before, done, c)]
      PROVE  AllTidy'
  <2> HIDE DEF e0, stamp, g
  <2>1. TidyEntries(Stopped(e0, stamp, q.before, done, c))
    BY <1>2, <1>3, <1>5, StoppedTidy
  <2> QED
    BY <1>5, <2>1, EntityTidy
<1>6. ASSUME LinesFit(e0, stamp, q.before, Named(q.before))
      PROVE  EntriesOK(e3, g) /\ TidyEntries(e3)
  <2>1. EntriesOK(e1, g) /\ EntriesOK(e2, g) /\ EntriesOK(e3, g)
    BY <1>1, <1>6, StagesOK
  <2> HIDE DEF e0, stamp, g
  <2>2. TidyEntries(e1)
    BY <1>2, <1>3, <1>6, ApplyLinesTidy
  <2> HIDE DEF e1
  <2>3. TidyEntries(e2)
    BY <2>1, <2>2, SupersedeStagesTidy
  <2> HIDE DEF e2
  <2> QED
    BY <2>1, <2>3, SupersedeStagesTidy
<1>7. ASSUME LinesFit(e0, stamp, q.before, Named(q.before)),
             NEW done \in SUBSET Named(lines), NEW c \in Named(lines),
             Stops(e3, stamp, lines, done, c),
             capabilities' = [capabilities EXCEPT ![q.entity] =
                                 Stopped(e3, stamp, lines, done, c)]
      PROVE  AllTidy'
  <2> HIDE DEF e3, stamp, g, lines
  <2>1. TidyEntries(Stopped(e3, stamp, lines, done, c))
    BY <1>3, <1>6, <1>7, StoppedTidy
  <2> QED
    BY <1>7, <2>1, EntityTidy
<1>8. ASSUME LinesFit(e0, stamp, q.before, Named(q.before)),
             LinesFit(e3, stamp, lines, Named(lines)),
             capabilities' = [capabilities EXCEPT ![q.entity] = e4]
      PROVE  AllTidy'
  <2> HIDE DEF e3, stamp, g, lines
  <2>1. TidyEntries(e4)
    BY <1>3, <1>6, <1>8, ApplyLinesTidy
  <2> HIDE DEF e4
  <2> QED
    BY <1>8, <2>1, EntityTidy
<1> HIDE DEF e0, e3, e4, stamp, lines
<1> QED
  BY <1>4, <1>5, <1>7, <1>8

LEMMA PublishTidy ==
    ASSUME Inv, AllTidy, NEW q \in Requests, Publish(q) PROVE AllTidy'
<1>1. CASE PublishRefused(q)
  BY <1>1 DEF PublishRefused, AllTidy, TidyEntries
<1>2. CASE PublishReplayed(q) \/ PublishHalted(q)
  <2>1. Located(q) /\ capabilities' = [capabilities EXCEPT ![q.entity] = EntriesAt(q)]
    BY <1>2 DEF PublishReplayed, PublishHalted, Arrive
  <2> QED
    BY <2>1, ArrivalTidy, EntityTidy
<1>3. CASE PublishStopped(q) \/ PublishCommitted(q)
  BY <1>3, AppliedTidy
<1> QED
  BY <1>1, <1>2, <1>3 DEF Publish

-----------------------------------------------------------------------------
(* Every step.                                                             *)

LEMMA TidyInit == Init => AllTidy /\ StoreTidy
<1> SUFFICES ASSUME Init PROVE AllTidy /\ StoreTidy
  OBVIOUS
<1>1. \A e \in Entity : capabilities[e] = NoCapabilities /\ store.capabilities[e] = NoCapabilities
  BY DEF Init
<1>2. \A c \in Capability : NoCapabilities[c] = NoEntry
  BY DEF NoCapabilities
<1>3. NoEntry.evidence = {}
  BY DEF NoEntry
<1> QED
  BY <1>1, <1>2, <1>3, NoneTidy DEF AllTidy, StoreTidy

LEMMA TidyInMemory == Inv /\ AllTidy /\ NextInMemory => AllTidy' /\ UNCHANGED store
<1> SUFFICES ASSUME Inv, AllTidy, NextInMemory PROVE AllTidy' /\ UNCHANGED store
  OBVIOUS
<1>1. CASE \/ AdvanceCoordinatorEpoch
           \/ \E b \in Boot : FenceWorkerBoot(b)
           \/ \E s \in Source : InvalidateSource(s)
           \/ \E e \in Entity : InvalidateEntity(e)
  <2>1. AllTidy'
    BY <1>1, WeakeningTidy
  <2>2. UNCHANGED store
    BY <1>1 DEF AdvanceCoordinatorEpoch, FenceWorkerBoot, InvalidateSource, InvalidateEntity
  <2> QED
    BY <2>1, <2>2
<1>2. CASE \/ \E s \in Grants : DeclareAuthority(s)
           \/ \E w \in Workers : RegisterPublisher(w.publisher, w.scope, w.boot)
           \/ \E w \in Workers : RetirePublisher(w.publisher, w.boot)
  BY <1>2 DEF DeclareAuthority, RegisterPublisher, RetirePublisher, AllTidy, TidyEntries
<1>3. ASSUME NEW e \in Entity, NEW g \in EntityGenerations, ObserveEntityGeneration(e, g)
      PROVE  AllTidy' /\ UNCHANGED store
  <2>1. UNCHANGED store /\ (UNCHANGED capabilities
                           \/ capabilities' = [capabilities EXCEPT ![e] = NoCapabilities])
    BY <1>3 DEF ObserveEntityGeneration
  <2>2. UNCHANGED capabilities => AllTidy'
    BY DEF AllTidy, TidyEntries
  <2> QED
    BY <2>1, <2>2, NoneTidy, EntityTidy
<1>4. ASSUME NEW q \in Requests, Publish(q) PROVE AllTidy' /\ UNCHANGED store
  <2>1. AllTidy'
    BY <1>4, PublishTidy
  <2>2. UNCHANGED store
    BY <1>4 DEF Publish, PublishRefused, PublishReplayed, PublishHalted, PublishStopped,
                PublishCommitted, Arrive
  <2> QED
    BY <2>1, <2>2
<1> QED
  BY <1>1, <1>2, <1>3, <1>4 DEF NextInMemory

LEMMA SaveTidy == Inv /\ AllTidy /\ Save => AllTidy' /\ StoreTidy'
<1> SUFFICES ASSUME Inv, AllTidy, Save PROVE AllTidy' /\ StoreTidy'
  OBVIOUS
<1>1. UNCHANGED capabilities
      /\ store'.capabilities = [e \in Entity |-> [c \in Capability |-> StoredEntry(capabilities[e][c])]]
  BY DEF Save
<1>2. ASSUME NEW e \in Entity, NEW c \in Capability
      PROVE  LET stored == StoredEntry(capabilities[e][c])
             IN  Tidy(stored) /\ \A r \in stored.evidence : IsLive(r)
  <2> DEFINE entry == capabilities[e][c]
             stored == StoredEntry(entry)
  <2>1. /\ entry \in Entry /\ entry.evidence \subseteq EvidenceRecord
        /\ IsFiniteSet(entry.evidence) /\ entry.generation \in Nat
    BY HeldSound DEF SoundEntry, Entry
  <2>2. Tidy(entry)
    BY DEF AllTidy, TidyEntries
  <2> HIDE DEF entry
  <2>3. stored.evidence = Live(entry.evidence) /\ stored.generation = entry.generation
    BY <2>1 DEF StoredEntry, Entry
  <2>4. Live(entry.evidence) \subseteq entry.evidence /\ \A r \in Live(entry.evidence) : IsLive(r)
    BY DEF Live
  <2> HIDE DEF stored
  <2>5. Tidy(stored)
    BY <2>1, <2>2, <2>3, <2>4, SubsetUnique, SubsetOrdered DEF Tidy
  <2> QED
    BY <2>3, <2>4, <2>5 DEF stored, entry
<1>3. \A e \in Entity, c \in Capability : store'.capabilities[e][c] = StoredEntry(capabilities[e][c])
  BY <1>1
<1>4. StoreTidy'
  BY <1>2, <1>3 DEF StoreTidy
<1>5. AllTidy'
  BY <1>1 DEF AllTidy, TidyEntries
<1> QED
  BY <1>4, <1>5

LEMMA LoadTidy == Inv /\ StoreTidy /\ Load => AllTidy' /\ UNCHANGED store
<1> SUFFICES ASSUME Inv, StoreTidy, Load PROVE AllTidy' /\ UNCHANGED store
  OBVIOUS
<1>1. UNCHANGED store
      /\ capabilities' = [e \in Entity |-> [c \in Capability |-> LoadedEntry(store.capabilities[e][c])]]
  BY DEF Load
<1>2. \A e \in Entity, c \in Capability : Tidy(LoadedEntry(store.capabilities[e][c]))
  BY LoadedUnique, LoadedOrdered DEF StoreTidy, Tidy, Inv, StoreOK
<1> QED
  BY <1>1, <1>2 DEF AllTidy, TidyEntries

\* Every reachable state, across any sequence of calls, saves and loads.
LEMMA TidyInvariance == Spec => [](AllTidy /\ StoreTidy)
<1>1. Inv /\ AllTidy /\ StoreTidy /\ [Next]_vars => AllTidy' /\ StoreTidy'
  <2> SUFFICES ASSUME Inv, AllTidy, StoreTidy, [Next]_vars PROVE AllTidy' /\ StoreTidy'
    OBVIOUS
  <2>1. UNCHANGED store => StoreTidy'
    BY DEF StoreTidy
  <2>2. CASE NextInMemory
    BY <2>1, <2>2, TidyInMemory
  <2>3. CASE Save
    BY <2>3, SaveTidy
  <2>4. CASE Load
    BY <2>1, <2>4, LoadTidy
  <2>5. CASE UNCHANGED vars
    BY <2>1, <2>5 DEF vars, AllTidy, TidyEntries
  <2> QED
    BY <2>2, <2>3, <2>4, <2>5 DEF Next
<1> QED
  BY <1>1, TidyInit, Invariance, PTL DEF Spec

\* A publishing identity never contradicts itself: whatever snapshots, edits,
\* fences, limits and restarts it went through, at most one record of a
\* capability still speaks for it.
THEOREM IdentitySpeaksOnce == Spec => []OneLiveRecordPerIdentity
<1>1. AllTidy => OneLiveRecordPerIdentity
  BY DEF AllTidy, TidyEntries, Tidy, Unique, OneLiveRecordPerIdentity
<1> QED
  BY <1>1, TidyInvariance, PTL

\* The evidence generations tell the retained records of an identity apart, so
\* the identifiers derived from them are distinct and the winner does not
\* depend on the order of the vector, after a trim and after Load too.
THEOREM RecordsToldApart == Spec => []EvidenceKeyUnique
<1>1. AllTidy => EvidenceKeyUnique
  BY DEF AllTidy, TidyEntries, Tidy, Unique, EvidenceKeyUnique
<1> QED
  BY <1>1, TidyInvariance, PTL

\* max_evidence_per_capability: no sequence of claims, stopped requests and
\* restarts grows the evidence vector of a capability beyond one record more
\* than the limit, and the records that still speak never exceed it.
THEOREM EvidenceWithinBounds == Spec => []EvidenceBounded
<1>1. Inv /\ AllTidy => EvidenceBounded
  BY HeldSound DEF AllTidy, TidyEntries, Tidy, Ordered, SoundEntry, EvidenceBounded
<1> QED
  BY <1>1, TidyInvariance, Invariance, PTL
=============================================================================
