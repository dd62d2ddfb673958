------------------------------ MODULE Readers ------------------------------
(***************************************************************************)
(* The read side of CapabilityRegistry: snapshots and their differences,   *)
(* queries bound to an entity generation, and requirement evaluation, by   *)
(* a reader that runs beside the registry.  Each lock section is a step;   *)
(* a bound query has two and an evaluation one for each leaf, so that any  *)
(* change of the registry may fall between them.                           *)
(*                                                                         *)
(* Explanations and the rendering of results are left out.  In a           *)
(* difference CurrentnessChanged, EvidenceSuperseded and GenerationAdvanced *)
(* are one kind, "Refreshed": the answers of the model carry the           *)
(* generations and not the record counts.                                  *)
(***************************************************************************)
EXTENDS Registry

CONSTANTS
    SnapshotScopes,      \* the scopes CreateSnapshot is called with
    Requirements,        \* the requirements Evaluate is called with
    \* Module Requirement: what EvaluateRequirementAgainst makes of a tree.
    Valid(_),            \* the tree is within the bounds
    LeavesRead(_),       \* the capabilities of its leaves, in the order read
    OutcomeOf(_, _),     \* the outcome, from the answers read for them
    NoSnapshot, NoCall, NoSet

VARIABLES
    held,                \* the snapshot the reader took last
    call                 \* the read in progress

readerVars == <<held, call>>

SnapshotScope == [all: BOOLEAN, entities: SUBSET Entity, kinds: SUBSET Kind,
                  namespaces: SUBSET Namespace]

ASSUME ReadersAssumption ==
    /\ SnapshotScopes \subseteq SnapshotScope
    /\ \A r \in Requirements :
          LeavesRead(r) \in Seq(Capability)
    /\ NoSet \notin AnswerSet
    /\ NoSet \notin [generation: Nat, invalidated: BOOLEAN, answers: AnswerSet]

\* What QueryEntity returns; before the first refresh there is no set.
SetOf(entity) ==
    IF ~entity.materialised THEN NoSet
    ELSE [generation |-> entity.generation, invalidated |-> entity.invalidated,
          answers |-> entity.set]

-----------------------------------------------------------------------------
(* Answers.                                                                *)

\* Query: an entity that is not known and a capability that has no entry are
\* UNKNOWN.
Query(e, c) ==
    LET entry == capabilities[e][c]
    IN  IF entities[e].known /\ entry.exists
        THEN [state |-> entry.resolution.state, value |-> entry.resolution.value]
        ELSE [state |-> "Unknown", value |-> NoValue]

\* RetiredGeneration: the first summary kept of a generation that is not the
\* current one.
Retired(e, g) ==
    IF g = entities[e].generation THEN {}
    ELSE {i \in DOMAIN entities[e].history :
             /\ entities[e].history[i].generation = g
             /\ \A j \in 1..(i - 1) : entities[e].history[j].generation # g}

-----------------------------------------------------------------------------
(* Snapshots.                                                              *)

Holds(set, c) == set.answers[c].generation # 0

\* A namespace selects the entities whose set has a capability in it.
Selected(scope) ==
    {e \in Known :
        /\ scope.all \/ e \in scope.entities
        /\ scope.kinds # {} => EntityKind[e] \in scope.kinds
        /\ scope.namespaces # {} =>
              \E c \in Capability : /\ Descriptor[c].namespace \in scope.namespaces
                                    /\ SetOf(entities[e]) # NoSet
                                    /\ Holds(SetOf(entities[e]), c)}

CreateSnapshot(scope) ==
    /\ call = NoCall
    /\ held' = [registryGeneration |-> registryGeneration, epoch |-> epoch, scope |-> scope,
                entities |-> [e \in Selected(scope) |->
                    [generation |-> entities[e].generation,
                     setGeneration |-> entities[e].setGeneration,
                     set |-> SetOf(entities[e])]]]
    /\ UNCHANGED <<vars, call>>

\* The digest of a set covers its answers and nothing else of it.
Digest(set) == IF set = NoSet THEN NoSet ELSE set.answers

\* Mutant of CheckSnapshot: only the entities of the snapshot are compared.
CheckEntitiesOnly(snapshot) ==
    \A e \in DOMAIN snapshot.entities :
        LET then == snapshot.entities[e]
        IN  /\ entities[e].known
            /\ entities[e].generation = then.generation
            /\ entities[e].setGeneration = then.setGeneration
            /\ Digest(SetOf(entities[e])) = Digest(then.set)

CheckSnapshot(snapshot) ==
    /\ snapshot.registryGeneration = registryGeneration
    /\ snapshot.epoch = epoch
    /\ \A e \in DOMAIN snapshot.entities :
          LET then == snapshot.entities[e]
          IN  /\ entities[e].known
              /\ entities[e].generation = then.generation
              /\ entities[e].setGeneration = then.setGeneration
              /\ Digest(SetOf(entities[e])) = Digest(then.set)

-----------------------------------------------------------------------------
(* Differences.                                                            *)

Has(set, c) == set # NoSet /\ Holds(set, c)

\* The kind of the entry BuildDiff makes for a capability; "None" is no entry.
DiffKind(before, after, c) ==
    IF ~Has(before, c) /\ ~Has(after, c) THEN "None"
    ELSE IF ~Has(before, c) THEN "CapabilityAdded"
    ELSE IF ~Has(after, c) THEN "CapabilityRemoved"
    ELSE LET was == before.answers[c]
             is  == after.answers[c]
         IN  CASE was.state # is.state -> "StateChanged"
               [] was.state = is.state /\ was.value # is.value -> "ValueChanged"
               [] /\ was.state = is.state /\ was.value = is.value
                  /\ was.rank # is.rank -> "ProvenanceChanged"
               [] /\ was.state = is.state /\ was.value = is.value /\ was.rank = is.rank
                  /\ was # is -> "Refreshed"
               [] was = is -> "None"

BuildDiff(before, after) ==
    LET both == before # NoSet /\ after # NoSet
    IN  {kind \in {DiffKind(before, after, c) : c \in Capability} : kind # "None"}
        \cup {kind \in {"EntityGenerationChanged"} :
                 both /\ before.generation # after.generation}
        \cup {kind \in {"EntityInvalidated"} :
                 both /\ before.invalidated # after.invalidated}

\* The scope of the snapshot is not consulted: every entity it does not hold
\* is compared with nothing.
DiffAgainstSnapshot(snapshot) ==
    [e \in DOMAIN snapshot.entities \cup Known |->
        BuildDiff(IF e \in DOMAIN snapshot.entities THEN snapshot.entities[e].set ELSE NoSet,
                  SetOf(entities[e]))]

-----------------------------------------------------------------------------
(* Calls of more than one lock section.                                    *)

\* Query and QueryEntity for a generation: the first section compares the
\* generation, the second reads whatever is there.
BeginBoundQuery(e, g) ==
    /\ call = NoCall
    /\ entities[e].known
    /\ entities[e].generation = g
    /\ call' = [op |-> "Query", entity |-> e, generation |-> g]
    /\ UNCHANGED <<vars, held>>

AnswerBoundQuery ==
    /\ call # NoCall /\ call.op = "Query"
    /\ call' = NoCall
    /\ UNCHANGED <<vars, held>>

\* Evaluate: the generation it reports is read first.  "since" is not in the
\* code; it is the registry generation at that moment.
BeginEvaluation(e, r) ==
    /\ call = NoCall
    /\ Valid(r)
    /\ call' = [op |-> "Evaluate", entity |-> e, requirement |-> r,
                generation |-> entities[e].generation, since |-> registryGeneration,
                read |-> <<>>]
    /\ UNCHANGED <<vars, held>>

\* Mutant of ReadLeaf: the answer is taken from the snapshot the reader holds.
ReadLeafFromSnapshot ==
    /\ call # NoCall /\ call.op = "Evaluate"
    /\ Len(call.read) < Len(LeavesRead(call.requirement))
    /\ LET c == LeavesRead(call.requirement)[Len(call.read) + 1]
           e == call.entity
       IN  call' = [call EXCEPT !.read = Append(@,
                IF held # NoSnapshot /\ e \in DOMAIN held.entities
                                     /\ Has(held.entities[e].set, c)
                THEN [state |-> held.entities[e].set.answers[c].state,
                      value |-> held.entities[e].set.answers[c].value]
                ELSE Query(e, c))]
    /\ UNCHANGED <<vars, held>>

ReadLeaf ==
    /\ call # NoCall /\ call.op = "Evaluate"
    /\ Len(call.read) < Len(LeavesRead(call.requirement))
    /\ LET c == LeavesRead(call.requirement)[Len(call.read) + 1]
       IN  call' = [call EXCEPT !.read = Append(@, Query(call.entity, c))]
    /\ UNCHANGED <<vars, held>>

EndEvaluation ==
    /\ call # NoCall /\ call.op = "Evaluate"
    /\ Len(call.read) = Len(LeavesRead(call.requirement))
    /\ call' = NoCall
    /\ UNCHANGED <<vars, held>>

-----------------------------------------------------------------------------
ReaderInit == Init /\ held = NoSnapshot /\ call = NoCall

Read ==
    \/ \E scope \in SnapshotScopes : CreateSnapshot(scope)
    \/ \E e \in Entity, g \in EntityGenerations : BeginBoundQuery(e, g)
    \/ AnswerBoundQuery
    \/ \E e \in Entity, r \in Requirements : BeginEvaluation(e, r)
    \/ ReadLeaf
    \/ EndEvaluation

ReaderNext ==
    \/ Read
    \/ NextInMemory /\ UNCHANGED readerVars

ReaderSpec == ReaderInit /\ [][ReaderNext]_<<vars, readerVars>>

-----------------------------------------------------------------------------
\* A snapshot leaves nothing out only when its scope has no filter.
Unfiltered(scope) == scope.all /\ scope.kinds = {} /\ scope.namespaces = {}

\* A snapshot that CheckSnapshot calls current tells what QueryEntity tells of
\* its entities now, and one of the whole registry misses no entity that has
\* answers.  Of all the kinds of difference one escapes the check: a
\* publication that changes no answer still lifts the invalidation of its
\* entity, and neither a generation nor a digest shows it.
CurrentSnapshotHidesOnlyRevival ==
    held # NoSnapshot /\ CheckSnapshot(held) =>
        \A e \in DOMAIN held.entities \cup (IF Unfiltered(held.scope) THEN Known ELSE {}) :
            LET diff == DiffAgainstSnapshot(held)[e]
            IN  \/ diff = {}
                \/ diff = {"EntityInvalidated"} /\ ~entities[e].invalidated

\* The generation a bound query was asked for may be gone when it is answered,
\* but only for a newer one: no answer rests on evidence of an older
\* generation than the caller asked for.
BoundAnswerIsNotOlder ==
    call # NoCall /\ call.op = "Query" =>
        /\ entities[call.entity].generation >= call.generation
        /\ \A c \in Capability : \A r \in capabilities[call.entity][c].evidence :
              r.entityGeneration >= call.generation

\* An evaluation reads leaf by leaf and may mix answers of several instants.
\* If the registry generation at its end is the one at its beginning it has
\* not: the outcome is that of the answers of one instant, and the generation
\* it reports is theirs.
QuietEvaluationIsAtomic ==
    call # NoCall /\ call.op = "Evaluate" /\ registryGeneration = call.since =>
        LET leaves == LeavesRead(call.requirement)
        IN  /\ call.generation \in {0, entities[call.entity].generation}
            /\ Len(call.read) = Len(leaves) =>
                  OutcomeOf(call.requirement, call.read) =
                  OutcomeOf(call.requirement,
                          [i \in DOMAIN leaves |-> Query(call.entity, leaves[i])])

\* What is retained of a retired generation is its last word: it is never
\* behind a snapshot taken while that generation was current, and a generation
\* that had a numbered set is retained for as long as there is room.
RetiredHasTheLastWord ==
    held # NoSnapshot =>
        \A e \in DOMAIN held.entities :
            LET then  == held.entities[e]
                found == Retired(e, then.generation)
            IN  /\ \A i \in found : entities[e].history[i].setGeneration >= then.setGeneration
                /\ /\ then.setGeneration > 0
                   /\ then.generation # entities[e].generation
                   /\ Len(entities[e].history) < MaxHistory
                   => found # {}
=============================================================================
