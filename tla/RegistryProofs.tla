--------------------------- MODULE RegistryProofs ---------------------------
(***************************************************************************)
(* What every reachable state of Registry satisfies, for every value of    *)
(* the constants.  The first part holds the facts about one entry, and the  *)
(* evidence it retains, that the proofs about the registry rest on.        *)
(***************************************************************************)
EXTENDS Registry, FiniteSetTheorems, WellFoundedInduction, SequenceTheorems, TLAPS

-----------------------------------------------------------------------------
(* One entry: what the operators of Evidence preserve.                     *)

\* A non-empty set of naturals has a least element.
LEMMA LeastNatural ==
    ASSUME NEW S, S \subseteq Nat, S # {}
    PROVE  \E m \in S : \A n \in S : m <= n
<1>1. \E x \in S : \A y \in S : ~(<<y, x>> \in OpToRel(<, Nat))
  BY NatLessThanWellFounded, WFMin
<1>2. PICK x \in S : \A y \in S : ~(<<y, x>> \in OpToRel(<, Nat))
  BY <1>1
<1>3. ASSUME NEW y \in S PROVE x <= y
  <2>1. ~(<<y, x>> \in OpToRel(<, Nat))
    BY <1>2
  <2>2. ~(y < x)
    BY <2>1 DEF OpToRel
  <2> QED
    BY <2>2
<1> QED
  BY <1>2, <1>3

\* A non-empty bounded set of naturals has a greatest element.
LEMMA GreatestNatural ==
    ASSUME NEW S, S \subseteq Nat, S # {}, NEW b \in Nat, \A n \in S : n <= b
    PROVE  \E m \in S : \A n \in S : n <= m
<1> DEFINE T == {b - n : n \in S}
<1>1. T \subseteq Nat /\ T # {}
  <2>1. \A n \in S : b - n \in Nat
    OBVIOUS
  <2> QED
    BY <2>1 DEF T
<1>2. PICK k \in T : \A j \in T : k <= j
  <2> HIDE DEF T
  <2> QED
    BY <1>1, LeastNatural
<1>3. PICK m \in S : k = b - m
  BY <1>2 DEF T
<1>4. ASSUME NEW n \in S PROVE n <= m
  <2>1. b - n \in T
    BY DEF T
  <2>2. b - m <= b - n
    BY <1>2, <1>3, <2>1
  <2>3. b \in Nat /\ m \in Nat /\ n \in Nat
    OBVIOUS
  <2> QED
    BY <2>2, <2>3
<1> QED
  BY <1>4

\* The field types of a record that the arithmetic steps use.
LEMMA RecordFields ==
    ASSUME NEW r \in EvidenceRecord
    PROVE  /\ r.generation \in Nat /\ r.source \in Nat /\ r.boot \in Nat
           /\ r.rank \in Rank /\ r.value \in Value \cup {NoValue}
           /\ r.state \in CapabilityState /\ r.durable \in BOOLEAN
BY EvidenceAssumption DEF EvidenceRecord

\* The deterministic choice is a member of the set it chooses from, and is
\* preferred to every other member: the order of the vector is immaterial.
LEMMA PickIsPreferred ==
    ASSUME NEW R, R \subseteq EvidenceRecord, R # {},
           NEW b \in Nat, \A r \in R : r.generation <= b
    PROVE  /\ PickDeterministic(R) \in R
           /\ \A q \in R : PreferredTo(PickDeterministic(R), q)
<1> DEFINE G == {r.generation : r \in R}
<1>0. \A r \in R : r.generation \in Nat /\ r.source \in Nat /\ r.boot \in Nat
  BY RecordFields
<1>1. PICK m \in G : \A g \in G : g <= m
  <2>1. G \subseteq Nat /\ G # {} /\ \A g \in G : g <= b
    BY <1>0
  <2> HIDE DEF G
  <2> QED
    BY <2>1, GreatestNatural
<1> DEFINE R1 == {r \in R : r.generation = m}
<1> DEFINE A == {r.source : r \in R1}
<1>2. PICK s \in A : \A t \in A : s <= t
  <2>1. A \subseteq Nat /\ A # {}
    BY <1>0, <1>1
  <2> HIDE DEF A
  <2> QED
    BY <2>1, LeastNatural
<1> DEFINE R2 == {r \in R1 : r.source = s}
<1> DEFINE B == {r.boot : r \in R2}
<1>3. PICK o \in B : \A t \in B : o <= t
  <2>1. B \subseteq Nat /\ B # {}
    BY <1>0, <1>2
  <2> HIDE DEF B
  <2> QED
    BY <2>1, LeastNatural
<1>4. PICK r \in R2 : r.boot = o
  BY <1>3
<1>5. ASSUME NEW q \in R PROVE PreferredTo(r, q)
  <2>1. r \in R /\ r.generation = m /\ r.source = s /\ r.boot = o
    BY <1>4
  <2>2. q.generation \in Nat /\ q.source \in Nat /\ q.boot \in Nat /\ m \in Nat /\ s \in Nat /\ o \in Nat
    BY <1>0, <2>1
  <2>3. q.generation <= m
    BY <1>1
  <2>4. q.generation = m => s <= q.source
    BY <1>2
  <2>5. q.generation = m /\ q.source = s => o <= q.boot
    BY <1>3
  <2> QED
    BY <2>1, <2>2, <2>3, <2>4, <2>5 DEF PreferredTo
<1>6. r \in R
  BY <1>4
<1> QED
  BY <1>5, <1>6 DEF PickDeterministic

\* Resolution depends on the live records only, and yields a resolution.
LEMMA ResolutionType ==
    ASSUME NEW E, E \subseteq EvidenceRecord, NEW g \in Nat,
           NEW b \in Nat, \A r \in E : r.generation <= b
    PROVE  ResolveCapability(E, g) \in Resolution
<1> DEFINE S == Strongest(Live(E))
<1> DEFINE C == {r \in S : IsCurrent(r)}
<1>1. S \subseteq E /\ C \subseteq E
  BY DEF Strongest, Live
<1>2. S # {} => PickDeterministic(S) \in EvidenceRecord
  <2> HIDE DEF S
  <2> QED
    BY <1>1, PickIsPreferred
<1>3. C # {} => PickDeterministic(C) \in EvidenceRecord
  <2> HIDE DEF C
  <2> QED
    BY <1>1, PickIsPreferred
<1>4. NoAnswer(g) \in Resolution
  BY DEF NoAnswer, Resolution, CapabilityState, Rank
<1>5. \A r \in EvidenceRecord, st \in CapabilityState, v \in Value \cup {NoValue} :
          Answer(st, v, r, g) \in Resolution
  BY RecordFields DEF Answer, Resolution
<1>6. \A r \in EvidenceRecord : r.state \in CapabilityState /\ r.value \in Value \cup {NoValue}
  BY RecordFields
<1>7. "RevalidationRequired" \in CapabilityState /\ "Conflicted" \in CapabilityState
  BY DEF CapabilityState
<1>8. ResolveCapability(E, g) =
        IF S = {} THEN NoAnswer(g)
        ELSE IF C = {} THEN Answer("RevalidationRequired", PickDeterministic(S).value, PickDeterministic(S), g)
        ELSE IF \A r \in C : SameClaim(r, PickDeterministic(C))
             THEN Answer(PickDeterministic(C).state, PickDeterministic(C).value, PickDeterministic(C), g)
        ELSE Answer("Conflicted", NoValue, PickDeterministic(C), g)
  BY DEF ResolveCapability
<1> HIDE DEF S, C
<1> QED
  BY <1>2, <1>3, <1>4, <1>5, <1>6, <1>7, <1>8

-----------------------------------------------------------------------------
(* The invariant of one entry.                                             *)

\* What every operation on an entry preserves: the types; finitely many
\* records, none with a generation beyond the entry's; the cached answer is
\* the one the evidence resolves to; the records that speak are bounded.
SoundEntry(entry) ==
    /\ entry \in Entry
    /\ IsFiniteSet(entry.evidence)
    /\ \A r \in entry.evidence : r.generation <= entry.generation
    /\ entry.resolution = ResolveCapability(entry.evidence, entry.generation)
    /\ ~entry.exists => entry = NoEntry
    /\ Cardinality(Live(entry.evidence)) <= MaxEvidence

\* What a store keeps of a sound entry.
SoundStored(entry) ==
    /\ entry \in Entry
    /\ IsFiniteSet(entry.evidence)
    /\ \A r \in entry.evidence : r.generation <= entry.generation
    /\ ~entry.exists => entry = NoEntry
    /\ Cardinality(entry.evidence) <= MaxEvidence

\* The image of a finite set is finite and no larger.
LEMMA ImageCardinality ==
    ASSUME NEW S, IsFiniteSet(S), NEW f, f = [x \in S |-> f[x]]
    PROVE  /\ IsFiniteSet({f[x] : x \in S})
           /\ Cardinality({f[x] : x \in S}) <= Cardinality(S)
<1> DEFINE T == {f[x] : x \in S}
<1>1. f \in Surjection(S, T)
  BY DEF Surjection
<1> HIDE DEF T
<1>2. IsFiniteSet(T) /\ Cardinality(T) <= Cardinality(S)
  BY <1>1, FS_Surjection
<1> QED
  BY <1>2 DEF T

LEMMA LiveSubset ==
    ASSUME NEW E, IsFiniteSet(E)
    PROVE  /\ IsFiniteSet(Live(E))
           /\ Cardinality(Live(E)) \in Nat
           /\ Cardinality(Live(E)) <= Cardinality(E)
BY FS_Subset, FS_CardinalityType DEF Live

\* The resolution of no evidence is the absence of an answer.
LEMMA NoEntrySound == SoundEntry(NoEntry)
<1>1. ResolveCapability({}, 0) = NoAnswer(0)
  BY DEF ResolveCapability, Strongest, Live
<1>2. NoAnswer(0) \in Resolution
  BY DEF NoAnswer, Resolution, CapabilityState, Rank
<1>3. Cardinality(Live({})) = 0
  BY FS_EmptySet DEF Live
<1>4. NoEntry \in Entry
  BY <1>2 DEF NoEntry, Entry
<1> QED
  BY <1>1, <1>3, <1>4, FS_EmptySet, EvidenceAssumption DEF NoEntry, SoundEntry

\* Touching a sound entry with sound evidence gives a sound entry.
LEMMA TouchSound ==
    ASSUME NEW entry, SoundEntry(entry), NEW E, E \subseteq EvidenceRecord,
           IsFiniteSet(E), \A r \in E : r.generation <= entry.generation + 1,
           Cardinality(Live(E)) <= MaxEvidence
    PROVE  SoundEntry(Touch(entry, E))
<1>1. entry.generation \in Nat /\ entry.generation + 1 \in Nat
  BY DEF SoundEntry, Entry
<1>2. ResolveCapability(E, entry.generation + 1) \in Resolution
  BY <1>1, ResolutionType
<1> QED
  BY <1>1, <1>2 DEF SoundEntry, Entry, Touch

\* Marking keeps the records apart from their currentness, and lets no
\* retired record speak again.
LEMMA MarkSound ==
    ASSUME NEW E, E \subseteq EvidenceRecord, IsFiniteSet(E), NEW S, S \subseteq E,
           NEW currentness \in Currentness,
           currentness = "Superseded" \/ S \subseteq Live(E)
    PROVE  /\ Mark(E, S, currentness) \subseteq EvidenceRecord
           /\ IsFiniteSet(Mark(E, S, currentness))
           /\ \A q \in Mark(E, S, currentness) : \E r \in E :
                 /\ q = r \/ q = [r EXCEPT !.currentness = currentness]
                 /\ q.generation = r.generation
           /\ IsFiniteSet(Live(Mark(E, S, currentness)))
           /\ Cardinality(Live(Mark(E, S, currentness))) <= Cardinality(Live(E))
<1> DEFINE M == Mark(E, S, currentness)
<1> DEFINE Re(r) == [r EXCEPT !.currentness = currentness]
<1>1. \A r \in EvidenceRecord :
         Re(r) \in EvidenceRecord /\ Re(r).generation = r.generation /\ Re(r).currentness = currentness
  BY DEF EvidenceRecord
<1>2. M = (E \ S) \cup {Re(r) : r \in S}
  BY DEF Mark
<1>3. M \subseteq EvidenceRecord
  BY <1>1, <1>2
<1>4. \A q \in M : \E r \in E : (q = r \/ q = Re(r)) /\ q.generation = r.generation
  BY <1>1, <1>2
<1> DEFINE f == [r \in E |-> IF r \in S THEN Re(r) ELSE r]
<1>5. M = {f[r] : r \in E}
  BY <1>2
<1>6. IsFiniteSet(M)
  <2>1. f = [r \in E |-> f[r]]
    OBVIOUS
  <2> HIDE DEF f
  <2> QED
    BY <2>1, <1>5, ImageCardinality
<1> DEFINE g == [r \in Live(E) |-> IF r \in S THEN Re(r) ELSE r]
<1>7. Live(M) \subseteq {g[r] : r \in Live(E)}
  <2> SUFFICES ASSUME NEW q \in Live(M)
               PROVE  \E r \in Live(E) : q = g[r]
    OBVIOUS
  <2>1. q \in M /\ q.currentness # "Superseded"
    BY DEF Live, IsLive
  <2>2. PICK r \in E : q = f[r]
    BY <1>5, <2>1
  <2>3. CASE r \in S
    <3>1. q = Re(r)
      BY <2>2, <2>3
    <3>2. r \in Live(E)
      BY <1>1, <2>1, <2>3, <3>1
    <3> QED
      BY <2>3, <3>1, <3>2
  <2>4. CASE r \notin S
    <3>1. q = r
      BY <2>2, <2>4
    <3>2. r \in Live(E)
      BY <2>1, <3>1 DEF Live, IsLive
    <3> QED
      BY <2>4, <3>1, <3>2
  <2> QED
    BY <2>3, <2>4
<1>8. IsFiniteSet(Live(M)) /\ Cardinality(Live(M)) <= Cardinality(Live(E))
  <2>1. IsFiniteSet(Live(E)) /\ Cardinality(Live(E)) \in Nat
    BY LiveSubset
  <2>2. g = [r \in Live(E) |-> g[r]]
    OBVIOUS
  <2> DEFINE T == {g[r] : r \in Live(E)}
  <2>3. IsFiniteSet(T) /\ Cardinality(T) <= Cardinality(Live(E))
    <3> HIDE DEF g
    <3> QED
      BY <2>1, <2>2, ImageCardinality
  <2>4. Live(M) \in SUBSET T
    BY <1>7
  <2> HIDE DEF T, M
  <2>5. IsFiniteSet(Live(M)) /\ Cardinality(Live(M)) <= Cardinality(T)
    BY <2>3, <2>4, FS_Subset
  <2>6. Cardinality(T) \in Nat /\ Cardinality(Live(M)) \in Nat
    BY <2>3, <2>5, FS_CardinalityType
  <2> QED
    BY <2>1, <2>3, <2>5, <2>6
<1> QED
  BY <1>3, <1>4, <1>6, <1>8

-----------------------------------------------------------------------------
(* What the operations on an entry preserve.                               *)

\* F holds nothing but records of E, some with a weaker currentness: no
\* record is invented and none becomes current.
Weakens(E, F) ==
    \A q \in F : \E r \in E : /\ q.generation = r.generation
                              /\ q.entityGeneration = r.entityGeneration
                              /\ IsCurrent(q) => q = r

\* Taking records out of currency weakens the evidence.
LEMMA MarkWeakens ==
    ASSUME NEW E, E \subseteq EvidenceRecord, NEW S, S \subseteq E,
           NEW currentness \in Currentness, currentness # "Current"
    PROVE  /\ Weakens(E, Mark(E, S, currentness))
           /\ \A q \in Mark(E, S, currentness) : IsCurrent(q) => q \in E \ S
<1> DEFINE Re(r) == [r EXCEPT !.currentness = currentness]
<1>1. \A r \in EvidenceRecord : /\ Re(r).generation = r.generation
                                /\ Re(r).entityGeneration = r.entityGeneration
                                /\ Re(r).currentness = currentness
  BY DEF EvidenceRecord
<1>2. Mark(E, S, currentness) = (E \ S) \cup {Re(r) : r \in S}
  BY DEF Mark
<1> HIDE DEF Re
<1>3. ASSUME NEW q \in Mark(E, S, currentness)
      PROVE  /\ \E r \in E : /\ q.generation = r.generation
                             /\ q.entityGeneration = r.entityGeneration
                             /\ IsCurrent(q) => q = r
             /\ IsCurrent(q) => q \in E \ S
  <2>1. CASE q \in E \ S
    BY <2>1
  <2>2. CASE \E r \in S : q = Re(r)
    BY <1>1, <2>2 DEF IsCurrent
  <2> QED
    BY <1>2, <2>1, <2>2
<1> QED
  BY <1>3 DEF Weakens

\* Marking live records of a sound entry leaves it sound: it stays, or stays
\* absent, and its generation does not fall.
LEMMA MarkAndTouchSound ==
    ASSUME NEW entry, SoundEntry(entry), NEW S, S \subseteq Live(entry.evidence),
           NEW currentness \in Currentness, currentness # "Current"
    PROVE  LET new == MarkAndTouch(entry, S, currentness)
           IN  /\ SoundEntry(new)
               /\ Weakens(entry.evidence, new.evidence)
               /\ \A q \in new.evidence : IsCurrent(q) => q \in entry.evidence \ S
               /\ new.exists = entry.exists
<1> DEFINE E == entry.evidence
           M == Mark(E, S, currentness)
<1>1. /\ E \subseteq EvidenceRecord /\ IsFiniteSet(E) /\ S \subseteq E
      /\ entry.generation \in Nat
      /\ Cardinality(Live(E)) <= MaxEvidence
      /\ \A r \in E : r.generation \in Nat /\ r.generation <= entry.generation
  BY RecordFields DEF SoundEntry, Entry, Live
<1>2. CASE S = {}
  BY <1>2 DEF MarkAndTouch, Weakens
<1>3. CASE S # {}
  <2>1. MarkAndTouch(entry, S, currentness) = Touch(entry, M)
    BY <1>3 DEF MarkAndTouch
  <2>2. entry.exists
    BY <1>1, <1>3 DEF SoundEntry, NoEntry
  <2>3. /\ M \subseteq EvidenceRecord /\ IsFiniteSet(M)
        /\ IsFiniteSet(Live(M)) /\ Cardinality(Live(M)) <= Cardinality(Live(E))
    BY <1>1, MarkSound
  <2>4. Cardinality(Live(M)) <= MaxEvidence
    BY <1>1, <2>3, LiveSubset, FS_CardinalityType, EvidenceAssumption
  <2>5. /\ Weakens(E, M)
        /\ \A q \in M : IsCurrent(q) => q \in E \ S
    <3> HIDE DEF E
    <3> QED
      BY <1>1, MarkWeakens, Zenon
  <2>6. \A q \in M : q.generation <= entry.generation + 1
    BY <1>1, <2>5 DEF Weakens
  <2>7. SoundEntry(Touch(entry, M))
    BY <2>3, <2>4, <2>6, TouchSound
  <2>8. Touch(entry, M).evidence = M /\ Touch(entry, M).exists
    BY DEF Touch
  <2>9. entry.exists = TRUE
    BY <2>2 DEF SoundEntry, Entry
  <2> QED
    BY <2>1, <2>5, <2>7, <2>8, <2>9 DEF Touch
<1> QED
  BY <1>2, <1>3

\* The six operations that retire records or take them out of currency.
LEMMA SupersedeSound ==
    ASSUME NEW entry, SoundEntry(entry), NEW id
    PROVE  LET new == SupersedeIdentity(entry, id)
           IN  SoundEntry(new) /\ Weakens(entry.evidence, new.evidence) /\ new.exists = entry.exists
<1>1. OwnLive(entry.evidence, id) \subseteq Live(entry.evidence)
  BY DEF OwnLive, Live
<1>2. "Superseded" \in Currentness
  BY DEF Currentness
<1> QED
  BY <1>1, <1>2, MarkAndTouchSound DEF SupersedeIdentity

LEMMA SupersedeOthersSound ==
    ASSUME NEW entry, SoundEntry(entry), NEW publisher, NEW boot
    PROVE  LET new == SupersedeOtherIdentities(entry, publisher, boot)
           IN  SoundEntry(new) /\ Weakens(entry.evidence, new.evidence) /\ new.exists = entry.exists
<1> DEFINE S == {r \in entry.evidence : /\ ~(r.publisher = publisher /\ r.boot = boot)
                                        /\ ~r.durable
                                        /\ IsLive(r)}
<1>1. S \subseteq Live(entry.evidence)
  BY DEF Live
<1>2. "Superseded" \in Currentness
  BY DEF Currentness
<1>3. SupersedeOtherIdentities(entry, publisher, boot) = MarkAndTouch(entry, S, "Superseded")
  BY DEF SupersedeOtherIdentities
<1> HIDE DEF S
<1>4. /\ SoundEntry(MarkAndTouch(entry, S, "Superseded"))
      /\ Weakens(entry.evidence, MarkAndTouch(entry, S, "Superseded").evidence)
      /\ MarkAndTouch(entry, S, "Superseded").exists = entry.exists
  BY <1>1, <1>2, MarkAndTouchSound
<1> QED
  BY <1>3, <1>4

\* Nothing current is left among the records that MarkNonCurrent reaches.
LEMMA MarkNonCurrentSound ==
    ASSUME NEW entry, SoundEntry(entry), NEW S, S \subseteq entry.evidence,
           NEW currentness \in {"RevalidationRequired", "Fenced"}
    PROVE  LET new == MarkNonCurrent(entry, S, currentness)
           IN  /\ SoundEntry(new)
               /\ Weakens(entry.evidence, new.evidence)
               /\ \A q \in new.evidence : IsCurrent(q) => q \in entry.evidence \ S
               /\ new.exists = entry.exists
<1> DEFINE T == {r \in S : IsCurrent(r)}
<1>1. T \subseteq Live(entry.evidence)
  BY DEF Live, IsLive, IsCurrent
<1>2. currentness \in Currentness /\ currentness # "Current"
  BY DEF Currentness
<1>3. MarkNonCurrent(entry, S, currentness) = MarkAndTouch(entry, T, currentness)
  BY DEF MarkNonCurrent
<1>4. \A q : IsCurrent(q) /\ q \notin T => q \notin S
  OBVIOUS
<1> HIDE DEF T
<1> QED
  BY <1>1, <1>2, <1>3, <1>4, MarkAndTouchSound

\* The generation of a new record is one past a retained one or the first.
LEMMA NextGenerationBounded ==
    ASSUME NEW E, E \subseteq EvidenceRecord, NEW id, NEW b \in Nat,
           \A r \in E : r.generation <= b
    PROVE  /\ NextEvidenceGeneration(E, id) \in Nat
           /\ NextEvidenceGeneration(E, id) <= b + 1
           /\ \A r \in E : Owns(id, r) => r.generation < NextEvidenceGeneration(E, id)
<1> DEFINE own == {0} \cup {r.generation : r \in {q \in E : Owns(id, q)}}
<1>1. own \subseteq Nat /\ own # {} /\ \A g \in own : g <= b
  BY RecordFields
<1>2. \A r \in E : Owns(id, r) => r.generation \in own
  OBVIOUS
<1>3. NextEvidenceGeneration(E, id) = 1 + (CHOOSE g \in own : \A h \in own : h <= g)
  BY DEF NextEvidenceGeneration
<1> HIDE DEF own
<1>4. PICK g \in own : g = (CHOOSE x \in own : \A h \in own : h <= x) /\ \A h \in own : h <= g
  BY <1>1, GreatestNatural
<1>5. NextEvidenceGeneration(E, id) = 1 + g /\ g \in Nat /\ g <= b
  BY <1>1, <1>3, <1>4
<1>6. ASSUME NEW r \in E, Owns(id, r) PROVE r.generation < 1 + g
  <2>1. r.generation <= g /\ r.generation \in Nat
    BY <1>1, <1>2, <1>4, <1>6
  <2> QED
    BY <1>5, <2>1
<1> QED
  BY <1>5, <1>6

\* Resolution reads nothing but the live records.
LEMMA ResolutionOfLive ==
    ASSUME NEW E, NEW F, Live(E) = Live(F), NEW g
    PROVE  ResolveCapability(E, g) = ResolveCapability(F, g)
BY DEF ResolveCapability

\* Making room loses no record that speaks but the identity's own.
LEMMA MakeRoomSound ==
    ASSUME NEW E, E \subseteq EvidenceRecord, IsFiniteSet(E), NEW id
    PROVE  /\ MakeRoom(E, id) \subseteq EvidenceRecord
           /\ IsFiniteSet(MakeRoom(E, id))
           /\ Weakens(E, MakeRoom(E, id))
           /\ Live(MakeRoom(E, id)) = Live(E) \ OwnLive(E, id)
<1> DEFINE S == OwnLive(E, id)
           M == Mark(E, S, "Superseded")
<1>1. S \subseteq E /\ S \subseteq Live(E) /\ "Superseded" \in Currentness
  BY DEF OwnLive, Live, Currentness
<1>2. M \subseteq EvidenceRecord /\ IsFiniteSet(M)
  <2> HIDE DEF S
  <2> QED
    BY <1>1, MarkSound
<1>3. Weakens(E, M)
  <2> HIDE DEF S
  <2> QED
    BY <1>1, MarkWeakens
<1>4. Live(M) = Live(E) \ S
  <2> DEFINE Re(r) == [r EXCEPT !.currentness = "Superseded"]
  <2>1. M = (E \ S) \cup {Re(r) : r \in S}
    BY DEF Mark
  <2>2. \A r \in S : Re(r).currentness = "Superseded"
    BY <1>1 DEF EvidenceRecord
  <2> HIDE DEF Re, S, M
  <2> QED
    BY <1>1, <2>1, <2>2 DEF Live, IsLive
<1>5. MakeRoom(E, id) = TrimEvidence(M)
  BY DEF MakeRoom
<1>6. TrimEvidence(M) \subseteq M /\ Live(TrimEvidence(M)) = Live(M)
  BY DEF TrimEvidence, Live
<1>7. IsFiniteSet(TrimEvidence(M))
  <2> HIDE DEF M
  <2> QED
    BY <1>2, <1>6, FS_Subset
<1> HIDE DEF S, M
<1>8. Weakens(E, TrimEvidence(M))
  BY <1>3, <1>6 DEF Weakens
<1> QED
  BY <1>2, <1>4, <1>5, <1>6, <1>7, <1>8 DEF S

\* The new record of a claim.
LEMMA NewRecordType ==
    ASSUME NEW entry, SoundEntry(entry), NEW stamp \in Stamp, NEW claim \in Claim
    PROVE  /\ NewRecord(entry, stamp, claim) \in EvidenceRecord
           /\ NewRecord(entry, stamp, claim).generation <= entry.generation + 1
<1>1. /\ entry.evidence \subseteq EvidenceRecord
      /\ entry.generation \in Nat
      /\ \A r \in entry.evidence : r.generation <= entry.generation
  BY DEF SoundEntry, Entry
<1>2. /\ NextEvidenceGeneration(entry.evidence, stamp) \in Nat
      /\ NextEvidenceGeneration(entry.evidence, stamp) <= entry.generation + 1
  BY <1>1, NextGenerationBounded
<1> QED
  BY <1>1, <1>2 DEF NewRecord, Stamp, Claim, EvidenceRecord, Currentness

\* A claim that the limits admit leaves the entry sound; what it holds beyond
\* weakened old records is the new record.
LEMMA ApplyClaimSound ==
    ASSUME NEW entry, SoundEntry(entry), NEW stamp \in Stamp, NEW claim \in Claim,
           ~EvidenceLimitExceeded(entry, stamp)
    PROVE  LET new == ApplyClaim(entry, stamp, claim)
           IN  /\ SoundEntry(new)
               /\ Weakens(entry.evidence, new.evidence \ {NewRecord(entry, stamp, claim)})
               /\ new.exists
<1> DEFINE E == entry.evidence
           R == MakeRoom(E, stamp)
           n == NewRecord(entry, stamp, claim)
           F == R \cup {n}
<1>1. /\ E \subseteq EvidenceRecord /\ IsFiniteSet(E)
      /\ entry.generation \in Nat
      /\ \A r \in E : r.generation \in Nat /\ r.generation <= entry.generation
  BY RecordFields DEF SoundEntry, Entry
<1>2. R \subseteq EvidenceRecord /\ IsFiniteSet(R) /\ Weakens(E, R)
  BY <1>1, MakeRoomSound
<1>3. n \in EvidenceRecord /\ n.generation <= entry.generation + 1
  BY NewRecordType
<1>4. ApplyClaim(entry, stamp, claim) = Touch(entry, F)
  BY DEF ApplyClaim
<1>5. ~(Cardinality(Live(R)) >= MaxEvidence)
  BY DEF EvidenceLimitExceeded
<1> HIDE DEF E, R, n
<1>6. \A q \in F : q.generation <= entry.generation + 1
  BY <1>1, <1>2, <1>3 DEF Weakens
<1>7. IsFiniteSet(F)
  BY <1>2, FS_AddElement
<1>8. Cardinality(Live(F)) <= MaxEvidence
  <2> DEFINE L == Live(R) \cup {n}
  <2>1. IsFiniteSet(Live(R)) /\ Cardinality(Live(R)) \in Nat
    BY <1>2, LiveSubset
  <2>2. IsFiniteSet(L) /\ Cardinality(L) <= Cardinality(Live(R)) + 1 /\ Cardinality(L) \in Nat
    <3>1. IsFiniteSet(L)
          /\ Cardinality(L) = IF n \in Live(R) THEN Cardinality(Live(R)) ELSE Cardinality(Live(R)) + 1
      BY <2>1, FS_AddElement
    <3> HIDE DEF L
    <3> QED
      BY <2>1, <3>1
  <2>3. Live(F) \subseteq L
    BY DEF Live
  <2> HIDE DEF L, F
  <2>4. Cardinality(Live(F)) <= Cardinality(L) /\ Cardinality(Live(F)) \in Nat
    BY <2>2, <2>3, FS_Subset, FS_CardinalityType
  <2> QED
    BY <1>5, <2>1, <2>2, <2>4, EvidenceAssumption
<1>9. SoundEntry(Touch(entry, F))
  BY <1>2, <1>3, <1>6, <1>7, <1>8, TouchSound
<1>10. Touch(entry, F).evidence = F /\ Touch(entry, F).exists
  BY DEF Touch
<1>11. Weakens(E, F \ {n})
  BY <1>2 DEF Weakens
<1> QED
  BY <1>4, <1>9, <1>10, <1>11 DEF E, n

\* The early return at the limit: the identity had no live record, or the
\* limit would not be met, so the answer that is not resolved again is right.
LEMMA AtLimitSound ==
    ASSUME NEW entry, SoundEntry(entry), entry.exists, NEW stamp,
           EvidenceLimitExceeded(entry, stamp)
    PROVE  LET new == ApplyClaimAtLimit(entry, stamp)
           IN  SoundEntry(new) /\ Weakens(entry.evidence, new.evidence) /\ new.exists
<1> DEFINE E == entry.evidence
           R == MakeRoom(E, stamp)
           new == ApplyClaimAtLimit(entry, stamp)
<1>1. /\ entry \in Entry /\ E \subseteq EvidenceRecord /\ IsFiniteSet(E)
      /\ entry.generation \in Nat
      /\ entry.resolution = ResolveCapability(E, entry.generation)
      /\ Cardinality(Live(E)) <= MaxEvidence
      /\ \A r \in E : r.generation \in Nat /\ r.generation <= entry.generation
  BY RecordFields DEF SoundEntry, Entry
<1>2. /\ R \subseteq EvidenceRecord /\ IsFiniteSet(R) /\ Weakens(E, R)
      /\ Live(R) \subseteq Live(E)
  <2> HIDE DEF E
  <2> QED
    BY <1>1, MakeRoomSound
<1>3. Cardinality(Live(R)) >= MaxEvidence
  BY DEF EvidenceLimitExceeded
<1>4. /\ new.evidence = R /\ new.generation = entry.generation
      /\ new.resolution = entry.resolution /\ new.exists = entry.exists
      /\ new \in Entry
  <2> HIDE DEF R
  <2>1. new = [entry EXCEPT !.evidence = R]
    BY DEF ApplyClaimAtLimit, R
  <2> HIDE DEF new, E
  <2> QED
    BY <1>1, <1>2, <2>1 DEF Entry
<1> HIDE DEF E, R, new
<1>5. Live(R) = Live(E)
  <2>1. IsFiniteSet(Live(E)) /\ Cardinality(Live(E)) \in Nat
    BY <1>1, LiveSubset
  <2>2. /\ Cardinality(Live(R)) <= Cardinality(Live(E))
        /\ Cardinality(Live(R)) = Cardinality(Live(E)) => Live(R) = Live(E)
        /\ Cardinality(Live(R)) \in Nat
    BY <1>2, <2>1, FS_Subset, FS_CardinalityType
  <2> QED
    BY <1>1, <1>3, <2>1, <2>2, EvidenceAssumption
<1>6. new.resolution = ResolveCapability(R, entry.generation)
  BY <1>1, <1>4, <1>5, ResolutionOfLive
<1>7. \A q \in R : q.generation <= entry.generation
  BY <1>1, <1>2 DEF Weakens
<1>8. SoundEntry(new)
  BY <1>1, <1>2, <1>4, <1>5, <1>6, <1>7 DEF SoundEntry
<1> QED
  BY <1>2, <1>4, <1>8 DEF E, new

-----------------------------------------------------------------------------
(* The store.                                                              *)

LEMMA StoredSound ==
    ASSUME NEW entry, SoundEntry(entry)
    PROVE  /\ SoundStored(StoredEntry(entry))
           /\ StoredEntry(entry).exists = entry.exists
           /\ StoredEntry(entry).evidence \subseteq entry.evidence
<1> DEFINE stored == StoredEntry(entry)
<1>1. entry \in Entry /\ IsFiniteSet(entry.evidence)
  BY DEF SoundEntry
<1>2. /\ stored.evidence = Live(entry.evidence) /\ stored.generation = entry.generation
      /\ stored.exists = entry.exists /\ stored.resolution = entry.resolution
      /\ stored \in Entry
  BY <1>1 DEF StoredEntry, Entry, Live
<1>3. IsFiniteSet(Live(entry.evidence)) /\ Live(entry.evidence) \subseteq entry.evidence
  BY <1>1, LiveSubset DEF Live
<1>4. ~entry.exists => stored = NoEntry
  <2> SUFFICES ASSUME ~entry.exists PROVE stored = NoEntry
    OBVIOUS
  <2>1. entry = NoEntry
    BY DEF SoundEntry
  <2>2. Live({}) = {}
    BY DEF Live
  <2>3. NoEntry.evidence = {} /\ NoEntry \in Entry
    BY NoEntrySound DEF NoEntry, SoundEntry
  <2>4. \A x \in Entry : x.evidence = {} => x = [x EXCEPT !.evidence = {}]
    BY DEF Entry
  <2> QED
    BY <2>1, <2>2, <2>3, <2>4 DEF StoredEntry
<1> HIDE DEF stored
<1>5. SoundStored(stored)
  BY <1>2, <1>3, <1>4 DEF SoundEntry, SoundStored
<1> QED
  BY <1>2, <1>3, <1>5 DEF stored

\* Load makes a sound entry of what a store keeps, and of its current records
\* only the durable ones are current: nothing bound to a process that is gone.
LEMMA LoadedSound ==
    ASSUME NEW entry, SoundStored(entry)
    PROVE  LET new == LoadedEntry(entry)
           IN  /\ SoundEntry(new)
               /\ new.exists = entry.exists
               /\ \A q \in new.evidence : IsCurrent(q) => q.durable
               /\ \A q \in new.evidence : \E r \in entry.evidence :
                     q.entityGeneration = r.entityGeneration
<1> DEFINE E == entry.evidence
           L == LoadedEvidence(E)
           Re(r) == [r EXCEPT !.currentness = LoadCurrentness(r), !.order = LoadOrder(E, r)]
<1>1. /\ entry \in Entry /\ E \subseteq EvidenceRecord /\ IsFiniteSet(E)
      /\ entry.generation \in Nat /\ entry.exists \in BOOLEAN
      /\ Cardinality(E) <= MaxEvidence
      /\ \A r \in E : r.generation \in Nat /\ r.generation <= entry.generation
  BY RecordFields DEF SoundStored, Entry
<1>2. CASE ~entry.exists
  <2>1. entry = NoEntry /\ LoadedEntry(entry) = NoEntry
    BY <1>2 DEF SoundStored, LoadedEntry
  <2>2. NoEntry.evidence = {}
    BY DEF NoEntry
  <2> QED
    BY <2>1, <2>2, NoEntrySound
<1>3. CASE entry.exists
  <2>1. \A r \in E : LoadOrder(E, r) \in Nat
    <3> SUFFICES ASSUME NEW r \in E PROVE LoadOrder(E, r) \in Nat
      OBVIOUS
    <3> DEFINE T == {q \in E : \/ q.source < r.source
                               \/ q.source = r.source /\ q.generation < r.generation
                               \/ /\ q.source = r.source
                                  /\ q.generation = r.generation
                                  /\ q.order <= r.order}
    <3>1. T \subseteq E /\ LoadOrder(E, r) = Cardinality(T)
      BY DEF LoadOrder
    <3> HIDE DEF T, E
    <3> QED
      BY <1>1, <3>1, FS_Subset, FS_CardinalityType
  <2>2. \A r \in EvidenceRecord : LoadCurrentness(r) \in Currentness
                                  /\ (LoadCurrentness(r) = "Current" => r.durable)
    BY DEF LoadCurrentness, Currentness
  <2>3. \A r \in E : /\ Re(r) \in EvidenceRecord
                     /\ Re(r).generation = r.generation
                     /\ Re(r).entityGeneration = r.entityGeneration
                     /\ Re(r).durable = r.durable
                     /\ Re(r).currentness = LoadCurrentness(r)
    BY <1>1, <2>1, <2>2 DEF EvidenceRecord
  <2>4. L = {Re(r) : r \in E}
    BY DEF LoadedEvidence
  <2> HIDE DEF L, Re
  <2>5. /\ L \subseteq EvidenceRecord
        /\ \A q \in L : q.generation <= entry.generation
        /\ \A q \in L : IsCurrent(q) => q.durable
        /\ \A q \in L : \E r \in E : q.entityGeneration = r.entityGeneration
    BY <1>1, <2>2, <2>3, <2>4 DEF IsCurrent
  <2>6. IsFiniteSet(L) /\ Cardinality(L) <= Cardinality(E)
    <3> DEFINE f == [r \in E |-> Re(r)]
    <3>1. f = [r \in E |-> f[r]] /\ L = {f[r] : r \in E}
      BY <2>4
    <3> HIDE DEF f, E
    <3> QED
      BY <1>1, <3>1, ImageCardinality
  <2>7. Cardinality(Live(L)) <= MaxEvidence
    <3>1. Cardinality(Live(L)) <= Cardinality(L) /\ Cardinality(Live(L)) \in Nat
      BY <2>6, LiveSubset
    <3>2. Cardinality(L) \in Nat /\ Cardinality(E) \in Nat
      BY <1>1, <2>6, FS_CardinalityType
    <3> QED
      BY <1>1, <2>6, <3>1, <3>2, EvidenceAssumption
  <2>8. ResolveCapability(L, entry.generation) \in Resolution
    BY <1>1, <2>5, ResolutionType
  <2>9. LoadedEntry(entry) = [exists |-> TRUE, generation |-> entry.generation, evidence |-> L,
                              resolution |-> ResolveCapability(L, entry.generation)]
    BY <1>3 DEF LoadedEntry, L
  <2>10. LoadedEntry(entry) \in Entry
    BY <1>1, <2>5, <2>8, <2>9 DEF Entry
  <2> QED
    BY <1>1, <1>3, <2>5, <2>6, <2>7, <2>9, <2>10 DEF SoundEntry
<1> QED
  BY <1>1, <1>2, <1>3

Capabilities == [Entity -> [Capability -> Entry]]

-----------------------------------------------------------------------------
(* The indexes.                                                            *)

\* IndexComplete of given indexes and entries.
Complete(rev, pairs, caps) ==
    \A e \in Entity, c \in Capability :
        /\ caps[e][c].exists => e \in rev[c][caps[e][c].resolution.state]
        /\ NeedsRevalidation(caps[e][c]) => <<e, c>> \in pairs

Reverse == [Capability -> [CapabilityState -> SUBSET Entity]]

LEMMA ReindexType ==
    ASSUME NEW rev, NEW pairs, NEW old, NEW new
    PROVE  /\ Reindex(rev, old, new) \in Reverse
           /\ Requeue(pairs, old, new) \subseteq Entity \X Capability
<1>1. Reindex(rev, old, new) \in Reverse
  BY DEF Reindex, Reverse
<1>2. Requeue(pairs, old, new) \subseteq Entity \X Capability
  BY DEF Requeue
<1> QED
  BY <1>1, <1>2

\* FinishResolution keeps a complete index complete.
LEMMA ReindexComplete ==
    ASSUME NEW rev, NEW pairs, NEW old, NEW new \in Capabilities,
           Complete(rev, pairs, old)
    PROVE  Complete(Reindex(rev, old, new), Requeue(pairs, old, new), new)
<1> SUFFICES ASSUME NEW e \in Entity, NEW c \in Capability
             PROVE  /\ new[e][c].exists =>
                          e \in Reindex(rev, old, new)[c][new[e][c].resolution.state]
                    /\ NeedsRevalidation(new[e][c]) => <<e, c>> \in Requeue(pairs, old, new)
  BY DEF Complete
<1>1. new[e][c].resolution.state \in CapabilityState
  BY DEF Capabilities, Entry, Resolution
<1>2. ASSUME new[e][c].exists
      PROVE  e \in Reindex(rev, old, new)[c][new[e][c].resolution.state]
  <2> DEFINE s == new[e][c].resolution.state
             moved == \/ ~old[e][c].exists
                      \/ old[e][c].resolution.state # s
  <2>1. ~moved => e \in rev[c][s]
    BY DEF Complete
  <2>2. Reindex(rev, old, new)[c][s] =
          {x \in Entity :
            LET before == old[x][c]
                after  == new[x][c]
                m      == /\ after.exists
                          /\ \/ ~before.exists
                             \/ before.resolution.state # after.resolution.state
            IN  IF m /\ s = after.resolution.state THEN TRUE
                ELSE IF m /\ before.exists /\ s = before.resolution.state THEN FALSE
                ELSE x \in rev[c][s]}
    BY <1>1 DEF Reindex
  <2>3. moved => e \in Reindex(rev, old, new)[c][s]
    BY <1>2, <2>2
  <2>4. ~moved => e \in Reindex(rev, old, new)[c][s]
    BY <1>2, <2>1, <2>2
  <2> QED
    BY <2>3, <2>4
<1>3. ASSUME NeedsRevalidation(new[e][c])
      PROVE  <<e, c>> \in Requeue(pairs, old, new)
  <2>1. NeedsRevalidation(old[e][c]) => <<e, c>> \in pairs
    BY DEF Complete
  <2> QED
    BY <1>3, <2>1 DEF Requeue
<1> QED
  BY <1>2, <1>3

-----------------------------------------------------------------------------
(* The parts of an entity.                                                 *)

LEMMA MaterializeType ==
    ASSUME NEW entries, \A c \in Capability : entries[c] \in Entry
    PROVE  Materialize(entries) \in AnswerSet
BY DEF Materialize, AnswerSet, Entry

LEMMA NewEntityType ==
    ASSUME NEW g \in Nat
    PROVE  NewEntity(g) \in EntityState /\ NewEntity(g).known /\ NewEntity(g).generation = g
<1>1. NoAnswer(0) \in Resolution
  BY NoEntrySound DEF NoEntry, SoundEntry, Entry
<1>2. NoAnswers \in AnswerSet
  BY <1>1 DEF NoAnswers, AnswerSet
<1>3. <<>> \in Seq([generation: Nat, setGeneration: Nat])
  OBVIOUS
<1> QED
  BY <1>2, <1>3 DEF NewEntity, EntityState

LEMMA NoEntityType == NoEntity \in EntityState /\ ~NoEntity.known /\ NoEntity.generation = 0
<1>1. \A x \in EntityState : LET y == [x EXCEPT !.known = FALSE]
                             IN  y \in EntityState /\ ~y.known /\ y.generation = x.generation
  BY DEF EntityState
<1>2. NewEntity(0) \in EntityState /\ NewEntity(0).generation = 0
  BY NewEntityType
<1> QED
  BY <1>1, <1>2 DEF NoEntity

LEMMA RefreshedType ==
    ASSUME NEW entity \in EntityState, NEW entries, \A c \in Capability : entries[c] \in Entry
    PROVE  /\ Refreshed(entity, entries) \in EntityState
           /\ Refreshed(entity, entries).generation = entity.generation
           /\ Refreshed(entity, entries).known = entity.known
<1>1. Materialize(entries) \in AnswerSet
  BY MaterializeType
<1> QED
  BY <1>1 DEF Refreshed, EntityState

LEMMA RetireGenerationType ==
    ASSUME NEW entity \in EntityState, NEW g \in Nat
    PROVE  /\ RetireGeneration(entity, g) \in EntityState
           /\ RetireGeneration(entity, g).generation = g
           /\ RetireGeneration(entity, g).known
<1> DEFINE Past == [generation: Nat, setGeneration: Nat]
           grown == <<[generation |-> entity.generation,
                       setGeneration |-> entity.setGeneration]>> \o entity.history
           kept == IF entity.hasSet /\ entity.materialised
                   THEN SubSeq(grown, 1, IF Len(grown) > MaxHistory THEN MaxHistory ELSE Len(grown))
                   ELSE entity.history
<1>1. entity.generation \in Nat /\ entity.setGeneration \in Nat /\ entity.history \in Seq(Past)
  BY DEF EntityState
<1>2. grown \in Seq(Past)
  <2>1. <<[generation |-> entity.generation, setGeneration |-> entity.setGeneration]>> \in Seq(Past)
    BY <1>1
  <2> HIDE DEF Past
  <2> QED
    BY <1>1, <2>1
<1>3. MaxHistory \in Nat
  BY RegistryAssumption
<1>4. kept \in Seq(Past)
  <2> HIDE DEF grown, Past
  <2>1. SubSeq(grown, 1, IF Len(grown) > MaxHistory THEN MaxHistory ELSE Len(grown)) \in Seq(Past)
    BY <1>2, <1>3
  <2> QED
    BY <1>1, <2>1
<1>5. RetireGeneration(entity, g) = [NewEntity(g) EXCEPT !.history = kept]
  BY DEF RetireGeneration
<1> HIDE DEF kept
<1> QED
  BY <1>4, <1>5, NewEntityType DEF EntityState

LEMMA CommittedEntityType ==
    ASSUME NEW q \in Request, NEW entity \in EntityState, NEW changed,
           NEW entries, \A c \in Capability : entries[c] \in Entry
    PROVE  /\ CommittedEntity(q, entity, entries, changed) \in EntityState
           /\ CommittedEntity(q, entity, entries, changed).generation = entity.generation
           /\ CommittedEntity(q, entity, entries, changed).known = entity.known
<1>1. Materialize(entries) \in AnswerSet
  BY MaterializeType
<1>2. IdentityOf(q) \in Identity /\ q.sourceGeneration \in Nat
  BY DEF IdentityOf, Identity, Request
<1> HIDE DEF Identity
<1>3. entity.highWater \in [Identity -> Nat] /\ entity.setGeneration \in Nat
  BY DEF EntityState
<1>4. [entity.highWater EXCEPT ![IdentityOf(q)] =
          IF q.sourceGeneration > @ THEN q.sourceGeneration ELSE @] \in [Identity -> Nat]
  BY <1>2, <1>3
<1> DEFINE water == [entity.highWater EXCEPT ![IdentityOf(q)] =
                       IF q.sourceGeneration > @ THEN q.sourceGeneration ELSE @]
           number == IF changed THEN entity.setGeneration + 1 ELSE entity.setGeneration
           answers == Materialize(entries)
<1>5. number \in Nat
  BY <1>3
<1>6. CommittedEntity(q, entity, entries, changed) =
        [entity EXCEPT !.hasSet = TRUE, !.setGeneration = number, !.invalidated = FALSE,
                       !.materialised = TRUE, !.set = answers, !.highWater = water]
  BY DEF CommittedEntity, EntityState
<1> HIDE DEF water, number, answers
<1> QED
  BY <1>1, <1>4, <1>5, <1>6 DEF EntityState, water, answers

-----------------------------------------------------------------------------
(* The invariant of the entries of one entity, and the stages of Publish.  *)

\* A record the registry may hold for entity generation g: it was claimed for
\* g, and it is current only while its publishing instance has authority,
\* unless it is durable.
RecordOK(r, g) ==
    /\ r.entityGeneration = g
    /\ IsCurrent(r) /\ ~r.durable => WithinAuthority(r)

EntryOK(entry, g) == SoundEntry(entry) /\ \A r \in entry.evidence : RecordOK(r, g)

EntriesOK(entries, g) ==
    /\ entries \in [Capability -> Entry]
    /\ \A c \in Capability : EntryOK(entries[c], g)

\* What Publish stamps the records of an admitted request with.
StampOK(stamp, g) ==
    /\ stamp \in Stamp
    /\ WithinAuthority(stamp) /\ stamp.entityGeneration = g

LEMMA WeakensOK ==
    ASSUME NEW entry, NEW g, EntryOK(entry, g), NEW new, SoundEntry(new),
           Weakens(entry.evidence, new.evidence)
    PROVE  EntryOK(new, g)
BY DEF EntryOK, RecordOK, Weakens

LEMMA NoEntryOK ==
    ASSUME NEW g PROVE EntryOK(NoEntry, g)
<1>1. NoEntry.evidence = {}
  BY DEF NoEntry
<1> QED
  BY <1>1, NoEntrySound DEF EntryOK

LEMMA EntriesFromEntry ==
    ASSUME NEW entries, NEW g, entries = [c \in Capability |-> entries[c]],
           \A c \in Capability : EntryOK(entries[c], g)
    PROVE  EntriesOK(entries, g)
BY DEF EntriesOK, EntryOK, SoundEntry

LEMMA ClaimOfLine ==
    ASSUME NEW edit \in Edit
    PROVE  [state |-> ClaimedState(edit), value |-> edit.value,
            rank |-> edit.rank, durable |-> edit.durable] \in Claim
<1>1. ClaimedState(edit) \in CapabilityState
  BY DEF ClaimedState, Edit, CapabilityState
<1> QED
  BY <1>1 DEF Edit, Claim

\* One line of a request.
LEMMA ApplyLineOK ==
    ASSUME NEW entry, NEW g, EntryOK(entry, g), NEW stamp, StampOK(stamp, g),
           NEW edit \in Edit,
           edit.op # "WithdrawClaim" => ~EvidenceLimitExceeded(entry, stamp)
    PROVE  EntryOK(ApplyLine(entry, stamp, edit), g)
<1>0. SoundEntry(entry) /\ stamp \in Stamp
  BY DEF EntryOK, StampOK
<1>1. CASE edit.op = "WithdrawClaim"
  <2>1. ApplyLine(entry, stamp, edit) = SupersedeIdentity(entry, stamp)
    BY <1>1 DEF ApplyLine, WithdrawIdentityClaim
  <2>2. /\ SoundEntry(SupersedeIdentity(entry, stamp))
        /\ Weakens(entry.evidence, SupersedeIdentity(entry, stamp).evidence)
    BY <1>0, SupersedeSound
  <2> QED
    BY <2>1, <2>2, WeakensOK
<1>2. CASE edit.op # "WithdrawClaim"
  <2> DEFINE claim == [state |-> ClaimedState(edit), value |-> edit.value,
                       rank |-> edit.rank, durable |-> edit.durable]
             new == ApplyClaim(entry, stamp, claim)
             n == NewRecord(entry, stamp, claim)
  <2>1. ApplyLine(entry, stamp, edit) = new
    BY <1>2 DEF ApplyLine
  <2>2. claim \in Claim
    BY ClaimOfLine
  <2> HIDE DEF claim
  <2>3. SoundEntry(new) /\ Weakens(entry.evidence, new.evidence \ {n})
    BY <1>0, <1>2, <2>2, ApplyClaimSound
  <2>4. RecordOK(n, g)
    BY DEF NewRecord, RecordOK, StampOK, WithinAuthority
  <2> HIDE DEF new, n
  <2>5. ASSUME NEW r \in new.evidence PROVE RecordOK(r, g)
    <3>1. CASE r = n
      BY <2>4, <3>1
    <3>2. CASE r # n
      BY <2>3, <3>2 DEF Weakens, EntryOK, RecordOK
    <3> QED
      BY <3>1, <3>2
  <2> QED
    BY <2>1, <2>3, <2>5 DEF EntryOK
<1> QED
  BY <1>1, <1>2

LEMMA ApplyLinesOK ==
    ASSUME NEW entries, NEW g, EntriesOK(entries, g), NEW stamp, StampOK(stamp, g),
           NEW lines \in Edits, NEW D, D \subseteq Capability,
           LinesFit(entries, stamp, lines, D)
    PROVE  EntriesOK(ApplyLines(entries, stamp, lines, D), g)
<1> DEFINE new == ApplyLines(entries, stamp, lines, D)
<1>1. \A c \in Capability :
         new[c] = IF c \in D THEN ApplyLine(entries[c], stamp, lines[c]) ELSE entries[c]
  BY DEF ApplyLines
<1>2. new = [c \in Capability |-> new[c]]
  BY DEF ApplyLines
<1> HIDE DEF new
<1>3. ASSUME NEW c \in Capability PROVE EntryOK(new[c], g)
  <2>1. EntryOK(entries[c], g) /\ lines[c] \in Edit
    BY DEF EntriesOK, Edits
  <2>2. CASE c \in D
    <3>1. lines[c].op # "WithdrawClaim" => ~EvidenceLimitExceeded(entries[c], stamp)
      BY <2>2 DEF LinesFit, Claims
    <3> QED
      BY <1>1, <2>1, <2>2, <3>1, ApplyLineOK
  <2>3. CASE c \notin D
    BY <1>1, <2>1, <2>3
  <2> QED
    BY <2>2, <2>3
<1> QED
  BY <1>2, <1>3, EntriesFromEntry DEF new

\* A request that stops at a limit leaves sound entries too.
LEMMA StoppedOK ==
    ASSUME NEW entries, NEW g, EntriesOK(entries, g), NEW stamp, StampOK(stamp, g),
           NEW lines \in Edits, NEW done, done \subseteq Capability, NEW c \in Capability,
           Stops(entries, stamp, lines, done, c)
    PROVE  EntriesOK(Stopped(entries, stamp, lines, done, c), g)
<1> DEFINE applied == ApplyLines(entries, stamp, lines, done)
           new == Stopped(entries, stamp, lines, done, c)
<1>1. EntriesOK(applied, g)
  BY ApplyLinesOK DEF Stops
<1>2. /\ new = [applied EXCEPT ![c] = IF entries[c].exists
                                      THEN ApplyClaimAtLimit(entries[c], stamp) ELSE @]
      /\ applied \in [Capability -> Entry]
  BY <1>1 DEF Stopped, EntriesOK
<1>3. EntryOK(applied[c], g) /\ EntryOK(entries[c], g)
  BY <1>1 DEF EntriesOK
<1>4. entries[c].exists => EntryOK(ApplyClaimAtLimit(entries[c], stamp), g)
  <2> SUFFICES ASSUME entries[c].exists
               PROVE  EntryOK(ApplyClaimAtLimit(entries[c], stamp), g)
    OBVIOUS
  <2>1. EvidenceLimitExceeded(entries[c], stamp) /\ SoundEntry(entries[c])
    BY <1>3 DEF Stops, EntryOK
  <2>2. /\ SoundEntry(ApplyClaimAtLimit(entries[c], stamp))
        /\ Weakens(entries[c].evidence, ApplyClaimAtLimit(entries[c], stamp).evidence)
    BY <2>1, AtLimitSound
  <2> QED
    BY <1>3, <2>2, WeakensOK
<1> HIDE DEF applied, new
<1>5. new = [d \in Capability |-> new[d]]
  BY <1>2
<1>6. ASSUME NEW d \in Capability PROVE EntryOK(new[d], g)
  <2>1. EntryOK(applied[d], g)
    BY <1>1 DEF EntriesOK
  <2> QED
    BY <1>2, <1>3, <1>4, <2>1
<1> QED
  BY <1>5, <1>6, EntriesFromEntry DEF new

LEMMA SupersedeStagesOK ==
    ASSUME NEW q, NEW entries, NEW g, EntriesOK(entries, g)
    PROVE  EntriesOK(OthersSuperseded(q, entries), g) /\ EntriesOK(OwnSuperseded(q, entries), g)
<1>1. \A c \in Capability : SoundEntry(entries[c]) /\ EntryOK(entries[c], g)
  BY DEF EntriesOK, EntryOK
<1>2. EntriesOK(OthersSuperseded(q, entries), g)
  <2> DEFINE new == OthersSuperseded(q, entries)
  <2>1. \A c \in Capability :
          new[c] = SupersedeOtherIdentities(entries[c], q.publisher, q.boot) \/ new[c] = entries[c]
    BY DEF OthersSuperseded
  <2>2. new = [c \in Capability |-> new[c]]
    BY DEF OthersSuperseded
  <2> HIDE DEF new
  <2>3. ASSUME NEW c \in Capability PROVE EntryOK(new[c], g)
    <3>1. EntryOK(SupersedeOtherIdentities(entries[c], q.publisher, q.boot), g)
      BY <1>1, SupersedeOthersSound, WeakensOK
    <3> QED
      BY <1>1, <2>1, <3>1
  <2> QED
    BY <2>2, <2>3, EntriesFromEntry DEF new
<1>3. EntriesOK(OwnSuperseded(q, entries), g)
  <2> DEFINE new == OwnSuperseded(q, entries)
  <2>1. \A c \in Capability :
          new[c] = SupersedeIdentity(entries[c], IdentityOf(q)) \/ new[c] = entries[c]
    BY DEF OwnSuperseded
  <2>2. new = [c \in Capability |-> new[c]]
    BY DEF OwnSuperseded
  <2> HIDE DEF new
  <2>3. ASSUME NEW c \in Capability PROVE EntryOK(new[c], g)
    <3>1. EntryOK(SupersedeIdentity(entries[c], IdentityOf(q)), g)
      BY <1>1, SupersedeSound, WeakensOK
    <3> QED
      BY <1>1, <2>1, <3>1
  <2> QED
    BY <2>2, <2>3, EntriesFromEntry DEF new
<1> QED
  BY <1>2, <1>3

-----------------------------------------------------------------------------
(* The inductive invariant.                                                *)

\* The entries of every entity are sound, and only known entities have any.
HeldOK ==
    \A e \in Entity :
        /\ EntriesOK(capabilities[e], entities[e].generation)
        /\ \A c \in Capability : capabilities[e][c].exists => entities[e].known

\* Load can make sound entries of what the store holds.
StoreOK ==
    /\ IsFiniteSet(store.fences)
    /\ \A e \in Entity, c \in Capability :
          /\ SoundStored(store.capabilities[e][c])
          /\ \A r \in store.capabilities[e][c].evidence :
                r.entityGeneration = store.entities[e].generation
          /\ store.capabilities[e][c].exists => store.entities[e].known

Inv == TypeOK /\ HeldOK /\ IndexComplete /\ StoreOK

LEMMA IndexIsComplete == IndexComplete <=> Complete(reverse, revalidation, capabilities)
BY DEF IndexComplete, Complete

LEMMA InitInv == Init => Inv
<1> SUFFICES ASSUME Init PROVE Inv
  OBVIOUS
<1> USE DEF Init
<1>1. NoEntity \in EntityState /\ NoEntry \in Entry
  BY NoEntityType, NoEntrySound DEF SoundEntry
<1>2. capabilities \in Capabilities /\ store.capabilities \in Capabilities
  BY <1>1 DEF Capabilities, NoCapabilities
<1>3. store \in Store
  BY <1>1, <1>2 DEF Store, Capabilities
<1>4. reverse \in Reverse
  BY DEF NoIndex, Reverse
<1>5. TypeOK
  BY <1>1, <1>2, <1>3, <1>4 DEF TypeOK, Capabilities, Reverse
<1>6. \A e \in Entity, c \in Capability :
         capabilities[e][c] = NoEntry /\ store.capabilities[e][c] = NoEntry
  BY DEF NoCapabilities
<1>7. ~NoEntry.exists /\ NoEntry.evidence = {}
  BY DEF NoEntry
<1>8. HeldOK
  <2>1. \A e \in Entity : EntriesOK(capabilities[e], entities[e].generation)
    <3> SUFFICES ASSUME NEW e \in Entity PROVE EntriesOK(capabilities[e], entities[e].generation)
      OBVIOUS
    <3>1. capabilities[e] = [c \in Capability |-> capabilities[e][c]]
      BY DEF NoCapabilities
    <3>2. \A c \in Capability : EntryOK(capabilities[e][c], entities[e].generation)
      BY <1>6, NoEntryOK
    <3> QED
      BY <3>1, <3>2, EntriesFromEntry
  <2> QED
    BY <1>6, <1>7, <2>1 DEF HeldOK
<1>9. IndexComplete
  BY <1>6, <1>7 DEF IndexComplete, NeedsRevalidation
<1>10. StoreOK
  <2>1. SoundStored(NoEntry)
    <3>1. IsFiniteSet({}) /\ Cardinality({}) = 0
      BY FS_EmptySet
    <3>2. 0 <= MaxEvidence
      BY EvidenceAssumption
    <3> QED
      BY <1>1, <1>7, <3>1, <3>2 DEF SoundStored
  <2>2. store.fences = {}
    OBVIOUS
  <2> QED
    BY <1>6, <1>7, <2>1, <2>2, FS_EmptySet DEF StoreOK
<1> QED
  BY <1>5, <1>8, <1>9, <1>10 DEF Inv

\* A call that does not change publishers_ takes no registration away.
LEMMA SameRegistrations ==
    ASSUME UNCHANGED publishers PROVE RegisteredKeys \subseteq RegisteredKeys'
BY DEF RegisteredKeys

\* A step that leaves entities, entries and authority alone.
LEMMA QuietStep ==
    ASSUME Inv, TypeOK',
           UNCHANGED <<epoch, fences, entities, capabilities, reverse, revalidation, store>>,
           RegisteredKeys \subseteq RegisteredKeys'
    PROVE  Inv'
<1>1. HeldOK'
  BY DEF Inv, HeldOK, EntriesOK, EntryOK, RecordOK, WithinAuthority, Fenced
<1>2. IndexComplete'
  BY DEF Inv, IndexComplete
<1>3. StoreOK'
  BY DEF Inv, StoreOK
<1> QED
  BY <1>1, <1>2, <1>3 DEF Inv

LEMMA DeclareAuthorityInv ==
    ASSUME Inv, NEW g \in Grants, DeclareAuthority(g) PROVE Inv'
<1>1. g \in Grant /\ g.scope \in Scope
  BY RegistryAssumption DEF Grant
<1>2. TypeOK'
  BY <1>1 DEF Inv, TypeOK, DeclareAuthority
<1> QED
  BY <1>2, SameRegistrations, QuietStep DEF DeclareAuthority

LEMMA RegisterPublisherInv ==
    ASSUME Inv, NEW w \in Workers, RegisterPublisher(w.publisher, w.scope, w.boot) PROVE Inv'
<1>1. <<w.publisher, w.boot>> \in PublisherKey /\ w.scope \in Scope
  BY RegistryAssumption DEF PublisherKey
<1>2. [scope |-> w.scope, epoch |-> epoch, active |-> TRUE, replay |-> <<>>] \in PublisherRuntime
  BY <1>1 DEF Inv, TypeOK, PublisherRuntime
<1>3. TypeOK'
  BY <1>1, <1>2 DEF Inv, TypeOK, RegisterPublisher
<1>4. RegisteredKeys \subseteq RegisteredKeys'
  BY <1>1, <1>2, RegistryAssumption DEF RegisterPublisher, RegisteredKeys, Inv, TypeOK
<1> QED
  BY <1>3, <1>4, QuietStep DEF RegisterPublisher

LEMMA RetirePublisherInv ==
    ASSUME Inv, NEW w \in Workers, RetirePublisher(w.publisher, w.boot) PROVE Inv'
<1> DEFINE k == <<w.publisher, w.boot>>
<1>1. k \in PublisherKey /\ publishers[k] \in PublisherRuntime
  BY RegistryAssumption DEF Inv, TypeOK, RetirePublisher, RegisteredKeys
<1>2. [publishers[k] EXCEPT !.active = FALSE] \in PublisherRuntime
  BY <1>1 DEF PublisherRuntime
<1>3. publishers' = [publishers EXCEPT ![k] = [publishers[k] EXCEPT !.active = FALSE]]
  BY DEF RetirePublisher
<1> HIDE DEF k
<1>4. publishers' \in [PublisherKey -> PublisherRuntime \cup {NoRegistration}]
  BY <1>1, <1>2, <1>3 DEF Inv, TypeOK
<1>5. TypeOK'
  BY <1>4 DEF Inv, TypeOK, RetirePublisher
<1>6. RegisteredKeys \subseteq RegisteredKeys'
  BY <1>1, <1>2, <1>3, RegistryAssumption DEF RegisteredKeys, Inv, TypeOK
<1> QED
  BY <1>5, <1>6, QuietStep DEF RetirePublisher

-----------------------------------------------------------------------------
(* The calls that take evidence out of currency.                           *)

LEMMA ResolveIndex ==
    ASSUME Inv, NEW new \in Capabilities, Resolve(new)
    PROVE  /\ capabilities' = new
           /\ reverse' \in Reverse
           /\ revalidation' \subseteq Entity \X Capability
           /\ IndexComplete'
<1>1. /\ capabilities' = new
      /\ reverse' = Reindex(reverse, capabilities, new)
      /\ revalidation' = Requeue(revalidation, capabilities, new)
  BY DEF Resolve
<1>2. Complete(reverse, revalidation, capabilities)
  BY IndexIsComplete DEF Inv
<1>3. Complete(reverse', revalidation', capabilities')
  BY <1>1, <1>2, ReindexComplete
<1>4. IndexComplete'
  BY <1>3 DEF IndexComplete, Complete
<1> QED
  BY <1>1, <1>4, ReindexType

LEMMA RefreshType ==
    ASSUME Inv, NEW new \in Capabilities, NEW E, Refresh(E, new)
    PROVE  /\ entities' \in [Entity -> EntityState]
           /\ \A e \in Entity : /\ entities'[e].generation = entities[e].generation
                                /\ entities'[e].known = entities[e].known
<1>1. \A e \in Entity : entities[e] \in EntityState /\ \A c \in Capability : new[e][c] \in Entry
  BY DEF Inv, TypeOK, Capabilities
<1>2. \A e \in Entity : /\ Refreshed(entities[e], new[e]) \in EntityState
                        /\ Refreshed(entities[e], new[e]).generation = entities[e].generation
                        /\ Refreshed(entities[e], new[e]).known = entities[e].known
  BY <1>1, RefreshedType
<1> QED
  BY <1>1, <1>2 DEF Refresh

\* A step that weakens the evidence of some entries, resolves them again, and
\* leaves nothing current beyond the authority after the step.
LEMMA WeakeningStep ==
    ASSUME Inv, TypeOK', IndexComplete', UNCHANGED store,
           \A e \in Entity : /\ entities'[e].generation = entities[e].generation
                             /\ entities'[e].known = entities[e].known,
           \A e \in Entity, c \in Capability :
              /\ SoundEntry(capabilities'[e][c])
              /\ Weakens(capabilities[e][c].evidence, capabilities'[e][c].evidence)
              /\ capabilities'[e][c].exists = capabilities[e][c].exists,
           NoCurrencyBeyondAuthority'
    PROVE  Inv'
<1>1. HeldOK'
  <2> SUFFICES ASSUME NEW e \in Entity
               PROVE  /\ EntriesOK(capabilities[e], entities[e].generation)'
                      /\ \A c \in Capability : capabilities'[e][c].exists => entities'[e].known
    BY DEF HeldOK
  <2>1. capabilities'[e] \in [Capability -> Entry]
    BY DEF TypeOK
  <2>2. ASSUME NEW c \in Capability PROVE EntryOK(capabilities[e][c], entities[e].generation)'
    <3>1. \A r \in capabilities[e][c].evidence : r.entityGeneration = entities[e].generation
      BY DEF Inv, HeldOK, EntriesOK, EntryOK, RecordOK
    <3>2. \A r \in capabilities'[e][c].evidence : r.entityGeneration = entities'[e].generation
      BY <3>1 DEF Weakens
    <3> QED
      BY <3>2 DEF EntryOK, RecordOK, NoCurrencyBeyondAuthority
  <2>3. \A c \in Capability : capabilities'[e][c].exists => entities'[e].known
    BY DEF Inv, HeldOK
  <2> QED
    BY <2>1, <2>2, <2>3 DEF EntriesOK
<1>2. StoreOK'
  BY DEF Inv, StoreOK
<1> QED
  BY <1>1, <1>2 DEF Inv

\* What is current of weakened evidence was current, and in authority, before.
LEMMA StillInAuthority ==
    ASSUME Inv, UNCHANGED <<epoch, fences>>, RegisteredKeys \subseteq RegisteredKeys',
           \A e \in Entity, c \in Capability :
              Weakens(capabilities[e][c].evidence, capabilities'[e][c].evidence)
    PROVE  NoCurrencyBeyondAuthority'
<1>1. \A e \in Entity, c \in Capability : \A r \in capabilities[e][c].evidence :
         IsCurrent(r) /\ ~r.durable => WithinAuthority(r)
  BY DEF Inv, HeldOK, EntriesOK, EntryOK, RecordOK
<1>2. \A e \in Entity, c \in Capability : \A r \in capabilities'[e][c].evidence :
         IsCurrent(r) => r \in capabilities[e][c].evidence
  BY DEF Weakens
<1> QED
  BY <1>1, <1>2 DEF NoCurrencyBeyondAuthority, WithinAuthority, Fenced

LEMMA ExpireSound ==
    ASSUME NEW entry, SoundEntry(entry)
    PROVE  LET new == ExpireProcessBound(entry)
           IN  /\ SoundEntry(new)
               /\ Weakens(entry.evidence, new.evidence)
               /\ \A q \in new.evidence : IsCurrent(q) => q.durable
               /\ new.exists = entry.exists
<1> DEFINE S == {r \in entry.evidence : ~r.durable}
           new == MarkNonCurrent(entry, S, "RevalidationRequired")
<1>1. S \subseteq entry.evidence
  OBVIOUS
<1>2. ExpireProcessBound(entry) = new
  BY DEF ExpireProcessBound
<1> HIDE DEF S
<1>3. /\ SoundEntry(new) /\ Weakens(entry.evidence, new.evidence)
      /\ \A q \in new.evidence : IsCurrent(q) => q \in entry.evidence \ S
      /\ new.exists = entry.exists
  BY <1>1, MarkNonCurrentSound
<1> HIDE DEF new
<1> QED
  BY <1>2, <1>3 DEF S

LEMMA FenceBootSound ==
    ASSUME NEW entry, SoundEntry(entry), NEW b
    PROVE  LET new == FenceBoot(entry, b)
           IN  /\ SoundEntry(new)
               /\ Weakens(entry.evidence, new.evidence)
               /\ \A q \in new.evidence : IsCurrent(q) =>
                     q \in entry.evidence /\ (q.boot = b => q.durable)
               /\ new.exists = entry.exists
<1> DEFINE S == {r \in entry.evidence : r.boot = b /\ ~r.durable}
           new == MarkNonCurrent(entry, S, "Fenced")
<1>1. S \subseteq entry.evidence
  OBVIOUS
<1>2. FenceBoot(entry, b) = new
  BY DEF FenceBoot
<1> HIDE DEF S
<1>3. /\ SoundEntry(new) /\ Weakens(entry.evidence, new.evidence)
      /\ \A q \in new.evidence : IsCurrent(q) => q \in entry.evidence \ S
      /\ new.exists = entry.exists
  BY <1>1, MarkNonCurrentSound
<1> HIDE DEF new
<1> QED
  BY <1>2, <1>3 DEF S

LEMMA InvalidateSound ==
    ASSUME NEW entry, SoundEntry(entry), NEW s
    PROVE  /\ LET new == InvalidateAll(entry)
              IN  /\ SoundEntry(new)
                  /\ Weakens(entry.evidence, new.evidence)
                  /\ new.exists = entry.exists
           /\ LET new == InvalidateFrom(entry, s)
              IN  /\ SoundEntry(new)
                  /\ Weakens(entry.evidence, new.evidence)
                  /\ new.exists = entry.exists
<1> DEFINE S == {r \in entry.evidence : r.source = s}
<1>1. InvalidateFrom(entry, s) = MarkNonCurrent(entry, S, "RevalidationRequired")
  BY DEF InvalidateFrom
<1>2. InvalidateAll(entry) = MarkNonCurrent(entry, entry.evidence, "RevalidationRequired")
  BY DEF InvalidateAll
<1>3. S \subseteq entry.evidence
  OBVIOUS
<1> HIDE DEF S
<1> QED
  BY <1>1, <1>2, <1>3, MarkNonCurrentSound

\* The entries of every entity are sound.
LEMMA HeldSound ==
    ASSUME Inv, NEW e \in Entity, NEW c \in Capability
    PROVE  SoundEntry(capabilities[e][c])
BY DEF Inv, HeldOK, EntriesOK, EntryOK

LEMMA AdvanceCoordinatorEpochInv ==
    ASSUME Inv, AdvanceCoordinatorEpoch PROVE Inv'
<1> DEFINE new == [e \in Entity |-> [c \in Capability |-> ExpireProcessBound(capabilities[e][c])]]
<1>1. \A e \in Entity, c \in Capability :
         /\ SoundEntry(new[e][c])
         /\ Weakens(capabilities[e][c].evidence, new[e][c].evidence)
         /\ \A q \in new[e][c].evidence : IsCurrent(q) => q.durable
         /\ new[e][c].exists = capabilities[e][c].exists
  BY HeldSound, ExpireSound
<1>2. new \in Capabilities
  BY <1>1 DEF SoundEntry, Capabilities
<1>3. Resolve(new) /\ Refresh(Known, new)
  BY DEF AdvanceCoordinatorEpoch
<1> HIDE DEF new
<1>4. /\ capabilities' = new /\ reverse' \in Reverse
      /\ revalidation' \subseteq Entity \X Capability /\ IndexComplete'
  BY <1>2, <1>3, ResolveIndex
<1>5. /\ entities' \in [Entity -> EntityState]
      /\ \A e \in Entity : /\ entities'[e].generation = entities[e].generation
                           /\ entities'[e].known = entities[e].known
  BY <1>2, <1>3, RefreshType
<1>6. fences' \in Seq(Boot)
  <2>1. PICK n \in 0..MaxFences : \E added \in [1..n -> {k[2] : k \in RegisteredKeys}] :
            fences' = fences \o added
    BY DEF AdvanceCoordinatorEpoch
  <2>2. PICK added \in [1..n -> {k[2] : k \in RegisteredKeys}] : fences' = fences \o added
    BY <2>1
  <2>3. {k[2] : k \in RegisteredKeys} \subseteq Boot
    BY DEF RegisteredKeys, PublisherKey
  <2>4. n \in Nat
    BY RegistryAssumption
  <2>5. added \in Seq(Boot)
    BY <2>3, <2>4
  <2> QED
    BY <2>2, <2>5 DEF Inv, TypeOK
<1>7. /\ epoch' \in Nat /\ registryGeneration' \in Nat
      /\ publishers' \in [PublisherKey -> PublisherRuntime \cup {NoRegistration}]
      /\ UNCHANGED <<authorities, store>>
  BY DEF AdvanceCoordinatorEpoch, Inv, TypeOK
<1>8. TypeOK'
  BY <1>2, <1>4, <1>5, <1>6, <1>7 DEF Inv, TypeOK, Capabilities, Reverse
<1>9. NoCurrencyBeyondAuthority'
  BY <1>1, <1>4 DEF NoCurrencyBeyondAuthority
<1> QED
  BY <1>1, <1>4, <1>5, <1>7, <1>8, <1>9, WeakeningStep

\* A new fence makes no other boot fenced, though it may unfence one.
LEMMA AddFenceEffect ==
    ASSUME Inv, NEW b \in Boot, AddFence(b)
    PROVE  /\ fences' \in Seq(Boot)
           /\ \A x : Fenced(x)' => Fenced(x) \/ x = b
<1>0. fences \in Seq(Boot)
  BY DEF Inv, TypeOK
<1>1. CASE fences' = Append(fences, b)
  BY <1>0, <1>1 DEF Fenced
<1>2. CASE \E i \in DOMAIN fences :
              fences' = Append(SubSeq(fences, 1, i - 1) \o SubSeq(fences, i + 1, Len(fences)), b)
  <2>1. PICK i \in DOMAIN fences :
              fences' = Append(SubSeq(fences, 1, i - 1) \o SubSeq(fences, i + 1, Len(fences)), b)
    BY <1>2
  <2> DEFINE front == SubSeq(fences, 1, i - 1)
             back == SubSeq(fences, i + 1, Len(fences))
             kept == front \o back
  <2>2. i \in Nat /\ 1 <= i /\ i <= Len(fences)
    BY <1>0
  <2>3. /\ front \in Seq(Boot) /\ Len(front) = i - 1
        /\ \A j \in 1..(i - 1) : front[j] = fences[j]
    BY <1>0, <2>2
  <2>4. /\ back \in Seq(Boot) /\ Len(back) = Len(fences) - i
        /\ \A j \in 1..(Len(fences) - i) : back[j] = fences[i + j]
    BY <1>0, <2>2
  <2> HIDE DEF front, back
  <2>5. kept \in Seq(Boot) /\ \A j \in DOMAIN kept : \E k \in DOMAIN fences : kept[j] = fences[k]
    <3>1. kept \in Seq(Boot) /\ Len(kept) = Len(front) + Len(back)
      BY <2>3, <2>4
    <3>2. ASSUME NEW j \in DOMAIN kept PROVE \E k \in DOMAIN fences : kept[j] = fences[k]
      <4>1. j \in Nat /\ 1 <= j /\ j <= Len(front) + Len(back)
        BY <3>1
      <4>2. CASE j <= i - 1
        <5>1. kept[j] = front[j]
          BY <2>3, <2>4, <4>1, <4>2
        <5>2. j \in DOMAIN fences
          BY <1>0, <2>2, <4>1, <4>2
        <5> QED
          BY <2>3, <4>1, <4>2, <5>1, <5>2
      <4>3. CASE ~(j <= i - 1)
        <5>0. Len(fences) \in Nat
          BY <1>0
        <5>1. kept[j] = back[j - (i - 1)] /\ j - (i - 1) \in 1..(Len(fences) - i)
          <6>0. j <= (i - 1) + (Len(fences) - i)
            BY <2>3, <2>4, <4>1
          <6>1. kept[j] = IF j <= Len(front) THEN front[j] ELSE back[j - Len(front)]
            BY <2>3, <2>4, <3>1, ConcatProperties
          <6>2. j - (i - 1) \in 1..(Len(fences) - i)
            BY <2>2, <4>1, <4>3, <5>0, <6>0
          <6> QED
            BY <2>3, <4>3, <6>1, <6>2
        <5>2. kept[j] = fences[i + (j - (i - 1))]
          BY <2>4, <5>1
        <5>3. i + (j - (i - 1)) \in DOMAIN fences
          BY <1>0, <2>2, <5>1
        <5> QED
          BY <5>2, <5>3
      <4> QED
        BY <4>2, <4>3
    <3> QED
      BY <3>1, <3>2
  <2>6. fences' = Append(kept, b)
    BY <2>1 DEF front, back
  <2> HIDE DEF kept
  <2> QED
    BY <2>5, <2>6 DEF Fenced
<1> QED
  BY <1>1, <1>2 DEF AddFence

LEMMA FenceWorkerBootInv ==
    ASSUME Inv, NEW b \in Boot, FenceWorkerBoot(b) PROVE Inv'
<1> DEFINE new == [e \in Entity |-> [c \in Capability |-> FenceBoot(capabilities[e][c], b)]]
<1>1. \A e \in Entity, c \in Capability :
         /\ SoundEntry(new[e][c])
         /\ Weakens(capabilities[e][c].evidence, new[e][c].evidence)
         /\ \A q \in new[e][c].evidence : IsCurrent(q) =>
               q \in capabilities[e][c].evidence /\ (q.boot = b => q.durable)
         /\ new[e][c].exists = capabilities[e][c].exists
  BY HeldSound, FenceBootSound
<1>2. new \in Capabilities
  BY <1>1 DEF SoundEntry, Capabilities
<1>3. Resolve(new) /\ Refresh(Known, new)
  BY DEF FenceWorkerBoot
<1> HIDE DEF new
<1>4. /\ capabilities' = new /\ reverse' \in Reverse
      /\ revalidation' \subseteq Entity \X Capability /\ IndexComplete'
  BY <1>2, <1>3, ResolveIndex
<1>5. /\ entities' \in [Entity -> EntityState]
      /\ \A e \in Entity : /\ entities'[e].generation = entities[e].generation
                           /\ entities'[e].known = entities[e].known
  BY <1>2, <1>3, RefreshType
<1>6. fences' \in Seq(Boot) /\ \A x : Fenced(x)' => Fenced(x) \/ x = b
  BY AddFenceEffect DEF FenceWorkerBoot
<1>7. publishers' \in [PublisherKey -> PublisherRuntime \cup {NoRegistration}]
  BY DEF FenceWorkerBoot, DropOnePublisher, RegisteredKeys, Inv, TypeOK
<1>8. registryGeneration' \in Nat /\ UNCHANGED <<epoch, authorities, store>>
  BY DEF FenceWorkerBoot, Inv, TypeOK
<1>9. TypeOK'
  BY <1>2, <1>4, <1>5, <1>6, <1>7, <1>8 DEF Inv, TypeOK, Capabilities, Reverse
<1>10. NoCurrencyBeyondAuthority'
  <2>1. \A e \in Entity, c \in Capability : \A r \in capabilities[e][c].evidence :
           IsCurrent(r) /\ ~r.durable => WithinAuthority(r)
    BY DEF Inv, HeldOK, EntriesOK, EntryOK, RecordOK
  <2>2. ASSUME NEW p, NEW x, x # b, <<p, x>> \in RegisteredKeys
        PROVE  <<p, x>> \in RegisteredKeys'
    BY <2>2 DEF FenceWorkerBoot, DropOnePublisher, RegisteredKeys, Inv, TypeOK
  <2> QED
    BY <1>1, <1>4, <1>6, <1>8, <2>1, <2>2 DEF NoCurrencyBeyondAuthority, WithinAuthority
<1> QED
  BY <1>1, <1>4, <1>5, <1>8, <1>9, <1>10, WeakeningStep

LEMMA InvalidateSourceInv ==
    ASSUME Inv, NEW s \in Source, InvalidateSource(s) PROVE Inv'
<1> DEFINE new == [e \in Entity |-> [c \in Capability |-> InvalidateFrom(capabilities[e][c], s)]]
           claimed == {e \in Known : \E c \in Capability : capabilities[e][c].exists}
<1>1. \A e \in Entity, c \in Capability :
         /\ SoundEntry(new[e][c])
         /\ Weakens(capabilities[e][c].evidence, new[e][c].evidence)
         /\ new[e][c].exists = capabilities[e][c].exists
  BY HeldSound, InvalidateSound
<1>2. new \in Capabilities
  BY <1>1 DEF SoundEntry, Capabilities
<1>3. Resolve(new) /\ Refresh(claimed, new)
  BY DEF InvalidateSource
<1> HIDE DEF new, claimed
<1>4. /\ capabilities' = new /\ reverse' \in Reverse
      /\ revalidation' \subseteq Entity \X Capability /\ IndexComplete'
  BY <1>2, <1>3, ResolveIndex
<1>5. /\ entities' \in [Entity -> EntityState]
      /\ \A e \in Entity : /\ entities'[e].generation = entities[e].generation
                           /\ entities'[e].known = entities[e].known
  BY <1>2, <1>3, RefreshType
<1>6. registryGeneration' \in Nat /\ UNCHANGED <<epoch, authorities, publishers, fences, store>>
  BY DEF InvalidateSource, Inv, TypeOK
<1>7. TypeOK'
  BY <1>2, <1>4, <1>5, <1>6 DEF Inv, TypeOK, Capabilities, Reverse
<1>8. NoCurrencyBeyondAuthority'
  BY <1>1, <1>4, <1>6, SameRegistrations, StillInAuthority
<1> QED
  BY <1>1, <1>4, <1>5, <1>6, <1>7, <1>8, WeakeningStep

-----------------------------------------------------------------------------
(* The calls that change one entity.                                       *)

LEMMA EntityStep ==
    ASSUME Inv, NEW e \in Entity, NEW entity \in EntityState, entity.known,
           NEW entries, EntriesOK(entries, entity.generation),
           entities' = [entities EXCEPT ![e] = entity],
           capabilities' = [capabilities EXCEPT ![e] = entries],
           reverse' \in Reverse, revalidation' \subseteq Entity \X Capability,
           Complete(reverse', revalidation', capabilities'),
           registryGeneration' \in Nat,
           publishers' \in [PublisherKey -> PublisherRuntime \cup {NoRegistration}],
           RegisteredKeys \subseteq RegisteredKeys',
           UNCHANGED <<epoch, authorities, fences, store>>
    PROVE  Inv'
<1>1. entries \in [Capability -> Entry]
  BY DEF EntriesOK
<1>2. TypeOK'
  <2>1. capabilities' \in Capabilities
    BY <1>1 DEF Inv, TypeOK, Capabilities
  <2>2. entities' \in [Entity -> EntityState]
    BY DEF Inv, TypeOK
  <2> QED
    BY <2>1, <2>2 DEF Inv, TypeOK, Capabilities, Reverse
<1>3. ASSUME NEW d \in Entity
      PROVE  /\ EntriesOK(capabilities[d], entities[d].generation)'
             /\ \A c \in Capability : capabilities'[d][c].exists => entities'[d].known
  <2>1. CASE d = e
    <3>1. capabilities'[d] = entries /\ entities'[d] = entity
      BY <2>1 DEF Inv, TypeOK
    <3> QED
      BY <3>1 DEF EntriesOK, EntryOK, RecordOK, WithinAuthority, Fenced
  <2>2. CASE d # e
    <3>1. capabilities'[d] = capabilities[d] /\ entities'[d] = entities[d]
      BY <2>2 DEF Inv, TypeOK
    <3>2. /\ EntriesOK(capabilities[d], entities[d].generation)
          /\ \A c \in Capability : capabilities[d][c].exists => entities[d].known
      BY DEF Inv, HeldOK
    <3> QED
      BY <3>1, <3>2 DEF EntriesOK, EntryOK, RecordOK, WithinAuthority, Fenced
  <2> QED
    BY <2>1, <2>2
<1>4. HeldOK'
  BY <1>3 DEF HeldOK
<1>5. IndexComplete'
  BY DEF IndexComplete, Complete
<1>6. StoreOK'
  BY DEF Inv, StoreOK
<1> QED
  BY <1>2, <1>4, <1>5, <1>6 DEF Inv

\* Clearing the entries of an entity leaves the indexes complete; they may
\* then list too much.
LEMMA ClearedComplete ==
    ASSUME Inv, NEW e \in Entity
    PROVE  Complete(reverse, revalidation, [capabilities EXCEPT ![e] = NoCapabilities])
<1>1. Complete(reverse, revalidation, capabilities)
  BY IndexIsComplete DEF Inv
<1>2. \A c \in Capability : ~NoCapabilities[c].exists
  BY DEF NoCapabilities, NoEntry
<1>3. capabilities \in [Entity -> [Capability -> Entry]]
  BY DEF Inv, TypeOK
<1> DEFINE caps == [capabilities EXCEPT ![e] = NoCapabilities]
<1>4. \A d \in Entity : caps[d] = IF d = e THEN NoCapabilities ELSE capabilities[d]
  BY <1>3
<1> HIDE DEF caps
<1>5. Complete(reverse, revalidation, caps)
  BY <1>1, <1>2, <1>4 DEF Complete, NeedsRevalidation
<1> QED
  BY <1>5 DEF caps

LEMMA NoCapabilitiesOK ==
    ASSUME NEW g PROVE EntriesOK(NoCapabilities, g)
<1>1. \A c \in Capability : EntryOK(NoCapabilities[c], g)
  BY NoEntryOK DEF NoCapabilities
<1>2. NoCapabilities = [c \in Capability |-> NoCapabilities[c]]
  BY DEF NoCapabilities
<1> QED
  BY <1>1, <1>2, EntriesFromEntry

\* An unknown entity holds nothing, so its entries suit any generation.
LEMMA UnknownHoldsNothing ==
    ASSUME Inv, NEW e \in Entity, ~entities[e].known, NEW g
    PROVE  EntriesOK(capabilities[e], g)
<1>1. \A c \in Capability : capabilities[e][c] = NoEntry
  BY HeldSound DEF Inv, HeldOK, SoundEntry
<1>2. capabilities[e] = [c \in Capability |-> capabilities[e][c]]
  BY DEF Inv, TypeOK
<1>3. \A c \in Capability : EntryOK(capabilities[e][c], g)
  BY <1>1, NoEntryOK
<1> QED
  BY <1>2, <1>3, EntriesFromEntry

LEMMA ObserveEntityGenerationInv ==
    ASSUME Inv, NEW e \in Entity, NEW g \in EntityGenerations, ObserveEntityGeneration(e, g)
    PROVE  Inv'
<1>1. /\ g \in Nat /\ entities[e] \in EntityState /\ registryGeneration \in Nat
      /\ reverse \in Reverse /\ revalidation \subseteq Entity \X Capability
      /\ publishers \in [PublisherKey -> PublisherRuntime \cup {NoRegistration}]
      /\ capabilities \in [Entity -> [Capability -> Entry]]
  BY RegistryAssumption DEF Inv, TypeOK, Reverse
<1>2. UNCHANGED <<epoch, authorities, publishers, fences, reverse, revalidation, store>>
  BY DEF ObserveEntityGeneration
<1>3. CASE /\ ~entities[e].known
           /\ entities' = [entities EXCEPT ![e] = NewEntity(g)]
           /\ UNCHANGED <<registryGeneration, capabilities>>
  <2>1. /\ NewEntity(g) \in EntityState /\ NewEntity(g).known
        /\ NewEntity(g).generation = g
    BY <1>1, NewEntityType
  <2>2. EntriesOK(capabilities[e], g)
    BY <1>3, UnknownHoldsNothing
  <2>3. capabilities' = [capabilities EXCEPT ![e] = capabilities[e]]
    BY <1>1, <1>3
  <2>4. Complete(reverse', revalidation', capabilities')
    BY <1>2, <1>3, IndexIsComplete DEF Inv
  <2> QED
    BY <1>1, <1>2, <1>3, <2>1, <2>2, <2>3, <2>4, SameRegistrations, EntityStep
<1>4. CASE /\ entities' = [entities EXCEPT ![e] = RetireGeneration(@, g)]
           /\ capabilities' = [capabilities EXCEPT ![e] = NoCapabilities]
           /\ registryGeneration' = registryGeneration + 1
  <2> DEFINE entity == RetireGeneration(entities[e], g)
  <2>1. entity \in EntityState /\ entity.known /\ entity.generation = g
    BY <1>1, RetireGenerationType
  <2>2. EntriesOK(NoCapabilities, entity.generation)
    BY NoCapabilitiesOK
  <2>3. Complete(reverse', revalidation', capabilities')
    BY <1>2, <1>4, ClearedComplete
  <2>4. entities' = [entities EXCEPT ![e] = entity]
    BY <1>4
  <2>5. /\ registryGeneration' \in Nat /\ reverse' \in Reverse
        /\ revalidation' \subseteq Entity \X Capability
        /\ publishers' \in [PublisherKey -> PublisherRuntime \cup {NoRegistration}]
        /\ capabilities' = [capabilities EXCEPT ![e] = NoCapabilities]
    BY <1>1, <1>2, <1>4
  <2> HIDE DEF entity
  <2> QED
    BY <1>2, <2>1, <2>2, <2>3, <2>4, <2>5, SameRegistrations, EntityStep
<1> QED
  BY <1>3, <1>4 DEF ObserveEntityGeneration

LEMMA InvalidateEntityInv ==
    ASSUME Inv, NEW e \in Entity, InvalidateEntity(e) PROVE Inv'
<1> DEFINE entries == [c \in Capability |-> InvalidateAll(capabilities[e][c])]
           g == entities[e].generation
           marked == [entities[e] EXCEPT !.invalidated = TRUE]
           entity == Refreshed(marked, entries)
           new == [capabilities EXCEPT ![e] = entries]
<1>0. /\ entities[e] \in EntityState /\ registryGeneration \in Nat
      /\ publishers \in [PublisherKey -> PublisherRuntime \cup {NoRegistration}]
      /\ capabilities \in [Entity -> [Capability -> Entry]]
  BY DEF Inv, TypeOK
<1>1. EntriesOK(entries, g)
  <2>1. entries = [c \in Capability |-> entries[c]]
    OBVIOUS
  <2>2. ASSUME NEW c \in Capability PROVE EntryOK(entries[c], g)
    <3>1. EntryOK(capabilities[e][c], g)
      BY DEF Inv, HeldOK, EntriesOK
    <3>2. /\ SoundEntry(InvalidateAll(capabilities[e][c]))
          /\ Weakens(capabilities[e][c].evidence, InvalidateAll(capabilities[e][c]).evidence)
      BY HeldSound, InvalidateSound
    <3>3. entries[c] = InvalidateAll(capabilities[e][c])
      OBVIOUS
    <3> HIDE DEF entries, g
    <3> QED
      BY <3>1, <3>2, <3>3, WeakensOK
  <2> HIDE DEF entries, g
  <2> QED
    BY <2>1, <2>2, EntriesFromEntry
<1>2. /\ Resolve(new)
      /\ entities' = [entities EXCEPT ![e] = entity]
      /\ entities[e].known
      /\ registryGeneration' = registryGeneration + 1
      /\ UNCHANGED <<epoch, authorities, publishers, fences, store>>
  BY DEF InvalidateEntity
<1>3. entries \in [Capability -> Entry]
  BY <1>1 DEF EntriesOK
<1>4. marked \in EntityState /\ marked.known = entities[e].known /\ marked.generation = g
  BY <1>0 DEF EntityState
<1> HIDE DEF entries, marked
<1>5. entity \in EntityState /\ entity.known = entities[e].known /\ entity.generation = g
  BY <1>3, <1>4, RefreshedType
<1>6. new \in Capabilities
  BY <1>0, <1>3 DEF Capabilities
<1> HIDE DEF new, entity, g
<1>7. /\ capabilities' = new /\ reverse' \in Reverse
      /\ revalidation' \subseteq Entity \X Capability /\ IndexComplete'
  BY <1>2, <1>6, ResolveIndex
<1>8. Complete(reverse', revalidation', capabilities')
  BY <1>7 DEF IndexComplete, Complete
<1>9. capabilities' = [capabilities EXCEPT ![e] = entries]
  BY <1>7 DEF new
<1>10. /\ entity.known /\ EntriesOK(entries, entity.generation)
       /\ registryGeneration' \in Nat
       /\ publishers' \in [PublisherKey -> PublisherRuntime \cup {NoRegistration}]
  BY <1>0, <1>1, <1>2, <1>5
<1> QED
  BY <1>2, <1>5, <1>7, <1>8, <1>9, <1>10, SameRegistrations, EntityStep

-----------------------------------------------------------------------------
(* Publish.                                                                *)

\* What step 6 makes of the entity and its entries.
LEMMA ArrivalOK ==
    ASSUME Inv, NEW q \in Requests, Located(q)
    PROVE  /\ q.entity \in Entity
           /\ EntityAt(q) \in EntityState /\ EntityAt(q).known
           /\ EntityAt(q).generation = q.generation
           /\ EntriesOK(EntriesAt(q), q.generation)
           /\ Complete(reverse, revalidation, [capabilities EXCEPT ![q.entity] = EntriesAt(q)])
           /\ GenerationAt(q) \in Nat
<1> DEFINE e == q.entity
           old == entities[e]
<1>1. q \in Request /\ e \in Entity /\ q.generation \in Nat
  BY RegistryAssumption DEF Request
<1>2. /\ old \in EntityState /\ old.generation \in Nat /\ registryGeneration \in Nat
      /\ capabilities \in [Entity -> [Capability -> Entry]]
  BY <1>1 DEF Inv, TypeOK, EntityState
<1>3. GenerationAt(q) \in Nat
  BY <1>2 DEF GenerationAt
<1>4. Complete(reverse, revalidation, capabilities)
  BY IndexIsComplete DEF Inv
<1>5. CASE ~old.known
  <2>1. EntityAt(q) = NewEntity(q.generation) /\ EntriesAt(q) = capabilities[e]
    BY <1>5 DEF EntityAt, EntriesAt, Newer
  <2>2. EntriesOK(capabilities[e], q.generation)
    BY <1>1, <1>5, UnknownHoldsNothing
  <2>3. capabilities = [capabilities EXCEPT ![e] = capabilities[e]]
    BY <1>1, <1>2
  <2> HIDE DEF e
  <2>4. Complete(reverse, revalidation, [capabilities EXCEPT ![e] = EntriesAt(q)])
    BY <1>4, <2>1, <2>3
  <2> QED
    BY <1>1, <1>3, <2>1, <2>2, <2>4, NewEntityType DEF e
<1>6. CASE old.known /\ q.generation > old.generation
  <2>1. EntityAt(q) = RetireGeneration(old, q.generation) /\ EntriesAt(q) = NoCapabilities
    BY <1>6 DEF EntityAt, EntriesAt, Newer
  <2>2. Complete(reverse, revalidation, [capabilities EXCEPT ![e] = NoCapabilities])
    BY <1>1, ClearedComplete
  <2>3. EntriesOK(NoCapabilities, q.generation)
    BY NoCapabilitiesOK
  <2>4. /\ RetireGeneration(old, q.generation) \in EntityState
        /\ RetireGeneration(old, q.generation).known
        /\ RetireGeneration(old, q.generation).generation = q.generation
    BY <1>1, <1>2, RetireGenerationType
  <2> QED
    BY <1>1, <1>3, <2>1, <2>2, <2>3, <2>4
<1>7. CASE old.known /\ ~(q.generation > old.generation)
  <2>1. EntityAt(q) = old /\ EntriesAt(q) = capabilities[e]
    BY <1>7 DEF EntityAt, EntriesAt, Newer
  <2>2. old.generation = q.generation
    BY <1>1, <1>2, <1>7 DEF Located
  <2>3. EntriesOK(capabilities[e], q.generation)
    BY <1>1, <2>2 DEF Inv, HeldOK
  <2>4. capabilities = [capabilities EXCEPT ![e] = capabilities[e]]
    BY <1>1, <1>2
  <2> HIDE DEF e
  <2>5. Complete(reverse, revalidation, [capabilities EXCEPT ![e] = EntriesAt(q)])
    BY <1>4, <2>1, <2>4
  <2> HIDE DEF old
  <2> QED
    BY <1>1, <1>2, <1>3, <1>7, <2>1, <2>2, <2>3, <2>5 DEF e
<1> QED
  BY <1>5, <1>6, <1>7

\* The grant, the stamp and the lines of an admitted request.
LEMMA AdmittedOK ==
    ASSUME Inv, NEW q \in Requests, Admitted(q)
    PROVE  /\ authorities[q.scope] \in Grant
           /\ StampOK(StampOf(q), q.generation)
           /\ q.before \in Edits
           /\ LastLines(q) \in Edits
           /\ ContentOf(q) \in Content
           /\ <<q.publisher, q.boot>> \in PublisherKey
           /\ publishers[<<q.publisher, q.boot>>] \in PublisherRuntime
<1>1. q \in Request
  BY RegistryAssumption
<1>2. authorities[q.scope] \in Grant
  BY <1>1 DEF Admitted, Authorised, Declared, Inv, TypeOK
<1>3. StampOK(StampOf(q), q.generation)
  <2>1. epoch \in Nat /\ ~Fenced(q.boot) /\ <<q.publisher, q.boot>> \in RegisteredKeys
    BY DEF Inv, TypeOK, Admitted, Registered
  <2>2. /\ q.source \in Source /\ q.boot \in Boot /\ q.publisher \in Publisher
        /\ q.sourceGeneration \in Nat /\ q.generation \in Nat
    BY <1>1 DEF Request
  <2> QED
    BY <2>1, <2>2 DEF StampOf, StampOK, Stamp, WithinAuthority
<1>4. q.before \in Edits /\ q.edits \in Edits /\ q.front \in Capability
  BY <1>1 DEF Request
<1>5. AbsenceLine(q) \in Edit
  <2>1. authorities[q.scope].strongest \in Rank
    BY <1>2 DEF Grant
  <2>2. q.edits[q.front].rank \in Rank
    BY <1>4 DEF Edits, Edit
  <2> QED
    BY <2>1, <2>2 DEF AbsenceLine, Edit, Operation, CapabilityState, Rank
<1>6. LastLines(q) \in Edits
  BY <1>4, <1>5 DEF LastLines, Edits
<1>7. ContentOf(q) \in Content
  <2>1. authorities[q.scope].exclusive \in BOOLEAN
    BY <1>2 DEF Grant
  <2> QED
    BY <1>1, <2>1 DEF ContentOf, Content, Request
<1>8. /\ <<q.publisher, q.boot>> \in PublisherKey
      /\ publishers[<<q.publisher, q.boot>>] \in PublisherRuntime
  BY DEF Admitted, Registered, RegisteredKeys, Inv, TypeOK
<1> QED
  BY <1>2, <1>3, <1>4, <1>6, <1>7, <1>8

\* Four stages, each of which resolves what it touched.
LEMMA SettleOK ==
    ASSUME Inv, NEW q, q.entity \in Entity,
           NEW e0, NEW e1 \in [Capability -> Entry], NEW e2 \in [Capability -> Entry],
           NEW e3 \in [Capability -> Entry], NEW e4 \in [Capability -> Entry],
           Complete(reverse, revalidation, [capabilities EXCEPT ![q.entity] = e0]),
           Settle(q, e0, e1, e2, e3, e4)
    PROVE  /\ capabilities' = [capabilities EXCEPT ![q.entity] = e4]
           /\ reverse' \in Reverse
           /\ revalidation' \subseteq Entity \X Capability
           /\ Complete(reverse', revalidation', capabilities')
<1> DEFINE At(entries) == [capabilities EXCEPT ![q.entity] = entries]
           r1 == Reindex(reverse, At(e0), At(e1))
           r2 == Reindex(r1, At(e1), At(e2))
           r3 == Reindex(r2, At(e2), At(e3))
           p1 == Requeue(revalidation, At(e0), At(e1))
           p2 == Requeue(p1, At(e1), At(e2))
           p3 == Requeue(p2, At(e2), At(e3))
<1>1. \A x \in [Capability -> Entry] : At(x) \in Capabilities
  BY DEF Inv, TypeOK, Capabilities
<1>2. /\ capabilities' = At(e4)
      /\ reverse' = Reindex(r3, At(e3), At(e4))
      /\ revalidation' = Requeue(p3, At(e3), At(e4))
  BY DEF Settle
<1> HIDE DEF At
<1>3. Complete(reverse, revalidation, At(e0))
  BY DEF At
<1>4. Complete(r1, p1, At(e1))
  BY <1>1, <1>3, ReindexComplete
<1> HIDE DEF r1, p1
<1>5. Complete(r2, p2, At(e2))
  BY <1>1, <1>4, ReindexComplete
<1> HIDE DEF r2, p2
<1>6. Complete(r3, p3, At(e3))
  BY <1>1, <1>5, ReindexComplete
<1> HIDE DEF r3, p3
<1>7. Complete(reverse', revalidation', capabilities')
  BY <1>1, <1>2, <1>6, ReindexComplete
<1>8. reverse' \in Reverse /\ revalidation' \subseteq Entity \X Capability
  BY <1>2, ReindexType
<1> QED
  BY <1>2, <1>7, <1>8 DEF At

\* Publish, answered from the replay cache or rejected by steps 7 to 9.
LEMMA ArriveInv ==
    ASSUME Inv, NEW q \in Requests, Located(q), Arrive(q)
    PROVE  Inv'
<1>1. /\ q.entity \in Entity
      /\ EntityAt(q) \in EntityState /\ EntityAt(q).known
      /\ EntriesOK(EntriesAt(q), EntityAt(q).generation)
      /\ Complete(reverse, revalidation, [capabilities EXCEPT ![q.entity] = EntriesAt(q)])
      /\ GenerationAt(q) \in Nat
  BY ArrivalOK
<1>2. /\ entities' = [entities EXCEPT ![q.entity] = EntityAt(q)]
      /\ capabilities' = [capabilities EXCEPT ![q.entity] = EntriesAt(q)]
      /\ registryGeneration' = GenerationAt(q)
      /\ UNCHANGED <<epoch, authorities, publishers, fences, reverse, revalidation, store>>
  BY DEF Arrive
<1>3. /\ Complete(reverse', revalidation', capabilities')
      /\ registryGeneration' \in Nat
  BY <1>1, <1>2
<1>4. /\ reverse' \in Reverse /\ revalidation' \subseteq Entity \X Capability
      /\ publishers' \in [PublisherKey -> PublisherRuntime \cup {NoRegistration}]
  BY <1>2 DEF Inv, TypeOK, Reverse
<1> QED
  BY <1>1, <1>2, <1>3, <1>4, SameRegistrations, EntityStep

\* The entries before and after the first three stages of step 10.
LEMMA StagesOK ==
    ASSUME Inv, NEW q \in Requests, Admitted(q), Located(q),
           LinesFit(EntriesAt(q), StampOf(q), q.before, Named(q.before))
    PROVE  LET e1 == ApplyLines(EntriesAt(q), StampOf(q), q.before, Named(q.before))
               e2 == OthersSuperseded(q, e1)
               e3 == OwnSuperseded(q, e2)
           IN  /\ EntriesOK(e1, q.generation)
               /\ EntriesOK(e2, q.generation)
               /\ EntriesOK(e3, q.generation)
<1>1. /\ EntriesOK(EntriesAt(q), q.generation)
      /\ StampOK(StampOf(q), q.generation)
      /\ q.before \in Edits
  BY ArrivalOK, AdmittedOK
<1>2. Named(q.before) \subseteq Capability
  BY DEF Named
<1> DEFINE e1 == ApplyLines(EntriesAt(q), StampOf(q), q.before, Named(q.before))
           e2 == OthersSuperseded(q, e1)
           e3 == OwnSuperseded(q, e2)
<1>3. EntriesOK(e1, q.generation)
  BY <1>1, <1>2, ApplyLinesOK
<1> HIDE DEF e1
<1>4. EntriesOK(e2, q.generation)
  BY <1>3, SupersedeStagesOK
<1> HIDE DEF e2
<1>5. EntriesOK(e3, q.generation)
  BY <1>4, SupersedeStagesOK
<1> QED
  BY <1>3, <1>4, <1>5 DEF e1, e2

\* Settling on sound entries, with whatever becomes of the entity.
LEMMA SettledStep ==
    ASSUME Inv, NEW q \in Requests, Located(q),
           NEW e1, NEW e2, NEW e3, NEW e4,
           EntriesOK(e1, q.generation), EntriesOK(e2, q.generation),
           EntriesOK(e3, q.generation), EntriesOK(e4, q.generation),
           Settle(q, EntriesAt(q), e1, e2, e3, e4),
           NEW entity \in EntityState, entity.known, entity.generation = q.generation,
           entities' = [entities EXCEPT ![q.entity] = entity],
           registryGeneration' \in Nat,
           publishers' \in [PublisherKey -> PublisherRuntime \cup {NoRegistration}],
           RegisteredKeys \subseteq RegisteredKeys',
           UNCHANGED <<epoch, authorities, fences, store>>
    PROVE  Inv'
<1>1. /\ q.entity \in Entity
      /\ Complete(reverse, revalidation, [capabilities EXCEPT ![q.entity] = EntriesAt(q)])
  BY ArrivalOK
<1>2. /\ e1 \in [Capability -> Entry] /\ e2 \in [Capability -> Entry]
      /\ e3 \in [Capability -> Entry] /\ e4 \in [Capability -> Entry]
  BY DEF EntriesOK
<1>3. /\ capabilities' = [capabilities EXCEPT ![q.entity] = e4]
      /\ reverse' \in Reverse
      /\ revalidation' \subseteq Entity \X Capability
      /\ Complete(reverse', revalidation', capabilities')
  BY <1>1, <1>2, SettleOK
<1> QED
  BY <1>1, <1>3, EntityStep

LEMMA PublishStoppedInv ==
    ASSUME Inv, NEW q \in Requests, PublishStopped(q) PROVE Inv'
<1> DEFINE stamp == StampOf(q)
           e0 == EntriesAt(q)
           e1 == ApplyLines(e0, stamp, q.before, Named(q.before))
           e2 == OthersSuperseded(q, e1)
           e3 == OwnSuperseded(q, e2)
           lines == LastLines(q)
           g == q.generation
<1>1. Admitted(q) /\ Located(q)
  BY DEF PublishStopped, Applicable
<1>2. /\ EntriesOK(e0, g) /\ StampOK(stamp, g) /\ q.before \in Edits /\ lines \in Edits
      /\ EntityAt(q) \in EntityState /\ EntityAt(q).known /\ EntityAt(q).generation = g
      /\ GenerationAt(q) \in Nat
  BY <1>1, ArrivalOK, AdmittedOK
<1>3. /\ entities' = [entities EXCEPT ![q.entity] = EntityAt(q)]
      /\ registryGeneration' = GenerationAt(q)
      /\ UNCHANGED <<epoch, authorities, publishers, fences, store>>
  BY DEF PublishStopped
<1>4. /\ registryGeneration' \in Nat
      /\ publishers' \in [PublisherKey -> PublisherRuntime \cup {NoRegistration}]
      /\ RegisteredKeys \subseteq RegisteredKeys'
  BY <1>2, <1>3, SameRegistrations DEF Inv, TypeOK
<1>5. Named(q.before) \subseteq Capability /\ Named(lines) \subseteq Capability
  BY DEF Named
<1>6. \/ \E done \in SUBSET Named(q.before) : \E c \in Named(q.before) :
             /\ Stops(e0, stamp, q.before, done, c)
             /\ LET x == Stopped(e0, stamp, q.before, done, c)
                IN  Settle(q, e0, x, x, x, x)
      \/ /\ LinesFit(e0, stamp, q.before, Named(q.before))
         /\ \E done \in SUBSET Named(lines) : \E c \in Named(lines) :
               /\ Stops(e3, stamp, lines, done, c)
               /\ Settle(q, e0, e1, e2, e3, Stopped(e3, stamp, lines, done, c))
  BY DEF PublishStopped
<1>7. CASE \E done \in SUBSET Named(q.before) : \E c \in Named(q.before) :
             /\ Stops(e0, stamp, q.before, done, c)
             /\ LET x == Stopped(e0, stamp, q.before, done, c)
                IN  Settle(q, e0, x, x, x, x)
  <2>1. PICK done \in SUBSET Named(q.before), c \in Named(q.before) :
             /\ Stops(e0, stamp, q.before, done, c)
             /\ Settle(q, e0, Stopped(e0, stamp, q.before, done, c),
                       Stopped(e0, stamp, q.before, done, c), Stopped(e0, stamp, q.before, done, c),
                       Stopped(e0, stamp, q.before, done, c))
    BY <1>7
  <2> DEFINE x == Stopped(e0, stamp, q.before, done, c)
  <2> HIDE DEF e0, stamp, g
  <2>2. EntriesOK(x, g)
    BY <1>2, <1>5, <2>1, StoppedOK
  <2>3. Settle(q, e0, x, x, x, x)
    BY <2>1
  <2> HIDE DEF x
  <2> QED
    BY <1>1, <1>2, <1>3, <1>4, <2>2, <2>3, SettledStep DEF e0, g
<1>8. CASE /\ LinesFit(e0, stamp, q.before, Named(q.before))
           /\ \E done \in SUBSET Named(lines) : \E c \in Named(lines) :
                 /\ Stops(e3, stamp, lines, done, c)
                 /\ Settle(q, e0, e1, e2, e3, Stopped(e3, stamp, lines, done, c))
  <2>1. EntriesOK(e1, g) /\ EntriesOK(e2, g) /\ EntriesOK(e3, g)
    BY <1>1, <1>8, StagesOK
  <2>2. PICK done \in SUBSET Named(lines), c \in Named(lines) :
                 /\ Stops(e3, stamp, lines, done, c)
                 /\ Settle(q, e0, e1, e2, e3, Stopped(e3, stamp, lines, done, c))
    BY <1>8
  <2> DEFINE x == Stopped(e3, stamp, lines, done, c)
  <2> HIDE DEF e0, e1, e2, e3, stamp, lines, g
  <2>3. EntriesOK(x, g)
    BY <1>2, <1>5, <2>1, <2>2, StoppedOK
  <2>4. Settle(q, e0, e1, e2, e3, x)
    BY <2>2
  <2> HIDE DEF x
  <2> QED
    BY <1>1, <1>2, <1>3, <1>4, <2>1, <2>3, <2>4, SettledStep DEF e0, g
<1> QED
  BY <1>6, <1>7, <1>8

LEMMA RegisterReplayType ==
    ASSUME Inv, NEW q \in Requests, Admitted(q), RegisterReplay(q)
    PROVE  /\ publishers' \in [PublisherKey -> PublisherRuntime \cup {NoRegistration}]
           /\ RegisteredKeys \subseteq RegisteredKeys'
<1> DEFINE k == <<q.publisher, q.boot>>
           log == publishers[k].replay
           kept == IF Len(log) >= MaxReplay THEN Tail(log) ELSE log
           record == [attempt |-> q.attempt, content |-> ContentOf(q)]
<1>1. k \in PublisherKey /\ publishers[k] \in PublisherRuntime /\ ContentOf(q) \in Content
  BY AdmittedOK
<1>2. record \in ReplayRecord
  BY <1>1, RegistryAssumption DEF ReplayRecord, Request
<1>3. log \in Seq(ReplayRecord) /\ MaxReplay \in Nat \ {0}
  BY <1>1, RegistryAssumption DEF PublisherRuntime
<1> HIDE DEF log, record
<1>4. kept \in Seq(ReplayRecord)
  BY <1>3
<1>5. Append(kept, record) \in Seq(ReplayRecord)
  BY <1>2, <1>4
<1>6. publishers' = [publishers EXCEPT ![k] = [publishers[k] EXCEPT !.replay = Append(kept, record)]]
  BY DEF RegisterReplay, log, record
<1> HIDE DEF kept, k
<1>7. [publishers[k] EXCEPT !.replay = Append(kept, record)] \in PublisherRuntime
  BY <1>1, <1>5 DEF PublisherRuntime
<1>8. RegisteredKeys \subseteq RegisteredKeys'
  BY <1>1, <1>6, <1>7, RegistryAssumption DEF RegisteredKeys, Inv, TypeOK
<1> QED
  BY <1>1, <1>6, <1>7, <1>8 DEF Inv, TypeOK

LEMMA PublishCommittedInv ==
    ASSUME Inv, NEW q \in Requests, PublishCommitted(q) PROVE Inv'
<1> DEFINE stamp == StampOf(q)
           e0 == EntriesAt(q)
           e1 == ApplyLines(e0, stamp, q.before, Named(q.before))
           e2 == OthersSuperseded(q, e1)
           e3 == OwnSuperseded(q, e2)
           lines == LastLines(q)
           e4 == ApplyLines(e3, stamp, lines, Named(lines))
           changed == ~EntityAt(q).materialised \/ EntityAt(q).set # Materialize(e4)
           entity == CommittedEntity(q, EntityAt(q), e4, changed)
           g == q.generation
<1>1. /\ Admitted(q) /\ Located(q)
      /\ LinesFit(e0, stamp, q.before, Named(q.before))
      /\ LinesFit(e3, stamp, lines, Named(lines))
      /\ Settle(q, e0, e1, e2, e3, e4)
      /\ entities' = [entities EXCEPT ![q.entity] = entity]
      /\ registryGeneration' = IF changed THEN GenerationAt(q) + 1 ELSE GenerationAt(q)
      /\ RegisterReplay(q)
      /\ UNCHANGED <<epoch, authorities, fences, store>>
  BY DEF PublishCommitted, Applicable
<1>2. /\ StampOK(stamp, g) /\ lines \in Edits
      /\ EntityAt(q) \in EntityState /\ EntityAt(q).known /\ EntityAt(q).generation = g
      /\ GenerationAt(q) \in Nat
      /\ q \in Request
  BY <1>1, ArrivalOK, AdmittedOK, RegistryAssumption
<1>3. EntriesOK(e1, g) /\ EntriesOK(e2, g) /\ EntriesOK(e3, g)
  BY <1>1, StagesOK
<1>4. Named(lines) \subseteq Capability
  BY DEF Named
<1>5. /\ publishers' \in [PublisherKey -> PublisherRuntime \cup {NoRegistration}]
      /\ RegisteredKeys \subseteq RegisteredKeys'
  BY <1>1, RegisterReplayType
<1> HIDE DEF e0, e1, e2, e3, stamp, lines, g
<1>6. EntriesOK(e4, g)
  BY <1>1, <1>2, <1>3, <1>4, ApplyLinesOK
<1> HIDE DEF e4, changed
<1>7. entity \in EntityState /\ entity.known /\ entity.generation = g
  <2>1. \A c \in Capability : e4[c] \in Entry
    BY <1>6 DEF EntriesOK
  <2> QED
    BY <1>2, <2>1, CommittedEntityType
<1>8. registryGeneration' \in Nat
  BY <1>1, <1>2
<1> HIDE DEF entity
<1> QED
  BY <1>1, <1>3, <1>5, <1>6, <1>7, <1>8, SettledStep DEF e0, g

LEMMA PublishInv ==
    ASSUME Inv, NEW q \in Requests, Publish(q) PROVE Inv'
<1>1. CASE PublishRefused(q)
  <2>1. TypeOK'
    BY <1>1 DEF PublishRefused, Inv, TypeOK
  <2> QED
    BY <1>1, <2>1, SameRegistrations, QuietStep DEF PublishRefused
<1>2. CASE PublishReplayed(q)
  BY <1>2, ArriveInv DEF PublishReplayed
<1>3. CASE PublishHalted(q)
  BY <1>3, ArriveInv DEF PublishHalted
<1>4. CASE PublishStopped(q)
  BY <1>4, PublishStoppedInv
<1>5. CASE PublishCommitted(q)
  BY <1>5, PublishCommittedInv
<1> QED
  BY <1>1, <1>2, <1>3, <1>4, <1>5 DEF Publish

-----------------------------------------------------------------------------
(* Save and Load.                                                          *)

LEMMA SaveInv ==
    ASSUME Inv, Save PROVE Inv'
<1> DEFINE registrations == [k \in PublisherKey |->
                                IF publishers[k] = NoRegistration THEN NoRegistration
                                ELSE IF publishers[k].active THEN publishers[k].scope
                                ELSE NoRegistration]
           boots == {fences[i] : i \in DOMAIN fences}
           kept == [e \in Entity |-> [entities[e] EXCEPT !.materialised = FALSE, !.set = NoAnswers]]
           caps == [e \in Entity |-> [c \in Capability |-> StoredEntry(capabilities[e][c])]]
<1>1. /\ store' = [epoch |-> epoch, registryGeneration |-> registryGeneration,
                   authorities |-> authorities, registrations |-> registrations,
                   fences |-> boots, entities |-> kept, capabilities |-> caps]
      /\ UNCHANGED <<epoch, registryGeneration, authorities, publishers, fences, entities,
                     capabilities, reverse, revalidation>>
  BY DEF Save
<1>2. registrations \in [PublisherKey -> Scope \cup {NoRegistration}]
  BY DEF Inv, TypeOK, PublisherRuntime
<1>3. boots \in SUBSET Boot /\ IsFiniteSet(boots)
  <2>1. fences \in Seq(Boot)
    BY DEF Inv, TypeOK
  <2>2. boots \subseteq Boot
    BY <2>1
  <2>3. /\ DOMAIN fences = 1..Len(fences) /\ Len(fences) \in Nat
        /\ fences = [i \in DOMAIN fences |-> fences[i]]
    BY <2>1
  <2>4. IsFiniteSet(DOMAIN fences)
    BY <2>3, FS_Interval
  <2> QED
    BY <2>2, <2>3, <2>4, ImageCardinality
<1>4. NoAnswers \in AnswerSet
  BY NewEntityType DEF NewEntity, EntityState
<1>5. \A e \in Entity : /\ kept[e] \in EntityState
                        /\ kept[e].generation = entities[e].generation
                        /\ kept[e].known = entities[e].known
  BY <1>4 DEF Inv, TypeOK, EntityState
<1>6. \A e \in Entity, c \in Capability :
         /\ SoundStored(caps[e][c])
         /\ caps[e][c].exists = capabilities[e][c].exists
         /\ caps[e][c].evidence \subseteq capabilities[e][c].evidence
  BY HeldSound, StoredSound
<1>7. kept \in [Entity -> EntityState] /\ caps \in Capabilities
  <2>1. kept \in [Entity -> EntityState]
    BY <1>5
  <2>2. caps \in Capabilities
    BY <1>6 DEF SoundStored, Capabilities
  <2> QED
    BY <2>1, <2>2
<1> HIDE DEF registrations, boots, kept, caps
<1>8. store' \in Store
  BY <1>1, <1>2, <1>3, <1>7 DEF Inv, TypeOK, Store, Capabilities
<1>9. TypeOK'
  BY <1>1, <1>8 DEF Inv, TypeOK
<1>10. HeldOK' /\ IndexComplete'
  <2>1. HeldOK'
    BY <1>1 DEF Inv, HeldOK, EntriesOK, EntryOK, RecordOK, WithinAuthority, Fenced,
                RegisteredKeys
  <2>2. IndexComplete'
    BY <1>1 DEF Inv, IndexComplete
  <2> QED
    BY <2>1, <2>2
<1>11. StoreOK'
  <2>1. store'.capabilities = caps /\ store'.entities = kept /\ store'.fences = boots
    BY <1>1
  <2>2. \A e \in Entity, c \in Capability :
           /\ \A r \in capabilities[e][c].evidence : r.entityGeneration = entities[e].generation
           /\ capabilities[e][c].exists => entities[e].known
    BY DEF Inv, HeldOK, EntriesOK, EntryOK, RecordOK
  <2> QED
    BY <1>3, <1>5, <1>6, <2>1, <2>2 DEF StoreOK
<1> QED
  BY <1>9, <1>10, <1>11 DEF Inv

LEMMA LoadInv ==
    ASSUME Inv, Load PROVE Inv'
<1> DEFINE loaded == [e \in Entity |-> [c \in Capability |->
                        LoadedEntry(store.capabilities[e][c])]]
           none == [e \in Entity |-> NoCapabilities]
<1>1. /\ epoch' = store.epoch
      /\ registryGeneration' = store.registryGeneration
      /\ authorities' = store.authorities
      /\ capabilities' = loaded
      /\ reverse' = Reindex(NoIndex, none, loaded)
      /\ revalidation' = Requeue({}, none, loaded)
      /\ entities' = [e \in Entity |-> IF store.entities[e].known
                                       THEN Refreshed(store.entities[e], loaded[e])
                                       ELSE NoEntity]
      /\ UNCHANGED store
  BY DEF Load
<1>2. store \in Store
  BY DEF Inv, TypeOK
<1>3. \A e \in Entity, c \in Capability :
         /\ SoundEntry(loaded[e][c])
         /\ loaded[e][c].exists => store.entities[e].known
         /\ \A q \in loaded[e][c].evidence : IsCurrent(q) => q.durable
         /\ \A q \in loaded[e][c].evidence : q.entityGeneration = store.entities[e].generation
  <2> SUFFICES ASSUME NEW e \in Entity, NEW c \in Capability
               PROVE  /\ SoundEntry(loaded[e][c])
                      /\ loaded[e][c].exists => store.entities[e].known
                      /\ \A q \in loaded[e][c].evidence : IsCurrent(q) => q.durable
                      /\ \A q \in loaded[e][c].evidence :
                            q.entityGeneration = store.entities[e].generation
    OBVIOUS
  <2> DEFINE entry == store.capabilities[e][c]
  <2>1. /\ SoundStored(entry)
        /\ \A r \in entry.evidence : r.entityGeneration = store.entities[e].generation
        /\ entry.exists => store.entities[e].known
    BY DEF Inv, StoreOK
  <2>2. loaded[e][c] = LoadedEntry(entry)
    OBVIOUS
  <2> HIDE DEF entry, loaded
  <2> QED
    BY <2>1, <2>2, LoadedSound
<1>4. loaded \in Capabilities
  BY <1>3 DEF SoundEntry, Capabilities
<1>5. \A e \in Entity : /\ entities'[e] \in EntityState
                        /\ entities'[e].known <=> store.entities[e].known
                        /\ store.entities[e].known =>
                              entities'[e].generation = store.entities[e].generation
  <2> SUFFICES ASSUME NEW e \in Entity
               PROVE  /\ entities'[e] \in EntityState
                      /\ entities'[e].known <=> store.entities[e].known
                      /\ store.entities[e].known =>
                            entities'[e].generation = store.entities[e].generation
    OBVIOUS
  <2>1. store.entities[e] \in EntityState /\ \A c \in Capability : loaded[e][c] \in Entry
    BY <1>2, <1>4 DEF Store, Capabilities
  <2> HIDE DEF loaded
  <2>2. /\ Refreshed(store.entities[e], loaded[e]) \in EntityState
        /\ Refreshed(store.entities[e], loaded[e]).generation = store.entities[e].generation
        /\ Refreshed(store.entities[e], loaded[e]).known = store.entities[e].known
    BY <2>1, RefreshedType
  <2>3. entities'[e] = IF store.entities[e].known
                       THEN Refreshed(store.entities[e], loaded[e]) ELSE NoEntity
    BY <1>1
  <2> QED
    BY <2>2, <2>3, NoEntityType
<1>6. fences' \in Seq(Boot)
  <2>1. PICK sorted \in [1..Cardinality(store.fences) -> store.fences] : fences' = sorted
    BY DEF Load
  <2>2. Cardinality(store.fences) \in Nat /\ store.fences \subseteq Boot
    BY <1>2, FS_CardinalityType DEF Inv, StoreOK, Store
  <2> QED
    BY <2>1, <2>2
<1>7. publishers' \in [PublisherKey -> PublisherRuntime \cup {NoRegistration}]
  <2>1. \A k \in PublisherKey : store.registrations[k] \in Scope \cup {NoRegistration}
    BY <1>2 DEF Store
  <2>2. \A s \in Scope : [scope |-> s, epoch |-> store.epoch, active |-> FALSE,
                          replay |-> <<>>] \in PublisherRuntime
    BY <1>2 DEF Store, PublisherRuntime
  <2>3. publishers' = [k \in PublisherKey |->
                IF k[2] \in store.fences \/ store.registrations[k] = NoRegistration
                THEN NoRegistration
                ELSE [scope |-> store.registrations[k], epoch |-> store.epoch,
                      active |-> FALSE, replay |-> <<>>]]
    BY DEF Load
  <2> QED
    BY <2>1, <2>2, <2>3
<1>8. entities' \in [Entity -> EntityState]
  <2>1. entities' = [e \in Entity |-> entities'[e]]
    BY <1>1
  <2> QED
    BY <1>5, <2>1
<1> HIDE DEF loaded, none
<1>9. TypeOK'
  <2>1. reverse' \in Reverse /\ revalidation' \subseteq Entity \X Capability
    BY <1>1, ReindexType
  <2> QED
    BY <1>1, <1>2, <1>4, <1>6, <1>7, <1>8, <2>1 DEF Inv, TypeOK, Store, Capabilities, Reverse
<1>10. HeldOK'
  <2> SUFFICES ASSUME NEW e \in Entity
               PROVE  /\ EntriesOK(capabilities[e], entities[e].generation)'
                      /\ \A c \in Capability : capabilities'[e][c].exists => entities'[e].known
    BY DEF HeldOK
  <2>1. capabilities'[e] \in [Capability -> Entry]
    BY <1>1, <1>4 DEF Capabilities
  <2>2. ASSUME NEW c \in Capability PROVE EntryOK(capabilities[e][c], entities[e].generation)'
    <3>1. CASE store.entities[e].known
      BY <1>1, <1>3, <1>5, <3>1 DEF EntryOK, RecordOK
    <3>2. CASE ~store.entities[e].known
      <4>1. SoundEntry(loaded[e][c]) /\ ~loaded[e][c].exists
        BY <1>3, <3>2
      <4>2. loaded[e][c].evidence = {}
        BY <4>1 DEF SoundEntry, NoEntry
      <4> QED
        BY <1>1, <4>1, <4>2 DEF EntryOK
    <3> QED
      BY <3>1, <3>2
  <2>3. \A c \in Capability : capabilities'[e][c].exists => entities'[e].known
    BY <1>1, <1>3, <1>5
  <2> QED
    BY <2>1, <2>2, <2>3 DEF EntriesOK
<1>11. IndexComplete'
  <2>1. Complete(NoIndex, {}, none)
    BY DEF Complete, none, NoCapabilities, NoEntry, NeedsRevalidation
  <2>2. Complete(reverse', revalidation', capabilities')
    BY <1>1, <1>4, <2>1, ReindexComplete
  <2> QED
    BY <2>2 DEF IndexComplete, Complete
<1>12. StoreOK'
  BY <1>1 DEF Inv, StoreOK
<1> QED
  BY <1>9, <1>10, <1>11, <1>12 DEF Inv

-----------------------------------------------------------------------------
(* The theorems.                                                           *)

LEMMA NextInv == Inv /\ [Next]_vars => Inv'
<1> SUFFICES ASSUME Inv, [Next]_vars PROVE Inv'
  OBVIOUS
<1>1. CASE AdvanceCoordinatorEpoch
  BY <1>1, AdvanceCoordinatorEpochInv
<1>2. CASE \E g \in Grants : DeclareAuthority(g)
  BY <1>2, DeclareAuthorityInv
<1>3. CASE \E w \in Workers : RegisterPublisher(w.publisher, w.scope, w.boot)
  BY <1>3, RegisterPublisherInv
<1>4. CASE \E w \in Workers : RetirePublisher(w.publisher, w.boot)
  BY <1>4, RetirePublisherInv
<1>5. CASE \E b \in Boot : FenceWorkerBoot(b)
  BY <1>5, FenceWorkerBootInv
<1>6. CASE \E e \in Entity, g \in EntityGenerations : ObserveEntityGeneration(e, g)
  BY <1>6, ObserveEntityGenerationInv
<1>7. CASE \E e \in Entity : InvalidateEntity(e)
  BY <1>7, InvalidateEntityInv
<1>8. CASE \E s \in Source : InvalidateSource(s)
  BY <1>8, InvalidateSourceInv
<1>9. CASE \E q \in Requests : Publish(q)
  BY <1>9, PublishInv
<1>10. CASE Save
  BY <1>10, SaveInv
<1>11. CASE Load
  BY <1>11, LoadInv
<1>12. CASE UNCHANGED vars
  <2>1. TypeOK'
    BY <1>12 DEF Inv, TypeOK, vars
  <2> QED
    BY <1>12, <2>1, SameRegistrations, QuietStep DEF vars
<1> QED
  BY <1>1, <1>2, <1>3, <1>4, <1>5, <1>6, <1>7, <1>8, <1>9, <1>10, <1>11, <1>12
     DEF Next, NextInMemory

\* Every reachable state of CapabilityRegistry, across any sequence of calls,
\* saves and loads, satisfies the inductive invariant.
THEOREM Invariance == Spec => []Inv
<1>1. Init => Inv
  BY InitInv
<1>2. Inv /\ [Next]_vars => Inv'
  BY NextInv
<1> QED
  BY <1>1, <1>2, PTL DEF Spec

\* Type correctness: every call of CapabilityRegistry leaves every part of its
\* state, the replay caches, fences, histories and the store included, in its
\* type.
THEOREM TypeCorrect == Spec => []TypeOK
<1>1. Inv => TypeOK
  BY DEF Inv
<1> QED
  BY <1>1, Invariance, PTL

\* The cached answers that Query returns are always the answers the evidence
\* resolves to, after a publication that stopped at a limit and after Load too.
THEOREM AnswersCoherent == Spec => []ResolutionCoherent
<1>1. Inv => ResolutionCoherent
  BY HeldSound DEF ResolutionCoherent, SoundEntry
<1> QED
  BY <1>1, Invariance, PTL

\* No process-bound evidence is current outside the present epoch or from a
\* fenced boot: what fencing, epoch advances and restarts promise.
THEOREM CurrencyWithinAuthority == Spec => []NoCurrencyBeyondAuthority
<1>1. Inv => NoCurrencyBeyondAuthority
  BY DEF Inv, HeldOK, EntriesOK, EntryOK, RecordOK, NoCurrencyBeyondAuthority
<1> QED
  BY <1>1, Invariance, PTL

\* No claim of a retired entity generation is left in the entries, whatever
\* retired it: a publication, an observation or a reload.
THEOREM RetiredLeavesNothing == Spec => []EvidenceOfThisGeneration
<1>1. Inv => EvidenceOfThisGeneration
  BY DEF Inv, HeldOK, EntriesOK, EntryOK, RecordOK, EvidenceOfThisGeneration
<1> QED
  BY <1>1, Invariance, PTL

\* The reverse and revalidation indexes, which FinishResolution maintains one
\* entry at a time, miss no answer.
THEOREM IndexesMissNothing == Spec => []IndexComplete
<1>1. Inv => IndexComplete
  BY DEF Inv
<1> QED
  BY <1>1, Invariance, PTL
=============================================================================
