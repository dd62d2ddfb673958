-------------------------- MODULE AuthorityProofs ---------------------------
(***************************************************************************)
(* A running registry implements Authority: each of its steps is a step of *)
(* that specification, or changes nothing it can see.                      *)
(***************************************************************************)
EXTENDS GenerationProofs

-----------------------------------------------------------------------------
(* What Authority sees of the registry.                                    *)

RegisteredBoots == {k[2] : k \in RegisteredKeys}

FencedBoots == {fences[i] : i \in DOMAIN fences}

Sets == [e \in Entity |-> entities[e].setGeneration]

\* A process-bound current record of the boot.
Speaks(b, E) == \E r \in E : r.boot = b /\ IsCurrent(r) /\ ~r.durable

LEMMA SpeakingIs ==
    Speaking = {b \in Boot : \E e \in Entity, c \in Capability :
                                Speaks(b, capabilities[e][c].evidence)}
BY DEF Speaking, Speaks

LEMMA FencedIs == \A b : b \in FencedBoots <=> Fenced(b)
BY DEF FencedBoots, Fenced

\* Only boots register, are fenced and speak.
LEMMA BootsAreBoots ==
    ASSUME Inv PROVE RegisteredBoots \subseteq Boot /\ FencedBoots \subseteq Boot
<1>1. fences \in Seq(Boot)
  BY DEF Inv, TypeOK
<1>2. FencedBoots \subseteq Boot
  BY <1>1 DEF FencedBoots
<1>3. RegisteredBoots \subseteq Boot
  BY DEF RegisteredBoots, RegisteredKeys, PublisherKey
<1> QED
  BY <1>2, <1>3

-----------------------------------------------------------------------------
(* Who speaks after the operations on an entry.                            *)

\* Nobody speaks in new who did not in old, but b0.
Quiet(old, new, b0) == \A b : Speaks(b, new.evidence) => Speaks(b, old.evidence) \/ b = b0

LEMMA WeakensQuiet ==
    ASSUME NEW old, NEW new, Weakens(old.evidence, new.evidence)
    PROVE  \A b : Speaks(b, new.evidence) => Speaks(b, old.evidence)
BY DEF Weakens, Speaks

\* The same of all entries of an entity.
AllQuiet(old, new, b0) == \A c \in Capability : Quiet(old[c], new[c], b0)

LEMMA QuietTransitive ==
    ASSUME NEW x, NEW y, NEW z, NEW b0, AllQuiet(x, y, b0), AllQuiet(y, z, b0)
    PROVE  AllQuiet(x, z, b0)
BY DEF AllQuiet, Quiet

\* A line makes no boot speak but the one it is stamped with.
LEMMA ApplyLineQuiet ==
    ASSUME NEW entry, SoundEntry(entry), NEW stamp \in Stamp, NEW edit \in Edit,
           edit.op # "WithdrawClaim" => ~EvidenceLimitExceeded(entry, stamp)
    PROVE  Quiet(entry, ApplyLine(entry, stamp, edit), stamp.boot)
<1>1. CASE edit.op = "WithdrawClaim"
  <2>1. ApplyLine(entry, stamp, edit) = SupersedeIdentity(entry, stamp)
    BY <1>1 DEF ApplyLine, WithdrawIdentityClaim
  <2> QED
    BY <2>1, SupersedeSound, WeakensQuiet DEF Quiet
<1>2. CASE edit.op # "WithdrawClaim"
  <2> DEFINE claim == [state |-> ClaimedState(edit), value |-> edit.value,
                       rank |-> edit.rank, durable |-> edit.durable]
             new == ApplyClaim(entry, stamp, claim)
             n == NewRecord(entry, stamp, claim)
  <2>1. ApplyLine(entry, stamp, edit) = new
    BY <1>2 DEF ApplyLine
  <2>2. claim \in Claim
    BY ClaimOfLine
  <2>3. n.boot = stamp.boot
    BY DEF NewRecord
  <2> HIDE DEF claim
  <2>4. Weakens(entry.evidence, new.evidence \ {n})
    BY <1>2, <2>2, ApplyClaimSound
  <2> HIDE DEF new, n
  <2> QED
    BY <2>1, <2>3, <2>4 DEF Quiet, Speaks, Weakens
<1> QED
  BY <1>1, <1>2

LEMMA ApplyLinesQuiet ==
    ASSUME NEW entries, NEW g, EntriesOK(entries, g), NEW stamp, StampOK(stamp, g),
           NEW lines \in Edits, NEW D, LinesFit(entries, stamp, lines, D)
    PROVE  AllQuiet(entries, ApplyLines(entries, stamp, lines, D), stamp.boot)
<1> SUFFICES ASSUME NEW c \in Capability
             PROVE  Quiet(entries[c], ApplyLines(entries, stamp, lines, D)[c], stamp.boot)
  BY DEF AllQuiet
<1>1. SoundEntry(entries[c]) /\ stamp \in Stamp /\ lines[c] \in Edit
  BY DEF EntriesOK, EntryOK, StampOK, Edits
<1>2. CASE c \in D
  <2>1. lines[c].op # "WithdrawClaim" => ~EvidenceLimitExceeded(entries[c], stamp)
    BY <1>2 DEF LinesFit, Claims
  <2>2. Quiet(entries[c], ApplyLine(entries[c], stamp, lines[c]), stamp.boot)
    BY <1>1, <2>1, ApplyLineQuiet
  <2> QED
    BY <1>2, <2>2 DEF ApplyLines
<1>3. CASE c \notin D
  BY <1>3 DEF ApplyLines, Quiet
<1> QED
  BY <1>2, <1>3

LEMMA StoppedQuiet ==
    ASSUME NEW entries, NEW g, EntriesOK(entries, g), NEW stamp, StampOK(stamp, g),
           NEW lines \in Edits, NEW D, NEW c \in Capability, Stops(entries, stamp, lines, D, c)
    PROVE  AllQuiet(entries, Stopped(entries, stamp, lines, D, c), stamp.boot)
<1>1. AllQuiet(entries, ApplyLines(entries, stamp, lines, D), stamp.boot)
  BY ApplyLinesQuiet DEF Stops
<1>2. entries[c].exists => Quiet(entries[c], ApplyClaimAtLimit(entries[c], stamp), stamp.boot)
  <2>1. SoundEntry(entries[c])
    BY DEF EntriesOK, EntryOK
  <2>2. entries[c].exists => EvidenceLimitExceeded(entries[c], stamp)
    BY DEF Stops
  <2> QED
    BY <2>1, <2>2, AtLimitSound, WeakensQuiet DEF Quiet
<1>3. \A d \in Capability :
         Stopped(entries, stamp, lines, D, c)[d] =
            IF d = c /\ entries[c].exists THEN ApplyClaimAtLimit(entries[c], stamp)
            ELSE ApplyLines(entries, stamp, lines, D)[d]
  BY DEF Stopped, ApplyLines
<1> QED
  BY <1>1, <1>2, <1>3 DEF AllQuiet

LEMMA SupersedeStagesQuiet ==
    ASSUME NEW entries, NEW g, EntriesOK(entries, g), NEW q, NEW b0
    PROVE  /\ AllQuiet(entries, OthersSuperseded(q, entries), b0)
           /\ AllQuiet(entries, OwnSuperseded(q, entries), b0)
<1> SUFFICES ASSUME NEW c \in Capability
             PROVE  /\ Quiet(entries[c], OthersSuperseded(q, entries)[c], b0)
                    /\ Quiet(entries[c], OwnSuperseded(q, entries)[c], b0)
  BY DEF AllQuiet
<1>1. SoundEntry(entries[c])
  BY DEF EntriesOK, EntryOK
<1>2. Quiet(entries[c], SupersedeOtherIdentities(entries[c], q.publisher, q.boot), b0)
  BY <1>1, SupersedeOthersSound, WeakensQuiet DEF Quiet
<1>3. Quiet(entries[c], SupersedeIdentity(entries[c], IdentityOf(q)), b0)
  BY <1>1, SupersedeSound, WeakensQuiet DEF Quiet
<1>4. Quiet(entries[c], entries[c], b0)
  BY DEF Quiet
<1> QED
  BY <1>2, <1>3, <1>4 DEF OthersSuperseded, OwnSuperseded

-----------------------------------------------------------------------------
(* The calls that weaken evidence.                                         *)

\* The set generations, when the entities are only refreshed.
LEMMA RefreshKeepsSets ==
    ASSUME Inv, NEW E, NEW new, Refresh(E, new) PROVE Sets' = Sets
<1>1. \A e \in Entity : entities'[e].setGeneration = entities[e].setGeneration
  BY InvTypes DEF Refresh, Refreshed, EntityState
<1> QED
  BY <1>1 DEF Sets

\* Entries of which none gained a record that speaks.
LEMMA SilencedSpeaking ==
    ASSUME \A e \in Entity, c \in Capability :
              Weakens(capabilities[e][c].evidence, capabilities'[e][c].evidence)
    PROVE  Speaking' \subseteq Speaking
<1>1. \A e \in Entity, c \in Capability : \A b :
         Speaks(b, capabilities'[e][c].evidence) => Speaks(b, capabilities[e][c].evidence)
  BY DEF Weakens, Speaks
<1>2. Speaking' = {b \in Boot : \E e \in Entity, c \in Capability :
                                  Speaks(b, capabilities'[e][c].evidence)}
  BY DEF Speaking, Speaks
<1> QED
  BY <1>1, <1>2, SpeakingIs

LEMMA RegisterMaps ==
    ASSUME Inv, NEW w \in Workers, RegisterPublisher(w.publisher, w.scope, w.boot)
    PROVE  \E b \in Boot : Speakers!Register(b)
<1> DEFINE k == <<w.publisher, w.boot>>
           runtime == [scope |-> w.scope, epoch |-> epoch, active |-> TRUE, replay |-> <<>>]
<1>1. w.boot \in Boot /\ w.publisher \in Publisher /\ w.scope \in Scope /\ k \in PublisherKey
  BY RegistryAssumption DEF PublisherKey
<1>2. runtime \in PublisherRuntime
  BY <1>1, InvTypes DEF PublisherRuntime
<1>3. publishers' = [publishers EXCEPT ![k] = runtime]
  BY DEF RegisterPublisher
<1>4. runtime # NoRegistration
  BY <1>2, RegistryAssumption
<1> HIDE DEF k, runtime
<1>5. RegisteredKeys' = RegisteredKeys \cup {k}
  BY <1>1, <1>3, <1>4, InvTypes DEF RegisteredKeys
<1>6. RegisteredBoots' = RegisteredBoots \cup {w.boot}
  <2>1. k[2] = w.boot
    BY DEF k
  <2> QED
    BY <1>5, <2>1 DEF RegisteredBoots
<1>7. w.boot \notin FencedBoots
  BY FencedIs DEF RegisterPublisher
<1>8. Speakers!Register(w.boot)
  BY <1>6, <1>7 DEF Speakers!Register, RegisteredBoots, FencedBoots, RegisterPublisher, Speaking
<1> QED
  BY <1>1, <1>8

LEMMA RetireMaps ==
    ASSUME Inv, NEW w \in Workers, RetirePublisher(w.publisher, w.boot)
    PROVE  UNCHANGED Speakers!vars
<1> DEFINE k == <<w.publisher, w.boot>>
<1>1. k \in RegisteredKeys /\ publishers' = [publishers EXCEPT ![k].active = FALSE]
  BY DEF RetirePublisher
<1>2. k \in PublisherKey /\ publishers[k] \in PublisherRuntime
  BY <1>1, InvTypes DEF RegisteredKeys
<1> HIDE DEF k
<1>3. [publishers[k] EXCEPT !.active = FALSE] \in PublisherRuntime
  BY <1>2 DEF PublisherRuntime
<1>4. [publishers[k] EXCEPT !.active = FALSE] # NoRegistration
  BY <1>3, RegistryAssumption
<1>5. RegisteredKeys' = RegisteredKeys
  BY <1>1, <1>2, <1>4, InvTypes DEF RegisteredKeys
<1> QED
  BY <1>5 DEF Speakers!vars, RetirePublisher, Speaking

LEMMA AdvanceMaps ==
    ASSUME Inv, AdvanceCoordinatorEpoch
    PROVE  Speakers!AdvanceEpoch
<1> DEFINE new == [e \in Entity |-> [c \in Capability |-> ExpireProcessBound(capabilities[e][c])]]
<1>1. \A e \in Entity, c \in Capability : \A r \in new[e][c].evidence : IsCurrent(r) => r.durable
  BY HeldSound, ExpireSound
<1>2. capabilities' = new /\ Refresh(Known, new)
  BY DEF AdvanceCoordinatorEpoch, Resolve
<1> HIDE DEF new
<1>3. Speaking' = {}
  BY <1>1, <1>2 DEF Speaking
<1>4. Sets' = Sets
  BY <1>2, RefreshKeepsSets
<1>5. RegisteredBoots' = {}
  BY DEF AdvanceCoordinatorEpoch, RegisteredBoots, RegisteredKeys
<1>6. \E added \in SUBSET RegisteredBoots : FencedBoots' = FencedBoots \cup added
  <2>1. PICK n \in 0..MaxFences : \E added \in [1..n -> RegisteredBoots] : fences' = fences \o added
    BY DEF AdvanceCoordinatorEpoch, RegisteredBoots
  <2>2. PICK added \in [1..n -> RegisteredBoots] : fences' = fences \o added
    BY <2>1
  <2>3. n \in Nat /\ added \in Seq(Boot) /\ Len(added) = n /\ DOMAIN added = 1..n
    BY BootsAreBoots, RegistryAssumption
  <2>4. fences \in Seq(Boot)
    BY DEF Inv, TypeOK
  <2> DEFINE A == {added[i] : i \in 1..n}
  <2>5. A \in SUBSET RegisteredBoots
    OBVIOUS
  <2>6. /\ Len(fences') = Len(fences) + n /\ DOMAIN fences' = 1..(Len(fences) + n)
        /\ Len(fences) \in Nat /\ DOMAIN fences = 1..Len(fences)
        /\ \A i \in 1..(Len(fences) + n) :
              fences'[i] = IF i <= Len(fences) THEN fences[i] ELSE added[i - Len(fences)]
    <3>0. added \in Seq(Boot) /\ Len(added) = n
      BY <2>3
    <3>1. /\ fences' \in Seq(Boot) /\ Len(fences') = Len(fences) + n
          /\ Len(fences) \in Nat /\ DOMAIN fences = 1..Len(fences)
      <4>1. Len(fences \o added) = Len(fences) + n /\ fences \o added \in Seq(Boot)
        BY <2>4, <3>0, ConcatProperties
      <4> QED
        BY <2>2, <2>4, <4>1
    <3>2. DOMAIN fences' = 1..(Len(fences) + n)
      BY <3>1
    <3>3. \A i \in 1..(Len(fences) + n) :
            fences'[i] = IF i <= Len(fences) THEN fences[i] ELSE added[i - Len(fences)]
      BY <2>2, <2>3, <2>4, ConcatProperties
    <3> QED
      BY <3>1, <3>2, <3>3
  <2>7. ASSUME NEW x PROVE x \in FencedBoots' <=> x \in FencedBoots \/ x \in A
    <3>1. ASSUME NEW i \in 1..(Len(fences) + n), x = fences'[i]
          PROVE  x \in FencedBoots \/ x \in A
      <4>1. CASE i <= Len(fences)
        BY <2>6, <3>1, <4>1 DEF FencedBoots
      <4>2. CASE ~(i <= Len(fences))
        <5>1. i - Len(fences) \in 1..n
          BY <2>3, <2>6, <4>2
        <5> QED
          BY <2>6, <3>1, <4>2, <5>1
      <4> QED
        BY <4>1, <4>2
    <3>2. ASSUME NEW i \in 1..Len(fences), x = fences[i] PROVE x \in FencedBoots'
      <4>1. i \in 1..(Len(fences) + n) /\ i <= Len(fences)
        BY <2>3, <2>6
      <4>2. fences'[i] = x
        BY <2>6, <3>2, <4>1
      <4> QED
        BY <2>6, <4>1, <4>2 DEF FencedBoots
    <3>3. ASSUME NEW i \in 1..n, x = added[i] PROVE x \in FencedBoots'
      <4>1. /\ Len(fences) + i \in 1..(Len(fences) + n) /\ ~(Len(fences) + i <= Len(fences))
            /\ (Len(fences) + i) - Len(fences) = i
        BY <2>3, <2>6
      <4>2. fences'[Len(fences) + i] = x
        BY <2>6, <3>3, <4>1
      <4> QED
        BY <2>6, <4>1, <4>2 DEF FencedBoots
    <3> QED
      BY <2>6, <3>1, <3>2, <3>3 DEF FencedBoots
  <2> HIDE DEF A
  <2> QED
    BY <2>5, <2>7
<1>7. epoch' = epoch + 1
  BY DEF AdvanceCoordinatorEpoch
<1> QED
  BY <1>3, <1>4, <1>5, <1>6, <1>7 DEF Speakers!AdvanceEpoch, RegisteredBoots, FencedBoots, Sets

\* A new fence is fenced, and costs no boot with current evidence its fence.
LEMMA AddFenceKeeps ==
    ASSUME Inv, NEW b \in Boot, AddFence(b)
    PROVE  /\ b \in FencedBoots'
           /\ \A x \in FencedBoots : OwnsCurrentEvidence(x) => x \in FencedBoots'
<1>0. fences \in Seq(Boot) /\ Len(fences) \in Nat /\ DOMAIN fences = 1..Len(fences)
  BY DEF Inv, TypeOK
<1>1. CASE fences' = Append(fences, b)
  <2>1. /\ DOMAIN fences' = 1..(Len(fences) + 1) /\ fences'[Len(fences) + 1] = b
        /\ \A j \in 1..Len(fences) : fences'[j] = fences[j]
    BY <1>0, <1>1
  <2>2. Len(fences) + 1 \in DOMAIN fences' /\ \A j \in 1..Len(fences) : j \in DOMAIN fences'
    BY <1>0, <2>1
  <2> QED
    BY <1>0, <2>1, <2>2 DEF FencedBoots
<1>2. CASE \E i \in DOMAIN fences :
              /\ ~OwnsCurrentEvidence(fences[i])
              /\ fences' = Append(SubSeq(fences, 1, i - 1) \o SubSeq(fences, i + 1, Len(fences)), b)
  <2>1. PICK i \in DOMAIN fences :
              /\ ~OwnsCurrentEvidence(fences[i])
              /\ fences' = Append(SubSeq(fences, 1, i - 1) \o SubSeq(fences, i + 1, Len(fences)), b)
    BY <1>2
  <2> DEFINE front == SubSeq(fences, 1, i - 1)
             back == SubSeq(fences, i + 1, Len(fences))
             kept == front \o back
  <2>2. i \in Nat /\ 1 <= i /\ i <= Len(fences)
    BY <1>0
  <2>3. /\ front \in Seq(Boot) /\ Len(front) = i - 1
        /\ \A j \in 1..(i - 1) : front[j] = fences[j]
    BY <1>0, <2>2
  <2>4. /\ back \in Seq(Boot) /\ Len(back) = Len(fences) - i
        /\ \A j \in 1..(Len(fences) - i) : back[j] = fences[i + j]
    BY <1>0, <2>2
  <2>5. fences' = Append(kept, b)
    BY <2>1
  <2> HIDE DEF front, back
  <2>6. /\ kept \in Seq(Boot) /\ Len(kept) = Len(fences) - 1
        /\ \A j \in 1..(Len(fences) - 1) :
              kept[j] = IF j <= i - 1 THEN fences[j] ELSE fences[j + 1]
    <3>1. /\ kept \in Seq(Boot) /\ Len(kept) = Len(front) + Len(back)
          /\ \A j \in 1..(Len(front) + Len(back)) :
                kept[j] = IF j <= Len(front) THEN front[j] ELSE back[j - Len(front)]
      BY <2>3, <2>4, ConcatProperties
    <3>2. Len(kept) = Len(fences) - 1 /\ Len(front) + Len(back) = Len(fences) - 1
      BY <1>0, <2>2, <2>3, <2>4, <3>1
    <3>3. ASSUME NEW j \in 1..(Len(fences) - 1)
          PROVE  kept[j] = IF j <= i - 1 THEN fences[j] ELSE fences[j + 1]
      <4>1. kept[j] = IF j <= i - 1 THEN front[j] ELSE back[j - (i - 1)]
        BY <2>3, <3>1, <3>2, <3>3
      <4>2. CASE j <= i - 1
        <5>1. j \in 1..(i - 1)
          BY <1>0, <2>2, <4>2
        <5> QED
          BY <2>3, <4>1, <4>2, <5>1
      <4>3. CASE ~(j <= i - 1)
        <5>1. j - (i - 1) \in 1..(Len(fences) - i) /\ i + (j - (i - 1)) = j + 1
          BY <1>0, <2>2, <4>3
        <5> QED
          BY <2>4, <4>1, <4>3, <5>1
      <4> QED
        BY <4>2, <4>3
    <3> QED
      BY <3>1, <3>2, <3>3
  <2> HIDE DEF kept
  <2>7. /\ DOMAIN fences' = 1..Len(fences) /\ fences'[Len(fences)] = b
        /\ \A j \in 1..(Len(fences) - 1) : fences'[j] = kept[j]
    <3>1. /\ DOMAIN Append(kept, b) = 1..(Len(kept) + 1) /\ Append(kept, b)[Len(kept) + 1] = b
          /\ \A j \in 1..Len(kept) : Append(kept, b)[j] = kept[j]
      BY <2>6
    <3>2. Len(kept) + 1 = Len(fences)
      BY <1>0, <2>6
    <3> QED
      BY <2>5, <2>6, <3>1, <3>2
  <2>8. b \in FencedBoots'
    <3>1. Len(fences) \in DOMAIN fences'
      BY <1>0, <2>2, <2>7
    <3> QED
      BY <2>7, <3>1 DEF FencedBoots
  <2>9. ASSUME NEW j \in 1..Len(fences), j # i PROVE fences[j] \in FencedBoots'
    <3>1. CASE j < i
      <4>1. j \in 1..(Len(fences) - 1) /\ j \in DOMAIN fences' /\ j <= i - 1
        BY <1>0, <2>2, <2>7, <3>1
      <4>2. fences'[j] = fences[j]
        BY <2>6, <2>7, <4>1
      <4> QED
        BY <4>1, <4>2 DEF FencedBoots
    <3>2. CASE ~(j < i)
      <4>1. /\ j - 1 \in 1..(Len(fences) - 1) /\ j - 1 \in DOMAIN fences' /\ ~(j - 1 <= i - 1)
            /\ (j - 1) + 1 = j
        BY <1>0, <2>2, <2>7, <2>9, <3>2
      <4>2. fences'[j - 1] = fences[j]
        BY <2>6, <2>7, <4>1
      <4> QED
        BY <4>1, <4>2 DEF FencedBoots
    <3> QED
      BY <3>1, <3>2
  <2> QED
    BY <1>0, <2>1, <2>8, <2>9 DEF FencedBoots
<1> QED
  BY <1>1, <1>2 DEF AddFence

\* Fencing a boot leaves the records of other boots as they are.
LEMMA FenceBootSpares ==
    ASSUME NEW entry, NEW b, NEW x, x # b, Speaks(x, entry.evidence)
    PROVE  Speaks(x, FenceBoot(entry, b).evidence)
<1> DEFINE T == {r \in {r \in entry.evidence : r.boot = b /\ ~r.durable} : IsCurrent(r)}
<1>1. PICK r \in entry.evidence : r.boot = x /\ IsCurrent(r) /\ ~r.durable
  BY DEF Speaks
<1>2. FenceBoot(entry, b) = MarkAndTouch(entry, T, "Fenced")
  BY DEF FenceBoot, MarkNonCurrent
<1>3. r \in entry.evidence \ T
  BY <1>1
<1> HIDE DEF T
<1>4. r \in FenceBoot(entry, b).evidence
  BY <1>2, <1>3 DEF MarkAndTouch, Touch, Mark
<1> QED
  BY <1>1, <1>4 DEF Speaks

LEMMA FenceMaps ==
    ASSUME Inv, NEW b \in Boot, FenceWorkerBoot(b)
    PROVE  Speakers!Fence(b)
<1> DEFINE new == [e \in Entity |-> [c \in Capability |-> FenceBoot(capabilities[e][c], b)]]
<1>1. b \notin FencedBoots /\ AddFence(b) /\ DropOnePublisher(b) /\ UNCHANGED epoch
  BY FencedIs DEF FenceWorkerBoot
<1>2. capabilities' = new /\ Refresh(Known, new)
  BY DEF FenceWorkerBoot, Resolve
<1>3. Sets' = Sets
  <2> HIDE DEF new
  <2> QED
    BY <1>2, RefreshKeepsSets
<1>4. Speaking' = Speaking \ {b}
  <2>1. Speaking' = {x \in Boot : \E e \in Entity, c \in Capability :
                                    Speaks(x, FenceBoot(capabilities[e][c], b).evidence)}
    BY <1>2 DEF Speaking, Speaks
  <2>2. ASSUME NEW e \in Entity, NEW c \in Capability, NEW x,
               Speaks(x, FenceBoot(capabilities[e][c], b).evidence)
        PROVE  x # b /\ Speaks(x, capabilities[e][c].evidence)
    BY <2>2, HeldSound, FenceBootSound DEF Speaks
  <2> QED
    BY <2>1, <2>2, FenceBootSpares, SpeakingIs
<1>5. \E kept \in SUBSET FencedBoots :
         FencedBoots \cap Speaking \subseteq kept /\ FencedBoots' = kept \cup {b}
  <2> DEFINE kept == FencedBoots' \ {b}
  <2>1. \A x : x \in FencedBoots' => x \in FencedBoots \/ x = b
    <3>1. \A x : Fenced(x)' => Fenced(x) \/ x = b
      BY <1>1, AddFenceEffect
    <3>2. \A x : x \in FencedBoots' <=> Fenced(x)'
      BY DEF FencedBoots, Fenced
    <3> QED
      BY <3>1, <3>2, FencedIs
  <2>2. \A x \in Speaking : OwnsCurrentEvidence(x)
    BY DEF Speaking, OwnsCurrentEvidence
  <2>3. FencedBoots \cap Speaking \subseteq kept
    BY <1>1, <2>2, AddFenceKeeps
  <2>4. FencedBoots' = kept \cup {b}
    BY <1>1, AddFenceKeeps
  <2> QED
    BY <2>1, <2>3, <2>4
<1>6. RegisteredBoots' \in {RegisteredBoots, RegisteredBoots \ {b}}
  <2>1. CASE UNCHANGED publishers
    BY <2>1 DEF RegisteredBoots, RegisteredKeys
  <2>2. ASSUME NEW k \in RegisteredKeys, k[2] = b,
               publishers' = [publishers EXCEPT ![k] = NoRegistration]
        PROVE  RegisteredBoots' \in {RegisteredBoots, RegisteredBoots \ {b}}
    <3>1. RegisteredKeys' = RegisteredKeys \ {k}
      BY <2>2, InvTypes DEF RegisteredKeys
    <3>2. RegisteredBoots' = {j[2] : j \in RegisteredKeys \ {k}}
      BY <3>1 DEF RegisteredBoots
    <3>3. CASE \E j \in RegisteredKeys \ {k} : j[2] = b
      BY <2>2, <3>2, <3>3 DEF RegisteredBoots
    <3>4. CASE ~\E j \in RegisteredKeys \ {k} : j[2] = b
      BY <2>2, <3>2, <3>4 DEF RegisteredBoots
    <3> QED
      BY <3>3, <3>4
  <2> QED
    BY <1>1, <2>1, <2>2 DEF DropOnePublisher
<1> QED
  BY <1>1, <1>3, <1>4, <1>5, <1>6
     DEF Speakers!Fence, RegisteredBoots, FencedBoots, Sets

LEMMA InvalidateSourceMaps ==
    ASSUME Inv, NEW s \in Source, InvalidateSource(s)
    PROVE  Speakers!Weaken
<1> DEFINE new == [e \in Entity |-> [c \in Capability |-> InvalidateFrom(capabilities[e][c], s)]]
           claimed == {e \in Known : \E c \in Capability : capabilities[e][c].exists}
<1>1. capabilities' = new /\ Refresh(claimed, new) /\ UNCHANGED <<epoch, publishers, fences>>
  BY DEF InvalidateSource, Resolve
<1>2. \A e \in Entity, c \in Capability : Weakens(capabilities[e][c].evidence, new[e][c].evidence)
  BY HeldSound, InvalidateSound
<1> HIDE DEF new, claimed
<1>3. Speaking' \subseteq Speaking
  BY <1>1, <1>2, SilencedSpeaking
<1>4. Sets' = Sets
  BY <1>1, RefreshKeepsSets
<1> QED
  BY <1>1, <1>3, <1>4 DEF Speakers!Weaken, RegisteredKeys, Sets

LEMMA InvalidateEntityMaps ==
    ASSUME Inv, NEW e \in Entity, InvalidateEntity(e)
    PROVE  Speakers!Weaken
<1> DEFINE entries == [c \in Capability |-> InvalidateAll(capabilities[e][c])]
<1>1. /\ capabilities' = [capabilities EXCEPT ![e] = entries]
      /\ entities' = [entities EXCEPT ![e] =
                         Refreshed([entities[e] EXCEPT !.invalidated = TRUE], entries)]
      /\ UNCHANGED <<epoch, publishers, fences>>
  BY DEF InvalidateEntity, Resolve
<1>2. \A c \in Capability : Weakens(capabilities[e][c].evidence, entries[c].evidence)
  BY HeldSound, InvalidateSound
<1> HIDE DEF entries
<1>3. \A d \in Entity, c \in Capability :
         Weakens(capabilities[d][c].evidence, capabilities'[d][c].evidence)
  <2>1. \A d \in Entity : capabilities'[d] = IF d = e THEN entries ELSE capabilities[d]
    BY <1>1, InvTypes
  <2> QED
    BY <1>2, <2>1 DEF Weakens
<1>4. Speaking' \subseteq Speaking
  BY <1>3, SilencedSpeaking
<1>5. \A d \in Entity : entities'[d].setGeneration = entities[d].setGeneration
  BY <1>1, InvTypes DEF Refreshed, EntityState
<1> QED
  BY <1>1, <1>4, <1>5 DEF Speakers!Weaken, RegisteredKeys

LEMMA ObserveMaps ==
    ASSUME Inv, NEW e \in Entity, NEW g \in EntityGenerations, ObserveEntityGeneration(e, g)
    PROVE  Speakers!Retire(e)
<1>1. /\ UNCHANGED <<epoch, publishers, fences>>
      /\ \/ entities' = [entities EXCEPT ![e] = NewEntity(g)] /\ UNCHANGED capabilities
         \/ /\ entities' = [entities EXCEPT ![e] = RetireGeneration(entities[e], g)]
            /\ capabilities' = [capabilities EXCEPT ![e] = NoCapabilities]
  BY DEF ObserveEntityGeneration
<1>2. \A d \in Entity : entities'[d].setGeneration = IF d = e THEN 0 ELSE entities[d].setGeneration
  <2>1. NewEntity(g).setGeneration = 0 /\ RetireGeneration(entities[e], g).setGeneration = 0
    BY DEF NewEntity, RetireGeneration
  <2> QED
    BY <1>1, <2>1, InvTypes
<1>3. Speaking' \subseteq Speaking
  <2>1. \A d \in Entity : capabilities'[d] = capabilities[d] \/ capabilities'[d] = NoCapabilities
    BY <1>1, InvTypes
  <2>2. \A c \in Capability : NoCapabilities[c].evidence = {}
    BY DEF NoCapabilities, NoEntry
  <2>3. \A d \in Entity, c \in Capability :
           Weakens(capabilities[d][c].evidence, capabilities'[d][c].evidence)
    BY <2>1, <2>2 DEF Weakens
  <2> QED
    BY <2>3, SilencedSpeaking
<1> QED
  BY <1>1, <1>2, <1>3 DEF Speakers!Retire, RegisteredKeys

-----------------------------------------------------------------------------
(* Publish.                                                                *)

\* An admitted request, whatever it leaves of its entity.
LEMMA SettledMaps ==
    ASSUME Inv, NEW q \in Requests, Admitted(q), Located(q), NEW entity, NEW entries,
           entities' = [entities EXCEPT ![q.entity] = entity],
           capabilities' = [capabilities EXCEPT ![q.entity] = entries],
           entity.setGeneration \in {EntityAt(q).setGeneration, EntityAt(q).setGeneration + 1},
           AllQuiet(EntriesAt(q), entries, q.boot),
           UNCHANGED <<epoch, fences>>, RegisteredKeys' = RegisteredKeys
    PROVE  \E b \in Boot, e \in Entity : Speakers!Publish(b, e) \/ Speakers!Renew(b, e)
<1>1. q.entity \in Entity
  BY EntityAtAdvances
<1>2. q.boot \in RegisteredBoots \ FencedBoots /\ q.boot \in Boot
  <2>1. <<q.publisher, q.boot>> \in RegisteredKeys /\ ~Fenced(q.boot)
    BY DEF Admitted, Registered
  <2>2. q.boot \in RegisteredBoots
    BY <2>1 DEF RegisteredBoots
  <2> QED
    BY <2>1, <2>2, FencedIs, BootsAreBoots
<1>3. RegisteredBoots' = RegisteredBoots /\ FencedBoots' = FencedBoots
  BY DEF RegisteredBoots, FencedBoots
<1>4. Speaking' \in SUBSET (Speaking \cup {q.boot})
  <2>1. ASSUME NEW e \in Entity, NEW c \in Capability, NEW b \in Boot, b # q.boot,
               Speaks(b, capabilities'[e][c].evidence)
        PROVE  Speaks(b, capabilities[e][c].evidence)
    <3>1. capabilities'[e] = IF e = q.entity THEN entries ELSE capabilities[e]
      BY InvTypes
    <3>2. CASE e = q.entity
      <4>1. Speaks(b, EntriesAt(q)[c].evidence)
        BY <2>1, <3>1, <3>2 DEF AllQuiet, Quiet
      <4>2. NoCapabilities[c].evidence = {}
        BY DEF NoCapabilities, NoEntry
      <4>3. EntriesAt(q) = NoCapabilities \/ EntriesAt(q) = capabilities[e]
        BY <3>2 DEF EntriesAt
      <4> QED
        BY <4>1, <4>2, <4>3 DEF Speaks
    <3>3. CASE e # q.entity
      BY <2>1, <3>1, <3>3
    <3> QED
      BY <3>2, <3>3
  <2>2. Speaking' = {b \in Boot : \E e \in Entity, c \in Capability :
                                    Speaks(b, capabilities'[e][c].evidence)}
    BY DEF Speaking, Speaks
  <2> QED
    BY <2>1, <2>2, SpeakingIs
<1>5. \A e \in Entity : entities'[e] = IF e = q.entity THEN entity ELSE entities[e]
  BY InvTypes
<1>6. CASE entities[q.entity].known /\ ~Newer(q)
  <2>1. EntityAt(q) = entities[q.entity] /\ entities[q.entity].setGeneration \in Nat
    BY <1>1, <1>6, InvTypes DEF EntityAt
  <2>2. PICK n \in {0, 1} : entity.setGeneration = entities[q.entity].setGeneration + n
    BY <2>1
  <2>3. Sets' = [Sets EXCEPT ![q.entity] = @ + n]
    BY <1>1, <1>5, <2>2 DEF Sets
  <2>4. Speakers!Publish(q.boot, q.entity)
    BY <1>2, <1>3, <1>4, <2>3 DEF Speakers!Publish, RegisteredBoots, FencedBoots, Sets
  <2> QED
    BY <1>1, <1>2, <2>4
<1>7. CASE ~(entities[q.entity].known /\ ~Newer(q))
  <2>1. EntityAt(q).setGeneration = 0
    BY <1>7 DEF EntityAt, NewEntity, RetireGeneration
  <2>2. PICK n \in {0, 1} : entity.setGeneration = n
    BY <2>1
  <2>3. Sets' = [Sets EXCEPT ![q.entity] = n]
    <3>1. \A e \in Entity : entities'[e].setGeneration =
                               IF e = q.entity THEN n ELSE entities[e].setGeneration
      BY <1>5, <2>2
    <3>2. Sets' = [e \in Entity |-> IF e = q.entity THEN n ELSE entities[e].setGeneration]
      BY <3>1 DEF Sets
    <3> QED
      BY <3>2 DEF Sets
  <2>4. Speakers!Renew(q.boot, q.entity)
    BY <1>2, <1>3, <1>4, <2>3 DEF Speakers!Renew, RegisteredBoots, FencedBoots, Sets
  <2> QED
    BY <1>1, <1>2, <2>4
<1> QED
  BY <1>6, <1>7

LEMMA ArriveMaps ==
    ASSUME Inv, NEW q \in Requests, Admitted(q), Located(q), Arrive(q)
    PROVE  \E b \in Boot, e \in Entity : Speakers!Publish(b, e) \/ Speakers!Renew(b, e)
<1>1. AllQuiet(EntriesAt(q), EntriesAt(q), q.boot)
  BY DEF AllQuiet, Quiet
<1>2. RegisteredKeys' = RegisteredKeys
  BY DEF Arrive, RegisteredKeys
<1> QED
  BY <1>1, <1>2, SettledMaps DEF Arrive

LEMMA StoppedMaps ==
    ASSUME Inv, NEW q \in Requests, PublishStopped(q)
    PROVE  \E b \in Boot, e \in Entity : Speakers!Publish(b, e) \/ Speakers!Renew(b, e)
<1> DEFINE stamp == StampOf(q)
           e0 == EntriesAt(q)
           e1 == ApplyLines(e0, stamp, q.before, Named(q.before))
           e2 == OthersSuperseded(q, e1)
           e3 == OwnSuperseded(q, e2)
           lines == LastLines(q)
           g == q.generation
           b0 == q.boot
<1>1. Admitted(q) /\ Located(q)
  BY DEF PublishStopped, Applicable
<1>2. /\ EntriesOK(e0, g) /\ StampOK(stamp, g) /\ q.before \in Edits /\ lines \in Edits
  BY <1>1, ArrivalOK, AdmittedOK
<1>3. stamp.boot = b0
  BY DEF StampOf
<1>4. Named(q.before) \subseteq Capability /\ Named(lines) \subseteq Capability
  BY DEF Named
<1>5. /\ entities' = [entities EXCEPT ![q.entity] = EntityAt(q)]
      /\ UNCHANGED <<epoch, fences>> /\ RegisteredKeys' = RegisteredKeys
  BY DEF PublishStopped, RegisteredKeys
<1>6. SUFFICES \E x : /\ AllQuiet(e0, x, b0)
                      /\ capabilities' = [capabilities EXCEPT ![q.entity] = x]
  BY <1>1, <1>5, SettledMaps
<1>7. \/ \E done \in SUBSET Named(q.before) : \E c \in Named(q.before) :
             /\ Stops(e0, stamp, q.before, done, c)
             /\ capabilities' = [capabilities EXCEPT ![q.entity] =
                                    Stopped(e0, stamp, q.before, done, c)]
      \/ /\ LinesFit(e0, stamp, q.before, Named(q.before))
         /\ \E done \in SUBSET Named(lines) : \E c \in Named(lines) :
               /\ Stops(e3, stamp, lines, done, c)
               /\ capabilities' = [capabilities EXCEPT ![q.entity] =
                                      Stopped(e3, stamp, lines, done, c)]
  BY DEF PublishStopped, Settle
<1>8. CASE \E done \in SUBSET Named(q.before) : \E c \in Named(q.before) :
             /\ Stops(e0, stamp, q.before, done, c)
             /\ capabilities' = [capabilities EXCEPT ![q.entity] =
                                    Stopped(e0, stamp, q.before, done, c)]
  <2>1. PICK done \in SUBSET Named(q.before), c \in Named(q.before) :
             /\ Stops(e0, stamp, q.before, done, c)
             /\ capabilities' = [capabilities EXCEPT ![q.entity] =
                                    Stopped(e0, stamp, q.before, done, c)]
    BY <1>8
  <2> HIDE DEF e0, stamp, g, b0
  <2>2. AllQuiet(e0, Stopped(e0, stamp, q.before, done, c), b0)
    BY <1>2, <1>3, <1>4, <2>1, StoppedQuiet
  <2> QED
    BY <2>1, <2>2
<1>9. CASE /\ LinesFit(e0, stamp, q.before, Named(q.before))
           /\ \E done \in SUBSET Named(lines) : \E c \in Named(lines) :
                 /\ Stops(e3, stamp, lines, done, c)
                 /\ capabilities' = [capabilities EXCEPT ![q.entity] =
                                        Stopped(e3, stamp, lines, done, c)]
  <2>1. EntriesOK(e1, g) /\ EntriesOK(e2, g) /\ EntriesOK(e3, g)
    BY <1>1, <1>9, StagesOK
  <2>2. PICK done \in SUBSET Named(lines), c \in Named(lines) :
                 /\ Stops(e3, stamp, lines, done, c)
                 /\ capabilities' = [capabilities EXCEPT ![q.entity] =
                                        Stopped(e3, stamp, lines, done, c)]
    BY <1>9
  <2> HIDE DEF e0, stamp, g, b0
  <2>3. AllQuiet(e0, e1, b0)
    BY <1>2, <1>3, <1>9, ApplyLinesQuiet
  <2> HIDE DEF e1
  <2>4. AllQuiet(e1, e2, b0)
    BY <2>1, SupersedeStagesQuiet
  <2> HIDE DEF e2
  <2>5. AllQuiet(e2, e3, b0)
    BY <2>1, SupersedeStagesQuiet
  <2> HIDE DEF e3, lines
  <2>6. AllQuiet(e3, Stopped(e3, stamp, lines, done, c), b0)
    BY <1>2, <1>3, <1>4, <2>1, <2>2, StoppedQuiet
  <2>7. AllQuiet(e0, Stopped(e3, stamp, lines, done, c), b0)
    BY <2>3, <2>4, <2>5, <2>6, QuietTransitive
  <2> QED
    BY <2>2, <2>7
<1> QED
  BY <1>7, <1>8, <1>9

\* Remembering a request registers nobody and drops nobody.
LEMMA RememberKeeps ==
    ASSUME Inv, NEW q \in Requests, Admitted(q), RegisterReplay(q)
    PROVE  RegisteredKeys' = RegisteredKeys
<1> DEFINE k == <<q.publisher, q.boot>>
<1>1. k \in RegisteredKeys
  BY DEF Admitted, Registered
<1>2. \A j \in PublisherKey \ {k} : publishers'[j] = publishers[j]
  BY InvTypes DEF RegisterReplay
<1>3. RegisteredKeys \subseteq RegisteredKeys'
  BY RegisterReplayType
<1> HIDE DEF k
<1> QED
  BY <1>1, <1>2, <1>3 DEF RegisteredKeys

LEMMA CommittedMaps ==
    ASSUME Inv, NEW q \in Requests, PublishCommitted(q)
    PROVE  \E b \in Boot, e \in Entity : Speakers!Publish(b, e) \/ Speakers!Renew(b, e)
<1> DEFINE stamp == StampOf(q)
           e0 == EntriesAt(q)
           e1 == ApplyLines(e0, stamp, q.before, Named(q.before))
           e2 == OthersSuperseded(q, e1)
           e3 == OwnSuperseded(q, e2)
           lines == LastLines(q)
           e4 == ApplyLines(e3, stamp, lines, Named(lines))
           changed == ~EntityAt(q).materialised \/ EntityAt(q).set # Materialize(e4)
           entity == CommittedEntity(q, EntityAt(q), e4, changed)
           g == q.generation
           b0 == q.boot
<1>1. /\ Admitted(q) /\ Located(q)
      /\ LinesFit(e0, stamp, q.before, Named(q.before))
      /\ LinesFit(e3, stamp, lines, Named(lines))
      /\ capabilities' = [capabilities EXCEPT ![q.entity] = e4]
      /\ entities' = [entities EXCEPT ![q.entity] = entity]
      /\ UNCHANGED <<epoch, fences>> /\ RegisterReplay(q)
  BY DEF PublishCommitted, Applicable, Settle
<1>2. /\ EntriesOK(e0, g) /\ StampOK(stamp, g) /\ q.before \in Edits /\ lines \in Edits
      /\ EntityAt(q) \in EntityState
  BY <1>1, ArrivalOK, AdmittedOK
<1>3. stamp.boot = b0
  BY DEF StampOf
<1>4. EntriesOK(e1, g) /\ EntriesOK(e2, g) /\ EntriesOK(e3, g)
  BY <1>1, StagesOK
<1>5. AllQuiet(e0, e4, b0)
  <2> HIDE DEF e0, stamp, g, b0
  <2>1. AllQuiet(e0, e1, b0)
    BY <1>1, <1>2, <1>3, ApplyLinesQuiet
  <2> HIDE DEF e1
  <2>2. AllQuiet(e1, e2, b0)
    BY <1>4, SupersedeStagesQuiet
  <2> HIDE DEF e2
  <2>3. AllQuiet(e2, e3, b0)
    BY <1>4, SupersedeStagesQuiet
  <2> HIDE DEF e3, lines
  <2>4. AllQuiet(e3, e4, b0)
    BY <1>1, <1>2, <1>3, <1>4, ApplyLinesQuiet
  <2> QED
    BY <2>1, <2>2, <2>3, <2>4, QuietTransitive
<1> HIDE DEF e4, changed
<1>6. entity.setGeneration \in {EntityAt(q).setGeneration, EntityAt(q).setGeneration + 1}
  BY <1>2 DEF CommittedEntity, EntityState
<1> HIDE DEF entity
<1>7. RegisteredKeys' = RegisteredKeys
  BY <1>1, RememberKeeps
<1> QED
  BY <1>1, <1>5, <1>6, <1>7, SettledMaps

-----------------------------------------------------------------------------
(* The refinement.                                                         *)

LEMMA StepMaps ==
    ASSUME Inv, [NextInMemory]_vars PROVE [Speakers!Next]_(Speakers!vars)
<1>1. CASE UNCHANGED vars \/ \E s \in Grants : DeclareAuthority(s)
  <2>1. UNCHANGED <<epoch, publishers, fences, entities, capabilities>>
    BY <1>1 DEF vars, DeclareAuthority
  <2> QED
    BY <2>1 DEF Speakers!vars, RegisteredKeys, Speaking
<1>2. CASE \E w \in Workers : RegisterPublisher(w.publisher, w.scope, w.boot)
  BY <1>2, RegisterMaps DEF Speakers!Next
<1>3. CASE \E w \in Workers : RetirePublisher(w.publisher, w.boot)
  BY <1>3, RetireMaps
<1>4. CASE AdvanceCoordinatorEpoch
  BY <1>4, AdvanceMaps DEF Speakers!Next
<1>5. CASE \E b \in Boot : FenceWorkerBoot(b)
  BY <1>5, FenceMaps DEF Speakers!Next
<1>6. CASE \E e \in Entity, g \in EntityGenerations : ObserveEntityGeneration(e, g)
  BY <1>6, ObserveMaps DEF Speakers!Next
<1>7. CASE \E e \in Entity : InvalidateEntity(e)
  BY <1>7, InvalidateEntityMaps DEF Speakers!Next
<1>8. CASE \E s \in Source : InvalidateSource(s)
  BY <1>8, InvalidateSourceMaps DEF Speakers!Next
<1>9. ASSUME NEW q \in Requests, Publish(q) PROVE [Speakers!Next]_(Speakers!vars)
  <2>1. CASE PublishRefused(q)
    BY <2>1 DEF PublishRefused, Speakers!vars, RegisteredKeys, Speaking
  <2>2. CASE PublishReplayed(q) \/ PublishHalted(q)
    BY <2>2, ArriveMaps DEF PublishReplayed, PublishHalted, Speakers!Next
  <2>3. CASE PublishStopped(q)
    BY <2>3, StoppedMaps DEF Speakers!Next
  <2>4. CASE PublishCommitted(q)
    BY <2>4, CommittedMaps DEF Speakers!Next
  <2> QED
    BY <1>9, <2>1, <2>2, <2>3, <2>4 DEF Publish
<1> QED
  BY <1>1, <1>2, <1>3, <1>4, <1>5, <1>6, <1>7, <1>8, <1>9 DEF NextInMemory

LEMMA InitMaps ==
    ASSUME Init PROVE Speakers!Init
<1>1. epoch = 1 /\ RegisteredBoots = {} /\ FencedBoots = {}
  BY DEF Init, RegisteredBoots, RegisteredKeys, FencedBoots
<1>2. Speaking = {}
  <2>1. \A e \in Entity, c \in Capability : capabilities[e][c].evidence = {}
    BY DEF Init, NoCapabilities, NoEntry
  <2> QED
    BY <2>1 DEF Speaking
<1>3. Sets \in [Entity -> {0}]
  <2>1. \A e \in Entity : entities[e].setGeneration = 0
    BY DEF Init, NoEntity, NewEntity
  <2> QED
    BY <2>1 DEF Sets
<1> QED
  BY <1>1, <1>2, <1>3 DEF Speakers!Init, RegisteredBoots, FencedBoots, Sets

\* For any number of boots, entities, publishers and requests, and whatever
\* limits they meet: a boot gains a voice only by a publication while it is
\* registered and not fenced, loses it with its fence or its epoch, and set
\* generations move one at a time or restart.
THEOREM RegistryImplementsAuthority == SpecInMemory => ImplementsAuthority
<1>1. Init => Speakers!Init
  BY InitMaps
<1>2. Inv /\ [NextInMemory]_vars => [Speakers!Next]_(Speakers!vars)
  BY StepMaps
<1> QED
  BY <1>1, <1>2, InvarianceInMemory, PTL DEF SpecInMemory, ImplementsAuthority, Speakers!Spec
=============================================================================
