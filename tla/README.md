# Verification of the Fabric Capability Registry

The registry is the coordinator's record of which capabilities every fabric
entity has. Workers publish claims about entities, the registry keeps the claims
as evidence, resolves the evidence of each capability to one answer, and serves
the answers to schedulers. It decides who may speak (authority scopes, publisher
registrations, worker-boot fences, the coordinator epoch), when evidence stops
speaking, and what survives a restart.

This directory holds a TLA+ model of it, the TLC runs that check small instances,
and TLAPS proofs for every size. `PROJECT.json` maps definitions to source lines
and lists runs, mutants, findings, hazards and theorems.

## 1. Inventory

| Component | State it keeps | Operations | Hard behaviour | What makes it correct |
|---|---|---|---|---|
| Evidence resolution (`registry.cpp`, `Impl::ResolveCapability` and the functions that change an entry) | per capability: evidence vector, capability generation, cached answer | resolve, supersede, withdraw, mark non-current, trim, apply a claim | limits met half way, evidence numbers after a trim | the cached answer is the one the evidence gives; one live record per identity; bounded |
| Capability registry (`registry.cpp`, `registry.hpp`) | epoch, registry generation, grants, publishers with replay caches, fences, entities, immutable sets, reverse and revalidation indexes, journal | `DeclareAuthority`, `RegisterPublisher`, `RetirePublisher`, `AdvanceCoordinatorEpoch`, `FenceWorkerBoot`, `ObserveEntityGeneration`, `InvalidateEntity`, `InvalidateSource`, `Publish`, `PublishBatch` | calls of many workers in any order; late, repeated and outdated requests; eleven ordered steps of `Publish`, several of which change state before a later one rejects | currency within authority, no mixing of entity generations, caches and indexes in step, generations monotone, retries applied once |
| Persistence payload (`Save`, `Load`) | the stored payload | capture, restore | a restart at any moment; currency decided again | a restored registry satisfies what a running one does |
| Store file (`persistence.cpp`) | the file and one temporary file | write, flush, rename, check, read | crash between steps, two saves at once | the file is always one complete payload, and never goes back to an older one |
| Coordinator (`distributed.cpp`) | connections, per-connection identity and request cache, boot to scope table | accept, handshake, register, publish, fence, status, disconnect, stop | one thread per connection; acknowledgement against save; disconnect against a pending request | an acknowledged commit survives a crash; a lost connection fences its boot |
| Publisher client (`distributed.cpp`) | socket, epoch, generation cache | connect, register, publish, refresh, close | lost acknowledgements, stale cached generation | a retry with the same attempt is applied once |
| Queries and snapshots (`query.cpp`, `registry.cpp`) | none of their own; shared lock | `Query`, `QueryEntity`, `Snapshot`, `CheckSnapshot`, `DiffSnapshots`, `Explain...` | two lock sections in one call; a shared lock taken twice | one call answers from one state |
| Journal | bounded journal, attempt index | `RecordJournal`, explain | eviction, repeated publication identifiers | what is explained is what happened |
| Requirement evaluation (`requirement.cpp`) | none | evaluate a tree of conditions | one lock section per node | agrees with three-valued logic |
| Wire protocol (`wire.cpp`) | none | encode and decode each message and the frame around it | fields taken in one order by two functions; damaged frames | what is sent arrives as it was, or is refused |
| Values and encoding (`value.cpp`, `encoding.cpp`) | none | construct, compare, encode, decode | canonical form, equality against encoding, bounds that differ between constructor and decoder | equal values are encoded alike; what is accepted can be read back |
| Schema (`schema.cpp`) | the descriptor table | validate a descriptor, a value against it | bounds per kind | only what can be stored is accepted |
| Identifiers, digests, discovery, synthetic backend, tools | none, or constant tables | | | |

The components meet in the registry. A client's request passes the wire protocol
to a coordinator thread, which stamps the epoch, calls `Publish`, saves and
acknowledges. Fences come from disconnects, from other workers of the scope and
from restarts. Readers share the registry's reader-writer lock with all of them.
Every call of the registry that changes state holds that lock exclusively from
beginning to end, so the interleavings that matter to the registry are those of
whole calls.

## 2. Plan

1. **`Evidence`, `Registry`** (done): the core, its runs and its theorems.
2. **`AtomicStore`, `StoreFile`** (done): the store a caller of `Save` sees, and the
   file operations that make it.
3. **`Authority`** (done): the abstract registry, which `Registry` implements.
4. **`Coordinator`** (done): coordinator and publisher client, composed with `Authority`
   and `AtomicStore`.
5. **`Readers`**, **`Requirement`** (done): calls of several lock sections beside the
   registry, and requirement evaluation.
6. **`Encoding`, `Values`, `Schema`, `Wire`, `StorePayload`, `Algorithms`** (done): the
   pure parts, on all short inputs.
7. **`StoreFileProofs`** (done): `StoreFile` implements `AtomicStore`, proved.
8. **`GenerationProofs`, `AuthorityProofs`** (done): the action properties of the
   registry, the uniqueness of its records, and that `Registry` implements `Authority`,
   proved.
9. **`CoordinatorProofs`** (done): the safety properties of `Coordinator`, proved.
10. **`AnswerProofs`** (done): what queries and readers are answered, proved of
    `Registry` and `Readers`.
11. **`ValueProofs`, `AlgorithmProofs`** (done): what the pure parts compute, proved for
    all inputs.

## 3. The modules

**`Evidence`** is the algebra of one capability entry (`CapabilityEntry`): pure
operators, no state. The evidence vector is a set of records; a record's `order`
stands for its place in the vector, which only the trim reads. `ResolveCapability`
is the resolution rule: of the live records only the strongest provenance class
speaks, of those only the current ones, and if they disagree the answer is
CONFLICTED. `SupersedeIdentity`, `SupersedeOtherIdentities`,
`WithdrawIdentityClaim` and the four uses of `MarkNonCurrent`
(`ExpireProcessBound`, `FenceBoot`, `InvalidateAll`, `InvalidateFrom`) change the
currentness of records. `ApplyClaim` makes room, adds the record and resolves;
`ApplyClaimAtLimit` is its early return. `StoredEntry` and `LoadedEntry` are what
`Save` keeps and `Load` rebuilds. `EntityGenerationSuperseded`, the fifth
currentness, is left out: the retirement that sets it also clears the entries.

**`Registry`** has one variable per member of `Impl` and one action per public
call that changes state. Calls that fail without changing anything are not steps,
except `Publish`, whose refusals leave the state as it is. `Publish` follows the numbered
steps of the code and has five outcomes:

| Outcome | Steps of the code | What it leaves behind |
|---|---|---|
| `PublishRefused` | 1 to 5, and a superseded entity generation | nothing |
| `PublishReplayed` | 7, exact replay of the latest attempt | what step 6 did |
| `PublishHalted` | 7 to 9 reject | what step 6 did: a new entity, or a retired generation |
| `PublishStopped` | 10, a claim meets a limit | step 6 and the claims applied so far |
| `PublishCommitted` | 10 to 12 | everything |

A request carries its lines as a function from capabilities, with the operation
`"None"` where it says nothing. The code rejects a snapshot that names a
capability twice; an incremental request may name one again, and the model follows
it through two stages, the edits before the first `SupersedeSourceEvidence` and
those after it. Lines of one stage touch different capabilities, so their order
matters only when one of them stops the request; `PublishStopped` allows every set
of lines to have come first. Of the data the model keeps what decides something:
provenance by rank, durability, state, value, generations. `RequestContentDigest`
is the tuple of the fields it digests, so two requests have equal digests exactly
when those fields agree.

Not in `Registry`: the journal and explanations; the namespace, publisher and
source indexes of evidence; `touched_at`; and `PublishBatch`, which calls
`Publish` in a loop and releases the lock in between, so that its behaviours are
behaviours of the model already.

**`Authority`** says who may speak without evidence, answers or requests: boots
register, publish while registered and unfenced, and fall silent by a fence or an
epoch. `Speakers` in `Registry` is the refinement mapping: a boot speaks while
process-bound evidence of it is current.

**`AtomicStore`** is the store as its callers see it: one payload that each save
replaces at one instant or not at all. **`StoreFile`** is `WriteFileAtomic` and
`ReadFileBounded` call by call, over inodes whose contents and whose directory entry
have a durable copy of their own. A file holds two halves of a payload, so that a
write can stop half way; `Decode` accepts a file only if both halves are of one
payload, which is what the digest in the header achieves. `Crash` ends the process
between any two steps, `PowerLoss` also loses any part of what was not flushed, and
a reader in another process (`fcrctl`) holds an old inode open across a rename.

**`Coordinator`** has the accept thread, one thread per connection, `Start`, `Stop` with
`JoinThreads`, and the client library. A thread's actions are the lock sections and the
socket calls of `ServeConnection`, so that another thread may run between the
registration and its answer, between a commit, its save and its acknowledgement, and
between the loss of a connection and the fence that follows. The registry is `Authority`
and the store is `AtomicStore`: the actions below are theirs, restricted to what the
handler asks of them (its publications silence nobody, its fences are not forgotten).
`told` records the commits a client may have learned of. One entity and one scope;
request ids are left out, since the client never repeats one. A client that dies leaves
its last request on the socket; a coordinator that dies leaves its last answer. A
connection that the coordinator dropped keeps the client's end, with what was sent on
it, until the client leaves it (`Dropped`). `Snapshot` of the connections and the
closing of their sockets is one step.

**`Requirement`** is the validation and the three-valued evaluation of a tree, which
reads one answer per leaf. A tree is the sequence of its nodes in the order
`ValidateNode` visits them, each with the depth it is called with. **`Readers`** extends
`Registry` with one reader: snapshots, `CheckSnapshot`, `DiffAgainstSnapshot`, the bound
`Query` with its two lock sections, the retired generations, and an evaluation that
takes one lock section per leaf while publications go on. It knows of a requirement only
which trees are valid, which leaves they read in which order, and what the outcome is
for given answers: the constants `Valid`, `LeavesRead` and `OutcomeOf`, so that what is
proved of `Readers` holds of any tree. **`MCReaders`** is its instance and takes the
three from `Requirement`.

**`Encoding`**, **`Values`**, **`Schema`**, **`Wire`**, **`StorePayload`** are operators
without state. A field of any width is one token, an integer; a text is the token of its
class (empty, with a control character, readable). So the model keeps the order, the
number, the type and the bounds of the fields, and leaves the bytes of each out. A
checksum is any that a change to one token changes. **`Algorithms`** calls each of them
once with an input, so that TLC evaluates the properties on all inputs that
**`MCAlgorithms`** lists. What the code does in a loop or by calling itself is a
recursive function, of the tokens left or of the nodes of a tree. An input is what its
caller can hold (`AlgorithmsAssumption`): any stream of tokens, but only values of the
types of the code, trees of nodes, messages a sender can make, payloads a registry can
save.

**`MCRegistry`** gives TLC the grants, workers and requests of the registry's runs.
**`RegistryProofs`**, **`GenerationProofs`**, **`AuthorityProofs`**, **`AnswerProofs`**,
**`StoreFileProofs`**, **`CoordinatorProofs`**, **`ValueProofs`** and
**`AlgorithmProofs`** hold the proofs.

## 4. The runs

Ten runs pass.

| Run | Instance | Question |
|---|---|---|
| `core` | two workers, an exclusive scope and a shared one that may make durable claims, one entity with two generations, two capabilities, two epochs, four kinds of request each with every stale or present generation, epoch and expected set generation | do interleaved publications, fences, invalidations, retirements and epoch advances keep currency and generations right, and who speaks as `Authority` says? |
| `retries` | one worker, one capability, a replay cache of one attempt; the same attempt with equal and with other content, a second attempt, two entity generations | is a retry ever applied twice, and does a replay ever change anything? |
| `restart` | two workers, one capability, durable and process-bound claims, `Save` and `Load` at any moment | does the restored registry satisfy what the running one does? |
| `limits` | every table of size one, two entities, two capabilities, requests that need two | what is left after a request that stops half way, and at a full table? |
| `store` | one thread that saves at a time, one reader, two inodes, the Windows branch with `durable_flush`, every call but the flush able to fail | is the file the atomic store? |
| `coordinator` | two workers that die, two connections, nothing persisted | does a boot ever speak that nobody will fence? |
| `lifecycle` | one worker with room for one connection, a coordinator that is stopped and started, saves that fail | does every call return? |
| `durable` | one worker with two lives, one connection at a time, saves that succeed, crashes at any step | does what was acknowledged survive, and do earlier workers stay out? |
| `readers` | one worker, three publications, withdrawals and invalidations through three entity generations, one reader | what can a reader rely on that takes several lock sections, or comes back later? |
| `algorithms` | every token sequence of up to five tokens over small alphabets for `Decode`, small sets of values, trees, messages, frames with one damaged or missing token, payloads | do encoder, decoder, constructor, schema, comparison and evaluation agree? |

`core` shows
`NoCurrencyBeyondAuthority` (process-bound evidence speaks only in its epoch, from an
unfenced boot and a publishing instance the coordinator still lists, however late its
request arrived),
`EvidenceOfThisGeneration`, `OneLiveRecordPerIdentity` (an identity never contradicts
itself),
`InvalidatedAnswersNothing`, `GenerationsMonotone`,
`AnswersChangeVisibly` (a reader can trust the registry generation to tell it that
its snapshot is old) and the refinement `ImplementsAuthority`. `retries` shows
`AppliedAtMostOnce`: the replay cache is
bounded and is emptied by a new registration, so it is the expected set generation
that makes a retry safe. `restart` asks the invariants again of what `Load` builds, with
`SetMirrorsEntries` (the two kinds of query agree) and `IndexComplete`; the
last conjunct of `NoCurrencyBeyondAuthority` is what a wrongly restored currency
breaks. `limits` shows `EvidenceBounded`, and, as long as no generation is retired,
`IndexExact`.

`store` shows `StoreComplete`, at every moment a loss of power may come, and
`ImplementsAtomicStore`. `coordinator` shows `SpeakersAreServed`, `ScopesAreServed`
(the table of boots does not grow for ever) and, by fairness,
`LostConnectionIsFenced`. `lifecycle` shows `CallsReturn` and `CacheNeverAhead`.
`durable` shows `AckedSurvives` and `EarlierWorkersLockedOut`. `readers` shows that a
snapshot called current hides at most that an entity is no longer invalidated, that a
bound query never answers from an older generation than it was asked for, that an
evaluation during which the registry generation stood still is of one instant, and
that what is retained of a retired generation is its last word. `algorithms` shows
what its eight properties say in `Algorithms`.

Two runs are expected to fail. Each states what a comment of the code or a test says, and
TLC shows a behaviour of the code that does not do it.

| Run | What TLC finds |
|---|---|
| `ack_lost` | two connections save at once; the older capture is written last and takes back a commit that was acknowledged |
| `edits_lost` | the decoder of a publication reads the capability of an edit twice, so that no incremental publication with edits survives the wire |

**Bounds.** `MaxRegistryGeneration` (4, in `restart` and `readers` 3),
`MaxCapabilityGeneration` (6) and `MaxEpoch` (2) cap counters of 64 bits; the code
fails the call when one is exhausted, which no deployment reaches. They are guards at
the start of a call, so a call is never cut short by them. Four counted calls are
enough for the longest
scenario asked about (publish, invalidate or fence, advance or retire, publish
again); two workers are enough for every pair of identities; two capabilities for a
request that stops between lines; two epochs and two entity generations for "old"
and "new"; three entity generations for a retired one that is itself evicted.
`Value` is empty: values take part only in the comparison of claims,
where states do the same work. `MaxLife`, `MaxSet`, `MaxEpoch` bound the lives of a
worker, the publications and the restarts in `Coordinator`; each interesting case
needs an earlier and a later one. `MaxVersion` of `StoreFile` bounds the
mutations: two payloads that can be mixed. The bounds of `Algorithms` are
the limits of `limits.hpp`, made small enough that each is met.

Deadlock is checked except where the system may stop: a coordinator that was stopped
or died and whose clients have no calls left, and `Algorithms`, whose calls return
once.

**Fairness.** `FairSpec` of `Coordinator`: a thread that can run runs (weak fairness
of `Serve`, `Count`, `Spawn`, `Write`, of what `Stop` does once it was called, and of
the client library while it is in a call), and `accept` takes every waiting connection
in the end (strong fairness of `Take`, since the acceptor is busy with others in
between). Calls, deaths, stops and crashes are never required. The registry promises
nothing by itself, so its specification has none.

**Split of the coordinator's faults.** Two workers with a stop have over three million
states, so `coordinator` has deaths and no stop, `lifecycle` one worker with a stop and
failing saves, `durable` crashes. `durable` has no stop because there the property
fails for the same reason as in `ack_lost`: a thread that is spawned while `Stop`
collects the others outlives the join, and its save may be overwritten by the older
capture `Stop` has taken.

**Mutants.** Every property of a passing run has a mutant, an operator beside the
one it replaces: a forgotten resolve, a durability test turned round, an
off-by-one in the evidence limit, a file closed without a flush, an acknowledgement
sent before its save, a set that is not sorted, and so on.

### Disagreements between the code and its comments

Met while modelling, beside the two runs above. The state machine contains these
behaviours; the properties are stated so that they hold with them.

| Where | What the code does | What is said |
|---|---|---|
| `registry.cpp:1406` | step 6 of `Publish` retires the current generation before steps 7 to 9 may reject the request | `registry.hpp:118`: "a rejection leaves the registry exactly as it was" |
| `registry.cpp:1517` | a request stopped by a limit is rejected and leaves the claims it had applied | `publication.hpp:48`: "a rejected publication leaves no partial capability set" |
| `registry.cpp:1126` | retiring a generation leaves the reverse and revalidation indexes as they are | `record.hpp:81`: "capability truth of a retired generation is never served as current" |
| `registry.cpp:1608` | an entity refreshed before its first publication may get a set numbered zero, which stands for "no set" | `publication.hpp:58` |
| `registry.cpp:1959` | durable evidence of a fenced boot stays current | `registry.hpp:89`: "Every evidence record owned by that boot becomes non-current" |
| `registry.cpp:1930` | a full fence table forgets a fence to admit another | README:74: "a fenced boot can never publish again" |
| `registry.cpp:1743` | a full fence table leaves registrations of the previous epoch unfenced | README:74 |
| `registry.cpp:3044` | a durable claim invalidated with its entity is current again after `Load` | `registry.hpp:106` |
| `query.hpp:206` | `CheckSnapshot` says "current" although a publication lifted an invalidation since | the snapshot differs from the present answers |
| `distributed.cpp:553` | a publication whose save failed is acknowledged like any other | `distributed.cpp:550` |
| `distributed.cpp:607` | a fence is acknowledged without a save | README:74 |
| `distributed.cpp:309` | a connection accepted while `Stop` collects the threads leaves one that is not joined | the comment there |
| `persistence.cpp:219` | with two threads that save, the failure of one removes the temporary file the other has written | `persistence.cpp:188` |
| `value.cpp:1128` | the constructor of an integer, and of a scalar in a tuple or a record, does not bound what `Decode` bounds, so an accepted claim can make a saved store unloadable | `limits.hpp:99` |
| `value.hpp:104` | versions `1` and `1.0` are equal and are encoded and digested apart | |
| `requirement.cpp:208` | `Not` over a condition that does not ask for proof turns "not known" into "satisfied" | |

## 5. The proofs

For every choice of the constants that satisfies `EvidenceAssumption` and
`RegistryAssumption` (sources and boots are ordered like numbers; grants, requests,
descriptors have their types; entity generations start at one; limits are natural
numbers and the replay cache and the evidence limit at least one),
`RegistryProofs` proves of `Spec`, with `Save` and `Load`:

| Theorem | Property |
|---|---|
| `TypeCorrect` | `TypeOK` |
| `AnswersCoherent` | `ResolutionCoherent` |
| `CurrencyWithinAuthority` | `NoCurrencyBeyondAuthority` |
| `RetiredLeavesNothing` | `EvidenceOfThisGeneration` |
| `IndexesMissNothing` | `IndexComplete` |
| `IdentitySpeaksOnce` (in `GenerationProofs`) | `OneLiveRecordPerIdentity` |
| `RecordsToldApart` (in `GenerationProofs`) | `EvidenceKeyUnique` |
| `EvidenceWithinBounds` (in `GenerationProofs`) | `EvidenceBounded` |

and of a registry that runs without a `Load` (`SpecInMemory`):

| Theorem | Property |
|---|---|
| `GenerationsNeverFall` (in `GenerationProofs`) | `GenerationsMonotone` |
| `RetriesAppliedOnce` (in `GenerationProofs`) | `AppliedAtMostOnce` |
| `ReplaysChangeNothing` (in `GenerationProofs`) | `ReplayIsInert` |
| `RegistryImplementsAuthority` (in `AuthorityProofs`) | `ImplementsAuthority` |

The inductive invariant is `Inv == TypeOK /\ HeldOK /\ IndexComplete /\ StoreOK`.
`HeldOK` says of every entry that it is *sound* (`SoundEntry`: its answer is the one
its evidence resolves to, its records are finite in number, carry evidence
generations no larger than the entry's own generation, and at most `MaxEvidence` of
them are live) and that its records belong to the present generation of the entity
and are current only while their publisher has authority (`WithinAuthority`). The
properties are its consequences; they
are not inductive one by one: the index follows from the answers, the answers from
the evidence and its bound, and the evidence after a restart from what was stored.
`StoreOK` says the same of the stored payload without answers and currency, which
`Load` decides again.

The first part of `RegistryProofs` shows once, for each operator of `Evidence`, that it
takes a sound entry to a sound entry. The one that is not obvious is
`ApplyClaimAtLimit`, which drops records without resolving: it is sound because at most
`MaxEvidence` records are live, so that after superseding the identity's own live record
there would be room; when the limit is met the identity had none, and nothing that
speaks was dropped (`AtLimitSound`). Another fact the argument needs is that marking
records weakens an entry (`Weakens`): an epoch advance or a fence adds no current
record, so the remaining ones are within the new authority. `RegistryProofs` has one
lemma per action and combines them.

The other modules on the registry rest on that invariant. `GenerationProofs` first adds
that the records of an entry are unique (`Unique`): an operation that only marks, drops
or loads maps records one to one and revives none (`Descends`), and the record that
`ApplyClaim` adds finds no other live one of its identity, and an evidence generation
above all it retains, superseded ones included. What is stored is live, so a restart
revives nothing. With that goes the order of the records (`Ordered`): `ApplyClaim` trims
before it adds, so the vector holds at most one record more than `MaxEvidence`, and the
place of the new record is free. It then shows that each operation advances the
generation of an entry or leaves the entry (`Grown`), and from that each step; that a
*spent* request (`Spent`) lags behind a generation, which only advances, so that step 6
or step 9 refuses it; and, with `ReplayOK` as a further invariant, that the replay cache
remembers only content whose entity generation the entity has reached, so that step 6
finds nothing to do for a replay. These three hold for every size of the replay cache,
and for every sequence of registrations, evictions and epochs. `AuthorityProofs` shows
that a stage of `Publish` lets no boot speak but the one the request is stamped with
(`Quiet`), and maps each call: `Publish` to `Publish` or `Renew`, by whether step 6
found a new generation; a fence to `Fence`, which forgets no fence of a boot that still
speaks (`AddFenceKeeps`).

`AnswerProofs` proves what queries and readers are told, for every size of the limits and
every set of requests, scopes and requirements:

| Theorem | Property | Of | Assumed |
|---|---|---|---|
| `SetsMirrorEntries` | `SetMirrorsEntries` | `Spec` | `NoneStopped` |
| `AnswersNeverChangeUnseen` | `AnswersChangeVisibly` | `SpecInMemory` | `NoneStopped` |
| `InvalidatedStaysSilent` | `InvalidatedAnswersNothing` | `SpecInMemory` | `NoneStopped` |
| `IndexesInventNothing` | `IndexExact` | `Spec` | `NoneRetired` |
| `NeverStoppedWithinLimits` | `NoneStopped` follows | `Spec` | `AmpleLimits` |
| `BoundAnswersNotOlder` | `BoundAnswerIsNotOlder` | `ReaderSpec` | |
| `SnapshotsHideOnlyRevival` | `CurrentSnapshotHidesOnlyRevival` | `ReaderSpec` | |
| `QuietEvaluationsAtomic` | `QuietEvaluationIsAtomic` | `ReaderSpec` | `NoneStopped` |
| `RetiredKeepLastWord` | `RetiredHasTheLastWord` | `ReaderSpec` | |

`NoneStopped` says that no publication meets a limit at step 10 and `NoneRetired` that
no known entity moves to another generation. Neither is a matter of proof technique: a
publication that stops leaves the entries it has changed behind a set, a registry
generation and an `invalidated` that it has not, and `RetireGeneration` drops entries
whose index entries stay. Without the hypotheses the properties are false, which is why
the runs that check them have limits that are not met, or one entity generation. What
`NoneStopped` asks is what room is for: by `NeverStoppedWithinLimits` it holds of every
execution of a registry whose limits admit every capability, and in each capability
every publishing identity, restarts and retirements included. The argument is that of
`OneLiveRecordPerIdentity`, since one live record per identity leaves room for one more
identity.

The proofs rest on one lemma about the steps: a call leaves an entity as it is, begins a
generation of it, weakens it, or publishes it (`Told`), with what each says of the set, of
`invalidated` and of the registry generation. The mirror of set and entries is then
inductive, and a publication that does not advance the registry generation found its
answers in the set already. `InvalidatedSilent` strengthens the property on invalidation:
nothing of an invalidated entity is current.

Of the reader, `SnapshotOK` is the invariant for snapshots: while the registry
generation is the one of the snapshot, no entity has been invalidated and none has been
given its first set. That needs no hypothesis: a publication stopped half way changes
answers but no set, and sets are what a snapshot compares. An evaluation reads entries,
so there the hypothesis is needed; `EvaluationOK` says that what was read is what would
be read now, while the registry generation stays. `LastWords` is the invariant on
retired generations: an entity is left in its generation or begins one (`Moves`), its
history is sorted and of generations it has left (`Recorded`), and what a snapshot took
of an entity is not ahead of the present set generation or of the summary that took its
place (`Retained`).

`StoreFileProofs` proves of the store file, for any number of readers, inodes and
payloads, either platform, and every choice of the calls that may fail:

| Theorem | Property | Assumed |
|---|---|---|
| `StoreTypeCorrect` | `TypeOK` | `OneSaver`, `Flushed` |
| `StoreAlwaysComplete` | `StoreComplete` | `OneSaver`, `Flushed` |
| `StoreIsAtomic` | `ImplementsAtomicStore` | `OneSaver`, `Flushed`, `NameStays` |

`OneSaver` says that one thread saves, which the coordinator does not ensure: with
two the properties fail (the disagreement at `persistence.cpp:219`). `Flushed` says
that `durable_flush` is set and that no flush fails, whose result the code ignores;
`NameStays` that the platform makes a replaced name durable (`MOVEFILE_WRITE_THROUGH`)
or power is not lost, since the POSIX branch does not flush the directory. The
inductive invariant says how far the one saver has come with the temporary file
(`SaverOK`), that a reader's file is whole and is not the temporary one (`ReaderOK`),
and that so is what either the name or its durable copy leads to (`NamesOK`). `Free`
carries the argument: an inode that a name, a reader or the durable name leads to is
not used again. The refinement maps `Replace` to `Commit`, the opening of a file to
`BeginRead`, both failures to `Crash`, and every other step of a call to its end or
to a stutter.

`CoordinatorProofs` proves of the coordinator and its clients, for any number of workers,
connections, lives, commits, stops, crashes and restarts:

| Theorem | Property | Assumed |
|---|---|---|
| `TypeCorrect` | `TypeOK`, with the bound of `connections_` | |
| `SpeakersServed` | `SpeakersAreServed` | |
| `ScopesServed` | `ScopesAreServed` | |
| `CacheBehind` | `CacheNeverAhead` | |
| `AcknowledgedIsDurable` | `AckedSurvives` | `OneAtATime` |
| `EarlierWorkersFenced` | `EarlierWorkersLockedOut` | `OneAtATime` |

The inductive invariant `Inv` ties the four together. `RecordOK` says when a connection
has an identity: from `Record`, and not before, until it is forgotten, and no thread that
carries one reads a second `Hello`; so a thread that leaves a connection knows the boot
it has to fence, and
`SpeakersAreServed` is preserved although registration, answer and record are three
steps. `Heard` says that an answer, made or on its way, is not ahead of the
set, and `ClientOK` that client and connection name each other until one closes; from both
follows that what the client caches is not ahead. `PhaseOK` says that a process starts
with no connections, so that `Load` may set the generation back without contradicting what
any open connection was told. `RegistryOK` keeps registered and fenced boots apart, in the
store and in every save under way too.

`OneAtATime` says that `max_connections` is one, no save fails and `Stop` is not called.
Each part is needed: without the first `ack_lost` shows the counterexample, a save that
failed is acknowledged all the same, and `Stop` writes its capture behind a thread it
does not join. Crashes and deaths may come at any step. `DurableInv` is the argument: at
most one save is under way (`OneSave`, from the bound on `connections_`), it is of this
process and no older than the store (`Newer`), a commit that is about to be acknowledged
is in the registry, in the capture and then in the store (`CommitsOK`), and whoever was
acknowledged is registered or fenced in the payload of his own epoch and fenced in those
of later ones (`Remembers`), which `AdvanceEpoch` and `Load` hand on.

`AlgorithmProofs` and `ValueProofs`, on which it rests, prove of the pure parts, for
inputs of every size that satisfy `AlgorithmsAssumption` and for all limits that satisfy
the assumptions of `Encoding`, `Values`, `Schema`, `Wire` and `StorePayload`:

| Theorem | Property |
|---|---|
| `DecodedReadsBack` | `DecodedRoundTrips` |
| `AcceptedReadsBack` | `AcceptedIsStorable` |
| `AgreementIsEncoding` | `SameClaimSameEncoding` |
| `BoundsAreRead` | `MembersWithinBounds` |
| `DecisionsStay` | `DecidedStaysDecided` |
| `MessagesAreDelivered` | `MessagesArrive` |
| `FramesAreWhole` | `FrameIsWholeOrRefused` |
| `SavedPayloadLoads` | `PayloadLoads` |

The inductive invariant, `Answered`, only ties what a call returned to its input; the
weight is in lemmas about the operators. Of values there are three, each over all
fifteen kinds. What a constructor made it makes again (`Stays`): sorting what is sorted
changes nothing, and a strict order leaves one arrangement. What was encoded is read
back, whatever follows it (`ReadsBack`), if the decoder's bounds hold. What `Decode`
returns satisfies them (`StorableReading`). So `DecodedReadsBack` follows from the third
and the second, and `AcceptedReadsBack` from the first two. For `AgreementIsEncoding`
that is not enough, since values the decoder would refuse are compared as well: a *wide*
reader without its bounds (`WideScalar` and the like), of the proof only, reads every
constructed value back, so that equal encodings are of equal values.

A message or record is read part by part: if each reader reads its own part, whatever
follows, then a reader of several reads their concatenation (`ReadsPart`), and the
records of a payload are read one after another up to the last (`Reached`). A received
frame is accepted exactly if it is whole (`IsWhole`), and a sequence with one damaged
token has another checksum (`ChecksumDetects`), which is what the model asks of a
checksum. An outcome is decided from the leaves to the root: a node that is decided has
children whose decided outcomes stay.

What the code does in a loop is a recursive function here, and the induction theorems of
the library take an operator as a parameter, so each induction is done by hand: a set of
numbers that has a member has a least one (`LeastNatural`), hence a set that contains
zero and the successor of each of its members has them all (`UpTo`). The same argument
shows that a recursive function satisfies its equation (`ReadAllSolved`,
`FlattenSolved`, `ChecksumSolved`, `OutcomesSolved`, `RecordsSolved`).

Proved, then, are the safety invariants and action properties of all passing runs, with
the hypotheses the tables name. Only model-checked are liveness (`LostConnectionIsFenced`,
`CallsReturn`), which rests on fairness and `ENABLED` and is beyond the proof system, and
the two counterexamples of the runs that are expected to fail.

## 6. Not modelled

- The publication journal and the explanations: nothing but explanations reads the
  journal. Its two indexes are evicted separately (`registry.cpp:566`), and
  `ExplainReplay` takes the shared lock twice (`registry.cpp:2699`), which blocks if the
  platform's lock lets a waiting writer go first.
- The namespace, publisher and source indexes of evidence, `touched_at`, and
  `PublishBatch`, which calls `Publish` in a loop.
- The spelling of texts: parsing and rendering of values and identifiers, names of
  units and protocols, explanations. Digests are taken as injective, except in
  the frame.
- The table of canonical descriptors and the registration of vendor descriptors;
  `Registry` takes descriptors as a constant.
- Direct calls of `Persist`, sizes of messages (a result beyond the bound of a frame
  cannot be sent after its commit), and failures of the socket library other than
  the end of a connection.
- Host discovery and the synthetic backend (they build requests, and `Registry` takes
  any), the command-line tools.
- Overflow of 64-bit generations, which is not reached.
