----------------------------- MODULE MCRegistry -----------------------------
(* Small instances of Registry for TLC. *)
EXTENDS Registry, TLC

NoEdit == [op |-> "None", state |-> "Unknown", value |-> NoValue, rank |-> 6,
           durable |-> FALSE, sourceRank |-> 6]

NoEdits == [c \in Capability |-> NoEdit]

\* A request with one line, and with two.
One(c, line) == [NoEdits EXCEPT ![c] = line]

Line(op, state, rank, durable) ==
    [op |-> op, state |-> state, value |-> NoValue, rank |-> rank,
     durable |-> durable, sourceRank |-> 0]

Upsert(state, rank, durable) == Line("UpsertClaim", state, rank, durable)

MCDescriptor == [c \in Capability |->
    [namespace |-> "ns", boolean |-> TRUE, absenceIsNegative |-> TRUE, values |-> {}]]

MCEntityKind == [e \in Entity |-> "gpu"]

\* Worker 1 holds the exclusive scope, worker 2 an administrative one.
ExclusiveGrant ==
    [scope |-> "s1", kinds |-> {"gpu"}, namespaces |-> {"ns"}, modes |-> Mode,
     exclusive |-> TRUE, durable |-> FALSE, strongest |-> 0, allowed |-> {}, maxClaims |-> 2]

SharedGrant ==
    [scope |-> "s2", kinds |-> {"gpu"}, namespaces |-> {"ns"}, modes |-> Mode,
     exclusive |-> FALSE, durable |-> TRUE, strongest |-> 0, allowed |-> {"p2"}, maxClaims |-> 1]

MCGrants == {ExclusiveGrant, SharedGrant}

MCWorkers == {[publisher |-> "p1", scope |-> "s1", boot |-> 1],
              [publisher |-> "p2", scope |-> "s2", boot |-> 2]}

Template(worker, attempt, mode, before, supersede, edits) ==
    [attempt |-> attempt, entity |-> "e1", generation |-> 1, expected |-> 0, epoch |-> 1,
     mode |-> mode, fullEnumeration |-> TRUE,
     publisher |-> worker.publisher, boot |-> worker.boot, scope |-> worker.scope,
     source |-> worker.boot, sourceGeneration |-> 1,
     before |-> before, supersede |-> supersede, edits |-> edits, front |-> "c1"]

Worker1 == [publisher |-> "p1", scope |-> "s1", boot |-> 1]
Worker2 == [publisher |-> "p2", scope |-> "s2", boot |-> 2]

\* The templates at every combination of the values a retry may carry.
Vary(T, generations, epochs, expected) ==
    {[t EXCEPT !.generation = g, !.epoch = n, !.expected = x] :
        t \in T, g \in generations, n \in epochs, x \in expected}

CoreTemplates ==
    {Template(Worker1, "a1", "FullSnapshot", NoEdits, {}, One("c1", Upsert("Supported", 0, FALSE))),
     Template(Worker2, "a2", "PartialObservation", NoEdits, {}, One("c1", Upsert("Unsupported", 0, FALSE))),
     Template(Worker2, "a3", "PartialObservation", NoEdits, {}, One("c1", Upsert("Supported", 2, TRUE))),
     Template(Worker1, "a4", "Incremental", One("c1", Upsert("Supported", 1, FALSE)), {"c2"},
              [NoEdits EXCEPT !["c1"] = Line("WithdrawClaim", "Unknown", 0, FALSE),
                                !["c2"] = Line("MarkUnknown", "Supported", 0, FALSE)])}

CoreRequests == Vary(CoreTemplates, {1, 2}, {1, 2}, 0..2)

\* One worker that retries: the same attempt with the same and with other
\* content, and a second attempt that supersedes the first.
OneGrant == {ExclusiveGrant}

OneWorker == {Worker1}

RetryTemplates ==
    {Template(Worker1, "a1", "PartialObservation", NoEdits, {}, One("c1", Upsert("Supported", 0, FALSE))),
     Template(Worker1, "a1", "PartialObservation", NoEdits, {}, One("c1", Upsert("Unsupported", 0, FALSE))),
     Template(Worker1, "a2", "Incremental", NoEdits, {}, One("c1", Line("WithdrawClaim", "Unknown", 0, FALSE)))}

RetryRequests == Vary(RetryTemplates, {1, 2}, {1, 2}, 0..2)

\* Durable and process-bound claims around a restart.
RestartTemplates ==
    {Template(Worker1, "a1", "FullSnapshot", NoEdits, {}, One("c1", Upsert("Supported", 0, FALSE))),
     Template(Worker2, "a2", "PartialObservation", NoEdits, {}, One("c1", Upsert("Supported", 2, TRUE))),
     Template(Worker2, "a3", "Incremental", NoEdits, {}, One("c1", Line("WithdrawClaim", "Unknown", 0, FALSE)))}

RestartRequests == Vary(RestartTemplates, {1}, {1, 2}, 0..2)

\* Requests that meet the limits: two capabilities where one fits, a second
\* identity where one record fits, an entity too many.
LimitTemplates ==
    {Template(Worker1, "a1", "PartialObservation", NoEdits, {}, One("c1", Upsert("Supported", 0, FALSE))),
     Template(Worker1, "a2", "FullSnapshot", NoEdits, {},
              [NoEdits EXCEPT !["c1"] = Upsert("Unsupported", 0, FALSE),
                              !["c2"] = Upsert("Supported", 0, FALSE)]),
     Template(Worker2, "a3", "PartialObservation", NoEdits, {}, One("c1", Upsert("Supported", 1, FALSE))),
     Template(Worker1, "a4", "Incremental", One("c2", Upsert("Supported", 0, FALSE)), {"c1"},
              One("c1", Line("MarkRevalidationRequired", "Unknown", 1, FALSE))),
     [Template(Worker1, "a1", "PartialObservation", NoEdits, {}, One("c1", Upsert("Supported", 0, FALSE)))
         EXCEPT !.entity = "e2"]}

LimitRequests == Vary(LimitTemplates, {1}, {1, 2}, 0..2)
=============================================================================
