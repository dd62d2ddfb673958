----------------------------- MODULE MCReaders -----------------------------
(* A small instance of Readers for TLC: one worker and one reader. *)
EXTENDS Readers

CONSTANTS MaxRequirementDepth, MaxRequirementNodes   \* limits.hpp

Tree == INSTANCE Requirement

MCValidRequirement(r) == Tree!ValidRequirement(r)

MCLeavesRead(r) ==
    LET leaves == Tree!LeavesOf(r) IN [n \in DOMAIN leaves |-> r[leaves[n]].capability]

MCOutcome(r, read) == Tree!Outcome(r, read)

MCNoValue == [kind |-> "Absent"]

NoEdit == [op |-> "None", state |-> "Unknown", value |-> NoValue, rank |-> 6,
           durable |-> FALSE, sourceRank |-> 6]

NoEdits == [c \in Capability |-> NoEdit]

Line(op, state) ==
    [op |-> op, state |-> state, value |-> NoValue, rank |-> 0,
     durable |-> FALSE, sourceRank |-> 0]

MCDescriptor == [c \in Capability |->
    [namespace |-> "ns", boolean |-> TRUE, absenceIsNegative |-> TRUE, values |-> {}]]

MCEntityKind == [e \in Entity |-> "gpu"]

MCGrants ==
    {[scope |-> "s1", kinds |-> {"gpu"}, namespaces |-> {"ns"}, modes |-> Mode,
      exclusive |-> TRUE, durable |-> FALSE, strongest |-> 0, allowed |-> {}, maxClaims |-> 2]}

MCWorkers == {[publisher |-> "p1", scope |-> "s1", boot |-> 1]}

Template(attempt, mode, edits) ==
    [attempt |-> attempt, entity |-> "e1", generation |-> 1, expected |-> 0, epoch |-> 1,
     mode |-> mode, fullEnumeration |-> FALSE, publisher |-> "p1", boot |-> 1, scope |-> "s1",
     source |-> 1, sourceGeneration |-> 1,
     before |-> NoEdits, supersede |-> {}, edits |-> edits, front |-> "c1"]

\* A withdrawal from an entity that claims nothing changes no answer.
Templates ==
    {Template("a1", "FullSnapshot", [NoEdits EXCEPT !["c1"] = Line("UpsertClaim", "Supported")]),
     Template("a2", "FullSnapshot", [NoEdits EXCEPT !["c2"] = Line("UpsertClaim", "Supported")]),
     Template("a3", "Incremental", [NoEdits EXCEPT !["c1"] = Line("WithdrawClaim", "Unknown")])}

MCRequests ==
    {[t EXCEPT !.generation = g, !.expected = x] :
        t \in Templates, g \in {1, 2}, x \in {0, 1}}

MCScopes ==
    {[all |-> TRUE, entities |-> {}, kinds |-> {}, namespaces |-> {}],
     [all |-> FALSE, entities |-> {"e1"}, kinds |-> {"gpu"}, namespaces |-> {"ns"}]}

Node(depth, kind) == [depth |-> depth, kind |-> kind]

Supported(depth, c) ==
    [depth |-> depth, kind |-> "StateIs", capability |-> c, state |-> "Supported",
     requireProof |-> FALSE]

\* One of c1 and c2 without the other.
MCRequirements ==
    {<<Node(0, "AllOf"), Node(1, "AnyOf"), Supported(2, "c1"), Supported(2, "c2"),
       Node(1, "Not"), Node(2, "AllOf"), Supported(3, "c1"), Supported(3, "c2")>>}
=============================================================================
