---------------------------- MODULE Requirement ----------------------------
(***************************************************************************)
(* Requirement evaluation (requirement.cpp): a bounded tree of conditions  *)
(* on the capabilities of one entity, evaluated over three outcomes.  The  *)
(* answers of the capabilities are given; Readers has them read from a     *)
(* registry that changes between the leaves.                               *)
(*                                                                         *)
(* A tree is the sequence of its nodes in the order they are visited, each *)
(* [depth, kind, capability, operand, state, requireProof], where depth is *)
(* the one ValidateNode is called with.  An answer is [state, value]; a    *)
(* value is a record with its kind, and one of kind "Absent" stands for no *)
(* value.                                                                  *)
(***************************************************************************)
EXTENDS Integers, SequencesExt

CONSTANTS MaxRequirementDepth, MaxRequirementNodes   \* limits.hpp

QuantityKind == {"Minimum", "Maximum", "RangeContains", "InSet"}

Compound == {"AllOf", "AnyOf", "Not"}

-----------------------------------------------------------------------------
(* The shape of a tree.                                                    *)

\* The root comes first; a node is a child of the one before it, or of one
\* that this one is below.
IsTree(tree) ==
    /\ Len(tree) \in Nat \ {0} /\ DOMAIN tree = 1..Len(tree)
    /\ tree[1].depth = 0
    /\ \A i \in 2..Len(tree) : tree[i].depth \in 1..(tree[i - 1].depth + 1)

Children(tree, i) ==
    {j \in (i + 1)..Len(tree) :
        /\ tree[j].depth = tree[i].depth + 1
        /\ \A k \in (i + 1)..j : tree[k].depth > tree[i].depth}

IsLeaf(tree, i) == tree[i].kind \notin Compound

-----------------------------------------------------------------------------
(* ValidateNode: the bounds on a tree before it is evaluated.              *)

OperandFits(node) ==
    /\ node.kind = "BooleanEquals" => node.operand.kind = "Boolean"
    /\ node.kind \in QuantityKind => node.operand.kind = "Quantity"
    /\ node.kind = "VersionContains" => node.operand.kind = "Version"
    /\ node.kind = "ProtocolSupported" => node.operand.kind = "Protocol"

ValidNode(tree, i) ==
    /\ tree[i].depth <= MaxRequirementDepth
    /\ IF IsLeaf(tree, i) THEN Children(tree, i) = {} /\ OperandFits(tree[i])
       ELSE Children(tree, i) # {}
    /\ tree[i].kind = "Not" => Cardinality(Children(tree, i)) = 1

\* A negation may stand under another one: only the root is looked at.
ValidRequirement(tree) ==
    /\ tree[1].kind # "Not"
    /\ \A i \in DOMAIN tree : ValidNode(tree, i)
    /\ Len(tree) <= MaxRequirementNodes

-----------------------------------------------------------------------------
(* What a leaf compares.                                                   *)

\* ExtractQuantity: the bounds of a quantity, a range or a set, which is
\* sorted and has a member.
Lower(value) ==
    CASE value.kind = "Quantity"     -> value.quantity
      [] value.kind = "NumericRange" -> value.minimum
      [] value.kind = "NumericSet"   -> Head(value.members)

\* Mutant of Upper: the first member of a set is its largest.
LargestFirst(value) ==
    CASE value.kind = "Quantity"     -> value.quantity
      [] value.kind = "NumericRange" -> value.maximum
      [] value.kind = "NumericSet"   -> Head(value.members)

Upper(value) ==
    CASE value.kind = "Quantity"     -> value.quantity
      [] value.kind = "NumericRange" -> value.maximum
      [] value.kind = "NumericSet"   -> Last(value.members)

\* A supported capability whose value cannot be compared leaves the leaf open.
Comparable(node, value) ==
    CASE node.kind = "StateIs" -> TRUE
      [] node.kind = "BooleanEquals" -> value.kind = "Boolean"
      [] node.kind \in QuantityKind ->
            /\ value.kind \in {"Quantity", "NumericRange", "NumericSet"}
            /\ value.unit = node.operand.unit
      [] node.kind = "VersionContains" -> value.kind = "VersionInterval"
      [] node.kind = "ProtocolSupported" -> value.kind = "ProtocolSet"
      [] node.kind = "EnumerationSupported" -> value.kind = "EnumSet"

Above(value, version) ==
    IF value.minimumInclusive THEN value.minimum <= version ELSE value.minimum < version

Below(value, version) ==
    IF value.maximumInclusive THEN version <= value.maximum ELSE version < value.maximum

Holds(node, answer) ==
    LET value == answer.value
    IN  CASE node.kind = "StateIs" -> answer.state = node.state
          [] node.kind = "BooleanEquals" -> value.boolean = node.operand.boolean
          [] node.kind = "Minimum" -> Upper(value) >= node.operand.quantity
          [] node.kind = "Maximum" -> Lower(value) <= node.operand.quantity
          [] node.kind = "RangeContains" ->
                /\ value.kind # "NumericSet"
                /\ Lower(value) <= node.operand.quantity
                /\ node.operand.quantity <= Upper(value)
          [] node.kind = "InSet" ->
                value.kind = "NumericSet" /\ Contains(value.members, node.operand.quantity)
          [] node.kind = "VersionContains" ->
                Above(value, node.operand.version) /\ Below(value, node.operand.version)
          [] node.kind = "ProtocolSupported" -> Contains(value.members, node.operand.protocol)
          [] node.kind = "EnumerationSupported" -> Contains(value.members, node.operand.code)

-----------------------------------------------------------------------------
(* The three-valued evaluation.                                            *)

Decide(satisfied) == IF satisfied THEN "Satisfied" ELSE "NotSatisfied"

\* Mutant of Leaf: a capability that is not unsupported will do.
LeafUnlessUnsupported(node, answer) ==
    IF answer.state = "Unsupported" /\ node.requireProof THEN "Undetermined"
    ELSE IF ~Comparable(node, answer.value) THEN "Undetermined"
    ELSE Decide(Holds(node, answer))

\* Only SUPPORTED proves anything.
Leaf(node, answer) ==
    IF answer.state # "Supported"
    THEN IF node.requireProof THEN "Undetermined" ELSE "NotSatisfied"
    ELSE IF ~Comparable(node, answer.value) THEN "Undetermined"
    ELSE Decide(Holds(node, answer))

AllHold(outcomes) ==
    IF outcomes \subseteq {"Satisfied"} THEN "Satisfied"
    ELSE IF "NotSatisfied" \in outcomes THEN "NotSatisfied"
    ELSE "Undetermined"

AnyHolds(outcomes) ==
    IF "Satisfied" \in outcomes THEN "Satisfied"
    ELSE IF outcomes \subseteq {"NotSatisfied"} THEN "NotSatisfied"
    ELSE "Undetermined"

\* Mutant of Negation: what is not proven is taken as refuted.
NegationOfUnproven(outcomes) == Decide("Satisfied" \notin outcomes)

\* A negation has one child.
Negation(outcomes) ==
    CASE outcomes = {"Satisfied"}    -> "NotSatisfied"
      [] outcomes = {"NotSatisfied"} -> "Satisfied"
      [] OTHER                       -> "Undetermined"

\* Every child is evaluated, decided or not; answers maps the position of a
\* leaf to the answer read for it.
EvaluateNodes(tree, answers) ==
    LET outcome[i \in DOMAIN tree] ==
            LET below == {outcome[j] : j \in Children(tree, i)}
            IN  CASE tree[i].kind = "AllOf" -> AllHold(below)
                  [] tree[i].kind = "AnyOf" -> AnyHolds(below)
                  [] tree[i].kind = "Not"   -> Negation(below)
                  [] OTHER                  -> Leaf(tree[i], answers[i])
    IN  outcome

Evaluate(tree, answers) ==
    IF ValidRequirement(tree) THEN EvaluateNodes(tree, answers)[1] ELSE "Undetermined"

-----------------------------------------------------------------------------
(* The same for a reader that has the answers in the order of the leaves.  *)

\* The positions of the leaves, in the order they are read.
LeavesOf(tree) ==
    SelectSeq([i \in DOMAIN tree |-> i], LAMBDA i : IsLeaf(tree, i))

Outcome(tree, read) ==
    LET leaves == LeavesOf(tree)
    IN  Evaluate(tree, [i \in ToSet(leaves) |->
            read[CHOOSE n \in DOMAIN leaves : leaves[n] = i]])
=============================================================================
