--------------------------- MODULE AlgorithmProofs --------------------------
(***************************************************************************)
(* What the pure parts of the registry return, for every input that satisfies *)
(* AlgorithmsAssumption.  A call is on one of its inputs and returns what its *)
(* operation makes of it (Answered, the inductive invariant); the rest is  *)
(* about the operations: the evaluation of a requirement, frames, values,  *)
(* messages, and the records of a payload.                                 *)
(***************************************************************************)
EXTENDS Algorithms, ValueProofs

-----------------------------------------------------------------------------
(* Every call returns once, and what the operation makes of its input.     *)

\* What the acceptance of a claim returns: the constructed value, if the descriptor takes it.
ClaimAnswer(claim) ==
    LET made == Construct(claim.value)
    IN  IF made.ok /\ Accepts(claim.descriptor, made.value) THEN made ELSE Fail

\* What a comparison of two given values returns: nothing unless both are constructed.
ComparisonAnswer(comparison) ==
    LET left == Construct(comparison.left)
        right == Construct(comparison.right)
    IN  IF left.ok /\ right.ok
        THEN [ok |-> TRUE, same |-> SameValue(left.value, right.value)]
        ELSE Fail

\* What becomes of a message that is sent: nothing if it is not encoded, else what is decoded.
MessageAnswer(message) ==
    LET encoded == EncodeMessage(message)
    IN  IF encoded.ok
        THEN [ok |-> TRUE, decoded |-> DecodeMessage(message.type, encoded.value)]
        ELSE Fail

\* A call of an operation is on one of its inputs, and returns nothing yet or its answer.
Answers(name, inputs, answer) ==
    call = name => input \in inputs /\ (result = Nothing \/ result = answer)

\* The inductive invariant: a call is on one of the inputs of its operation, and what it has
\* returned is what that operation makes of the input.
Answered ==
    /\ call \in {"decode", "claim", "compare", "evaluate", "send", "receive", "load"}
    /\ Answers("decode", Inputs, Decode(input))
    /\ Answers("claim", Claims, ClaimAnswer(input))
    /\ Answers("compare", Comparisons, ComparisonAnswer(input))
    /\ Answers("evaluate", Evaluations,
               [ok |-> TRUE, outcome |-> Outcome(input.requirement, input.answers)])
    /\ Answers("send", Messages, MessageAnswer(input))
    /\ Answers("receive", Deliveries, DecodeFrame(input.received))
    /\ Answers("load", Payloads, DecodePayload(EncodePayload(input)))

\* Before it returns, a call has returned nothing.
LEMMA InitAnswered == Init => Answered
BY DEF Init, Answered, Answers

\* A return gives the answer of the call and changes neither the call nor its input.
LEMMA StepAnswered ==
    ASSUME Answered, [Next]_vars
    PROVE  Answered'
<1>1. CASE ReturnDecoded
  BY <1>1 DEF Answered, Answers, ReturnDecoded, Pending, Return
<1>2. CASE ReturnClaim
  <2>1. Return(ClaimAnswer(input)) /\ call = "claim"
    BY <1>2 DEF ReturnClaim, ClaimAnswer, Pending
  <2> QED
    BY <2>1 DEF Answered, Answers, Return, ClaimAnswer
<1>3. CASE ReturnComparison
  <2>1. Return(ComparisonAnswer(input)) /\ call = "compare"
    BY <1>3 DEF ReturnComparison, ComparisonAnswer, Pending
  <2> QED
    BY <2>1 DEF Answered, Answers, Return, ComparisonAnswer
<1>4. CASE ReturnOutcome
  BY <1>4 DEF Answered, Answers, ReturnOutcome, Pending, Return
<1>5. CASE ReturnMessage
  <2>1. Return(MessageAnswer(input)) /\ call = "send"
    BY <1>5 DEF ReturnMessage, MessageAnswer, Pending
  <2> QED
    BY <2>1 DEF Answered, Answers, Return, MessageAnswer
<1>6. CASE ReturnFrame
  BY <1>6 DEF Answered, Answers, ReturnFrame, Pending, Return
<1>7. CASE ReturnLoaded
  BY <1>7 DEF Answered, Answers, ReturnLoaded, Pending, Return
<1>8. CASE UNCHANGED vars
  BY <1>8 DEF Answered, Answers, vars, ClaimAnswer, ComparisonAnswer, MessageAnswer
<1> QED
  BY <1>1, <1>2, <1>3, <1>4, <1>5, <1>6, <1>7, <1>8 DEF Next

\* Every reachable state answers its call as the operation does: the functions of
\* the library keep nothing between calls.
THEOREM AnsweredInvariant == Spec => []Answered
<1>1. Answered /\ [Next]_vars => Answered'
  BY StepAnswered
<1> QED
  BY <1>1, InitAnswered, PTL DEF Spec

-----------------------------------------------------------------------------
(* The three-valued evaluation.                                            *)

\* What a node makes of the outcomes of the nodes below it.
NodeOutcome(tree, answers, outcome, i) ==
    LET below == {outcome[j] : j \in Tree!Children(tree, i)}
    IN  CASE tree[i].kind = "AllOf" -> Tree!AllHold(below)
          [] tree[i].kind = "AnyOf" -> Tree!AnyHolds(below)
          [] tree[i].kind = "Not"   -> Tree!Negation(below)
          [] OTHER                  -> Tree!Leaf(tree[i], answers[i])

\* Only what is below a node counts.
LEMMA OutcomesBelow ==
    ASSUME NEW tree, NEW answers, NEW f, NEW g, NEW i,
           \A j \in Tree!Children(tree, i) : f[j] = g[j]
    PROVE  NodeOutcome(tree, answers, f, i) = NodeOutcome(tree, answers, g, i)
<1>1. {f[j] : j \in Tree!Children(tree, i)} = {g[j] : j \in Tree!Children(tree, i)}
  OBVIOUS
<1> QED
  BY <1>1 DEF NodeOutcome

\* The outcomes solve the equation of every node: from the last one upwards.
LEMMA OutcomesSolved ==
    ASSUME NEW tree, NEW answers, Tree!IsTree(tree)
    PROVE  \A i \in DOMAIN tree :
              Tree!EvaluateNodes(tree, answers)[i] =
              NodeOutcome(tree, answers, Tree!EvaluateNodes(tree, answers), i)
<1> DEFINE N == Len(tree)
           Of(f, i) == NodeOutcome(tree, answers, f, i)
           From(m) == (N + 1 - m)..N
           S == {m \in 0..N : \E g : g = [i \in From(m) |-> Of(g, i)]}
<1>0. N \in Nat /\ DOMAIN tree = 1..N
  BY DEF Tree!IsTree
<1>1. 0 \in S
  <2> DEFINE g == [i \in From(0) |-> 0]
  <2>1. From(0) = {}
    BY <1>0
  <2>2. g = [i \in From(0) |-> Of(g, i)]
    <3> HIDE DEF Of
    <3> QED
      BY <2>1
  <2>3. \E k : k = [i \in From(0) |-> Of(k, i)]
    <3> HIDE DEF g, Of, From
    <3> QED
      BY <2>2
  <2> HIDE DEF Of, From, N
  <2> QED
    BY <1>0, <2>3
<1>2. ASSUME NEW m \in 1..N, m - 1 \in S PROVE m \in S
  <2>1. PICK g : g = [i \in From(m - 1) |-> Of(g, i)]
    BY <1>2
  <2> DEFINE first == N + 1 - m
             h == [i \in From(m) |-> IF i = first THEN Of(g, first) ELSE g[i]]
  <2>2. ASSUME NEW i \in From(m) PROVE h[i] = Of(h, i)
    <3>1. \A j \in Tree!Children(tree, i) : j \in From(m) /\ j # first
      BY <1>0 DEF Tree!Children
    <3>2. \A j \in Tree!Children(tree, i) : h[j] = g[j]
      BY <3>1
    <3>3. Of(h, i) = Of(g, i)
      <4> HIDE DEF h
      <4> QED
        BY <3>2, OutcomesBelow
    <3>4. CASE i = first
      <4>1. h[i] = Of(g, first)
        BY <3>4
      <4> HIDE DEF h, Of
      <4> QED
        BY <3>3, <3>4, <4>1
    <3>5. CASE i # first
      <4>1. h[i] = g[i]
        BY <3>5
      <4>2. i \in From(m - 1)
        BY <1>0, <3>5
      <4>3. g[i] = Of(g, i)
        <5> HIDE DEF Of, From
        <5> QED
          BY <2>1, <4>2
      <4> HIDE DEF h, Of
      <4> QED
        BY <3>3, <4>1, <4>3
    <3> QED
      BY <3>4, <3>5
  <2>3. h = [i \in From(m) |-> Of(h, i)]
    <3>1. h = [i \in From(m) |-> h[i]]
      OBVIOUS
    <3> HIDE DEF h, Of, From
    <3> QED
      BY <2>2, <3>1
  <2>4. \E k : k = [i \in From(m) |-> Of(k, i)]
    <3> HIDE DEF h, Of, From
    <3> QED
      BY <2>3
  <2>5. m \in 0..N
    BY <1>2
  <2> HIDE DEF Of, From
  <2> QED
    BY <2>4, <2>5
<1>3. PICK g : g = [i \in DOMAIN tree |-> Of(g, i)]
  <2> HIDE DEF S, N
  <2>1. Inductive(S, N)
    BY <1>1, <1>2 DEF Inductive
  <2>2. N \in S
    BY <1>0, <2>1, UpTo
  <2>3. From(N) = DOMAIN tree
    BY <1>0
  <2>4. \E k : k = [i \in From(N) |-> Of(k, i)]
    <3> HIDE DEF Of, From
    <3> QED
      BY <2>2 DEF S
  <2> HIDE DEF Of, From
  <2> QED
    BY <2>3, <2>4
<1> DEFINE Solves(k) == k = [i \in DOMAIN tree |-> Of(k, i)]
           c == CHOOSE k : Solves(k)
<1>4. Solves(c)
  BY <1>3, Zenon
<1>5. Tree!EvaluateNodes(tree, answers) = c
  BY Zenon DEF Tree!EvaluateNodes, NodeOutcome
<1>6. \A i \in DOMAIN tree : c[i] = Of(c, i)
  <2> HIDE DEF c, Of
  <2> QED
    BY <1>4
<1> HIDE DEF c
<1> QED
  BY <1>5, <1>6

\* Evidence came in for leaves that were open.
OnlyOpenChanged(tree, answers, better) ==
    \A i \in DOMAIN tree : Tree!IsLeaf(tree, i) =>
        tree[i].requireProof /\ (answers[i].state = "Supported" => better[i] = answers[i])

\* A node that was decided is decided the same.
LEMMA DecidedNode ==
    ASSUME NEW tree, NEW answers, NEW better, NEW f, NEW g, NEW i \in DOMAIN tree,
           OnlyOpenChanged(tree, answers, better),
           \A j \in Tree!Children(tree, i) : f[j] # "Undetermined" => g[j] = f[j],
           NodeOutcome(tree, answers, f, i) # "Undetermined"
    PROVE  NodeOutcome(tree, better, g, i) = NodeOutcome(tree, answers, f, i)
<1> DEFINE C == Tree!Children(tree, i)
           before == {f[j] : j \in C}
           after == {g[j] : j \in C}
<1>1. ASSUME NEW x, x # "Undetermined", before \subseteq {x} PROVE after \subseteq {x}
  BY <1>1
<1>2. ASSUME NEW x, x # "Undetermined", x \in before PROVE x \in after
  BY <1>2
<1>3. CASE tree[i].kind = "AllOf"
  <2>1. Tree!AllHold(before) # "Undetermined" => Tree!AllHold(after) = Tree!AllHold(before)
    <3> HIDE DEF before, after
    <3>1. before \subseteq {"Satisfied"} => after \subseteq {"Satisfied"}
      BY <1>1
    <3>2. "NotSatisfied" \in before => "NotSatisfied" \in after
      BY <1>2
    <3> QED
      BY <3>1, <3>2 DEF Tree!AllHold
  <2> QED
    BY <1>3, <2>1 DEF NodeOutcome
<1>4. CASE tree[i].kind = "AnyOf"
  <2>1. Tree!AnyHolds(before) # "Undetermined" => Tree!AnyHolds(after) = Tree!AnyHolds(before)
    <3> HIDE DEF before, after
    <3>1. before \subseteq {"NotSatisfied"} => after \subseteq {"NotSatisfied"}
      BY <1>1
    <3>2. "Satisfied" \in before => "Satisfied" \in after
      BY <1>2
    <3> QED
      BY <3>1, <3>2 DEF Tree!AnyHolds
  <2> QED
    BY <1>4, <2>1 DEF NodeOutcome
<1>5. CASE tree[i].kind = "Not"
  <2>1. Tree!Negation(before) # "Undetermined" => Tree!Negation(after) = Tree!Negation(before)
    <3> HIDE DEF before, after
    <3>1. ASSUME NEW x, x # "Undetermined", before = {x} PROVE after = {x}
      BY <1>1, <1>2, <3>1
    <3>2. before = {"Satisfied"} => after = {"Satisfied"}
      BY <3>1
    <3>3. before = {"NotSatisfied"} => after = {"NotSatisfied"}
      BY <3>1
    <3> QED
      BY <3>2, <3>3 DEF Tree!Negation
  <2> QED
    BY <1>5, <2>1 DEF NodeOutcome
<1>6. CASE tree[i].kind \notin {"AllOf", "AnyOf", "Not"}
  <2>1. /\ NodeOutcome(tree, answers, f, i) = Tree!Leaf(tree[i], answers[i])
        /\ NodeOutcome(tree, better, g, i) = Tree!Leaf(tree[i], better[i])
    BY <1>6 DEF NodeOutcome
  <2>2. tree[i].requireProof /\ (answers[i].state = "Supported" => better[i] = answers[i])
    BY <1>6 DEF OnlyOpenChanged, Tree!IsLeaf, Tree!Compound
  <2>3. answers[i].state = "Supported"
    BY <2>1, <2>2 DEF Tree!Leaf
  <2> QED
    BY <2>1, <2>2, <2>3
<1> QED
  BY <1>3, <1>4, <1>5, <1>6

\* A node that is decided stays as it is when open answers improve, for every node of a tree.
LEMMA DecidedNodes ==
    ASSUME NEW tree, NEW answers, NEW better, Tree!IsTree(tree),
           OnlyOpenChanged(tree, answers, better)
    PROVE  \A i \in DOMAIN tree :
              Tree!EvaluateNodes(tree, answers)[i] # "Undetermined" =>
              Tree!EvaluateNodes(tree, better)[i] = Tree!EvaluateNodes(tree, answers)[i]
<1> DEFINE N == Len(tree)
           f == Tree!EvaluateNodes(tree, answers)
           g == Tree!EvaluateNodes(tree, better)
           Kept(i) == f[i] # "Undetermined" => g[i] = f[i]
           S == {m \in 0..N : \A i \in (N + 1 - m)..N : Kept(i)}
<1>0. N \in Nat /\ DOMAIN tree = 1..N
  BY DEF Tree!IsTree
<1>1. 0 \in S
  <2> HIDE DEF Kept, N
  <2> QED
    BY <1>0
<1>2. ASSUME NEW m \in 1..N, m - 1 \in S PROVE m \in S
  <2>1. ASSUME NEW i \in (N + 1 - m)..N PROVE Kept(i)
    <3>1. i \in DOMAIN tree
      BY <1>0
    <3>2. \A j \in Tree!Children(tree, i) : j \in (N + 1 - (m - 1))..N
      BY <1>0 DEF Tree!Children
    <3>3. \A j \in Tree!Children(tree, i) : Kept(j)
      <4> HIDE DEF Kept
      <4> QED
        BY <1>2, <3>2
    <3>4. f[i] = NodeOutcome(tree, answers, f, i) /\ g[i] = NodeOutcome(tree, better, g, i)
      BY <3>1, OutcomesSolved
    <3> HIDE DEF f, g
    <3>5. f[i] # "Undetermined" =>
             NodeOutcome(tree, better, g, i) = NodeOutcome(tree, answers, f, i)
      BY <3>1, <3>3, <3>4, DecidedNode
    <3> QED
      BY <3>4, <3>5
  <2> HIDE DEF Kept
  <2> QED
    BY <1>0, <2>1
<1>3. \A i \in DOMAIN tree : Kept(i)
  <2> HIDE DEF S, Kept, N
  <2>1. Inductive(S, N)
    BY <1>1, <1>2 DEF Inductive
  <2>2. N \in S
    BY <1>0, <2>1, UpTo
  <2> QED
    BY <1>0, <2>2 DEF S
<1> QED
  BY <1>3

\* A requirement that asks for proof and is decided stays decided as evidence
\* for the capabilities still open comes in.
THEOREM DecisionsStay == Spec => []DecidedStaysDecided
<1>1. Answered => DecidedStaysDecided
  <2> SUFFICES ASSUME Answered, Returned("evaluate"), AsksForProof(input.requirement),
                      result.outcome # "Undetermined",
                      NEW better \in Improved(input.answers)
               PROVE  Outcome(input.requirement, better) = result.outcome
    BY DEF DecidedStaysDecided
  <2> DEFINE tree == input.requirement
             leaves == {j \in DOMAIN tree : Tree!IsLeaf(tree, j)}
             before == AnswersByLeaf(tree, input.answers)
             after == AnswersByLeaf(tree, better)
  <2>1. /\ input \in Evaluations
        /\ result = [ok |-> TRUE, outcome |-> Outcome(tree, input.answers)]
    BY DEF Answered, Answers, Returned
  <2>2. /\ Tree!IsTree(tree)
        /\ \A i \in leaves : tree[i].capability \in DOMAIN input.answers
    BY <2>1, AlgorithmsAssumption
  <2>3. OnlyOpenChanged(tree, before, after)
    <3>1. ASSUME NEW i \in DOMAIN tree, Tree!IsLeaf(tree, i)
          PROVE  tree[i].requireProof /\ (before[i].state = "Supported" => after[i] = before[i])
      <4>1. before[i] = input.answers[tree[i].capability] /\ after[i] = better[tree[i].capability]
        BY <3>1 DEF AnswersByLeaf
      <4>2. tree[i].requireProof
        BY <3>1 DEF AsksForProof
      <4>3. tree[i].capability \in DOMAIN input.answers
        BY <2>2, <3>1
      <4>4. \A c \in DOMAIN input.answers :
               input.answers[c].state = "Supported" => better[c] = input.answers[c]
        BY DEF Improved
      <4> HIDE DEF before, after
      <4> QED
        BY <4>1, <4>2, <4>3, <4>4
    <3> HIDE DEF before, after, tree
    <3> QED
      BY <3>1 DEF OnlyOpenChanged
  <2>4. result.outcome = Tree!Evaluate(tree, before)
    BY <2>1 DEF Outcome
  <2>5. Outcome(tree, better) = Tree!Evaluate(tree, after)
    BY DEF Outcome
  <2>6. Tree!Evaluate(tree, before) = Tree!EvaluateNodes(tree, before)[1]
        /\ Tree!Evaluate(tree, after) = Tree!EvaluateNodes(tree, after)[1]
    BY <2>4 DEF Tree!Evaluate
  <2>7. 1 \in DOMAIN tree
    BY <2>2 DEF Tree!IsTree
  <2> HIDE DEF before, after, tree
  <2> QED
    BY <2>2, <2>3, <2>4, <2>5, <2>6, <2>7, DecidedNodes DEF tree
<1> QED
  BY <1>1, AnsweredInvariant, PTL

-----------------------------------------------------------------------------
(* Frames.                                                                 *)

\* The sums of the first tokens.
Sums(h, tokens) ==
    /\ h[0] = 0
    /\ \A n \in 1..Len(tokens) : h[n] = h[n - 1] + n * (1 + tokens[n])

\* Checksum is the last of the sums it goes through: its recursion, solved once.
LEMMA ChecksumSolved ==
    ASSUME NEW tokens \in Stream
    PROVE  \E h : Sums(h, tokens) /\ Checksum(tokens) = h[Len(tokens)]
<1> DEFINE N == Len(tokens)
           Nth(h, n) == IF n = 0 THEN 0 ELSE h[n - 1] + n * (1 + tokens[n])
           Solves(h) == h = [n \in 0..N |-> Nth(h, n)]
           S == {m \in 0..N : \E h : h = [n \in 0..m |-> Nth(h, n)]}
<1>0. N \in Nat
  BY DEF Stream
<1>1. 0 \in S
  <2> DEFINE h == [n \in 0..0 |-> 0]
  <2>1. h = [n \in 0..0 |-> Nth(h, n)]
    OBVIOUS
  <2>2. \E k : k = [n \in 0..0 |-> Nth(k, n)]
    <3> HIDE DEF h, Nth
    <3> QED
      BY <2>1
  <2> HIDE DEF N, Nth
  <2> QED
    BY <1>0, <2>2
<1>2. ASSUME NEW m \in 1..N, m - 1 \in S PROVE m \in S
  <2>1. PICK g : g = [n \in 0..(m - 1) |-> Nth(g, n)]
    BY <1>2
  <2> DEFINE Next1 == g[m - 1] + m * (1 + tokens[m])
             h == [n \in 0..m |-> IF n = m THEN Next1 ELSE g[n]]
  <2>2. ASSUME NEW n \in 0..m PROVE h[n] = Nth(h, n)
    <3>1. CASE n = m
      <4>1. h[m - 1] = g[m - 1] /\ h[m] = Next1
        BY <1>0
      <4> HIDE DEF h
      <4> QED
        BY <1>0, <3>1, <4>1
    <3>2. CASE n = 0
      <4>1. h[0] = g[0] /\ g[0] = Nth(g, 0)
        BY <1>0, <2>1
      <4> QED
        BY <3>2, <4>1
    <3>3. CASE n \in 1..(m - 1)
      <4>1. h[n] = g[n] /\ h[n - 1] = g[n - 1] /\ g[n] = Nth(g, n)
        BY <1>0, <2>1, <3>3
      <4> HIDE DEF h
      <4> QED
        BY <1>0, <3>3, <4>1
    <3> QED
      BY <1>0, <3>1, <3>2, <3>3
  <2>3. h = [n \in 0..m |-> Nth(h, n)]
    <3>1. h = [n \in 0..m |-> h[n]]
      OBVIOUS
    <3> HIDE DEF h, Nth
    <3> QED
      BY <2>2, <3>1
  <2>4. \E k : k = [n \in 0..m |-> Nth(k, n)]
    <3> HIDE DEF h, Nth
    <3> QED
      BY <2>3
  <2>5. m \in 0..N
    BY <1>0, <1>2
  <2> HIDE DEF Nth
  <2> QED
    BY <2>4, <2>5
<1>3. N \in S
  <2> HIDE DEF S, N
  <2>1. Inductive(S, N)
    BY <1>1, <1>2 DEF Inductive
  <2> QED
    BY <1>0, <2>1, UpTo
<1>4. \E h : Solves(h)
  BY <1>3
<1> DEFINE c == CHOOSE h : Solves(h)
<1>5. Solves(c)
  BY <1>4, Zenon
<1>6. Checksum(tokens) = c[N]
  BY Zenon DEF Checksum
<1>7. Sums(c, tokens)
  <2>1. c[0] = 0 /\ \A n \in 1..N : c[n] = c[n - 1] + n * (1 + tokens[n])
    <3> HIDE DEF c
    <3> QED
      BY <1>0, <1>5
  <2> HIDE DEF c
  <2> QED
    BY <2>1 DEF Sums
<1> QED
  <2> HIDE DEF c
  <2> QED
    BY <1>6, <1>7

\* The place of a token counts.
LEMMA WeightedDiffers ==
    ASSUME NEW n \in Nat \ {0}, NEW a \in Int, NEW b \in Int, a # b
    PROVE  /\ n * (1 + a) \in Int /\ n * (1 + b) \in Int
           /\ n * (1 + a) # n * (1 + b)
<1>1. n * (1 + a) \in Int /\ n * (1 + b) \in Int
  OBVIOUS
<1>2. n * (1 + a) - n * (1 + b) = n * (a - b)
  OBVIOUS
<1>3. n * (a - b) # 0
  OBVIOUS
<1> QED
  BY <1>1, <1>2, <1>3

\* A change to one token changes the checksum.
LEMMA ChecksumDetects ==
    ASSUME NEW s \in Stream, NEW t \in Stream, Len(s) = Len(t),
           NEW i \in 1..Len(s), s[i] # t[i], \A j \in 1..Len(s) : j # i => s[j] = t[j]
    PROVE  Checksum(s) # Checksum(t)
<1> DEFINE N == Len(s)
<1>0. N \in Nat /\ (\A n \in 1..N : s[n] \in Int /\ t[n] \in Int) /\ i \in 1..N /\ Len(t) = N
  BY DEF Stream
<1>1. PICK h : Sums(h, s) /\ Checksum(s) = h[N]
  BY ChecksumSolved
<1>2. PICK k : Sums(k, t) /\ Checksum(t) = k[N]
  BY <1>0, ChecksumSolved
<1> DEFINE S == {n \in 0..N : /\ h[n] \in Int /\ k[n] \in Int
                              /\ n < i => h[n] = k[n]
                              /\ i <= n => h[n] # k[n]}
<1>3. 0 \in S
  BY <1>0, <1>1, <1>2 DEF Sums
<1>4. ASSUME NEW n \in 1..N, n - 1 \in S PROVE n \in S
  <2> DEFINE a == n * (1 + s[n])
             b == n * (1 + t[n])
  <2>1. h[n] = h[n - 1] + a /\ k[n] = k[n - 1] + b
    BY <1>0, <1>1, <1>2 DEF Sums
  <2>2. a \in Int /\ b \in Int
    BY <1>0
  <2>3. IF n = i THEN a # b ELSE a = b
    <3>1. CASE n = i
      <4>1. s[n] # t[n]
        BY <3>1
      <4>2. n \in Nat \ {0} /\ s[n] \in Int /\ t[n] \in Int
        BY <1>0
      <4>3. a # b
        BY <4>1, <4>2, WeightedDiffers
      <4> QED
        BY <3>1, <4>3
    <3>2. CASE n # i
      BY <1>0, <3>2
    <3> QED
      BY <3>1, <3>2
  <2>4. /\ h[n - 1] \in Int /\ k[n - 1] \in Int
        /\ n - 1 < i => h[n - 1] = k[n - 1]
        /\ i <= n - 1 => h[n - 1] # k[n - 1]
    BY <1>4
  <2>5. /\ h[n] \in Int /\ k[n] \in Int
        /\ n < i => h[n] = k[n]
        /\ i <= n => h[n] # k[n]
    <3> DEFINE h0 == h[n - 1]
               h1 == h[n]
               k0 == k[n - 1]
               k1 == k[n]
    <3>1. n \in Nat /\ i \in Nat /\ h0 \in Int /\ k0 \in Int /\ h1 = h0 + a /\ k1 = k0 + b
      BY <1>0, <2>1, <2>4
    <3>2. (n - 1 < i => h0 = k0) /\ (i <= n - 1 => h0 # k0)
      BY <2>4
    <3>3. /\ h1 \in Int /\ k1 \in Int
          /\ n < i => h1 = k1
          /\ i <= n => h1 # k1
      <4> HIDE DEF a, b, h0, h1, k0, k1
      <4>1. CASE n < i
        BY <2>2, <2>3, <3>1, <3>2, <4>1
      <4>2. CASE n = i
        BY <2>2, <2>3, <3>1, <3>2, <4>2
      <4>3. CASE n > i
        BY <2>2, <2>3, <3>1, <3>2, <4>3
      <4> QED
        BY <3>1, <4>1, <4>2, <4>3
    <3> QED
      BY <3>3
  <2> QED
    BY <2>5
<1>5. h[N] # k[N]
  <2> HIDE DEF S, N
  <2>1. Inductive(S, N)
    BY <1>3, <1>4 DEF Inductive
  <2>2. N \in S
    BY <1>0, <2>1, UpTo
  <2> QED
    BY <1>0, <2>2 DEF S
<1> QED
  BY <1>1, <1>2, <1>5

\* A checksum is an integer.
LEMMA ChecksumIsInteger ==
    ASSUME NEW tokens \in Stream
    PROVE  Checksum(tokens) \in Int
<1> DEFINE N == Len(tokens)
<1>0. N \in Nat /\ \A n \in 1..N : tokens[n] \in Int
  BY DEF Stream
<1>1. PICK h : Sums(h, tokens) /\ Checksum(tokens) = h[N]
  BY ChecksumSolved
<1> DEFINE S == {m \in 0..N : h[m] \in Int}
<1>2. 0 \in S
  BY <1>0, <1>1 DEF Sums
<1>3. ASSUME NEW m \in 1..N, m - 1 \in S PROVE m \in S
  <2>1. h[m] = h[m - 1] + m * (1 + tokens[m]) /\ h[m - 1] \in Int /\ tokens[m] \in Int
    BY <1>0, <1>1, <1>3 DEF Sums
  <2>2. m * (1 + tokens[m]) \in Int
    BY <1>0, <2>1
  <2>3. h[m] \in Int
    BY <2>1, <2>2
  <2> QED
    BY <1>0, <2>3
<1> HIDE DEF S, N
<1>4. Inductive(S, N)
  BY <1>2, <1>3 DEF Inductive
<1>5. N \in S
  BY <1>0, <1>4, UpTo
<1> QED
  BY <1>1, <1>5 DEF S

\* A sequence of the two one after the other, element by element.
Joined(u, s, t) ==
    /\ u \in Seq(Int) /\ Len(u) = Len(s) + Len(t)
    /\ \A i \in 1..Len(s) : u[i] = s[i]
    /\ \A i \in 1..Len(t) : u[Len(s) + i] = t[i]

\* A concatenation is its two parts, index by index.
LEMMA Joining ==
    ASSUME NEW s \in Seq(Int), NEW t \in Seq(Int)
    PROVE  Joined(s \o t, s, t)
BY DEF Joined

\* A header, a payload and a checksum, one after the other.
IsAssembled(sent, header, payload, body, last, n) ==
    /\ body \in Seq(Int) /\ sent \in Seq(Int) /\ Len(sent) = 7 + n
    /\ \A i \in 1..6 : sent[i] = header[i]
    /\ sent[7 + n] = last[1]
    /\ SubSeq(sent, 7, 6 + n) = payload
    /\ SubSeq(sent, 1, 6 + n) = body

\* The tokens of a frame are its header, its payload and its checksum, each at its place.
LEMMA Assembled ==
    ASSUME NEW header \in Seq(Int), Len(header) = 6,
           NEW payload \in Seq(Int), NEW n \in Nat, Len(payload) = n,
           NEW body, Joined(body, header, payload),
           NEW last, Len(last) = 1, NEW sent, Joined(sent, body, last)
    PROVE  IsAssembled(sent, header, payload, body, last, n)
<1>1. /\ body \in Seq(Int) /\ Len(body) = 6 + n
      /\ \A i \in 1..6 : body[i] = header[i]
      /\ \A i \in 1..n : body[6 + i] = payload[i]
  BY DEF Joined
<1>2. /\ sent \in Seq(Int) /\ Len(sent) = 7 + n
      /\ \A i \in 1..(6 + n) : sent[i] = body[i]
      /\ sent[7 + n] = last[1]
  <2>1. /\ sent \in Seq(Int) /\ Len(sent) = Len(body) + 1
        /\ \A i \in 1..Len(body) : sent[i] = body[i]
        /\ sent[Len(body) + 1] = last[1]
    BY DEF Joined
  <2> QED
    BY <1>1, <2>1
<1>3. ASSUME NEW i \in 1..6 PROVE sent[i] = header[i]
  <2>1. i \in 1..(6 + n)
    OBVIOUS
  <2>2. sent[i] = body[i]
    BY <1>2, <2>1
  <2> QED
    BY <1>1, <2>2
<1>4. SubSeq(sent, 7, 6 + n) = payload
  <2> DEFINE middle == SubSeq(sent, 7, 6 + n)
  <2>1. middle \in Seq(Int) /\ Len(middle) = n /\ \A i \in 1..n : middle[i] = sent[6 + i]
    BY <1>2
  <2>2. ASSUME NEW i \in 1..n PROVE sent[6 + i] = payload[i]
    <3>1. 6 + i \in 1..(6 + n)
      OBVIOUS
    <3>2. sent[6 + i] = body[6 + i]
      BY <1>2, <3>1
    <3> QED
      BY <1>1, <3>2
  <2> HIDE DEF middle
  <2>3. middle = payload
    BY <2>1, <2>2, SeqEqual
  <2> QED
    BY <2>3 DEF middle
<1>5. SubSeq(sent, 1, 6 + n) = body
  <2> DEFINE front == SubSeq(sent, 1, 6 + n)
  <2>1. front \in Seq(Int) /\ Len(front) = 6 + n /\ \A i \in 1..(6 + n) : front[i] = sent[i]
    BY <1>2
  <2> HIDE DEF front
  <2>2. Len(front) = Len(body) /\ \A i \in 1..Len(front) : front[i] = body[i]
    BY <1>1, <1>2, <2>1
  <2>3. front \in Seq(Int) /\ body \in Seq(Int)
    BY <1>1, <2>1
  <2>4. front = body
    BY <2>2, <2>3, SeqEqual
  <2> QED
    BY <2>4 DEF front
<1> QED
  BY <1>1, <1>2, <1>3, <1>4, <1>5 DEF IsAssembled

\* The header of a frame.
HeaderOf(frame) ==
    <<Magic, ProtocolVersion, frame.type, frame.flags, frame.request, Len(frame.payload)>>

\* What a frame is sent as.
Sent(frame) ==
    (HeaderOf(frame) \o frame.payload) \o <<ChecksumOf(HeaderOf(frame), frame.payload)>>

\* The tokens of a frame that is sent, each at its place.
IsSent(sent, frame, n) ==
    /\ sent \in Seq(Int) /\ Len(sent) = 7 + n
    /\ sent[1] = 1 /\ sent[2] = 1 /\ sent[3] = frame.type
    /\ sent[4] = frame.flags /\ sent[5] = frame.request /\ sent[6] = n
    /\ SubSeq(sent, 7, 6 + n) = frame.payload
    /\ sent[7 + n] = Checksum(SubSeq(sent, 1, 6 + n))

\* The header, the payload, and the checksum of both.
LEMMA SentFields ==
    ASSUME NEW frame, IsFrame(frame)
    PROVE  Len(frame.payload) \in Nat /\ IsSent(Sent(frame), frame, Len(frame.payload))
<1>1. /\ frame.payload \in Seq(Int) /\ Len(frame.payload) \in Nat
      /\ frame.type \in Nat /\ frame.flags \in Nat /\ frame.request \in Nat
  BY DEF IsFrame, Stream
<1> DEFINE payload == frame.payload
           n == Len(payload)
           header == HeaderOf(frame)
           body == header \o payload
           sum == Checksum(body)
<1>2. /\ header \in Seq(Int) /\ Len(header) = 6
      /\ header[1] = 1 /\ header[2] = 1 /\ header[3] = frame.type
      /\ header[4] = frame.flags /\ header[5] = frame.request /\ header[6] = n
  BY <1>1 DEF Magic, ProtocolVersion, HeaderOf
<1>3. Sent(frame) = body \o <<sum>>
  BY DEF Sent, ChecksumOf
<1>4. payload \in Seq(Int) /\ n \in Nat /\ n = Len(payload)
  BY <1>1
<1>5. Joined(body, header, payload)
  <2> HIDE DEF header, payload
  <2> QED
    BY <1>2, <1>4, Joining
<1> HIDE DEF header, payload, body
<1>6. body \in Seq(Int) /\ sum \in Int
  BY <1>5, ChecksumIsInteger DEF Stream, Joined
<1> DEFINE sent == Sent(frame)
<1> HIDE DEF n, sum
<1>7. Joined(sent, body, <<sum>>)
  <2>1. <<sum>> \in Seq(Int)
    BY <1>6
  <2> QED
    BY <1>3, <1>6, <2>1, Joining DEF sum
<1> HIDE DEF sent
<1>8. /\ body \in Seq(Int) /\ sent \in Seq(Int) /\ Len(sent) = 7 + n
      /\ \A i \in 1..6 : sent[i] = header[i]
      /\ sent[7 + n] = sum
      /\ SubSeq(sent, 7, 6 + n) = payload
      /\ SubSeq(sent, 1, 6 + n) = body
  <2>1. /\ header \in Seq(Int) /\ Len(header) = 6
        /\ payload \in Seq(Int) /\ n \in Nat /\ Len(payload) = n
    BY <1>2, <1>4
  <2> DEFINE last == <<sum>>
  <2>2. Len(last) = 1 /\ last[1] = sum /\ Joined(sent, body, last)
    BY <1>7
  <2> HIDE DEF last
  <2>3. IsAssembled(sent, header, payload, body, last, n)
    BY <1>5, <2>1, <2>2, Assembled
  <2> QED
    BY <2>2, <2>3 DEF IsAssembled
<1>9. IsSent(sent, frame, n)
  <2>1. SubSeq(sent, 7, 6 + n) = frame.payload
    BY <1>8 DEF payload
  <2>2. sent[7 + n] = Checksum(SubSeq(sent, 1, 6 + n))
    BY <1>8 DEF sum
  <2>3. \A i \in 1..6 : sent[i] = header[i]
    BY <1>8
  <2> QED
    BY <1>2, <1>8, <2>1, <2>2, <2>3 DEF IsSent
<1> QED
  BY <1>4, <1>9 DEF sent, n, payload

\* What DecodeFrame accepts.
IsWhole(in) ==
    /\ Len(in) >= 6 /\ in[1] = 1 /\ in[2] = 1 /\ in[3] \in MessageType
    /\ in[6] \in 0..MaxFrame /\ Len(in) = 7 + in[6]
    /\ in[Len(in)] = Checksum(SubSeq(in, 1, 6 + in[6]))

\* The frame that the tokens of a whole frame hold.
FrameIn(in) ==
    [type |-> in[3], flags |-> in[4], request |-> in[5], payload |-> SubSeq(in, 7, 6 + in[6])]

\* DecodeFrame returns the frame of a whole frame, and fails on anything else.
LEMMA FrameDecoded ==
    ASSUME NEW in \in Stream
    PROVE  DecodeFrame(in) = IF IsWhole(in) THEN Got(FrameIn(in), <<>>) ELSE Fail
<1> DEFINE header == SubSeq(in, 1, HeaderLength)
           payload == SubSeq(in, HeaderLength + 1, HeaderLength + header[6])
<1>0. in \in Seq(Int)
  BY DEF Stream
<1>1. CASE Len(in) >= 6
  <2>1. header[1] = in[1] /\ header[2] = in[2] /\ header[3] = in[3] /\ header[4] = in[4]
        /\ header[5] = in[5] /\ header[6] = in[6]
    BY <1>0, <1>1 DEF HeaderLength
  <2>2. header[1] = in[1] /\ header[2] = in[2] /\ header[3] = in[3] /\ header[4] = in[4]
        /\ header[5] = in[5] /\ header[6] = in[6] /\ payload = SubSeq(in, 7, 6 + in[6])
    <3>1. payload = SubSeq(in, 7, 6 + header[6])
      <4> HIDE DEF header
      <4>1. HeaderLength + 1 = 7 /\ HeaderLength = 6
        BY DEF HeaderLength
      <4> QED
        BY <4>1
    <3> HIDE DEF header, payload
    <3> QED
      BY <2>1, <3>1
  <2>3. ASSUME in[6] \in 0..MaxFrame, Len(in) = 7 + in[6]
        PROVE  ChecksumOf(header, payload) = Checksum(SubSeq(in, 1, 6 + in[6]))
    <3> DEFINE n == 6 + in[6]
    <3>1. 1 \in 1..(Len(in) + 1) /\ 6 \in (1 - 1)..Len(in) /\ n \in 6..Len(in) /\ 6 + 1 = 7
      BY <1>0, <1>1, <2>3
    <3>2. SubSeq(in, 1, 6) \o SubSeq(in, 6 + 1, n) = SubSeq(in, 1, n)
      <4> HIDE DEF n
      <4> QED
        BY <1>0, <3>1, ConcatAdjacentSubSeq
    <3>3. header \o payload = SubSeq(in, 1, n)
      <4>1. header = SubSeq(in, 1, 6) /\ payload = SubSeq(in, 6 + 1, n)
        BY <2>2 DEF HeaderLength
      <4> HIDE DEF header, payload, n
      <4> QED
        BY <3>2, <4>1
    <3> HIDE DEF header, payload
    <3> QED
      BY <3>3 DEF ChecksumOf
  <2>4. Last(in) = in[Len(in)]
    BY DEF Last
  <2> DEFINE accepted == /\ Len(in) >= HeaderLength
                         /\ header[1] = Magic /\ header[2] = ProtocolVersion
                         /\ header[3] \in MessageType
                         /\ header[6] \in 0..MaxFrame
                         /\ Len(in) = HeaderLength + header[6] + 1
                         /\ Last(in) = ChecksumOf(header, payload)
             frame == [type |-> header[3], flags |-> header[4], request |-> header[5],
                       payload |-> payload]
  <2>5. DecodeFrame(in) = IF accepted THEN Got(frame, <<>>) ELSE Fail
    BY Zenon DEF DecodeFrame
  <2>6. frame = FrameIn(in)
    <3> HIDE DEF header, payload
    <3> QED
      BY <2>2 DEF FrameIn
  <2>7. accepted <=> IsWhole(in)
    <3> HIDE DEF header, payload
    <3>1. Len(in) = HeaderLength + header[6] + 1 <=> Len(in) = 7 + in[6]
      <4>1. in[6] \in Int /\ header[6] = in[6]
        BY <1>0, <1>1, <2>2
      <4>2. HeaderLength + in[6] + 1 = 7 + in[6]
        BY <4>1 DEF HeaderLength
      <4> QED
        BY <4>1, <4>2
    <3> QED
      BY <1>1, <2>2, <2>3, <2>4, <3>1 DEF IsWhole, Magic, ProtocolVersion, HeaderLength
  <2> HIDE DEF accepted, frame
  <2> QED
    BY <2>5, <2>6, <2>7
<1>2. CASE ~(Len(in) >= 6)
  BY <1>2 DEF DecodeFrame, IsWhole, HeaderLength
<1> QED
  BY <1>1, <1>2

\* EncodeFrame makes the tokens of a frame of a known type that is within its bound.
LEMMA Encoded ==
    ASSUME NEW frame
    PROVE  EncodeFrame(frame) =
              Made(Len(frame.payload) <= MaxFrame /\ frame.type \in MessageType, Sent(frame))
BY DEF EncodeFrame, Sent, HeaderOf

\* A frame that is not damaged is the frame that was sent.
LEMMA WholeFrame ==
    ASSUME NEW frame, IsFrame(frame), NEW sent, NEW n \in Nat, IsSent(sent, frame, n),
           n = Len(frame.payload)
    PROVE  /\ FrameIn(sent) = frame
           /\ IsWhole(sent) <=> n <= MaxFrame /\ frame.type \in MessageType
<1>1. FrameIn(sent) = frame
  <2>1. frame = [type |-> frame.type, flags |-> frame.flags, request |-> frame.request,
                 payload |-> frame.payload]
    BY DEF IsFrame
  <2> QED
    BY <2>1 DEF FrameIn, IsSent
<1>2. n \in 0..MaxFrame <=> n <= MaxFrame
  <2>1. MaxFrame \in Nat
    BY WireAssumption
  <2> QED
    BY <2>1
<1>3. /\ Len(sent) = 7 + n /\ Len(sent) >= 6
      /\ sent[1] = 1 /\ sent[2] = 1 /\ sent[3] = frame.type /\ sent[6] = n
  BY DEF IsSent
<1>4. sent[Len(sent)] = Checksum(SubSeq(sent, 1, 6 + sent[6]))
  <2>1. sent[7 + n] = Checksum(SubSeq(sent, 1, 6 + n))
    BY DEF IsSent
  <2> QED
    BY <1>3, <2>1
<1>5. IsWhole(sent) <=> n \in 0..MaxFrame /\ frame.type \in MessageType
  BY <1>3, <1>4 DEF IsWhole
<1> QED
  BY <1>1, <1>2, <1>5

\* One that is damaged, cut short or followed by more is refused.
LEMMA DamagedFrame ==
    ASSUME NEW frame, IsFrame(frame), NEW sent, NEW n \in Nat, IsSent(sent, frame, n),
           NEW in \in Stream, Arrived(sent, in), IsWhole(in)
    PROVE  in = sent
<1>0. /\ in \in Seq(Int) /\ sent \in Seq(Int) /\ Len(sent) = 7 + n /\ sent[6] = n
      /\ in[6] \in Nat /\ Len(in) = 7 + in[6]
      /\ \A j \in 1..Len(in) : in[j] \in Int
  <2>1. in \in Seq(Int) /\ \A j \in 1..Len(in) : in[j] \in Int
    BY DEF Stream
  <2>2. sent \in Seq(Int) /\ Len(sent) = 7 + n /\ sent[6] = n
    BY DEF IsSent
  <2>3. in[6] \in Nat /\ Len(in) = 7 + in[6]
    BY WireAssumption DEF IsWhole
  <2> QED
    BY <2>1, <2>2, <2>3
<1>1. CASE IsPrefix(in, sent)
  <2>1. Len(in) <= Len(sent) /\ in = SubSeq(sent, 1, Len(in))
    <3>1. Len(in) <= Len(sent) /\ SubSeq(in, 1, Len(in)) = SubSeq(sent, 1, Len(in))
      BY <1>1 DEF IsPrefix
    <3> QED
      BY <1>0, <3>1, SubSeqFull
  <2>2. in[6] = sent[6]
    <3>1. 6 \in 1..Len(in) /\ 6 \in 1..Len(sent)
      BY <1>0
    <3> QED
      BY <1>0, <2>1, <3>1
  <2> QED
    BY <1>0, <2>1, <2>2, SubSeqFull
<1>2. CASE IsPrefix(sent, in)
  <2>1. Len(sent) <= Len(in) /\ sent = SubSeq(in, 1, Len(sent))
    <3>1. Len(sent) <= Len(in) /\ SubSeq(sent, 1, Len(sent)) = SubSeq(in, 1, Len(sent))
      BY <1>2 DEF IsPrefix
    <3> QED
      BY <1>0, <3>1, SubSeqFull
  <2>2. in[6] = sent[6]
    <3>1. 6 \in 1..Len(in) /\ 6 \in 1..Len(sent)
      BY <1>0
    <3> QED
      BY <1>0, <2>1, <3>1
  <2> QED
    BY <1>0, <2>1, <2>2, SubSeqFull
<1>3. ASSUME Len(in) = Len(sent), NEW i \in DOMAIN sent,
             \A j \in DOMAIN sent \ {i} : in[j] = sent[j]
      PROVE  in = sent
  <2>1. in[6] = n /\ i \in 1..(7 + n)
    BY <1>0, <1>3
  <2>2. \A j \in 1..(7 + n) : j # i => in[j] = sent[j]
    <3>1. DOMAIN sent = 1..(7 + n)
      BY <1>0
    <3> QED
      BY <1>3, <3>1
  <2> DEFINE s == SubSeq(sent, 1, 6 + n)
             t == SubSeq(in, 1, 6 + n)
  <2>3. /\ s \in Stream /\ Len(s) = 6 + n /\ \A j \in 1..(6 + n) : s[j] = sent[j]
        /\ t \in Stream /\ Len(t) = 6 + n /\ \A j \in 1..(6 + n) : t[j] = in[j]
    BY <1>0, <2>1 DEF Stream
  <2>4. sent[7 + n] = Checksum(s) /\ in[7 + n] = Checksum(t)
    BY <1>0, <2>1 DEF IsSent, IsWhole
  <2> HIDE DEF s, t
  <2>5. in[i] = sent[i]
    <3>1. CASE i = 7 + n
      <4>1. s = t
        <5>1. Len(s) = Len(t) /\ \A j \in 1..Len(s) : s[j] = t[j]
          BY <2>2, <2>3, <3>1
        <5> QED
          BY <2>3, <5>1, SeqEqual DEF Stream
      <4> QED
        BY <2>4, <3>1, <4>1
    <3>2. CASE i \in 1..(6 + n)
      <4>1. Checksum(s) = Checksum(t)
        BY <2>2, <2>4, <3>2
      <4>2. /\ Len(s) = Len(t) /\ i \in 1..Len(s)
            /\ \A j \in 1..Len(s) : j # i => s[j] = t[j]
        BY <2>2, <2>3, <3>2
      <4>3. s[i] = t[i]
        BY <2>3, <4>1, <4>2, ChecksumDetects
      <4> QED
        BY <2>3, <3>2, <4>3
    <3> QED
      BY <2>1, <3>1, <3>2
  <2>6. \A j \in 1..Len(in) : in[j] = sent[j]
    BY <1>0, <1>3, <2>2, <2>5
  <2> QED
    BY <1>0, <1>3, <2>6, SeqEqual
<1> QED
  BY <1>1, <1>2, <1>3 DEF Arrived

\* What arrives is the frame that was sent, whole and unchanged, or it is
\* refused, whichever of its tokens was damaged.
THEOREM FramesAreWhole == Spec => []FrameIsWholeOrRefused
<1>1. Answered => FrameIsWholeOrRefused
  <2> SUFFICES ASSUME Answered, call = "receive", result # Nothing
               PROVE  result = IF /\ EncodeFrame(input.frame).ok
                                  /\ input.received = EncodeFrame(input.frame).value
                               THEN Got(input.frame, <<>>)
                               ELSE Fail
    BY DEF FrameIsWholeOrRefused
  <2> DEFINE frame == input.frame
             in == input.received
             n == Len(frame.payload)
             sent == Sent(frame)
             legal == n <= MaxFrame /\ frame.type \in MessageType
  <2>1. input \in Deliveries /\ result = DecodeFrame(in)
    BY DEF Answered, Answers
  <2>2. IsFrame(frame) /\ in \in Stream /\ Arrived(EncodeFrame(frame).value, in)
    BY <2>1, AlgorithmsAssumption
  <2>3. EncodeFrame(frame).ok = legal /\ EncodeFrame(frame).value = sent
    BY Encoded DEF Made
  <2>4. n \in Nat /\ IsSent(sent, frame, n) /\ n = Len(frame.payload)
    BY <2>2, SentFields
  <2>5. result = IF IsWhole(in) THEN Got(FrameIn(in), <<>>) ELSE Fail
    BY <2>1, <2>2, FrameDecoded
  <2>6. IsWhole(in) <=> in = sent /\ legal
    <3>1. IsWhole(in) => in = sent
      <4> HIDE DEF in, sent, frame, n
      <4> QED
        BY <2>2, <2>3, <2>4, DamagedFrame
    <3>2. IsWhole(sent) <=> legal
      <4> HIDE DEF sent, frame, n
      <4> QED
        BY <2>2, <2>4, WholeFrame
    <3> HIDE DEF in, sent, legal
    <3> QED
      BY <3>1, <3>2
  <2>7. FrameIn(sent) = frame
    <3> HIDE DEF sent, frame, n
    <3> QED
      BY <2>2, <2>4, WholeFrame
  <2>8. result = IF EncodeFrame(frame).ok /\ in = EncodeFrame(frame).value
                 THEN Got(frame, <<>>) ELSE Fail
    <3> HIDE DEF in, sent, legal, frame
    <3> QED
      BY <2>3, <2>5, <2>6, <2>7
  <2> QED
    BY <2>8
<1> QED
  BY <1>1, AnsweredInvariant, PTL

-----------------------------------------------------------------------------
(* The bounds a requirement reads from a numeric value.                    *)

\* The four numeric conditions are about the bounds of the value.
LEMMA HoldsOfQuantity ==
    ASSUME NEW value, NEW state, NEW quantity, NEW unit
    PROVE  LET answer == [state |-> state, value |-> value]
               Meets(kind) == Tree!Holds(Condition(kind, quantity, unit), answer)
           IN  /\ Meets("Minimum") <=> Tree!Upper(value) >= quantity
               /\ Meets("Maximum") <=> Tree!Lower(value) <= quantity
               /\ Meets("RangeContains") <=> /\ value.kind # "NumericSet"
                                             /\ Tree!Lower(value) <= quantity
                                             /\ quantity <= Tree!Upper(value)
               /\ Meets("InSet") <=> /\ value.kind = "NumericSet"
                                     /\ Contains(value.members, quantity)
<1> DEFINE answer == [state |-> state, value |-> value]
           node(kind) == Condition(kind, quantity, unit)
<1>1. Tree!Holds(node("Minimum"), answer) <=> Tree!Upper(value) >= quantity
  BY DEF Tree!Holds, Condition
<1>2. Tree!Holds(node("Maximum"), answer) <=> Tree!Lower(value) <= quantity
  BY DEF Tree!Holds, Condition
<1>3. Tree!Holds(node("RangeContains"), answer) <=>
         /\ value.kind # "NumericSet"
         /\ Tree!Lower(value) <= quantity /\ quantity <= Tree!Upper(value)
  BY DEF Tree!Holds, Condition
<1>4. Tree!Holds(node("InSet"), answer) <=>
         value.kind = "NumericSet" /\ Contains(value.members, quantity)
  BY DEF Tree!Holds, Condition, Tree!Contains, Contains
<1> QED
  BY <1>1, <1>2, <1>3, <1>4

\* The bounds of a numeric value hold each quantity that is in it.
LEMMA BoundsHold ==
    ASSUME NEW w, Given(w), Canonical(w), w.kind \in Numeric, NEW quantity \in Nat
    PROVE  LET lower == Tree!Lower(w)
               upper == Tree!Upper(w)
           IN  /\ w.kind = "NumericSet" /\ Contains(w.members, quantity)
                     => upper >= quantity /\ lower <= quantity
               /\ w.kind # "NumericSet" => lower \in Nat /\ upper \in Nat
<1>1. CASE w.kind = "Quantity"
  BY <1>1 DEF Given, Tree!Lower, Tree!Upper
<1>2. CASE w.kind = "NumericRange"
  BY <1>2 DEF Given, Tree!Lower, Tree!Upper
<1>3. CASE w.kind = "NumericSet"
  <2>1. w.members \in Seq(Nat)
    BY <1>3 DEF Given
  <2>2. StrictlySorted(w) /\ Sized(w.members, MaxCardinality)
    BY <1>3 DEF Canonical
  <2>3. Tree!Lower(w) = Head(w.members) /\ Tree!Upper(w) = Last(w.members)
    <3>1. Tree!Lower(w) = Head(w.members)
      BY <1>3, Zenon DEF Tree!Lower
    <3>2. Tree!Upper(w) = Last(w.members)
      BY <1>3, Zenon DEF Tree!Upper, Tree!Last, Last
    <3> QED
      BY <3>1, <3>2
  <2>4. ASSUME Contains(w.members, quantity)
        PROVE  Head(w.members) <= quantity /\ quantity <= Last(w.members)
    BY <1>3, <2>1, <2>2, <2>4, EndsAreBounds
  <2>5. \A i \in 1..Len(w.members) : w.members[i] \in Nat
    BY <2>1
  <2>6. Head(w.members) \in Nat /\ Last(w.members) \in Nat
    <3> DEFINE m == w.members
    <3>1. m \in Seq(Nat) /\ Len(m) \in Nat \ {0}
      BY <2>1, <2>2 DEF Sized
    <3> HIDE DEF m
    <3>2. Head(m) = m[1] /\ Last(m) = m[Len(m)] /\ m[1] \in Nat /\ m[Len(m)] \in Nat
      BY <3>1 DEF Last
    <3> QED
      BY <3>2 DEF m
  <2> QED
    BY <1>3, <2>3, <2>4, <2>6
<1> QED
  BY <1>1, <1>2, <1>3 DEF Numeric

\* A claim that is accepted is one whose value was constructed and stays as it is.
LEMMA ClaimReturned ==
    ASSUME NEW claim, NEW answer, claim \in Claims, answer = ClaimAnswer(claim), answer.ok
    PROVE  /\ Stays(claim.value, answer.value) /\ answer = Made(TRUE, answer.value)
           /\ Accepts(claim.descriptor, answer.value)
<1>1. Construct(claim.value).ok /\ answer = Construct(claim.value)
      /\ Accepts(claim.descriptor, answer.value)
  BY DEF ClaimAnswer, Fail
<1>2. Given(claim.value)
  BY AlgorithmsAssumption
<1>3. PICK w : Stays(claim.value, w)
  BY <1>1, <1>2, ConstructStays
<1>4. answer = Made(TRUE, w)
  BY <1>1, <1>3 DEF Stays
<1>5. answer.value = w
  BY <1>4 DEF Made
<1> QED
  BY <1>1, <1>3, <1>4, <1>5

\* A quantity that a requirement finds in a value is within the minimum and
\* the maximum it reads from it (ExtractQuantity).
THEOREM BoundsAreRead == Spec => []MembersWithinBounds
<1>1. Answered => MembersWithinBounds
  <2> SUFFICES ASSUME Answered, Returned("claim"), result.value.kind \in Numeric,
                      NEW quantity \in 0..MaxQuantity
               PROVE  LET answer == [state |-> "Supported", value |-> result.value]
                          Meets(kind) ==
                              Tree!Holds(Condition(kind, quantity, result.value.unit), answer)
                          within == Meets("Minimum") /\ Meets("Maximum")
                      IN  /\ Meets("InSet") => within
                          /\ result.value.kind # "NumericSet" =>
                                (Meets("RangeContains") <=> within)
    BY DEF MembersWithinBounds
  <2> DEFINE w == result.value
  <2>1. Given(w) /\ Canonical(w)
    <3>1. input \in Claims /\ result = ClaimAnswer(input) /\ result.ok
      BY DEF Answered, Answers, Returned
    <3> QED
      BY <3>1, ClaimReturned DEF Stays
  <2>2. quantity \in Nat
    BY ValuesAssumption DEF Unsigned
  <2>3. /\ w.kind = "NumericSet" /\ Contains(w.members, quantity)
              => Tree!Upper(w) >= quantity /\ Tree!Lower(w) <= quantity
        /\ w.kind # "NumericSet" => Tree!Lower(w) \in Nat /\ Tree!Upper(w) \in Nat
    BY <2>1, <2>2, BoundsHold
  <2> HIDE DEF w
  <2> QED
    BY <2>2, <2>3, HoldsOfQuantity DEF w
<1> QED
  BY <1>1, AnsweredInvariant, PTL

-----------------------------------------------------------------------------
(* What is accepted and what is decoded is read back as it was, and values *)
(* that are encoded alike are the same.                                    *)

\* A value that reads back makes the round trip.
LEMMA ReadsBackRoundTrips ==
    ASSUME NEW v, ReadsBack(v)
    PROVE  RoundTrips(v)
<1>1. <<>> \in Stream /\ <<0>> \in Stream /\ <<1, 0>> \in Stream
  BY DEF Stream
<1> QED
  BY <1>1 DEF ReadsBack, RoundTrips

\* A value the schema accepts is read back from its encoding
\* (ValidateValueAgainstDescriptor admits it, DecodePayload reads it), unless
\* it holds an integer or a scalar that the decoder does not read.
THEOREM AcceptedReadsBack == Spec => []AcceptedIsStorable
<1>1. Answered => AcceptedIsStorable
  <2> SUFFICES ASSUME Answered, Returned("claim"), ~HasUnreadable(result.value)
               PROVE  RoundTrips(result.value)
    BY DEF AcceptedIsStorable
  <2>1. input \in Claims /\ result = ClaimAnswer(input) /\ result.ok
    BY DEF Answered, Answers, Returned
  <2>2. Storable(result.value)
    BY <2>1, ClaimReturned DEF Stays, Storable
  <2> QED
    BY <2>2, StorableReads, ReadsBackRoundTrips
<1> QED
  BY <1>1, AnsweredInvariant, PTL

\* Whatever bytes a client sends or a file holds, a value that is decoded is
\* canonical, and it is read back from its own encoding
\* (CapabilityValue::Decode, ValidateCanonical).
THEOREM DecodedReadsBack == Spec => []DecodedRoundTrips
<1>1. Answered => DecodedRoundTrips
  <2> SUFFICES ASSUME Answered, Returned("decode")
               PROVE  Canonical(result.value) /\ RoundTrips(result.value)
    BY DEF DecodedRoundTrips
  <2>1. input \in Inputs /\ result = Decode(input) /\ result.ok
    BY DEF Answered, Answers, Returned
  <2>2. input \in Stream
    BY <2>1, AlgorithmsAssumption
  <2>3. PICK v, left : result = Got(v, left) /\ Storable(v)
    <3>1. result # Fail
      BY <2>1 DEF Fail
    <3> QED
      BY <2>1, <2>2, <3>1, DecodeTyped DEF StorableReading
  <2>4. result.value = v
    BY <2>3 DEF Got
  <2> QED
    BY <2>3, <2>4, StorableIs, StorableReads, ReadsBackRoundTrips
<1> QED
  BY <1>1, AnsweredInvariant, PTL

\* Two claims agree exactly when they are encoded alike, except that two
\* versions can be equal and encoded apart (operator== of value.cpp decides a
\* conflict, Encode the digest).
THEOREM AgreementIsEncoding == Spec => []SameClaimSameEncoding
<1>1. Answered => SameClaimSameEncoding
  <2> SUFFICES ASSUME Answered, Returned("compare")
               PROVE  LET left == Construct(input.left).value
                          right == Construct(input.right).value
                      IN  IF left.kind = "VersionInterval"
                          THEN Encode(left) = Encode(right) => result.same
                          ELSE result.same <=> Encode(left) = Encode(right)
    BY DEF SameClaimSameEncoding
  <2> DEFINE v == Construct(input.left).value
             w == Construct(input.right).value
  <2>1. input \in Comparisons /\ result = ComparisonAnswer(input) /\ result.ok
    BY DEF Answered, Answers, Returned
  <2>2. Construct(input.left).ok /\ Construct(input.right).ok /\ result.same = SameValue(v, w)
    BY <2>1 DEF ComparisonAnswer, Fail
  <2>3. Given(input.left) /\ Given(input.right)
    BY <2>1, AlgorithmsAssumption
  <2>4. ASSUME NEW x, Given(x), Construct(x).ok PROVE Constructed(Construct(x).value)
    <3>1. PICK y : Stays(x, y)
      BY <2>4, ConstructStays
    <3>2. Construct(x).value = y
      BY <3>1 DEF Stays, Made
    <3> QED
      BY <3>1, <3>2 DEF Stays, Constructed
  <2>5. Constructed(v) /\ Constructed(w)
    BY <2>2, <2>3, <2>4
  <2> HIDE DEF v, w
  <2>6. SameValue(v, v)
    BY Zenon DEF SameValue, SameVersion
  <2>7. Encode(v) = Encode(w) => SameValue(v, w)
    BY <2>5, <2>6, EncodedOnce
  <2>8. v.kind # "VersionInterval" /\ SameValue(v, w) => v = w
    BY Zenon DEF SameValue
  <2>9. IF v.kind = "VersionInterval"
        THEN Encode(v) = Encode(w) => result.same
        ELSE result.same <=> Encode(v) = Encode(w)
    BY <2>2, <2>7, <2>8
  <2> QED
    BY <2>9 DEF v, w
<1> QED
  BY <1>1, AnsweredInvariant, PTL

-----------------------------------------------------------------------------
(* The parts of a message are read as they were written.                   *)

\* Every field of a message is a token.
LEMMA WireSets ==
    /\ {Name, State, Mode, Status, Provenance, SourceClass, Durability, Coverage, Operation,
        DiffKind, Word, Digest, ErrorCode, Optional, Bit} \subseteq SUBSET Int
    /\ EmptyText \in Int
<1>1. Name \subseteq Int /\ Bit \subseteq Int /\ Unsigned \subseteq Int
  BY Tokens
<1>2. \A n : Enumerators(n) \subseteq Int
  BY DEF Enumerators
<1>3. /\ State \subseteq Int /\ Mode \subseteq Int /\ Status \subseteq Int
      /\ Provenance \subseteq Int /\ SourceClass \subseteq Int /\ Durability \subseteq Int
      /\ Coverage \subseteq Int /\ Operation \subseteq Int /\ DiffKind \subseteq Int
  BY <1>2 DEF State, Mode, Status, Provenance, SourceClass, Durability, Coverage, Operation,
     DiffKind
<1>4. /\ Word \subseteq Int /\ Digest \subseteq Int /\ ErrorCode \subseteq Int
      /\ Optional \subseteq Int
  BY <1>1 DEF Word, Digest, ErrorCode, Optional
<1> QED
  BY <1>1, <1>3, <1>4 DEF EmptyText

\* Layouts are sequences of sets of tokens.
Layout == Seq(SUBSET Int)

\* The fields of a layout are read back.
LEMMA LayoutReads ==
    ASSUME NEW layout \in Layout, NEW f \in FieldsOf(layout), NEW r \in Stream
    PROVE  Fields(f \o r, layout) = Got(f, r) /\ f \in Stream
<1>1. DOMAIN layout = 1..Len(layout)
  BY DEF Layout
<1>2. f \in Stream /\ Len(f) = Len(layout) /\ \A i \in DOMAIN layout : f[i] \in layout[i]
  BY DEF FieldsOf
<1>3. Fit(f, layout)
  BY <1>1, <1>2 DEF Fit
<1> QED
  BY <1>2, <1>3, FieldsRead

\* The parts of a stream come off its front one after the other.
OffInTwo(a, b, r) ==
    (a \o b) \o r = a \o (b \o r) /\ a \o b \in Stream /\ b \o r \in Stream

\* The same of three parts.
OffInThree(a, b, c, r) ==
    /\ (a \o b \o c) \o r = a \o (b \o (c \o r)) /\ a \o b \o c \in Stream
    /\ c \o r \in Stream /\ b \o (c \o r) \in Stream

\* The same of four parts.
OffInFour(a, b, c, d, r) ==
    /\ (a \o b \o c \o d) \o r = a \o (b \o (c \o (d \o r))) /\ a \o b \o c \o d \in Stream
    /\ d \o r \in Stream /\ c \o (d \o r) \in Stream /\ b \o (c \o (d \o r)) \in Stream

\* Two streams come off in order.
LEMMA TwoParts ==
    ASSUME NEW a \in Stream, NEW b \in Stream, NEW r \in Stream
    PROVE  OffInTwo(a, b, r)
BY Joins, Associates DEF OffInTwo

\* Three streams come off in order.
LEMMA ThreeParts ==
    ASSUME NEW a \in Stream, NEW b \in Stream, NEW c \in Stream, NEW r \in Stream
    PROVE  OffInThree(a, b, c, r)
<1> DEFINE cr == c \o r  ab == a \o b
<1>1. cr \in Stream /\ ab \in Stream
  BY Joins
<1>2. OffInTwo(ab, c, r)
  <2> HIDE DEF ab
  <2> QED
    BY <1>1, TwoParts
<1>3. OffInTwo(a, b, cr)
  <2> HIDE DEF cr
  <2> QED
    BY <1>1, TwoParts
<1> QED
  BY <1>1, <1>2, <1>3 DEF OffInTwo, OffInThree

\* Four streams come off in order.
LEMMA FourParts ==
    ASSUME NEW a \in Stream, NEW b \in Stream, NEW c \in Stream, NEW d \in Stream,
           NEW r \in Stream
    PROVE  OffInFour(a, b, c, d, r)
<1> DEFINE dr == d \o r  abc == a \o b \o c
<1>1. dr \in Stream /\ abc \in Stream
  <2>1. OffInThree(a, b, c, r)
    BY ThreeParts
  <2> QED
    BY <2>1, Joins DEF OffInThree
<1>2. OffInThree(a, b, c, dr)
  <2> HIDE DEF dr
  <2> QED
    BY <1>1, ThreeParts
<1>3. OffInTwo(abc, d, r)
  <2> HIDE DEF abc
  <2> QED
    BY <1>1, TwoParts
<1> QED
  BY <1>1, <1>2, <1>3 DEF OffInTwo, OffInThree, OffInFour

\* A counted list of parts.
LEMMA ListReads ==
    ASSUME NEW V, NEW m \in Seq(V), NEW reader, NEW parts, parts = [i \in DOMAIN m |-> parts[i]],
           \A i \in DOMAIN m : ReadsPart(reader, parts[i], m[i]) /\ parts[i] \in Stream,
           NEW max \in Nat, Len(m) <= max, NEW r \in Stream
    PROVE  Counted(Listed(parts) \o r, max, reader) = Got(m, r) /\ Listed(parts) \in Stream
<1>1. Len(m) \in Nat /\ DOMAIN m = 1..Len(m)
  BY SeqFacts
<1>2. parts \in Seq(Stream) /\ Len(parts) = Len(m)
  <2>1. parts = [i \in 1..Len(m) |-> parts[i]] /\ \A i \in 1..Len(m) : parts[i] \in Stream
    BY <1>1
  <2> QED
    BY <1>1, <2>1
<1>3. \A n \in 1..Len(m) : ReadsPart(reader, parts[n], m[n])
  BY <1>1
<1>4. Len(m) \in 0..max
  BY <1>1
<1>5. Counted(Listed(parts) \o r, max, reader) = Got(m, r)
  BY <1>2, <1>3, <1>4, ItemsRead
<1>6. FlattenSeq(parts) \in Stream /\ <<Len(parts)>> \in Stream
  <2>1. FlattenSeq(parts) \in Stream
    BY <1>2, FlattenUnrolls
  <2>2. Len(parts) \in Int
    BY <1>1, <1>2
  <2> QED
    BY <2>1, <2>2 DEF Stream
<1> QED
  BY <1>5, <1>6, Joins DEF Listed

\* A counted list of nothing.
LEMMA EmptyListReads ==
    ASSUME NEW reader, NEW max \in Nat, NEW r \in Stream
    PROVE  Counted(Listed(<<>>) \o r, max, reader) = Got(<<>>, r) /\ Listed(<<>>) \in Stream
<1>1. <<>> \in Seq({}) /\ <<>> \in Seq(Stream) /\ Len(<<>>) = 0
  OBVIOUS
<1>2. Len(<<>>) \in 0..max /\ \A n \in 1..Len(<<>>) : ReadsPart(reader, <<>>[n], <<>>[n])
  BY <1>1
<1>3. Counted(Listed(<<>>) \o r, max, reader) = Got(<<>>, r)
  BY <1>1, <1>2, ItemsRead
<1>4. FlattenSeq(<<>>) \in Stream /\ <<Len(<<>>)>> \in Stream
  <2>1. FlattenSeq(<<>>) \in Stream
    BY <1>1, FlattenUnrolls
  <2> QED
    BY <1>1, <2>1 DEF Stream
<1> QED
  BY <1>3, <1>4, Joins DEF Listed

\* A value that may be missing.
LEMMA OptionalReads ==
    ASSUME NEW values, IsOptionalValue(values), NEW r \in Stream
    PROVE  /\ ReadOptional(WriteOptional(values) \o r) = Got(values, r)
           /\ WriteOptional(values) \in Stream
<1>1. CASE values = <<>>
  <2> DEFINE in == <<0>> \o r
             has == Field(in, Bit)
  <2>1. has = Got(0, r) /\ <<0>> \in Stream
    <3>1. 0 \in Bit /\ 0 \in Int /\ <<0>> \in Stream
      BY DEF Bit, Stream
    <3> QED
      BY <3>1, FieldReads
  <2>2. has.ok = TRUE /\ has.value = 0 /\ has.rest = r
    <3> HIDE DEF has
    <3> QED
      BY <2>1 DEF Got
  <2>3. WriteOptional(values) = <<0>>
    BY <1>1 DEF WriteOptional
  <2> HIDE DEF in
  <2>4. ReadOptional(in) = Got(<<>>, r)
    BY <2>2, Zenon DEF ReadOptional, Then
  <2> QED
    BY <1>1, <2>1, <2>3, <2>4 DEF in
<1>2. CASE values # <<>>
  <2> DEFINE v == values[1]
             body == Encode(v) \o r
             in == <<1>> \o body
             has == Field(in, Bit)
             read == Decode(body)
  <2>1. values = <<v>> /\ Storable(v)
    BY <1>2 DEF IsOptionalValue
  <2>2. Encode(v) \in Stream /\ read = Got(v, r)
    BY <2>1, StorableReads DEF ReadsBack
  <2>3. has = Got(1, body) /\ <<1>> \in Stream /\ body \in Stream
    <3>1. body \in Stream
      BY <2>2, Joins
    <3>2. Field(<<1>> \o body, Bit) = Got(1, body) /\ <<1>> \in Stream
      <4> HIDE DEF body
      <4>1. 1 \in Bit /\ 1 \in Int /\ <<1>> \in Stream
        BY DEF Bit, Stream
      <4> QED
        BY <3>1, <4>1, FieldReads
    <3> QED
      BY <3>1, <3>2
  <2>4. has.ok = TRUE /\ has.value = 1 /\ has.rest = body /\ 1 # 0
    <3> HIDE DEF has, body
    <3> QED
      BY <2>3 DEF Got
  <2>5. read.ok = TRUE /\ read.value = v /\ read.rest = r
    <3> HIDE DEF read, v
    <3> QED
      BY <2>2 DEF Got
  <2>6. WriteOptional(values) = <<1>> \o Encode(v)
    BY <1>2 DEF WriteOptional
  <2>7. WriteOptional(values) \o r = in /\ WriteOptional(values) \in Stream
    BY <2>2, <2>3, <2>6, Associates, Joins
  <2> HIDE DEF in, body, v
  <2>8. ReadOptional(in) = Got(<<v>>, r)
    BY <2>4, <2>5, Zenon DEF ReadOptional, Then
  <2> QED
    BY <2>1, <2>7, <2>8
<1> QED
  BY <1>1, <1>2

\* The layouts of a claim.
LEMMA ClaimLayouts == ClaimHead \in Layout /\ ClaimTail \in Layout
BY WireSets DEF ClaimHead, ClaimTail, Layout

\* A claim is read back.
LEMMA ClaimReads ==
    ASSUME NEW claim, IsClaim(claim)
    PROVE  ReadsPart(ReadClaim, WriteClaim(claim), claim) /\ WriteClaim(claim) \in Stream
<1> DEFINE a == claim.head
           b == WriteOptional(claim.value)
           c == claim.tail
<1>1. /\ claim = [head |-> a, value |-> claim.value, tail |-> c]
      /\ a \in FieldsOf(ClaimHead) /\ c \in FieldsOf(ClaimTail) /\ IsOptionalValue(claim.value)
      /\ claim.value # <<[kind |-> "Absent"]>>
  BY DEF IsClaim
<1>2. a \in Stream /\ b \in Stream /\ c \in Stream
  <2>1. <<>> \in Stream
    BY DEF Stream
  <2> QED
    BY <1>1, <2>1, ClaimLayouts, LayoutReads, OptionalReads
<1>3. ASSUME NEW r \in Stream PROVE ReadClaim[WriteClaim(claim) \o r] = Got(claim, r)
  <2> DEFINE in == WriteClaim(claim) \o r
             head == Fields(in, ClaimHead)
             value == ReadOptional(head.rest)
             tail == Fields(value.rest, ClaimTail)
             made == [head |-> head.value, tail |-> tail.value,
                      value |-> IF value.value = <<[kind |-> "Absent"]>> THEN <<>>
                                ELSE value.value]
  <2>1. /\ in = a \o (b \o (c \o r)) /\ in \in Stream
        /\ c \o r \in Stream /\ b \o (c \o r) \in Stream
    <3>1. WriteClaim(claim) = a \o b \o c
      BY DEF WriteClaim
    <3>2. OffInThree(a, b, c, r)
      <4> HIDE DEF a, b, c
      <4> QED
        BY <1>2, ThreeParts
    <3>3. \A s \in Stream : s \o r \in Stream
      BY Joins
    <3> HIDE DEF a, b, c
    <3> QED
      BY <3>1, <3>2, <3>3 DEF OffInThree
  <2>2. head = Got(a, b \o (c \o r))
    BY <1>1, <2>1, ClaimLayouts, LayoutReads
  <2>3. head.ok = TRUE /\ head.value = a /\ head.rest = b \o (c \o r)
    <3> HIDE DEF head
    <3> QED
      BY <2>2 DEF Got
  <2>4. value = Got(claim.value, c \o r)
    <3> HIDE DEF head, b
    <3> QED
      BY <1>1, <2>1, <2>3, OptionalReads DEF b
  <2>5. value.ok = TRUE /\ value.value = claim.value /\ value.rest = c \o r
    <3> HIDE DEF value
    <3> QED
      BY <2>4 DEF Got
  <2>6. tail = Got(c, r)
    <3> HIDE DEF value
    <3> QED
      BY <1>1, <2>5, ClaimLayouts, LayoutReads
  <2>7. tail.ok = TRUE /\ tail.value = c /\ tail.rest = r
    <3> HIDE DEF tail
    <3> QED
      BY <2>6 DEF Got
  <2>8. ReadClaim[in] =
           IF head.ok
           THEN IF value.ok THEN IF tail.ok THEN Got(made, tail.rest) ELSE Fail ELSE Fail
           ELSE Fail
    <3> HIDE DEF in
    <3> QED
      BY <2>1, Zenon DEF ReadClaim, Then
  <2> HIDE DEF head, value, tail, in
  <2>9. made = claim
    BY <1>1, <2>3, <2>5, <2>7
  <2> HIDE DEF made
  <2> QED
    BY <2>3, <2>5, <2>7, <2>8, <2>9 DEF in
<1>4. WriteClaim(claim) \in Stream
  <2>1. OffInThree(a, b, c, c)
    <3> HIDE DEF a, b, c
    <3> QED
      BY <1>2, ThreeParts
  <2> QED
    BY <2>1 DEF WriteClaim, OffInThree
<1> QED
  BY <1>3, <1>4 DEF ReadsPart

\* The layouts of an entry of a difference.
LEMMA EntryLayouts == EntryHead \in Layout /\ EntryTail \in Layout /\ TextPair \in Layout
BY WireSets DEF EntryHead, EntryTail, TextPair, Layout

\* An entry of a difference is read back.
LEMMA DiffEntryReads ==
    ASSUME NEW entry, IsDiffEntry(entry)
    PROVE  ReadsPart(ReadDiffEntry, WriteDiffEntry(entry), entry) /\ WriteDiffEntry(entry) \in Stream
<1> DEFINE a == entry.head
           b == WriteOptional(entry.before)
           c == WriteOptional(entry.after)
           d == entry.tail
<1>1. /\ entry = [head |-> a, before |-> entry.before, after |-> entry.after, tail |-> d]
      /\ a \in FieldsOf(EntryHead) /\ d \in FieldsOf(EntryTail)
      /\ IsOptionalValue(entry.before) /\ IsOptionalValue(entry.after)
  BY DEF IsDiffEntry
<1>2. a \in Stream /\ b \in Stream /\ c \in Stream /\ d \in Stream
  <2>1. <<>> \in Stream
    BY DEF Stream
  <2> QED
    BY <1>1, <2>1, EntryLayouts, LayoutReads, OptionalReads
<1>3. WriteDiffEntry(entry) = a \o b \o c \o d
  BY DEF WriteDiffEntry
<1>4. ASSUME NEW r \in Stream PROVE OffInFour(a, b, c, d, r)
  <2> HIDE DEF a, b, c, d
  <2> QED
    BY <1>2, FourParts
<1>5. ASSUME NEW r \in Stream
      PROVE  ReadDiffEntry[WriteDiffEntry(entry) \o r] = Got(entry, r)
  <2> DEFINE in == WriteDiffEntry(entry) \o r
             dr == d \o r
             cr == c \o dr
             br == b \o cr
             head == Fields(in, EntryHead)
             before == ReadOptional(head.rest)
             after == ReadOptional(before.rest)
             tail == Fields(after.rest, EntryTail)
             made == [head |-> head.value, before |-> before.value, after |-> after.value,
                      tail |-> tail.value]
  <2>1. in = a \o br /\ in \in Stream /\ dr \in Stream /\ cr \in Stream /\ br \in Stream
    <3>1. OffInFour(a, b, c, d, r)
      BY <1>4
    <3>2. \A s \in Stream : s \o r \in Stream
      BY Joins
    <3> HIDE DEF a, b, c, d
    <3> QED
      BY <1>3, <3>1, <3>2 DEF OffInFour
  <2>2. head = Got(a, br)
    <3> HIDE DEF br
    <3> QED
      BY <1>1, <2>1, EntryLayouts, LayoutReads
  <2>3. head.ok = TRUE /\ head.value = a /\ head.rest = br
    <3> HIDE DEF head, br
    <3> QED
      BY <2>2 DEF Got
  <2>4. before = Got(entry.before, cr)
    <3> HIDE DEF head, cr
    <3> QED
      BY <1>1, <2>1, <2>3, OptionalReads
  <2>5. before.ok = TRUE /\ before.value = entry.before /\ before.rest = cr
    <3> HIDE DEF before, cr
    <3> QED
      BY <2>4 DEF Got
  <2>6. after = Got(entry.after, dr)
    <3> HIDE DEF before, dr
    <3> QED
      BY <1>1, <2>1, <2>5, OptionalReads
  <2>7. after.ok = TRUE /\ after.value = entry.after /\ after.rest = dr
    <3> HIDE DEF after, dr
    <3> QED
      BY <2>6 DEF Got
  <2>8. tail = Got(d, r)
    <3> HIDE DEF after
    <3> QED
      BY <1>1, <2>7, EntryLayouts, LayoutReads
  <2>9. tail.ok = TRUE /\ tail.value = d /\ tail.rest = r
    <3> HIDE DEF tail
    <3> QED
      BY <2>8 DEF Got
  <2>10. ReadDiffEntry[in] =
            IF head.ok
            THEN IF before.ok
                 THEN IF after.ok THEN IF tail.ok THEN Got(made, tail.rest) ELSE Fail ELSE Fail
                 ELSE Fail
            ELSE Fail
    <3> HIDE DEF in
    <3> QED
      BY <2>1, Zenon DEF ReadDiffEntry, Then
  <2> HIDE DEF head, before, after, tail, in, dr, cr, br
  <2>11. made = entry
    BY <1>1, <2>3, <2>5, <2>7, <2>9
  <2> HIDE DEF made
  <2> QED
    BY <2>3, <2>5, <2>7, <2>9, <2>10, <2>11 DEF in
<1>6. WriteDiffEntry(entry) \in Stream
  <2>1. OffInFour(a, b, c, d, d)
    BY <1>2, <1>4
  <2> QED
    BY <1>3, <2>1 DEF OffInFour
<1> QED
  BY <1>5, <1>6 DEF ReadsPart

\* A pair of texts is read back.
LEMMA PairReads ==
    ASSUME NEW p \in Pair
    PROVE  ReadsPart(ReadPair, p, p) /\ p \in Stream
<1>1. p \in FieldsOf(TextPair)
  BY DEF Pair
<1>2. ASSUME NEW r \in Stream PROVE p \in Stream /\ ReadPair[p \o r] = Got(p, r)
  <2>1. Fields(p \o r, TextPair) = Got(p, r) /\ p \in Stream
    BY <1>1, EntryLayouts, LayoutReads
  <2>2. p \o r \in Stream
    BY <2>1, Joins
  <2> QED
    BY <2>1, <2>2 DEF ReadPair
<1>3. <<>> \in Stream
  BY DEF Stream
<1> QED
  BY <1>2, <1>3 DEF ReadsPart

\* A sequence of plain records is the sequence of their encodings.
LEMMA RecordsRead ==
    ASSUME NEW V, NEW m \in Seq(V), NEW reader, \A x \in V : ReadsPart(reader, x, x) /\ x \in Stream,
           NEW max \in Nat, Len(m) <= max, NEW r \in Stream
    PROVE  Counted(Listed(m) \o r, max, reader) = Got(m, r) /\ Listed(m) \in Stream
<1>1. m = [i \in DOMAIN m |-> m[i]] /\ \A i \in DOMAIN m : m[i] \in V
  OBVIOUS
<1>2. \A i \in DOMAIN m : ReadsPart(reader, m[i], m[i]) /\ m[i] \in Stream
  BY <1>1
<1> QED
  BY <1>1, <1>2, ListReads

\* A step of an explanation.
Step == [head : Pair, fields : Seq(Pair)]

\* A step of an explanation is read back.
LEMMA StepReads ==
    ASSUME NEW step \in Step, Fits(step.fields)
    PROVE  ReadsPart(ReadStep, WriteStep(step), step) /\ WriteStep(step) \in Stream
<1> DEFINE a == step.head
           b == Listed(step.fields)
<1>1. a \in Pair /\ step.fields \in Seq(Pair) /\ step = [head |-> a, fields |-> step.fields]
  BY DEF Step
<1>2. MaxItems \in Nat /\ Len(step.fields) <= MaxItems
  BY WireAssumption DEF Fits
<1>3. ASSUME NEW r \in Stream
      PROVE  b \in Stream /\ Counted(b \o r, MaxItems, ReadPair) = Got(step.fields, r)
  BY <1>1, <1>2, PairReads, RecordsRead
<1>4. a \in Stream /\ b \in Stream
  <2>1. <<>> \in Stream
    BY DEF Stream
  <2> QED
    BY <1>1, <1>3, <2>1, PairReads
<1>5. ASSUME NEW r \in Stream PROVE OffInTwo(a, b, r)
  <2> HIDE DEF a, b
  <2> QED
    BY <1>4, TwoParts
<1>6. ASSUME NEW r \in Stream PROVE ReadStep[WriteStep(step) \o r] = Got(step, r)
  <2> DEFINE in == WriteStep(step) \o r
             br == b \o r
             head == ReadPair[in]
             fields == Counted(head.rest, MaxItems, ReadPair)
             made == [head |-> head.value, fields |-> fields.value]
  <2>1. in = a \o br /\ in \in Stream /\ br \in Stream
    <3>1. OffInTwo(a, b, r) /\ WriteStep(step) = a \o b
      BY <1>5 DEF WriteStep
    <3>2. \A s \in Stream : s \o r \in Stream
      BY Joins
    <3> HIDE DEF a, b
    <3> QED
      BY <3>1, <3>2 DEF OffInTwo
  <2>2. head = Got(a, br)
    <3> HIDE DEF br
    <3> QED
      BY <1>1, <2>1, PairReads DEF ReadsPart
  <2>3. head.ok = TRUE /\ head.value = a /\ head.rest = br
    <3> HIDE DEF head, br
    <3> QED
      BY <2>2 DEF Got
  <2>4. fields = Got(step.fields, r)
    <3> HIDE DEF head
    <3> QED
      BY <1>3, <2>3
  <2>5. fields.ok = TRUE /\ fields.value = step.fields /\ fields.rest = r
    <3> HIDE DEF fields
    <3> QED
      BY <2>4 DEF Got
  <2>6. ReadStep[in] =
            IF head.ok THEN IF fields.ok THEN Got(made, fields.rest) ELSE Fail ELSE Fail
    <3> HIDE DEF in
    <3> QED
      BY <2>1, Zenon DEF ReadStep, Then
  <2> HIDE DEF head, fields, in, br
  <2>7. made = step
    BY <1>1, <2>3, <2>5
  <2> HIDE DEF made
  <2> QED
    BY <2>3, <2>5, <2>6, <2>7 DEF in
<1>7. WriteStep(step) \in Stream
  <2>1. OffInTwo(a, b, b)
    BY <1>4, <1>5
  <2> QED
    BY <2>1 DEF WriteStep, OffInTwo
<1> QED
  BY <1>6, <1>7 DEF ReadsPart

\* The lists of an explanation are within their bounds.
ExplanationFits(e) == Fits(e.steps) /\ \A i \in DOMAIN e.steps : Fits(e.steps[i].fields)

\* An explanation is read back.
LEMMA ExplanationReads ==
    ASSUME NEW e \in Explanation, ExplanationFits(e), NEW r \in Stream
    PROVE  /\ ReadExplanation(WriteExplanation(e) \o r) = Got(e, r)
           /\ WriteExplanation(e) \in Stream
<1> DEFINE a == e.head
           parts == [i \in DOMAIN e.steps |-> WriteStep(e.steps[i])]
           b == Listed(parts)
<1>1. a \in Pair /\ e.steps \in Seq(Step) /\ e = [head |-> a, steps |-> e.steps]
  BY DEF Explanation, Step
<1>2. MaxItems \in Nat /\ Len(e.steps) <= MaxItems
  BY WireAssumption DEF Fits, ExplanationFits
<1>3. \A i \in DOMAIN e.steps : ReadsPart(ReadStep, parts[i], e.steps[i]) /\ parts[i] \in Stream
  <2> TAKE i \in DOMAIN e.steps
  <2>1. e.steps[i] \in Step /\ Fits(e.steps[i].fields)
    BY <1>1 DEF ExplanationFits
  <2>2. parts[i] = WriteStep(e.steps[i])
    OBVIOUS
  <2> HIDE DEF parts
  <2> QED
    BY <2>1, <2>2, StepReads
<1>4. Counted(b \o r, MaxItems, ReadStep) = Got(e.steps, r) /\ b \in Stream
  <2>1. parts = [i \in DOMAIN e.steps |-> parts[i]]
    OBVIOUS
  <2> HIDE DEF parts
  <2> QED
    BY <1>1, <1>2, <1>3, <2>1, ListReads
<1>5. a \in Stream
  BY <1>1, PairReads
<1>6. OffInTwo(a, b, r)
  <2> HIDE DEF a, b
  <2> QED
    BY <1>4, <1>5, TwoParts
<1>7. WriteExplanation(e) = a \o b
  BY DEF WriteExplanation
<1> DEFINE in == WriteExplanation(e) \o r
           br == b \o r
           head == ReadPair[in]
           steps == Counted(head.rest, MaxItems, ReadStep)
           made == [head |-> head.value, steps |-> steps.value]
<1>8. in = a \o br /\ br \in Stream
  <2> HIDE DEF a, b
  <2> QED
    BY <1>6, <1>7 DEF OffInTwo
<1>9. head = Got(a, br)
  <2> HIDE DEF br
  <2> QED
    BY <1>1, <1>8, PairReads DEF ReadsPart
<1>10. head.ok = TRUE /\ head.value = a /\ head.rest = br
  <2> HIDE DEF head, br
  <2> QED
    BY <1>9 DEF Got
<1>11. steps = Got(e.steps, r)
  <2> HIDE DEF head, b
  <2> QED
    BY <1>4, <1>10
<1>12. steps.ok = TRUE /\ steps.value = e.steps /\ steps.rest = r
  <2> HIDE DEF steps
  <2> QED
    BY <1>11 DEF Got
<1>13. ReadExplanation(in) =
          IF head.ok THEN IF steps.ok THEN Got(made, steps.rest) ELSE Fail ELSE Fail
  <2> HIDE DEF in
  <2> QED
    BY Zenon DEF ReadExplanation, Then
<1>14. WriteExplanation(e) \in Stream
  BY <1>6, <1>7 DEF OffInTwo
<1> HIDE DEF head, steps, in, br
<1>15. made = e
  BY <1>1, <1>10, <1>12
<1> HIDE DEF made
<1> QED
  BY <1>10, <1>12, <1>13, <1>14, <1>15 DEF in

\* The layouts of the messages.
LEMMA MessageLayouts ==
    /\ RequestLayout \in Layout /\ ResultLayout \in Layout /\ HelloLayout \in Layout
    /\ \A type \in DOMAIN PlainLayout : PlainLayout[type] \in Layout
<1> USE WireSets DEF Layout
<1>1. AuthorityLayout \in Layout /\ HelloLayout \in Layout
  BY DEF AuthorityLayout, HelloLayout
<1>2. <<Mode, Name, Name, Word>> \in Layout /\ <<Name, Word, Word, Coverage, Optional>> \in Layout
  OBVIOUS
<1>3. RequestLayout \in Layout
  <2> HIDE DEF Layout
  <2>1. \A s, t \in Layout : s \o t \in Layout
    BY DEF Layout
  <2> QED
    BY <1>1, <1>2, <2>1 DEF RequestLayout
<1>4. /\ <<Status, ErrorCode, Optional, Optional, Optional, Optional>> \in Layout
      /\ [i \in 1..9 |-> Word] \in Layout /\ <<Digest>> \in Layout
      /\ <<Optional, Word, Word, Word, Word, Digest, Digest>> \in Layout
  OBVIOUS
<1>5. ResultLayout \in Layout
  <2> HIDE DEF Layout
  <2>1. \A s, t \in Layout : s \o t \in Layout
    BY DEF Layout
  <2> QED
    BY <1>4, <2>1 DEF ResultLayout
<1>6. \A type \in DOMAIN PlainLayout : PlainLayout[type] \in Layout
  <2> TAKE type \in DOMAIN PlainLayout
  <2>1. type \in {"HelloAck", "Status", "Fence", "Error"}
    BY DEF PlainLayout
  <2>2. /\ PlainLayout.HelloAck = <<Bit, Word, Word, Optional>>
        /\ PlainLayout.Status = <<Optional, Word, Word, Word, Word>>
        /\ PlainLayout.Fence = <<Name, Optional>>
        /\ PlainLayout.Error = <<ErrorCode, Optional>>
    BY DEF PlainLayout
  <2>. HIDE DEF Layout
  <2>7. /\ PlainLayout.HelloAck \in Layout /\ PlainLayout.Status \in Layout
        /\ PlainLayout.Fence \in Layout /\ PlainLayout.Error \in Layout
    <3>1. /\ <<Bit, Word, Word, Optional>> \in Layout /\ <<Name, Optional>> \in Layout
          /\ <<Optional, Word, Word, Word, Word>> \in Layout
          /\ <<ErrorCode, Optional>> \in Layout
      BY DEF Layout
    <3> QED
      BY <2>2, <3>1
  <2>3. CASE type = "HelloAck"
    BY <2>7, <2>3
  <2>4. CASE type = "Status"
    BY <2>7, <2>4
  <2>5. CASE type = "Fence"
    BY <2>7, <2>5
  <2>6. CASE type = "Error"
    BY <2>7, <2>6
  <2> QED
    BY <2>1, <2>3, <2>4, <2>5, <2>6
<1> QED
  BY <1>1, <1>3, <1>5, <1>6

\* A reading that leaves nothing is whole.
LEMMA WholeGot ==
    ASSUME NEW m
    PROVE  Whole(Got(m, <<>>)) = Got(m, <<>>)
BY DEF Whole, Got

\* Sent whole.
SentWhole(m) ==
    EncodeMessage(m).ok = TRUE => DecodeMessage(m.type, EncodeMessage(m).value) = Got(m, <<>>)

\* A message that is one layout arrives whole.
LEMMA PlainArrives ==
    ASSUME NEW m, IsMessage(m), m.type \notin {"Publish", "PublishAck", "Hello"}
    PROVE  SentWhole(m)
<1> DEFINE type == m.type
           f == m.fields
           layout == PlainLayout[type]
           fields == Fields(f, layout)
           made == [type |-> type, fields |-> fields.value]
<1>1. m.type # "Publish" /\ m.type # "PublishAck" /\ m.type # "Hello"
  OBVIOUS
<1>2. type \in DOMAIN PlainLayout /\ m \in [type : {type}, fields : FieldsOf(layout)]
  BY <1>1, Zenon DEF IsMessage
<1>3. f \in FieldsOf(layout) /\ m = [type |-> type, fields |-> f] /\ layout \in Layout
  BY <1>2, MessageLayouts
<1>4. EncodeMessage(m) = Made(TRUE, f)
  BY <1>1, Zenon DEF EncodeMessage
<1>5. EncodeMessage(m).value = f
  BY <1>4 DEF Made
<1>6. fields = Got(f, <<>>)
  <2>1. f \in Stream /\ <<>> \in Stream
    <3>1. <<>> \in Stream
      BY DEF Stream
    <3> QED
      BY <1>3, <3>1, LayoutReads
  <2>2. f \o <<>> = f
    BY <2>1, Joins
  <2>3. Fields(f \o <<>>, layout) = Got(f, <<>>)
    <3> HIDE DEF f, layout
    <3> QED
      BY <1>3, <2>1, LayoutReads
  <2> QED
    BY <2>2, <2>3
<1>7. fields.ok = TRUE /\ fields.value = f /\ fields.rest = <<>>
  <2> HIDE DEF fields
  <2> QED
    BY <1>6 DEF Got
<1>8. DecodeMessage(type, f) = DecodePlain(type, f)
  BY <1>1, Zenon DEF DecodeMessage
<1>9. DecodePlain(type, f) = Whole(IF fields.ok THEN Got(made, fields.rest) ELSE Fail)
  <2> HIDE DEF f, type
  <2> QED
    BY Zenon DEF DecodePlain, Then
<1> HIDE DEF fields
<1>10. made = m
  BY <1>3, <1>7
<1> HIDE DEF made
<1>11. DecodePlain(type, f) = Got(m, <<>>)
  BY <1>7, <1>9, <1>10, WholeGot
<1> QED
  BY <1>5, <1>8, <1>11 DEF SentWhole

\* A greeting arrives whole.
LEMMA HelloArrives ==
    ASSUME NEW m, IsMessage(m), m.type = "Hello"
    PROVE  SentWhole(m)
<1> DEFINE f == m.fields
           names == m.namespaces
           b == ListedFields(names)
           in == f \o b
           fields == Fields(in, HelloLayout)
           read == Counted(fields.rest, MaxItems, FieldOf(Name))
           made == [type |-> "Hello", fields |-> fields.value, namespaces |-> read.value]
<1>1. m \in [type : {"Hello"}, fields : FieldsOf(HelloLayout), namespaces : Seq(Name)]
  BY Zenon DEF IsMessage
<1>2. /\ m = [type |-> "Hello", fields |-> f, namespaces |-> names]
      /\ f \in FieldsOf(HelloLayout) /\ names \in Seq(Name)
  BY <1>1
<1>3. EncodeMessage(m) = EncodeHello(m)
  BY Zenon DEF EncodeMessage
<1>4. EncodeHello(m) = Made(Fits(names), in)
  BY DEF EncodeHello
<1>5. (EncodeMessage(m).ok = TRUE => Fits(names)) /\ EncodeMessage(m).value = in
  <2> DEFINE fit == Fits(names)
  <2>1. EncodeMessage(m) = [ok |-> fit, value |-> in]
    BY <1>3, <1>4, Zenon DEF Made
  <2> HIDE DEF in, fit
  <2>2. EncodeMessage(m).ok = fit /\ EncodeMessage(m).value = in
    BY <2>1
  <2> QED
    BY <2>2, Zenon DEF fit
<1>6. DecodeMessage(m.type, in) = DecodeHello(in)
  BY Zenon DEF DecodeMessage
<1>7. SUFFICES ASSUME Fits(names) PROVE DecodeHello(in) = Got(m, <<>>)
  <2> HIDE DEF in, names
  <2> QED
    BY <1>5, <1>6 DEF SentWhole
<1>8. MaxItems \in Nat /\ Len(names) \in 0..MaxItems /\ Name \subseteq Int
  BY <1>2, <1>7, WireAssumption, Tokens DEF Fits
<1>9. names \in Stream /\ b \in Stream /\ \A i \in 1..Len(names) : names[i] \in Name
  <2>1. names \in Seq(Int) /\ Len(names) \in Int
    BY <1>2, <1>8
  <2>2. <<Len(names)>> \in Stream
    BY <2>1 DEF Stream
  <2> QED
    BY <1>2, <2>1, <2>2, Joins DEF Stream, ListedFields
<1>10. fields = Got(f, b)
  <2> HIDE DEF b, f
  <2> QED
    BY <1>2, <1>9, MessageLayouts, LayoutReads
<1>11. fields.ok = TRUE /\ fields.value = f /\ fields.rest = b
  <2> HIDE DEF fields, b
  <2> QED
    BY <1>10 DEF Got
<1>12. read = Got(names, <<>>)
  <2>1. <<>> \in Stream /\ b \o <<>> = b
    <3> HIDE DEF b
    <3> QED
      BY <1>9, Joins
  <2>2. Counted(b \o <<>>, MaxItems, FieldOf(Name)) = Got(names, <<>>)
    BY <1>2, <1>8, <2>1, ListedFieldsRead
  <2> HIDE DEF fields, b
  <2> QED
    BY <1>11, <2>1, <2>2
<1>13. read.ok = TRUE /\ read.value = names /\ read.rest = <<>>
  <2> HIDE DEF read
  <2> QED
    BY <1>12 DEF Got
<1>14. DecodeHello(in) =
          Whole(IF fields.ok THEN IF read.ok THEN Got(made, read.rest) ELSE Fail ELSE Fail)
  <2> HIDE DEF in
  <2> QED
    BY Zenon DEF DecodeHello, Then
<1> HIDE DEF fields, read, in
<1>15. made = m
  BY <1>2, <1>11, <1>13
<1> HIDE DEF made
<1> QED
  BY <1>11, <1>13, <1>14, <1>15, WholeGot

\* The items of a sequence are those of its set.
LEMMA SequenceItems ==
    ASSUME NEW s, IsSequence(s)
    PROVE  s \in Seq(ToSet(s)) /\ \A i \in DOMAIN s : s[i] \in ToSet(s)
BY DEF IsSequence, ToSet

\* A publication without edits arrives whole.
LEMMA PublishArrives ==
    ASSUME NEW m, IsMessage(m), m.type = "Publish", m.edits = <<>>
    PROVE  SentWhole(m)
<1> DEFINE a == m.fields
           cparts == [i \in DOMAIN m.claims |-> WriteClaim(m.claims[i])]
           eparts == [i \in DOMAIN m.edits |-> WriteEdit(m.edits[i])]
           b == Listed(cparts)
           c == Listed(eparts)
           fit == /\ Fits(m.claims) /\ Fits(m.edits)
                  /\ \A i \in DOMAIN m.edits : m.edits[i].claim.head[1] = EmptyText
           in == a \o b \o c
           fields == Fields(in, RequestLayout)
           claims == Counted(fields.rest, MaxItems, ReadClaim)
           edits == Counted(claims.rest, MaxItems, ReadEdit)
           made == [type |-> "Publish", fields |-> fields.value, claims |-> claims.value,
                    edits |-> edits.value]
<1>1. /\ m = [type |-> "Publish", fields |-> m.fields, claims |-> m.claims, edits |-> m.edits]
      /\ m.fields \in FieldsOf(RequestLayout)
      /\ IsSequence(m.claims) /\ \A claim \in ToSet(m.claims) : IsClaim(claim)
      /\ IsSequence(m.edits)
  BY Zenon DEF IsMessage
<1>2. EncodeMessage(m) = EncodePublicationRequest(m)
  BY Zenon DEF EncodeMessage
<1>3. EncodePublicationRequest(m) = [ok |-> fit, value |-> in]
  BY Zenon DEF EncodePublicationRequest, Made
<1>4. EncodeMessage(m).ok = fit /\ EncodeMessage(m).value = in
  <2> HIDE DEF fit, in
  <2> QED
    BY <1>2, <1>3
<1>5. DecodeMessage(m.type, in) = DecodePublicationRequest(in)
  BY Zenon DEF DecodeMessage
<1>6. SUFFICES ASSUME Fits(m.claims) PROVE DecodePublicationRequest(in) = Got(m, <<>>)
  <2>1. fit = TRUE => Fits(m.claims)
    BY Zenon
  <2> HIDE DEF in, fit
  <2> QED
    BY <1>4, <1>5, <2>1 DEF SentWhole
<1>7. MaxItems \in Nat /\ Len(m.claims) <= MaxItems /\ <<>> \in Stream /\ a \in Stream
  <2>1. <<>> \in Stream
    BY DEF Stream
  <2> QED
    BY <1>1, <1>6, <2>1, WireAssumption, MessageLayouts, LayoutReads DEF Fits
<1>8. \A r \in Stream : Counted(b \o r, MaxItems, ReadClaim) = Got(m.claims, r) /\ b \in Stream
  <2> TAKE r \in Stream
  <2>1. m.claims \in Seq(ToSet(m.claims))
    BY <1>1, SequenceItems
  <2>2. \A i \in DOMAIN m.claims :
            ReadsPart(ReadClaim, cparts[i], m.claims[i]) /\ cparts[i] \in Stream
    <3> TAKE i \in DOMAIN m.claims
    <3>1. IsClaim(m.claims[i]) /\ cparts[i] = WriteClaim(m.claims[i])
      BY <1>1, SequenceItems
    <3> HIDE DEF cparts
    <3> QED
      BY <3>1, ClaimReads
  <2>3. cparts = [i \in DOMAIN m.claims |-> cparts[i]]
    OBVIOUS
  <2> HIDE DEF cparts
  <2> QED
    BY <1>7, <2>1, <2>2, <2>3, ListReads
<1>9. \A r \in Stream : Counted(c \o r, MaxItems, ReadEdit) = Got(m.edits, r) /\ c \in Stream
  <2> TAKE r \in Stream
  <2>1. m.edits = <<>> /\ eparts = <<>>
    OBVIOUS
  <2>2. c = Listed(<<>>)
    BY <2>1
  <2> HIDE DEF c, eparts
  <2> QED
    BY <1>7, <2>1, <2>2, EmptyListReads
<1> DEFINE cr == c \o <<>>
           br == b \o cr
<1>10. b \in Stream /\ c \in Stream /\ cr = c /\ br = b \o c /\ br \in Stream /\ in = a \o br
  <2>1. b \in Stream /\ c \in Stream
    BY <1>7, <1>8, <1>9
  <2>2. OffInTwo(a, b, c)
    <3> HIDE DEF a, b, c
    <3> QED
      BY <1>7, <2>1, TwoParts
  <2> HIDE DEF a, b, c
  <2>3. cr = c
    BY <2>1, Joins
  <2> QED
    BY <2>1, <2>2, <2>3 DEF OffInTwo
<1>11. fields = Got(a, br)
  <2> HIDE DEF a, br
  <2> QED
    BY <1>1, <1>10, MessageLayouts, LayoutReads DEF a
<1>12. fields.ok = TRUE /\ fields.value = a /\ fields.rest = br
  <2> HIDE DEF fields, br
  <2> QED
    BY <1>11 DEF Got
<1>13. claims = Got(m.claims, cr)
  <2> HIDE DEF fields, b, c
  <2> QED
    BY <1>8, <1>10, <1>12
<1>14. claims.ok = TRUE /\ claims.value = m.claims /\ claims.rest = cr
  <2> HIDE DEF claims, cr
  <2> QED
    BY <1>13 DEF Got
<1>15. edits = Got(m.edits, <<>>)
  <2> HIDE DEF claims, c
  <2> QED
    BY <1>7, <1>9, <1>14
<1>16. edits.ok = TRUE /\ edits.value = m.edits /\ edits.rest = <<>>
  <2> HIDE DEF edits
  <2> QED
    BY <1>15 DEF Got
<1>17. DecodePublicationRequest(in) =
          Whole(IF fields.ok
                THEN IF claims.ok THEN IF edits.ok THEN Got(made, edits.rest) ELSE Fail ELSE Fail
                ELSE Fail)
  <2> HIDE DEF in
  <2> QED
    BY Zenon DEF DecodePublicationRequest, Then
<1> HIDE DEF fields, claims, edits, in
<1>18. made = m
  BY <1>1, <1>12, <1>14, <1>16
<1> HIDE DEF made
<1> QED
  BY <1>12, <1>14, <1>16, <1>17, <1>18, WholeGot

\* The acknowledgement of a publication arrives whole, with its difference and explanation.
LEMMA AcknowledgementArrives ==
    ASSUME NEW m, IsMessage(m), m.type = "PublishAck"
    PROVE  SentWhole(m)
<1> DEFINE a == m.fields
           parts == [i \in DOMAIN m.entries |-> WriteDiffEntry(m.entries[i])]
           b == Listed(parts)
           c == WriteExplanation(m.explanation)
           steps == m.explanation.steps
           fit == /\ Fits(m.entries) /\ Fits(steps)
                  /\ \A i \in DOMAIN steps : Fits(steps[i].fields)
           in == a \o b \o c
           fields == Fields(in, ResultLayout)
           entries == Counted(fields.rest, MaxItems, ReadDiffEntry)
           explanation == ReadExplanation(entries.rest)
           made == [type |-> "PublishAck", fields |-> fields.value, entries |-> entries.value,
                    explanation |-> explanation.value]
<1>1. /\ m = [type |-> "PublishAck", fields |-> m.fields, entries |-> m.entries,
              explanation |-> m.explanation]
      /\ m.fields \in FieldsOf(ResultLayout)
      /\ IsSequence(m.entries) /\ \A entry \in ToSet(m.entries) : IsDiffEntry(entry)
      /\ m.explanation \in Explanation
  BY Zenon DEF IsMessage
<1>2. EncodeMessage(m) = EncodePublicationResult(m)
  BY Zenon DEF EncodeMessage
<1>3. EncodePublicationResult(m) = [ok |-> fit, value |-> in]
  BY Zenon DEF EncodePublicationResult, Made
<1>4. EncodeMessage(m).ok = fit /\ EncodeMessage(m).value = in
  <2> HIDE DEF fit, in
  <2> QED
    BY <1>2, <1>3
<1>5. DecodeMessage(m.type, in) = DecodePublicationResult(in)
  BY Zenon DEF DecodeMessage
<1>6. SUFFICES ASSUME Fits(m.entries), ExplanationFits(m.explanation)
               PROVE  DecodePublicationResult(in) = Got(m, <<>>)
  <2>1. fit = TRUE => Fits(m.entries) /\ ExplanationFits(m.explanation)
    BY Zenon DEF ExplanationFits
  <2> HIDE DEF in, fit
  <2> QED
    BY <1>4, <1>5, <2>1 DEF SentWhole
<1>7. MaxItems \in Nat /\ Len(m.entries) <= MaxItems /\ <<>> \in Stream /\ a \in Stream
  <2>1. <<>> \in Stream
    BY DEF Stream
  <2> QED
    BY <1>1, <1>6, <2>1, WireAssumption, MessageLayouts, LayoutReads DEF Fits
<1>8. \A r \in Stream :
          Counted(b \o r, MaxItems, ReadDiffEntry) = Got(m.entries, r) /\ b \in Stream
  <2> TAKE r \in Stream
  <2>1. m.entries \in Seq(ToSet(m.entries))
    BY <1>1, SequenceItems
  <2>2. \A i \in DOMAIN m.entries :
            ReadsPart(ReadDiffEntry, parts[i], m.entries[i]) /\ parts[i] \in Stream
    <3> TAKE i \in DOMAIN m.entries
    <3>1. IsDiffEntry(m.entries[i]) /\ parts[i] = WriteDiffEntry(m.entries[i])
      BY <1>1, SequenceItems
    <3> HIDE DEF parts
    <3> QED
      BY <3>1, DiffEntryReads
  <2>3. parts = [i \in DOMAIN m.entries |-> parts[i]]
    OBVIOUS
  <2> HIDE DEF parts
  <2> QED
    BY <1>7, <2>1, <2>2, <2>3, ListReads
<1>9. \A r \in Stream : ReadExplanation(c \o r) = Got(m.explanation, r) /\ c \in Stream
  BY <1>1, <1>6, ExplanationReads
<1> DEFINE cr == c \o <<>>
           br == b \o cr
<1>10. b \in Stream /\ c \in Stream /\ cr = c /\ br = b \o c /\ br \in Stream /\ in = a \o br
  <2>1. b \in Stream /\ c \in Stream
    BY <1>7, <1>8, <1>9
  <2>2. OffInTwo(a, b, c)
    <3> HIDE DEF a, b, c
    <3> QED
      BY <1>7, <2>1, TwoParts
  <2> HIDE DEF a, b, c
  <2>3. cr = c
    BY <2>1, Joins
  <2> QED
    BY <2>1, <2>2, <2>3 DEF OffInTwo
<1>11. fields = Got(a, br)
  <2> HIDE DEF a, br
  <2> QED
    BY <1>1, <1>10, MessageLayouts, LayoutReads DEF a
<1>12. fields.ok = TRUE /\ fields.value = a /\ fields.rest = br
  <2> HIDE DEF fields, br
  <2> QED
    BY <1>11 DEF Got
<1>13. entries = Got(m.entries, cr)
  <2> HIDE DEF fields, b, c
  <2> QED
    BY <1>8, <1>10, <1>12
<1>14. entries.ok = TRUE /\ entries.value = m.entries /\ entries.rest = cr
  <2> HIDE DEF entries, cr
  <2> QED
    BY <1>13 DEF Got
<1>15. explanation = Got(m.explanation, <<>>)
  <2> HIDE DEF entries, c
  <2> QED
    BY <1>7, <1>9, <1>14
<1>16. /\ explanation.ok = TRUE /\ explanation.value = m.explanation
       /\ explanation.rest = <<>>
  <2> HIDE DEF explanation
  <2> QED
    BY <1>15 DEF Got
<1>17. DecodePublicationResult(in) =
          Whole(IF fields.ok
                THEN IF entries.ok
                     THEN IF explanation.ok THEN Got(made, explanation.rest) ELSE Fail
                     ELSE Fail
                ELSE Fail)
  <2> HIDE DEF in
  <2> QED
    BY Zenon DEF DecodePublicationResult, Then
<1> HIDE DEF fields, entries, explanation, in
<1>18. made = m
  BY <1>1, <1>12, <1>14, <1>16
<1> HIDE DEF made
<1> QED
  BY <1>12, <1>14, <1>16, <1>17, <1>18, WholeGot

\* Every message without edits arrives whole.
LEMMA SentArrives ==
    ASSUME NEW m, IsMessage(m), ~HasEdits(m)
    PROVE  SentWhole(m)
<1>1. CASE m.type = "Publish"
  <2>1. m.edits = <<>>
    BY <1>1 DEF HasEdits
  <2> QED
    BY <1>1, <2>1, PublishArrives
<1>2. CASE m.type = "PublishAck"
  BY <1>2, AcknowledgementArrives
<1>3. CASE m.type = "Hello"
  BY <1>3, HelloArrives
<1>4. CASE m.type \notin {"Publish", "PublishAck", "Hello"}
  BY <1>4, PlainArrives
<1> QED
  BY <1>1, <1>2, <1>3, <1>4

\* A message that could be encoded is decoded by the other side as it was
\* sent; the edits of an incremental publication are excepted.
THEOREM MessagesAreDelivered == Spec => []MessagesArrive
<1>1. Answered => MessagesArrive
  <2> SUFFICES ASSUME Answered, Returned("send"), ~HasEdits(input)
               PROVE  result.decoded = Got(input, <<>>)
    BY DEF MessagesArrive, Arrives
  <2> DEFINE m == input
             encoded == EncodeMessage(m)
             decoded == DecodeMessage(m.type, encoded.value)
  <2>1. call = "send" /\ result # Nothing /\ result.ok = TRUE
    <3>1. call = "send" /\ result # Nothing /\ result.ok
      BY DEF Returned
    <3> QED
      BY <3>1
  <2>2. m \in Messages /\ result = MessageAnswer(m)
    BY <2>1 DEF Answered, Answers
  <2>3. result = IF encoded.ok THEN [ok |-> TRUE, decoded |-> decoded] ELSE Fail
    BY <2>2, Zenon DEF MessageAnswer
  <2>4. IsMessage(m)
    BY <2>2, AlgorithmsAssumption
  <2>5. encoded.ok = TRUE => decoded = Got(m, <<>>)
    BY <2>4, SentArrives DEF SentWhole
  <2> HIDE DEF encoded, decoded, m
  <2>6. Fail.ok = FALSE
    BY DEF Fail
  <2>7. encoded.ok
    BY <2>1, <2>3, <2>6
  <2>8. result.decoded = decoded
    BY <2>3, <2>7
  <2>9. encoded.ok = TRUE
    BY <2>7
  <2> QED
    BY <2>5, <2>8, <2>9 DEF m
<1> QED
  BY <1>1, AnsweredInvariant, PTL

-----------------------------------------------------------------------------
(* The records of a payload are read as they were written.                 *)

\* The fields of a stored record are layouts.
LEMMA RecordLayouts ==
    /\ ClaimFields \in Layout /\ ClaimNotes \in Layout /\ EntityFields \in Layout
    /\ CapabilityFields \in Layout /\ FloorFields \in Layout /\ HistoryFields \in Layout
    /\ GrantFields \in Layout /\ MetaFields \in Layout /\ FenceFields \in Layout
    /\ RegistrationFields \in Layout
<1>1. Currentness \in SUBSET Int /\ Word \ {0} \in SUBSET Int /\ 0..MaxItems \in SUBSET Int
  BY WireSets, WireAssumption DEF Currentness, Enumerators
<1>2. /\ [i \in 1..8 |-> Name] \in Layout /\ [i \in 1..3 |-> Word] \in Layout
      /\ <<Provenance, SourceClass, Durability, Coverage, State, Currentness>> \in Layout
  BY <1>1, WireSets DEF Layout
<1>3. ClaimFields \in Layout
  <2>1. \A s, t \in Layout : s \o t \in Layout
    BY DEF Layout
  <2> QED
    BY <1>2, <2>1 DEF ClaimFields
<1>4. ClaimNotes \in Layout /\ CapabilityFields \in Layout /\ FloorFields \in Layout
  BY <1>1, WireSets DEF Layout, ClaimNotes, CapabilityFields, FloorFields
<1>5. EntityFields \in Layout /\ HistoryFields \in Layout /\ GrantFields \in Layout
  BY <1>1, WireSets DEF Layout, EntityFields, HistoryFields, GrantFields
<1>6. MetaFields \in Layout /\ FenceFields \in Layout /\ RegistrationFields \in Layout
  BY <1>1, WireSets DEF Layout, MetaFields, FenceFields, RegistrationFields
<1> QED
  BY <1>3, <1>4, <1>5, <1>6

\* The same of five parts.
OffInFive(a, b, c, d, e, r) ==
    /\ (a \o b \o c \o d \o e) \o r = a \o (b \o (c \o (d \o (e \o r))))
    /\ a \o b \o c \o d \o e \in Stream
    /\ e \o r \in Stream /\ d \o (e \o r) \in Stream /\ c \o (d \o (e \o r)) \in Stream
    /\ b \o (c \o (d \o (e \o r))) \in Stream

\* Five streams come off in order.
LEMMA FiveParts ==
    ASSUME NEW a \in Stream, NEW b \in Stream, NEW c \in Stream, NEW d \in Stream,
           NEW e \in Stream, NEW r \in Stream
    PROVE  OffInFive(a, b, c, d, e, r)
<1> DEFINE er == e \o r  abcd == a \o b \o c \o d
<1>1. er \in Stream /\ abcd \in Stream
  <2>1. OffInFour(a, b, c, d, r)
    BY FourParts
  <2> QED
    BY <2>1, Joins DEF OffInFour
<1>2. OffInFour(a, b, c, d, er)
  <2> HIDE DEF er
  <2> QED
    BY <1>1, FourParts
<1>3. OffInTwo(abcd, e, r)
  <2> HIDE DEF abcd
  <2> QED
    BY <1>1, TwoParts
<1> QED
  BY <1>1, <1>2, <1>3 DEF OffInTwo, OffInFour, OffInFive

\* A stored claim is read back.
LEMMA StoredClaimReads ==
    ASSUME NEW claim, IsStoredClaim(claim)
    PROVE  /\ ReadsPart(ReadStoredClaim, WriteStoredClaim(claim), claim)
           /\ WriteStoredClaim(claim) \in Stream
<1> DEFINE a == claim.fields
           b == Encode(claim.value)
           c == claim.notes
<1>1. /\ claim = [fields |-> a, value |-> claim.value, notes |-> c]
      /\ a \in FieldsOf(ClaimFields) /\ c \in FieldsOf(ClaimNotes) /\ Storable(claim.value)
  BY DEF IsStoredClaim
<1>2. a \in Stream /\ b \in Stream /\ c \in Stream
  <2>1. <<>> \in Stream
    BY DEF Stream
  <2> QED
    BY <1>1, <2>1, RecordLayouts, LayoutReads, StorableReads DEF ReadsBack
<1>3. ASSUME NEW r \in Stream PROVE OffInThree(a, b, c, r)
  <2> HIDE DEF a, b, c
  <2> QED
    BY <1>2, ThreeParts
<1>4. ASSUME NEW r \in Stream
      PROVE  ReadStoredClaim[WriteStoredClaim(claim) \o r] = Got(claim, r)
  <2> DEFINE in == WriteStoredClaim(claim) \o r
             cr == c \o r
             br == b \o cr
             fields == Fields(in, ClaimFields)
             value == Decode(fields.rest)
             notes == Fields(value.rest, ClaimNotes)
             made == [fields |-> fields.value, value |-> value.value, notes |-> notes.value]
  <2>1. in = a \o br /\ in \in Stream /\ cr \in Stream /\ br \in Stream
    <3>1. OffInThree(a, b, c, r) /\ WriteStoredClaim(claim) = a \o b \o c
      BY <1>3 DEF WriteStoredClaim
    <3>2. \A s \in Stream : s \o r \in Stream
      BY Joins
    <3> HIDE DEF a, b, c
    <3> QED
      BY <3>1, <3>2 DEF OffInThree
  <2>2. fields = Got(a, br)
    <3> HIDE DEF br
    <3> QED
      BY <1>1, <2>1, RecordLayouts, LayoutReads
  <2>3. fields.ok = TRUE /\ fields.value = a /\ fields.rest = br
    <3> HIDE DEF fields, br
    <3> QED
      BY <2>2 DEF Got
  <2>4. value = Got(claim.value, cr)
    <3> HIDE DEF fields, cr
    <3> QED
      BY <1>1, <2>1, <2>3, StorableReads DEF ReadsBack
  <2>5. value.ok = TRUE /\ value.value = claim.value /\ value.rest = cr
    <3> HIDE DEF value, cr
    <3> QED
      BY <2>4 DEF Got
  <2>6. notes = Got(c, r)
    <3> HIDE DEF value
    <3> QED
      BY <1>1, <2>5, RecordLayouts, LayoutReads
  <2>7. notes.ok = TRUE /\ notes.value = c /\ notes.rest = r
    <3> HIDE DEF notes
    <3> QED
      BY <2>6 DEF Got
  <2>8. ReadStoredClaim[in] =
           IF fields.ok
           THEN IF value.ok THEN IF notes.ok THEN Got(made, notes.rest) ELSE Fail ELSE Fail
           ELSE Fail
    <3> HIDE DEF in
    <3> QED
      BY <2>1, Zenon DEF ReadStoredClaim, Then
  <2> HIDE DEF fields, value, notes, in, cr, br
  <2>9. made = claim
    BY <1>1, <2>3, <2>5, <2>7
  <2> HIDE DEF made
  <2> QED
    BY <2>3, <2>5, <2>7, <2>8, <2>9 DEF in
<1>5. WriteStoredClaim(claim) \in Stream
  <2>1. OffInThree(a, b, c, c)
    BY <1>2, <1>3
  <2> QED
    BY <2>1 DEF WriteStoredClaim, OffInThree
<1> QED
  BY <1>4, <1>5 DEF ReadsPart

\* The capabilities that were written in the order of the map are kept.
LEMMA SortedStays ==
    ASSUME NEW s \in Seq(FieldsOf(CapabilityFields)), InOrder(s)
    PROVE  ById(s) = Made(TRUE, s)
<1> DEFINE S == FieldsOf(CapabilityFields)
           R == {pair \in S \X S : pair[1][1] < pair[2][1]}
           sorted == {order \in Arrangements(s) : InOrder(order)}
           chosen == CHOOSE order \in sorted : TRUE
<1>1. \A x \in S : x[1] \in Int
  <2> TAKE x \in S
  <2>1. x \in Stream /\ Len(x) = Len(CapabilityFields)
    BY DEF FieldsOf
  <2>2. Len(CapabilityFields) = 2
    BY DEF CapabilityFields
  <2> QED
    BY <2>1, <2>2 DEF Stream
<1>2. \A x, y \in S : <<x, y>> \in R <=> x[1] < y[1]
  <2> HIDE DEF S
  <2> QED
    OBVIOUS
<1>3. IsTransitive(R, S) /\ IsIrreflexive(R, S)
  <2> HIDE DEF S, R
  <2> QED
    BY <1>1, <1>2 DEF IsTransitive, IsIrreflexive
<1>4. ASSUME NEW order \in Seq(S), InOrder(order) PROVE Rising(order, R)
  <2>1. \A i \in 2..Len(order) : order[i - 1] \in S /\ order[i] \in S
    <3> HIDE DEF S
    <3> QED
      OBVIOUS
  <2> HIDE DEF S, R
  <2> QED
    BY <1>2, <1>4, <2>1 DEF Rising, InOrder
<1>5. s \in sorted
  <2>1. s \in Arrangements(s)
    BY ArrangedAlready
  <2> QED
    BY <2>1
<1>6. chosen \in Arrangements(s) /\ InOrder(chosen)
  <2>1. chosen \in sorted
    BY <1>5
  <2> HIDE DEF chosen
  <2> QED
    BY <2>1
<1>7. chosen = s
  <2> HIDE DEF chosen, S, R
  <2>1. s \in Seq(S) /\ chosen \in Seq(S)
    BY <1>6, Rearranged DEF S
  <2>2. Rising(s, R) /\ Rising(chosen, R)
    BY <1>4, <1>6, <2>1
  <2> QED
    BY <1>3, <1>6, <2>1, <2>2, SortedOnce
<1>8. ById(s) = IF sorted = {} THEN Fail ELSE Made(TRUE, chosen)
  BY Zenon DEF ById
<1> HIDE DEF chosen, sorted
<1> QED
  BY <1>5, <1>7, <1>8

\* A record that is one layout is read back.
LEMMA PlainReads ==
    ASSUME NEW layout \in Layout, NEW f \in FieldsOf(layout)
    PROVE  ReadsPart(Record(layout), f, f) /\ f \in Stream
<1>1. <<>> \in Stream
  BY DEF Stream
<1>2. ASSUME NEW r \in Stream PROVE f \in Stream /\ Record(layout)[f \o r] = Got(f, r)
  <2>1. f \in Stream /\ Fields(f \o r, layout) = Got(f, r)
    BY LayoutReads
  <2>2. f \o r \in Stream
    BY <2>1, Joins
  <2> QED
    BY <2>1, <2>2 DEF Record
<1> QED
  BY <1>1, <1>2 DEF ReadsPart

\* A counted list of records that are plain fields.
LEMMA PlainRecordsRead ==
    ASSUME NEW layout \in Layout, NEW m \in Seq(FieldsOf(layout)), Fits(m), NEW r \in Stream
    PROVE  /\ Counted(Listed(m) \o r, MaxItems, Record(layout)) = Got(m, r)
           /\ Listed(m) \in Stream
<1>1. MaxItems \in Nat /\ Len(m) <= MaxItems
  BY WireAssumption DEF Fits
<1>2. \A f \in FieldsOf(layout) : ReadsPart(Record(layout), f, f) /\ f \in Stream
  BY PlainReads
<1> QED
  BY <1>1, <1>2, RecordsRead

\* A list of stored claims is read back.
LEMMA StoredClaimsRead ==
    ASSUME NEW m, IsSequence(m), \A claim \in ToSet(m) : IsStoredClaim(claim), Fits(m),
           NEW r \in Stream
    PROVE  /\ Counted(WriteStoredClaims(m) \o r, MaxItems, ReadStoredClaim) = Got(m, r)
           /\ WriteStoredClaims(m) \in Stream
<1> DEFINE parts == [i \in DOMAIN m |-> WriteStoredClaim(m[i])]
<1>1. MaxItems \in Nat /\ Len(m) <= MaxItems
  BY WireAssumption DEF Fits
<1>2. m \in Seq(ToSet(m)) /\ \A i \in DOMAIN m : IsStoredClaim(m[i])
  BY SequenceItems
<1>3. \A i \in DOMAIN m : ReadsPart(ReadStoredClaim, parts[i], m[i]) /\ parts[i] \in Stream
  <2> TAKE i \in DOMAIN m
  <2>1. IsStoredClaim(m[i]) /\ parts[i] = WriteStoredClaim(m[i])
    BY <1>2
  <2> HIDE DEF parts
  <2> QED
    BY <2>1, StoredClaimReads
<1>4. parts = [i \in DOMAIN m |-> parts[i]] /\ WriteStoredClaims(m) = Listed(parts)
  BY DEF WriteStoredClaims
<1> HIDE DEF parts
<1> QED
  BY <1>1, <1>2, <1>3, <1>4, ListReads

\* A stored entity is read back, with its capabilities, claims, floors and history.
LEMMA EntityReads ==
    ASSUME NEW entity, IsEntity(entity)
    PROVE  /\ ReadStoredEntity(WriteStoredEntity(entity)) = Got(entity, <<>>)
           /\ WriteStoredEntity(entity) \in Stream
<1> DEFINE a == entity.fields
           caps == entity.capabilities
           b == Listed(caps)
           c == WriteStoredClaims(entity.claims)
           d == Listed(entity.floors)
           e == Listed(entity.history)
           in == a \o b \o c \o d \o e
           er == e \o <<>>
           dr == d \o er
           cr == c \o dr
           br == b \o cr
           fields == Fields(in, EntityFields)
           given == Counted(fields.rest, MaxItems, Record(CapabilityFields))
           kept == Result(ById(given.value), given.rest)
           claims == Counted(kept.rest, MaxItems, ReadStoredClaim)
           floors == Counted(claims.rest, MaxItems, Record(FloorFields))
           history == Counted(floors.rest, MaxItems, Record(HistoryFields))
           made == [fields |-> fields.value, capabilities |-> kept.value,
                    claims |-> claims.value, floors |-> floors.value,
                    history |-> history.value]
<1>0. <<>> \in Stream
  BY DEF Stream
<1>1. /\ entity = [fields |-> entity.fields, capabilities |-> entity.capabilities,
                   claims |-> entity.claims, floors |-> entity.floors,
                   history |-> entity.history]
      /\ a \in FieldsOf(EntityFields) /\ caps \in Seq(FieldsOf(CapabilityFields))
      /\ InOrder(caps)
      /\ IsSequence(entity.claims) /\ \A claim \in ToSet(entity.claims) : IsStoredClaim(claim)
      /\ entity.floors \in Seq(FieldsOf(FloorFields))
      /\ entity.history \in Seq(FieldsOf(HistoryFields))
      /\ Fits(caps) /\ Fits(entity.claims) /\ Fits(entity.floors) /\ Fits(entity.history)
  BY Zenon DEF IsEntity
<1>2. ASSUME NEW r \in Stream
      PROVE  /\ Fields(a \o r, EntityFields) = Got(a, r) /\ a \in Stream
             /\ Counted(b \o r, MaxItems, Record(CapabilityFields)) = Got(caps, r) /\ b \in Stream
             /\ Counted(c \o r, MaxItems, ReadStoredClaim) = Got(entity.claims, r)
             /\ c \in Stream
             /\ Counted(d \o r, MaxItems, Record(FloorFields)) = Got(entity.floors, r)
             /\ d \in Stream
             /\ Counted(e \o r, MaxItems, Record(HistoryFields)) = Got(entity.history, r)
             /\ e \in Stream
  <2>1. Fields(a \o r, EntityFields) = Got(a, r) /\ a \in Stream
    BY <1>1, RecordLayouts, LayoutReads
  <2>2. Counted(b \o r, MaxItems, Record(CapabilityFields)) = Got(caps, r) /\ b \in Stream
    BY <1>1, RecordLayouts, PlainRecordsRead
  <2>3. Counted(c \o r, MaxItems, ReadStoredClaim) = Got(entity.claims, r) /\ c \in Stream
    BY <1>1, StoredClaimsRead
  <2>4. Counted(d \o r, MaxItems, Record(FloorFields)) = Got(entity.floors, r) /\ d \in Stream
    BY <1>1, RecordLayouts, PlainRecordsRead
  <2>5. /\ Counted(e \o r, MaxItems, Record(HistoryFields)) = Got(entity.history, r)
        /\ e \in Stream
    BY <1>1, RecordLayouts, PlainRecordsRead
  <2> QED
    BY <2>1, <2>2, <2>3, <2>4, <2>5
<1>3. OffInFive(a, b, c, d, e, <<>>)
  <2>1. a \in Stream /\ b \in Stream /\ c \in Stream /\ d \in Stream /\ e \in Stream
    BY <1>0, <1>2
  <2> HIDE DEF a, b, c, d, e
  <2> QED
    BY <1>0, <2>1, FiveParts
<1>4. /\ in \in Stream /\ in = a \o br
      /\ er \in Stream /\ dr \in Stream /\ cr \in Stream /\ br \in Stream
  <2>1. in \in Stream /\ in \o <<>> = a \o br
    BY <1>3 DEF OffInFive
  <2>2. in = in \o <<>>
    <3> HIDE DEF in
    <3> QED
      BY <2>1, Joins
  <2>3. er \in Stream /\ dr \in Stream /\ cr \in Stream /\ br \in Stream
    BY <1>3 DEF OffInFive
  <2> QED
    BY <2>1, <2>2, <2>3
<1>5. WriteStoredEntity(entity) = in
  BY DEF WriteStoredEntity
<1>6. fields = Got(a, br)
  <2> HIDE DEF a, br, in
  <2>1. \A r \in Stream : Fields(a \o r, EntityFields) = Got(a, r)
    BY <1>2
  <2> QED
    BY <1>4, <2>1
<1>7. fields.ok = TRUE /\ fields.value = a /\ fields.rest = br
  <2> HIDE DEF fields, br
  <2> QED
    BY <1>6 DEF Got
<1>8. given = Got(caps, cr)
  <2> HIDE DEF fields, b, cr
  <2>1. \A r \in Stream : Counted(b \o r, MaxItems, Record(CapabilityFields)) = Got(caps, r)
    BY <1>2
  <2> QED
    BY <1>4, <1>7, <2>1
<1>9. given.ok = TRUE /\ given.value = caps /\ given.rest = cr
  <2> HIDE DEF given, cr
  <2> QED
    BY <1>8 DEF Got
<1>10. kept.ok = TRUE /\ kept.value = caps /\ kept.rest = cr
  <2> HIDE DEF given, cr
  <2>1. ById(caps) = Made(TRUE, caps)
    BY <1>1, SortedStays
  <2> HIDE DEF caps
  <2>2. Result(Made(TRUE, caps), cr) = Got(caps, cr)
    BY DEF Result, Made
  <2>3. kept = Got(caps, cr)
    BY <1>9, <2>1, <2>2
  <2> HIDE DEF kept
  <2> QED
    BY <2>3 DEF Got
<1>11. claims = Got(entity.claims, dr)
  <2> HIDE DEF kept, c, dr
  <2>1. \A r \in Stream : Counted(c \o r, MaxItems, ReadStoredClaim) = Got(entity.claims, r)
    BY <1>2
  <2> QED
    BY <1>4, <1>10, <2>1
<1>12. claims.ok = TRUE /\ claims.value = entity.claims /\ claims.rest = dr
  <2> HIDE DEF claims, dr
  <2> QED
    BY <1>11 DEF Got
<1>13. floors = Got(entity.floors, er)
  <2> HIDE DEF claims, d, er
  <2>1. \A r \in Stream : Counted(d \o r, MaxItems, Record(FloorFields)) = Got(entity.floors, r)
    BY <1>2
  <2> QED
    BY <1>4, <1>12, <2>1
<1>14. floors.ok = TRUE /\ floors.value = entity.floors /\ floors.rest = er
  <2> HIDE DEF floors, er
  <2> QED
    BY <1>13 DEF Got
<1>15. history = Got(entity.history, <<>>)
  <2> HIDE DEF floors, e
  <2>1. \A r \in Stream :
            Counted(e \o r, MaxItems, Record(HistoryFields)) = Got(entity.history, r)
    BY <1>2
  <2> QED
    BY <1>0, <1>14, <2>1
<1>16. history.ok = TRUE /\ history.value = entity.history /\ history.rest = <<>>
  <2> HIDE DEF history
  <2> QED
    BY <1>15 DEF Got
<1>17. ReadStoredEntity(in) =
          IF fields.ok
          THEN IF given.ok
               THEN IF kept.ok
                    THEN IF claims.ok
                         THEN IF floors.ok
                              THEN IF history.ok THEN Got(made, history.rest) ELSE Fail
                              ELSE Fail
                         ELSE Fail
                    ELSE Fail
               ELSE Fail
          ELSE Fail
  <2> HIDE DEF in
  <2> QED
    BY Zenon DEF ReadStoredEntity, Then
<1> HIDE DEF fields, given, kept, claims, floors, history, in
<1>18. made = entity
  BY <1>1, <1>7, <1>10, <1>12, <1>14, <1>16
<1> HIDE DEF made
<1> QED
  BY <1>4, <1>5, <1>7, <1>9, <1>10, <1>12, <1>14, <1>16, <1>17, <1>18

\* A grant is read back.
LEMMA GrantReads ==
    ASSUME NEW grant \in Grant
    PROVE  /\ ReadGrant(WriteGrant(grant)) = Got(grant, <<>>)
           /\ WriteGrant(grant) \in Stream
<1> DEFINE t == grant.scope
           a == <<t>>
           b == ListedFields(grant.kinds)
           c == ListedFields(grant.namespaces)
           d == grant.fields
           e == ListedFields(grant.publishers)
           in == a \o b \o c \o d \o e
           er == e \o <<>>
           dr == d \o er
           cr == c \o dr
           br == b \o cr
           scope == Field(in, Name)
           kinds == Counted(scope.rest, MaxItems, FieldOf(EntityKindCode))
           namespaces == Counted(kinds.rest, MaxItems, FieldOf(Name))
           fields == Fields(namespaces.rest, GrantFields)
           publishers == Counted(fields.rest, MaxItems, FieldOf(Name))
           made == [scope |-> scope.value, kinds |-> kinds.value,
                    namespaces |-> namespaces.value, fields |-> fields.value,
                    publishers |-> publishers.value]
<1>0. <<>> \in Stream
  BY DEF Stream
<1>1. /\ grant = [scope |-> grant.scope, kinds |-> grant.kinds,
                  namespaces |-> grant.namespaces, fields |-> grant.fields,
                  publishers |-> grant.publishers]
      /\ t \in Name /\ grant.kinds \in Seq(EntityKindCode)
      /\ grant.namespaces \in Seq(Name) /\ grant.publishers \in Seq(Name)
      /\ d \in FieldsOf(GrantFields)
      /\ Fits(grant.kinds) /\ Fits(grant.namespaces) /\ Fits(grant.publishers)
  BY DEF Grant
<1>2. ASSUME NEW legal, legal \subseteq Int, NEW s \in Seq(legal), Fits(s), NEW r \in Stream
      PROVE  /\ Counted(ListedFields(s) \o r, MaxItems, FieldOf(legal)) = Got(s, r)
             /\ ListedFields(s) \in Stream
  <2>1. MaxItems \in Nat /\ Len(s) \in Nat /\ Len(s) <= MaxItems
    BY <1>2, WireAssumption DEF Fits
  <2>2. Len(s) \in 0..MaxItems
    BY <2>1
  <2>3. <<Len(s)>> \in Stream /\ s \in Stream
    <3>1. s \in Seq(Int)
      <4>1. s = [i \in 1..Len(s) |-> s[i]] /\ \A i \in 1..Len(s) : s[i] \in Int
        BY <1>2, <2>1
      <4> QED
        BY <2>1, <4>1
    <3> QED
      BY <2>1, <3>1 DEF Stream
  <2>4. ListedFields(s) \in Stream
    BY <2>3, Joins DEF ListedFields
  <2> QED
    BY <1>2, <2>2, <2>4, ListedFieldsRead
<1>3. Name \subseteq Int /\ EntityKindCode \subseteq Int /\ t \in Int
  BY <1>1, Tokens DEF EntityKindCode
<1>4. ASSUME NEW r \in Stream
      PROVE  /\ Field(a \o r, Name) = Got(t, r) /\ a \in Stream
             /\ Counted(b \o r, MaxItems, FieldOf(EntityKindCode)) = Got(grant.kinds, r)
             /\ b \in Stream
             /\ Counted(c \o r, MaxItems, FieldOf(Name)) = Got(grant.namespaces, r)
             /\ c \in Stream
             /\ Fields(d \o r, GrantFields) = Got(d, r) /\ d \in Stream
             /\ Counted(e \o r, MaxItems, FieldOf(Name)) = Got(grant.publishers, r)
             /\ e \in Stream
  <2>1. Field(a \o r, Name) = Got(t, r) /\ a \in Stream
    <3>1. a \in Stream
      <4> HIDE DEF t
      <4> QED
        BY <1>3 DEF Stream
    <3> QED
      BY <1>1, <1>3, <3>1, FieldReads
  <2>2. Fields(d \o r, GrantFields) = Got(d, r) /\ d \in Stream
    BY <1>1, RecordLayouts, LayoutReads
  <2>3. /\ Counted(b \o r, MaxItems, FieldOf(EntityKindCode)) = Got(grant.kinds, r)
        /\ b \in Stream
    BY <1>1, <1>2, <1>3
  <2>4. Counted(c \o r, MaxItems, FieldOf(Name)) = Got(grant.namespaces, r) /\ c \in Stream
    BY <1>1, <1>2, <1>3
  <2>5. Counted(e \o r, MaxItems, FieldOf(Name)) = Got(grant.publishers, r) /\ e \in Stream
    BY <1>1, <1>2, <1>3
  <2> QED
    BY <2>1, <2>2, <2>3, <2>4, <2>5
<1>5. OffInFive(a, b, c, d, e, <<>>)
  <2>1. a \in Stream /\ b \in Stream /\ c \in Stream /\ d \in Stream /\ e \in Stream
    BY <1>0, <1>4
  <2> HIDE DEF a, b, c, d, e
  <2> QED
    BY <1>0, <2>1, FiveParts
<1>6. /\ in \in Stream /\ in = a \o br
      /\ er \in Stream /\ dr \in Stream /\ cr \in Stream /\ br \in Stream
  <2>1. in \in Stream /\ in \o <<>> = a \o br
    BY <1>5 DEF OffInFive
  <2>2. in = in \o <<>>
    <3> HIDE DEF in
    <3> QED
      BY <2>1, Joins
  <2>3. er \in Stream /\ dr \in Stream /\ cr \in Stream /\ br \in Stream
    BY <1>5 DEF OffInFive
  <2> QED
    BY <2>1, <2>2, <2>3
<1>7. WriteGrant(grant) = in
  BY DEF WriteGrant
<1>8. scope = Got(t, br)
  <2> HIDE DEF a, t, br, in
  <2>1. \A r \in Stream : Field(a \o r, Name) = Got(t, r)
    BY <1>4
  <2> QED
    BY <1>6, <2>1
<1>9. scope.ok = TRUE /\ scope.value = t /\ scope.rest = br
  <2> HIDE DEF scope, br
  <2> QED
    BY <1>8 DEF Got
<1>10. kinds = Got(grant.kinds, cr)
  <2> HIDE DEF scope, b, cr
  <2>1. \A r \in Stream :
            Counted(b \o r, MaxItems, FieldOf(EntityKindCode)) = Got(grant.kinds, r)
    BY <1>4
  <2> QED
    BY <1>6, <1>9, <2>1
<1>11. kinds.ok = TRUE /\ kinds.value = grant.kinds /\ kinds.rest = cr
  <2> HIDE DEF kinds, cr
  <2> QED
    BY <1>10 DEF Got
<1>12. namespaces = Got(grant.namespaces, dr)
  <2> HIDE DEF kinds, c, dr
  <2>1. \A r \in Stream : Counted(c \o r, MaxItems, FieldOf(Name)) = Got(grant.namespaces, r)
    BY <1>4
  <2> QED
    BY <1>6, <1>11, <2>1
<1>13. namespaces.ok = TRUE /\ namespaces.value = grant.namespaces /\ namespaces.rest = dr
  <2> HIDE DEF namespaces, dr
  <2> QED
    BY <1>12 DEF Got
<1>14. fields = Got(d, er)
  <2> HIDE DEF namespaces, d, er
  <2>1. \A r \in Stream : Fields(d \o r, GrantFields) = Got(d, r)
    BY <1>4
  <2> QED
    BY <1>6, <1>13, <2>1
<1>15. fields.ok = TRUE /\ fields.value = d /\ fields.rest = er
  <2> HIDE DEF fields, er
  <2> QED
    BY <1>14 DEF Got
<1>16. publishers = Got(grant.publishers, <<>>)
  <2> HIDE DEF fields, e
  <2>1. \A r \in Stream : Counted(e \o r, MaxItems, FieldOf(Name)) = Got(grant.publishers, r)
    BY <1>4
  <2> QED
    BY <1>0, <1>15, <2>1
<1>17. publishers.ok = TRUE /\ publishers.value = grant.publishers /\ publishers.rest = <<>>
  <2> HIDE DEF publishers
  <2> QED
    BY <1>16 DEF Got
<1>18. ReadGrant(in) =
          IF scope.ok
          THEN IF kinds.ok
               THEN IF namespaces.ok
                    THEN IF fields.ok
                         THEN IF publishers.ok THEN Got(made, publishers.rest) ELSE Fail
                         ELSE Fail
                    ELSE Fail
               ELSE Fail
          ELSE Fail
  <2> HIDE DEF in
  <2> QED
    BY Zenon DEF ReadGrant, Then
<1> HIDE DEF scope, kinds, namespaces, fields, publishers, in
<1>19. made = grant
  BY <1>1, <1>9, <1>11, <1>13, <1>15, <1>17
<1> HIDE DEF made
<1> QED
  BY <1>6, <1>7, <1>9, <1>11, <1>13, <1>15, <1>17, <1>18, <1>19

-----------------------------------------------------------------------------
(* The records of a payload, one after the other.                          *)

\* One more record, if anything is left to read.
Further(reading) ==
    Then(reading, LAMBDA read, rest :
             IF rest = <<>> THEN Got(read, rest) ELSE NextRecord(read, rest))

\* What is read of a payload before its first record.
Blank == [name \in ToSet(Collection) |-> <<>>]

\* What has been read before, between and after the records.
Loads(h, in) ==
    /\ h[0] = Got(Blank, in)
    /\ \A n \in 1..Len(in) : h[n] = Further(h[n - 1])

\* ReadRecords is the last of the readings it goes through: its recursion, solved once.
LEMMA RecordsSolved ==
    ASSUME NEW in, Len(in) \in Nat
    PROVE  \E h : Loads(h, in) /\ ReadRecords(in) = h[Len(in)]
<1> DEFINE N == Len(in)
           Nth(h, n) == IF n = 0 THEN Got(Blank, in) ELSE Further(h[n - 1])
           Solves(h) == h = [n \in 0..N |-> Nth(h, n)]
           S == {m \in 0..N : \E h : h = [n \in 0..m |-> Nth(h, n)]}
<1>1. 0 \in S
  <2> DEFINE h == [n \in 0..0 |-> Got(Blank, in)]
  <2>1. h = [n \in 0..0 |-> Nth(h, n)]
    OBVIOUS
  <2>2. \E k : k = [n \in 0..0 |-> Nth(k, n)]
    <3> HIDE DEF h, Nth
    <3> QED
      BY <2>1
  <2> QED
    BY <2>2
<1>2. ASSUME NEW m \in 1..N, m - 1 \in S PROVE m \in S
  <2>1. PICK g : g = [n \in 0..(m - 1) |-> Nth(g, n)]
    BY <1>2
  <2> DEFINE h == [n \in 0..m |-> IF n = m THEN Further(g[m - 1]) ELSE g[n]]
  <2>2. ASSUME NEW n \in 0..m PROVE h[n] = Nth(h, n)
    <3>1. CASE n = m
      <4>1. h[m - 1] = g[m - 1] /\ h[m] = Further(g[m - 1])
        OBVIOUS
      <4> HIDE DEF h
      <4> QED
        BY <3>1, <4>1
    <3>2. CASE n = 0
      <4>1. h[0] = g[0] /\ g[0] = Nth(g, 0)
        BY <2>1
      <4> QED
        BY <3>2, <4>1
    <3>3. CASE n \in 1..(m - 1)
      <4>1. h[n] = g[n] /\ h[n - 1] = g[n - 1] /\ g[n] = Nth(g, n)
        BY <2>1, <3>3
      <4> HIDE DEF h
      <4> QED
        BY <3>3, <4>1
    <3> QED
      BY <3>1, <3>2, <3>3
  <2>3. h = [n \in 0..m |-> Nth(h, n)]
    <3>1. h = [n \in 0..m |-> h[n]]
      OBVIOUS
    <3> HIDE DEF h, Nth
    <3> QED
      BY <2>2, <3>1
  <2>4. \E k : k = [n \in 0..m |-> Nth(k, n)]
    <3> HIDE DEF h, Nth
    <3> QED
      BY <2>3
  <2>5. m \in 0..N
    BY <1>2
  <2> HIDE DEF Nth
  <2> QED
    BY <2>4, <2>5
<1>3. N \in S
  <2>1. N \in Nat
    OBVIOUS
  <2> HIDE DEF S, N
  <2>2. Inductive(S, N)
    BY <1>1, <1>2 DEF Inductive
  <2> QED
    BY <2>1, <2>2, UpTo
<1>4. \E h : Solves(h)
  BY <1>3
<1> DEFINE c == CHOOSE h : Solves(h)
<1>5. Solves(c)
  BY <1>4, Zenon
<1>6. ReadRecords(in) = c[N]
  BY Zenon DEF ReadRecords, Further, Blank
<1>7. c[0] = Got(Blank, in) /\ \A n \in 1..N : c[n] = Further(c[n - 1])
  <2> HIDE DEF c
  <2> QED
    BY <1>5
<1>8. Loads(c, in)
  <2> HIDE DEF c
  <2> QED
    BY <1>7 DEF Loads
<1> QED
  <2> HIDE DEF c
  <2> QED
    BY <1>6, <1>8

\* The payload has been read as far as what is left, in no more steps than it
\* has tokens before that.
Reached(h, in, read, rest) ==
    \E n \in 0..Len(in) : n + Len(rest) <= Len(in) /\ h[n] = Got(read, rest)

\* Nothing is read before the first record.
LEMMA ReachedFirst ==
    ASSUME NEW in \in Stream, NEW h, Loads(h, in)
    PROVE  Reached(h, in, Blank, in)
<1>1. Len(in) \in Nat
  BY DEF Stream
<1> QED
  BY <1>1 DEF Reached, Loads

\* When nothing is left to read, what has been read is the answer.
LEMMA ReachedLast ==
    ASSUME NEW in \in Stream, NEW h, Loads(h, in), NEW read, Reached(h, in, read, <<>>)
    PROVE  h[Len(in)] = Got(read, <<>>)
<1> DEFINE N == Len(in)
<1>0. N \in Nat
  BY DEF Stream
<1>1. PICK n \in 0..N : h[n] = Got(read, <<>>)
  BY DEF Reached
<1>2. Further(Got(read, <<>>)) = Got(read, <<>>)
  BY DEF Further, Then, Got
<1> DEFINE S == {m \in 0..N : m >= n => h[m] = Got(read, <<>>)}
<1>3. 0 \in S
  <2>1. 0 >= n => n = 0
    OBVIOUS
  <2> QED
    BY <1>0, <1>1, <2>1
<1>4. ASSUME NEW m \in 1..N, m - 1 \in S PROVE m \in S
  <2>1. h[m] = Further(h[m - 1])
    BY DEF Loads
  <2>2. CASE m = n
    BY <1>1, <2>2
  <2>3. CASE m > n
    BY <1>2, <1>4, <2>1, <2>3
  <2> QED
    BY <2>2, <2>3
<1>5. N \in S
  <2> HIDE DEF S, N
  <2>1. Inductive(S, N)
    BY <1>3, <1>4 DEF Inductive
  <2> QED
    BY <1>0, <2>1, UpTo
<1> QED
  BY <1>5

\* A record as it is written: its type, its length and its body.
Piece(type, body) == <<type, Len(body)>> \o body

\* Two streams are told apart again at the length of the first.
LEMMA CutOff ==
    ASSUME NEW a \in Stream, NEW b \in Stream
    PROVE  /\ Len(a) \in Nat /\ Len(b) \in Nat /\ Len(a \o b) = Len(a) + Len(b)
           /\ SubSeq(a \o b, 1, Len(a)) = a
           /\ SubSeq(a \o b, Len(a) + 1, Len(a \o b)) = b
<1>1. a \in Seq(Int) /\ b \in Seq(Int)
  BY DEF Stream
<1>2. Len(a) \in Nat /\ Len(b) \in Nat /\ Len(a \o b) = Len(a) + Len(b) /\ a \o b \in Seq(Int)
  BY <1>1
<1>3. SubSeq(a \o b, 1, Len(a)) = a
  <2> DEFINE s == SubSeq(a \o b, 1, Len(a))
  <2>1. s \in Seq(Int) /\ Len(s) = Len(a) /\ \A i \in 1..Len(a) : s[i] = (a \o b)[i]
    <3> DEFINE ab == a \o b
    <3>1. ab \in Seq(Int) /\ Len(a) \in 0..Len(ab)
      BY <1>2
    <3> HIDE DEF ab
    <3>2. /\ SubSeq(ab, 1, Len(a)) \in Seq(Int) /\ Len(SubSeq(ab, 1, Len(a))) = Len(a)
          /\ \A i \in 1..Len(a) : SubSeq(ab, 1, Len(a))[i] = ab[i]
      BY <1>2, <3>1
    <3> QED
      BY <3>2 DEF ab
  <2>2. \A i \in 1..Len(a) : (a \o b)[i] = a[i]
    BY <1>1
  <2> HIDE DEF s
  <2> QED
    BY <1>1, <2>1, <2>2, SeqEqual DEF s
<1>4. SubSeq(a \o b, Len(a) + 1, Len(a \o b)) = b
  <2> DEFINE s == SubSeq(a \o b, Len(a) + 1, Len(a \o b))
  <2>1. s \in Seq(Int) /\ Len(s) = Len(b) /\ \A i \in 1..Len(b) : s[i] = (a \o b)[Len(a) + i]
    <3> DEFINE ab == a \o b  from == Len(a) + 1
    <3>1. ab \in Seq(Int) /\ Len(ab) \in Nat /\ from \in 1..(Len(ab) + 1)
      BY <1>2
    <3>2. Len(ab) - from + 1 = Len(b) /\ \A i \in 1..Len(b) : from + i - 1 = Len(a) + i
      BY <1>2
    <3> DEFINE cut == SubSeq(ab, from, Len(ab))
    <3>3. cut \in Seq(Int) /\ Len(cut) = Len(ab) - from + 1
      <4> HIDE DEF ab, from
      <4> QED
        BY <3>1
    <3>4. \A i \in 1..(Len(ab) - from + 1) : cut[i] = ab[from + i - 1]
      <4> HIDE DEF ab, from
      <4> QED
        BY <3>1
    <3>5. Len(cut) = Len(b) /\ \A i \in 1..Len(b) : cut[i] = ab[Len(a) + i]
      <4> HIDE DEF cut, ab, from
      <4> QED
        BY <3>2, <3>3, <3>4
    <3> QED
      BY <3>3, <3>5
  <2>2. \A i \in 1..Len(b) : (a \o b)[Len(a) + i] = b[i]
    BY <1>1
  <2> HIDE DEF s
  <2> QED
    BY <1>1, <2>1, <2>2, SeqEqual DEF s
<1> QED
  BY <1>2, <1>3, <1>4

\* A record comes off what it was written before, its type and its length first.
LEMMA PieceOff ==
    ASSUME NEW type \in Int, NEW body \in Stream, NEW r \in Stream
    PROVE  /\ Piece(type, body) \o r = <<type>> \o (<<Len(body)>> \o (body \o r))
           /\ Piece(type, body) \in Stream
           /\ Len(Piece(type, body) \o r) = 2 + Len(body) + Len(r)
           /\ Len(<<Len(body)>> \o (body \o r)) = 1 + Len(body) + Len(r)
           /\ <<Len(body)>> \o (body \o r) \in Stream /\ body \o r \in Stream
           /\ Len(body) \in Nat /\ Len(r) \in Nat
<1> DEFINE n == Len(body)
           one == <<type>>
           two == <<n>>
           br == body \o r
<1>1. n \in Nat /\ Len(r) \in Nat /\ Len(br) = n + Len(r)
  BY CutOff
<1>2. one \in Stream /\ two \in Stream /\ Len(one) = 1 /\ Len(two) = 1
  BY <1>1 DEF Stream
<1>3. OffInThree(one, two, body, r)
  <2> HIDE DEF one, two
  <2> QED
    BY <1>2, ThreeParts
<1>4. <<type, n>> = one \o two
  <2> HIDE DEF n
  <2> QED
    BY <1>1
<1>5. /\ Piece(type, body) \o r = one \o (two \o br) /\ Piece(type, body) \in Stream
      /\ two \o br \in Stream /\ br \in Stream
  <2>1. Piece(type, body) = one \o two \o body
    BY <1>4 DEF Piece
  <2> HIDE DEF one, two
  <2> QED
    BY <1>3, <2>1, Joins DEF OffInThree
<1>6. Len(two \o br) = 1 + Len(br) /\ Len(one \o (two \o br)) = 1 + Len(two \o br)
  <2> DEFINE tbr == two \o br
  <2>1. Len(tbr) = 1 + Len(br)
    <3> HIDE DEF two, br
    <3> QED
      BY <1>2, <1>5, CutOff
  <2>2. Len(one \o tbr) = 1 + Len(tbr)
    <3>1. tbr \in Stream
      BY <1>5
    <3> HIDE DEF one, tbr
    <3>2. Len(one \o tbr) = Len(one) + Len(tbr)
      BY <1>2, <3>1, CutOff
    <3> QED
      BY <1>2, <3>2
  <2> QED
    BY <2>1, <2>2
<1> HIDE DEF one, two, br
<1>7. Len(Piece(type, body) \o r) = 2 + n + Len(r) /\ Len(two \o br) = 1 + n + Len(r)
  <2> HIDE DEF n
  <2> QED
    BY <1>1, <1>5, <1>6
<1> QED
  BY <1>1, <1>5, <1>7 DEF one, two, br

\* A record that is next is added to the collection of its type, and comes off.
TakesPiece(read, type, body, r, v) ==
    /\ Further(Got(read, Piece(type, body) \o r)) =
           Got([read EXCEPT ![Collection[type]] = Append(@, v)], r)
    /\ Len(Piece(type, body) \o r) = 2 + Len(body) + Len(r)
    /\ Len(body) \in Nat /\ Len(r) \in Nat

\* A record whose body reads back, and whose collection has room, is taken.
LEMMA PieceReads ==
    ASSUME NEW read, NEW type \in 1..5, NEW body \in Stream, NEW r \in Stream, NEW v,
           ReadRecord(type, body) = Got(v, <<>>),
           ~(Len(read[Collection[type]]) >= MaxOf(type))
    PROVE  TakesPiece(read, type, body, r, v)
<1> DEFINE n == Len(body)
           br == body \o r
           nbr == <<n>> \o br
           in == Piece(type, body) \o r
           kind == Field(in, 1..5)
           length == Field(kind.rest, 0..(Len(kind.rest) - 1))
           record == ReadRecord(kind.value, SubSeq(length.rest, 1, length.value))
           more == [read EXCEPT ![Collection[kind.value]] = Append(@, record.value)]
           left == SubSeq(length.rest, length.value + 1, Len(length.rest))
<1>1. /\ in = <<type>> \o nbr /\ Len(in) = 2 + n + Len(r)
      /\ Len(nbr) = 1 + n + Len(r) /\ nbr \in Stream /\ br \in Stream
      /\ n \in Nat /\ Len(r) \in Nat
  <2>1. type \in Int
    OBVIOUS
  <2> QED
    BY <2>1, PieceOff
<1>2. kind = Got(type, nbr)
  <2>1. type \in Int /\ nbr \in Stream /\ in = <<type>> \o nbr
    BY <1>1
  <2> HIDE DEF nbr, in
  <2>2. Field(<<type>> \o nbr, 1..5) = Got(type, nbr)
    BY <2>1, FieldReads
  <2> QED
    BY <2>1, <2>2
<1>3. kind.ok = TRUE /\ kind.value = type /\ kind.rest = nbr
  <2> HIDE DEF kind, nbr
  <2> QED
    BY <1>2 DEF Got
<1>4. length = Got(n, br)
  <2>1. n \in 0..(Len(nbr) - 1) /\ n \in Int
    <3> HIDE DEF n, nbr
    <3> QED
      BY <1>1
  <2>2. Field(nbr, 0..(Len(nbr) - 1)) = Got(n, br)
    <3> DEFINE legal == 0..(Len(nbr) - 1)
    <3>1. n \in legal /\ n \in Int /\ br \in Stream /\ nbr = <<n>> \o br
      BY <1>1, <2>1
    <3> HIDE DEF n, br, nbr, legal
    <3>2. Field(<<n>> \o br, legal) = Got(n, br)
      BY <3>1, FieldReads
    <3> QED
      BY <3>1, <3>2 DEF legal
  <2> HIDE DEF kind, nbr
  <2> QED
    BY <1>3, <2>2
<1>5. length.ok = TRUE /\ length.value = n /\ length.rest = br
  <2> HIDE DEF length, br, n
  <2> QED
    BY <1>4 DEF Got
<1>6. SubSeq(br, 1, n) = body /\ SubSeq(br, n + 1, Len(br)) = r
  BY CutOff
<1>7. record = Got(v, <<>>) /\ left = r
  <2> HIDE DEF kind, length, br, n
  <2> QED
    BY <1>3, <1>5, <1>6
<1>8. record.ok = TRUE /\ record.value = v
  <2> HIDE DEF record
  <2> QED
    BY <1>7 DEF Got
<1>9. in # <<>>
  <2> HIDE DEF in, n
  <2> QED
    BY <1>1
<1>10. Further(Got(read, in)) = NextRecord(read, in)
  <2> HIDE DEF in
  <2> QED
    BY <1>9 DEF Further, Then, Got
<1>11. NextRecord(read, in) =
          IF kind.ok
          THEN IF length.ok
               THEN IF Len(read[Collection[kind.value]]) >= MaxOf(kind.value) THEN Fail
                    ELSE IF record.ok THEN Got(more, left) ELSE Fail
               ELSE Fail
          ELSE Fail
  <2> HIDE DEF in
  <2> QED
    BY Zenon DEF NextRecord, Then
<1> DEFINE added == [read EXCEPT ![Collection[type]] = Append(@, v)]
<1>12. more = added
  <2> HIDE DEF kind, record
  <2> QED
    BY <1>3, <1>8
<1>13. ~(Len(read[Collection[kind.value]]) >= MaxOf(kind.value))
  <2> HIDE DEF kind
  <2> QED
    BY <1>3
<1>14. NextRecord(read, in) = Got(added, r)
  <2> HIDE DEF more, left, record, length, kind, in, added
  <2> QED
    BY <1>3, <1>5, <1>7, <1>8, <1>11, <1>12, <1>13
<1> QED
  BY <1>1, <1>10, <1>14 DEF TakesPiece

\* One record further.
LEMMA ReachedNext ==
    ASSUME NEW in \in Stream, NEW h, Loads(h, in), NEW read, NEW type \in 1..5,
           NEW body \in Stream, NEW r \in Stream, NEW v,
           ReadRecord(type, body) = Got(v, <<>>),
           ~(Len(read[Collection[type]]) >= MaxOf(type)),
           Reached(h, in, read, Piece(type, body) \o r)
    PROVE  Reached(h, in, [read EXCEPT ![Collection[type]] = Append(@, v)], r)
<1> DEFINE now == Piece(type, body) \o r
           added == [read EXCEPT ![Collection[type]] = Append(@, v)]
           N == Len(in)
<1>1. N \in Nat
  BY DEF Stream
<1>2. PICK n \in 0..N : n + Len(now) <= N /\ h[n] = Got(read, now)
  BY DEF Reached
<1>3. /\ Further(Got(read, now)) = Got(added, r)
      /\ Len(now) = 2 + Len(body) + Len(r) /\ Len(body) \in Nat /\ Len(r) \in Nat
  <2>1. TakesPiece(read, type, body, r, v)
    BY PieceReads
  <2> QED
    BY <2>1 DEF TakesPiece
<1> HIDE DEF now, added
<1>4. n + 1 \in 1..N /\ n + 1 \in 0..N /\ n + 1 - 1 = n /\ n + 1 + Len(r) <= N
  <2> HIDE DEF N
  <2> QED
    BY <1>1, <1>2, <1>3
<1>5. h[n + 1] = Further(h[n])
  BY <1>4 DEF Loads
<1>6. h[n + 1] = Got(added, r)
  BY <1>2, <1>3, <1>5
<1>7. Reached(h, in, added, r)
  BY <1>4, <1>6 DEF Reached
<1> QED
  BY <1>7 DEF added

\* All the records of one type.
With(read, name, values) == [read EXCEPT ![name] = values]

\* What has been read of a payload: its collections.
IsRead(read) == read = [name \in ToSet(Collection) |-> read[name]]

\* With one collection replaced, the others stay.
Replaces(read, name, values) ==
    /\ IsRead(With(read, name, values)) /\ With(read, name, values)[name] = values
    /\ \A other \in ToSet(Collection) \ {name} : With(read, name, values)[other] = read[other]
    /\ read[name] = values => With(read, name, values) = read
    /\ \A v : [With(read, name, values) EXCEPT ![name] = Append(@, v)] =
                  With(read, name, Append(values, v))

\* The same, of what has been read.
LEMMA WithFacts ==
    ASSUME NEW read, IsRead(read), NEW name \in ToSet(Collection), NEW values
    PROVE  Replaces(read, name, values)
BY DEF With, IsRead, Replaces

\* The records of one type, one after the other, are read into their collection.
LEMMA ReachedAll ==
    ASSUME NEW in \in Stream, NEW h, Loads(h, in), NEW read, IsRead(read), NEW type \in 1..5,
           Collection[type] \in ToSet(Collection), read[Collection[type]] = <<>>,
           NEW V, NEW values \in Seq(V), NEW bodies \in Seq(Stream), Len(bodies) = Len(values),
           \A i \in 1..Len(values) : ReadRecord(type, bodies[i]) = Got(values[i], <<>>),
           MaxOf(type) \in Nat, Len(values) <= MaxOf(type), NEW r \in Stream,
           Reached(h, in, read, Records(type, bodies) \o r)
    PROVE  Reached(h, in, With(read, Collection[type], values), r)
<1> DEFINE N == Len(values)
           name == Collection[type]
           pieces == [i \in DOMAIN bodies |-> Piece(type, bodies[i])]
           State1(k) == With(read, name, SubSeq(values, 1, k))
<1>0. N \in Nat /\ type \in Int /\ \A i \in 1..N : bodies[i] \in Stream /\ values[i] \in V
  OBVIOUS
<1>1. pieces \in Seq(Stream) /\ Len(pieces) = N
      /\ \A i \in 1..N : pieces[i] = Piece(type, bodies[i])
  <2>1. DOMAIN bodies = 1..N
    OBVIOUS
  <2>2. \A i \in 1..N : Piece(type, bodies[i]) \in Stream
    BY <1>0, PieceOff
  <2>3. pieces = [i \in 1..N |-> Piece(type, bodies[i])]
    BY <2>1
  <2> HIDE DEF N, pieces
  <2> QED
    BY <1>0, <2>2, <2>3
<1>2. Records(type, bodies) = FlattenSeq(pieces)
  BY DEF Records, Piece
<1>3. PICK left : Unrolls(left, pieces, N, FlattenSeq(pieces) \o r, r)
  <2> HIDE DEF N, pieces
  <2> QED
    BY <1>1, FlattenUnrolls
<1>4. /\ left \in [0..N -> Stream] /\ left[0] = FlattenSeq(pieces) \o r /\ left[N] = r
      /\ \A k \in 1..N : left[k - 1] = Piece(type, bodies[k]) \o left[k]
  <2> HIDE DEF N, pieces
  <2> QED
    BY <1>1, <1>3 DEF Unrolls
<1> DEFINE S == {k \in 0..N : Reached(h, in, State1(k), left[k])}
<1>5. 0 \in S
  <2>1. SubSeq(values, 1, 0) = <<>>
    OBVIOUS
  <2>2. State1(0) = read
    <3>1. Replaces(read, name, <<>>)
      BY WithFacts
    <3> QED
      BY <2>1, <3>1 DEF Replaces
  <2>3. Reached(h, in, read, left[0])
    BY <1>2, <1>4
  <2> HIDE DEF State1, N
  <2> QED
    BY <1>0, <2>2, <2>3
<1>6. ASSUME NEW k \in 1..N, k - 1 \in S PROVE k \in S
  <2> DEFINE was == State1(k - 1)
             body == bodies[k]
             v == values[k]
             done == SubSeq(values, 1, k - 1)
  <2>1. Reached(h, in, was, Piece(type, body) \o left[k])
    <3>1. Reached(h, in, was, left[k - 1])
      BY <1>6
    <3> QED
      BY <1>4, <3>1
  <2>2. body \in Stream /\ ReadRecord(type, body) = Got(v, <<>>) /\ left[k] \in Stream
    <3> HIDE DEF State1
    <3> QED
      BY <1>0, <1>4
  <2>3. was[name] = done /\ [was EXCEPT ![name] = Append(@, v)] = With(read, name, Append(done, v))
    <3> HIDE DEF done
    <3>1. Replaces(read, name, done)
      BY WithFacts
    <3> QED
      BY <3>1 DEF Replaces, done
  <2>4. ~(Len(was[name]) >= MaxOf(type))
    <3>1. Len(done) = k - 1
      BY <1>0
    <3> HIDE DEF was, done, name
    <3> QED
      BY <1>0, <2>3, <3>1
  <2>5. Append(done, v) = SubSeq(values, 1, k)
    <3>1. k \in 1..Len(values)
      OBVIOUS
    <3>2. SubSeq(values, 1, k) = SubSeq(values, 1, k - 1) \o <<values[k]>>
      BY <3>1, SubSeqRecursiveSecond
    <3>3. SubSeq(values, 1, k - 1) \in Seq(V) /\ values[k] \in V
      BY <3>1, SubSeqProperties
    <3> HIDE DEF N
    <3> QED
      BY <3>2, <3>3, AppendIsConcat
  <2>6. Reached(h, in, [was EXCEPT ![name] = Append(@, v)], left[k])
    <3> HIDE DEF was, body, v, State1
    <3> QED
      BY <2>1, <2>2, <2>4, ReachedNext
  <2>7. Reached(h, in, State1(k), left[k])
    BY <2>3, <2>5, <2>6
  <2> HIDE DEF State1
  <2> QED
    BY <2>7
<1>7. Reached(h, in, State1(N), left[N])
  <2>1. N \in S
    <3> HIDE DEF S, N
    <3>1. Inductive(S, N)
      BY <1>5, <1>6 DEF Inductive
    <3> QED
      BY <1>0, <3>1, UpTo
  <2> HIDE DEF State1
  <2> QED
    BY <2>1
<1>8. SubSeq(values, 1, N) = values
  BY SubSeqFull
<1> QED
  BY <1>4, <1>7, <1>8

\* Records are a stream.
LEMMA RecordsAreStreams ==
    ASSUME NEW type \in Int, NEW bodies \in Seq(Stream)
    PROVE  Records(type, bodies) \in Stream
<1> DEFINE N == Len(bodies)
           pieces == [i \in DOMAIN bodies |-> Piece(type, bodies[i])]
<1>1. N \in Nat /\ DOMAIN bodies = 1..N /\ \A i \in 1..N : bodies[i] \in Stream
  OBVIOUS
<1>2. \A i \in 1..N : Piece(type, bodies[i]) \in Stream
  <2>1. <<>> \in Stream
    BY DEF Stream
  <2> HIDE DEF N
  <2> QED
    BY <1>1, <2>1, PieceOff
<1>3. pieces \in Seq(Stream)
  <2>1. pieces = [i \in 1..N |-> Piece(type, bodies[i])]
    BY <1>1
  <2> HIDE DEF N, pieces
  <2> QED
    BY <1>1, <1>2, <2>1
<1>4. Records(type, bodies) = FlattenSeq(pieces)
  BY DEF Records, Piece
<1>5. <<>> \in Stream
  BY DEF Stream
<1> HIDE DEF pieces
<1> QED
  BY <1>3, <1>4, <1>5, FlattenUnrolls

\* The five collections of a payload, and how many records each may hold.
LEMMA CollectionNames ==
    /\ ToSet(Collection) = {"meta", "authorities", "fences", "entities", "registrations"}
    /\ Collection[1] = "meta" /\ Collection[2] = "authorities" /\ Collection[3] = "fences"
    /\ Collection[4] = "entities" /\ Collection[5] = "registrations"
    /\ \A type \in 1..5 : Collection[type] \in ToSet(Collection)
    /\ MaxOf(1) = 1 /\ \A type \in 2..5 : MaxOf(type) = MaxRecords
    /\ \A type \in 1..5 : MaxOf(type) \in Nat
<1>1. /\ Collection[1] = "meta" /\ Collection[2] = "authorities" /\ Collection[3] = "fences"
      /\ Collection[4] = "entities" /\ Collection[5] = "registrations"
      /\ DOMAIN Collection = 1..5
  BY DEF Collection
<1>2. ToSet(Collection) = {Collection[i] : i \in 1..5}
  BY <1>1 DEF ToSet
<1>3. 1..5 = {1, 2, 3, 4, 5}
  OBVIOUS
<1>4. ToSet(Collection) =
          {Collection[1], Collection[2], Collection[3], Collection[4], Collection[5]}
  BY <1>2, <1>3
<1>5. /\ MaxOf(1) = 1 /\ \A type \in 2..5 : MaxOf(type) = MaxRecords
      /\ \A type \in 1..5 : MaxOf(type) \in Nat
  BY StorePayloadAssumption DEF MaxOf
<1> QED
  BY <1>1, <1>2, <1>4, <1>5

\* How a record of each type is read.
LEMMA RecordKinds ==
    ASSUME NEW body
    PROVE  /\ ReadRecord(1, body) = Whole(Fields(body, MetaFields))
           /\ ReadRecord(2, body) = Whole(ReadGrant(body))
           /\ ReadRecord(3, body) = Whole(Fields(body, FenceFields))
           /\ ReadRecord(4, body) = Whole(ReadStoredEntity(body))
           /\ ReadRecord(5, body) = Whole(Fields(body, RegistrationFields))
BY DEF ReadRecord

\* The body of a record that is one layout is read back whole.
LEMMA PlainRecordReads ==
    ASSUME NEW layout \in Layout, NEW f \in FieldsOf(layout)
    PROVE  Whole(Fields(f, layout)) = Got(f, <<>>) /\ f \in Stream
<1>1. <<>> \in Stream
  BY DEF Stream
<1>2. f \in Stream /\ Fields(f \o <<>>, layout) = Got(f, <<>>)
  BY <1>1, LayoutReads
<1>3. f \o <<>> = f
  BY <1>2, Joins
<1> QED
  BY <1>2, <1>3, WholeGot

\* The bodies of the records of a type, and the records.
Bodies(type, bodies, values, V) ==
    /\ bodies \in Seq(Stream) /\ values \in Seq(V) /\ Len(bodies) = Len(values)
    /\ \A i \in 1..Len(values) : ReadRecord(type, bodies[i]) = Got(values[i], <<>>)
    /\ Len(values) <= MaxOf(type)

\* Records that are one layout each are read back, in order.
LEMMA PlainBodies ==
    ASSUME NEW layout \in Layout, NEW values \in Seq(FieldsOf(layout)), NEW type \in 1..5,
           \A body : ReadRecord(type, body) = Whole(Fields(body, layout)),
           Len(values) <= MaxOf(type)
    PROVE  Bodies(type, values, values, FieldsOf(layout))
<1>1. \A i \in 1..Len(values) :
          ReadRecord(type, values[i]) = Got(values[i], <<>>) /\ values[i] \in Stream
  <2> TAKE i \in 1..Len(values)
  <2>1. values[i] \in FieldsOf(layout)
    OBVIOUS
  <2> QED
    BY <2>1, PlainRecordReads
<1>2. Len(values) \in Nat /\ values = [i \in 1..Len(values) |-> values[i]]
  OBVIOUS
<1>3. values \in Seq(Stream)
  BY <1>1, <1>2
<1> QED
  BY <1>1, <1>3 DEF Bodies

\* Grants are read back, in order.
LEMMA GrantBodies ==
    ASSUME NEW grants \in Seq(Grant), Len(grants) <= MaxRecords
    PROVE  Bodies(2, [i \in DOMAIN grants |-> WriteGrant(grants[i])], grants, Grant)
<1> DEFINE bodies == [i \in DOMAIN grants |-> WriteGrant(grants[i])]
<1>1. Len(grants) \in Nat /\ DOMAIN grants = 1..Len(grants)
  OBVIOUS
<1>2. \A i \in 1..Len(grants) :
          ReadRecord(2, bodies[i]) = Got(grants[i], <<>>) /\ bodies[i] \in Stream
  <2> TAKE i \in 1..Len(grants)
  <2>1. grants[i] \in Grant /\ bodies[i] = WriteGrant(grants[i])
    BY <1>1
  <2> HIDE DEF bodies
  <2>2. ReadGrant(bodies[i]) = Got(grants[i], <<>>) /\ bodies[i] \in Stream
    BY <2>1, GrantReads
  <2> QED
    BY <2>2, RecordKinds, WholeGot
<1>3. bodies = [i \in 1..Len(grants) |-> bodies[i]]
  BY <1>1
<1> HIDE DEF bodies
<1>4. bodies \in Seq(Stream) /\ Len(bodies) = Len(grants)
  BY <1>1, <1>2, <1>3
<1>5. Len(grants) <= MaxOf(2)
  BY CollectionNames
<1>6. Bodies(2, bodies, grants, Grant)
  BY <1>2, <1>4, <1>5 DEF Bodies
<1> QED
  BY <1>6 DEF bodies

\* Entities are read back, in order.
LEMMA EntityBodies ==
    ASSUME NEW entities, IsSequence(entities),
           \A entity \in ToSet(entities) : IsEntity(entity), Len(entities) <= MaxRecords
    PROVE  Bodies(4, [i \in DOMAIN entities |-> WriteStoredEntity(entities[i])], entities,
                  ToSet(entities))
<1> DEFINE bodies == [i \in DOMAIN entities |-> WriteStoredEntity(entities[i])]
<1>0. entities \in Seq(ToSet(entities)) /\ \A i \in DOMAIN entities : IsEntity(entities[i])
  BY SequenceItems
<1>1. Len(entities) \in Nat /\ DOMAIN entities = 1..Len(entities)
  BY <1>0, SeqFacts
<1>2. \A i \in 1..Len(entities) :
          ReadRecord(4, bodies[i]) = Got(entities[i], <<>>) /\ bodies[i] \in Stream
  <2> TAKE i \in 1..Len(entities)
  <2>1. IsEntity(entities[i]) /\ bodies[i] = WriteStoredEntity(entities[i])
    BY <1>0, <1>1
  <2> HIDE DEF bodies
  <2>2. ReadStoredEntity(bodies[i]) = Got(entities[i], <<>>) /\ bodies[i] \in Stream
    BY <2>1, EntityReads
  <2> QED
    BY <2>2, RecordKinds, WholeGot
<1>3. bodies = [i \in 1..Len(entities) |-> bodies[i]]
  BY <1>1
<1> HIDE DEF bodies
<1>4. bodies \in Seq(Stream) /\ Len(bodies) = Len(entities)
  BY <1>1, <1>2, <1>3
<1>5. Len(entities) <= MaxOf(4)
  BY CollectionNames
<1>6. Bodies(4, bodies, entities, ToSet(entities))
  BY <1>0, <1>2, <1>4, <1>5 DEF Bodies
<1> QED
  BY <1>6 DEF bodies

\* The records of one type are read into their collection, from their bodies.
LEMMA ReachedBodies ==
    ASSUME NEW in \in Stream, NEW h, Loads(h, in), NEW read, IsRead(read), NEW type \in 1..5,
           NEW name, name = Collection[type], read[name] = <<>>,
           NEW V, NEW values, NEW bodies, Bodies(type, bodies, values, V), NEW r \in Stream,
           Reached(h, in, read, Records(type, bodies) \o r)
    PROVE  Reached(h, in, With(read, name, values), r)
<1>1. /\ bodies \in Seq(Stream) /\ values \in Seq(V) /\ Len(bodies) = Len(values)
      /\ \A i \in 1..Len(values) : ReadRecord(type, bodies[i]) = Got(values[i], <<>>)
      /\ Len(values) <= MaxOf(type)
  BY DEF Bodies
<1>2. Collection[type] \in ToSet(Collection) /\ MaxOf(type) \in Nat
  BY CollectionNames
<1>3. read[Collection[type]] = <<>>
  OBVIOUS
<1>4. Reached(h, in, With(read, Collection[type], values), r)
  BY <1>1, <1>2, <1>3, ReachedAll
<1> QED
  BY <1>4

\* The payload that was written.
LEMMA PayloadIs ==
    ASSUME NEW p, IsSaved(p)
    PROVE  /\ p = [meta |-> p.meta, authorities |-> p.authorities, fences |-> p.fences,
                   registrations |-> p.registrations, entities |-> p.entities]
           /\ Bodies(1, <<p.meta>>, <<p.meta>>, FieldsOf(MetaFields))
           /\ Bodies(2, [i \in DOMAIN p.authorities |-> WriteGrant(p.authorities[i])],
                     p.authorities, Grant)
           /\ Bodies(3, p.fences, p.fences, FieldsOf(FenceFields))
           /\ Bodies(4, [i \in DOMAIN p.entities |-> WriteStoredEntity(p.entities[i])],
                     p.entities, ToSet(p.entities))
           /\ Bodies(5, p.registrations, p.registrations, FieldsOf(RegistrationFields))
<1>1. /\ p = [meta |-> p.meta, authorities |-> p.authorities, fences |-> p.fences,
              registrations |-> p.registrations, entities |-> p.entities]
      /\ p.meta \in FieldsOf(MetaFields) /\ p.authorities \in Seq(Grant)
      /\ p.fences \in Seq(FieldsOf(FenceFields))
      /\ p.registrations \in Seq(FieldsOf(RegistrationFields))
      /\ IsSequence(p.entities) /\ \A entity \in ToSet(p.entities) : IsEntity(entity)
      /\ {Len(p.authorities), Len(p.fences), Len(p.registrations), Len(p.entities)}
            \subseteq 0..MaxRecords
  BY DEF IsSaved
<1>2. /\ Len(p.authorities) <= MaxRecords /\ Len(p.fences) <= MaxRecords
      /\ Len(p.registrations) <= MaxRecords /\ Len(p.entities) <= MaxRecords
  BY <1>1
<1>3. Bodies(1, <<p.meta>>, <<p.meta>>, FieldsOf(MetaFields))
  <2> DEFINE one == <<p.meta>>
  <2>1. one \in Seq(FieldsOf(MetaFields)) /\ Len(one) = 1
    BY <1>1
  <2>2. 1 \in 1..5 /\ Len(one) <= MaxOf(1)
    <3> HIDE DEF one
    <3> QED
      BY <2>1, CollectionNames
  <2> HIDE DEF one
  <2>3. Bodies(1, one, one, FieldsOf(MetaFields))
    BY <2>1, <2>2, RecordLayouts, RecordKinds, PlainBodies
  <2> QED
    BY <2>3 DEF one
<1>4. Bodies(3, p.fences, p.fences, FieldsOf(FenceFields))
  <2>1. 3 \in 1..5 /\ Len(p.fences) <= MaxOf(3)
    BY <1>2, CollectionNames
  <2> QED
    BY <1>1, <2>1, RecordLayouts, RecordKinds, PlainBodies
<1>5. Bodies(5, p.registrations, p.registrations, FieldsOf(RegistrationFields))
  <2>1. 5 \in 1..5 /\ Len(p.registrations) <= MaxOf(5)
    BY <1>2, CollectionNames
  <2> QED
    BY <1>1, <2>1, RecordLayouts, RecordKinds, PlainBodies
<1>6. Bodies(2, [i \in DOMAIN p.authorities |-> WriteGrant(p.authorities[i])],
             p.authorities, Grant)
  BY <1>1, <1>2, GrantBodies
<1>7. Bodies(4, [i \in DOMAIN p.entities |-> WriteStoredEntity(p.entities[i])],
             p.entities, ToSet(p.entities))
  BY <1>1, <1>2, EntityBodies
<1> QED
  BY <1>1, <1>3, <1>4, <1>5, <1>6, <1>7

\* A payload that is saved loads as it was.
LEMMA SavedLoads ==
    ASSUME NEW p, IsSaved(p)
    PROVE  DecodePayload(EncodePayload(p)) = Got(p, <<>>)
<1> DEFINE grants == [i \in DOMAIN p.authorities |-> WriteGrant(p.authorities[i])]
           stored == [i \in DOMAIN p.entities |-> WriteStoredEntity(p.entities[i])]
           a == Records(1, <<p.meta>>)
           b == Records(2, grants)
           c == Records(3, p.fences)
           d == Records(5, p.registrations)
           e == Records(4, stored)
           in == a \o b \o c \o d \o e
           er == e \o <<>>
           dr == d \o er
           cr == c \o dr
           br == b \o cr
           S1 == With(Blank, "meta", <<p.meta>>)
           S2 == With(S1, "authorities", p.authorities)
           S3 == With(S2, "fences", p.fences)
           S4 == With(S3, "registrations", p.registrations)
           S5 == With(S4, "entities", p.entities)
<1>0. <<>> \in Stream
  BY DEF Stream
<1>1. /\ p = [meta |-> p.meta, authorities |-> p.authorities, fences |-> p.fences,
              registrations |-> p.registrations, entities |-> p.entities]
      /\ Bodies(1, <<p.meta>>, <<p.meta>>, FieldsOf(MetaFields))
      /\ Bodies(2, grants, p.authorities, Grant)
      /\ Bodies(3, p.fences, p.fences, FieldsOf(FenceFields))
      /\ Bodies(4, stored, p.entities, ToSet(p.entities))
      /\ Bodies(5, p.registrations, p.registrations, FieldsOf(RegistrationFields))
  BY PayloadIs
<1>2. a \in Stream /\ b \in Stream /\ c \in Stream /\ d \in Stream /\ e \in Stream
  <2>1. /\ <<p.meta>> \in Seq(Stream) /\ grants \in Seq(Stream) /\ p.fences \in Seq(Stream)
        /\ p.registrations \in Seq(Stream) /\ stored \in Seq(Stream)
    <3> HIDE DEF grants, stored
    <3> QED
      BY <1>1 DEF Bodies
  <2>2. 1 \in Int /\ 2 \in Int /\ 3 \in Int /\ 4 \in Int /\ 5 \in Int
    OBVIOUS
  <2> HIDE DEF grants, stored
  <2> QED
    BY <2>1, <2>2, RecordsAreStreams
<1>3. OffInFive(a, b, c, d, e, <<>>)
  <2> HIDE DEF a, b, c, d, e
  <2> QED
    BY <1>0, <1>2, FiveParts
<1>4. /\ in \in Stream /\ in = a \o br
      /\ er \in Stream /\ dr \in Stream /\ cr \in Stream /\ br \in Stream
  <2>1. in \in Stream /\ in \o <<>> = a \o br
    BY <1>3 DEF OffInFive
  <2>2. in = in \o <<>>
    <3> HIDE DEF in
    <3> QED
      BY <2>1, Joins
  <2>3. er \in Stream /\ dr \in Stream /\ cr \in Stream /\ br \in Stream
    BY <1>3 DEF OffInFive
  <2> QED
    BY <2>1, <2>2, <2>3
<1>5. EncodePayload(p) = in
  BY DEF EncodePayload
<1>6. PICK h : Loads(h, in) /\ ReadRecords(in) = h[Len(in)]
  <2>1. Len(in) \in Nat
    <3> HIDE DEF in
    <3> QED
      BY <1>4 DEF Stream
  <2> HIDE DEF in
  <2> QED
    BY <2>1, RecordsSolved
<1>7. /\ IsRead(Blank) /\ IsRead(S1) /\ IsRead(S2) /\ IsRead(S3) /\ IsRead(S4) /\ IsRead(S5)
      /\ Blank["meta"] = <<>> /\ S1["authorities"] = <<>> /\ S2["fences"] = <<>>
      /\ S3["registrations"] = <<>> /\ S4["entities"] = <<>>
      /\ S5["meta"] = <<p.meta>> /\ S5["authorities"] = p.authorities
      /\ S5["fences"] = p.fences /\ S5["registrations"] = p.registrations
      /\ S5["entities"] = p.entities
  <2> DEFINE names == {"meta", "authorities", "fences", "entities", "registrations"}
  <2>0. ToSet(Collection) = names
    BY CollectionNames
  <2>1. IsRead(Blank) /\ \A name \in names : Blank[name] = <<>>
    BY <2>0 DEF Blank, IsRead
  <2>2. Replaces(Blank, "meta", <<p.meta>>)
    BY <2>0, <2>1, WithFacts
  <2>3. IsRead(S1) /\ S1["meta"] = <<p.meta>> /\ \A name \in names \ {"meta"} : S1[name] = <<>>
    BY <2>0, <2>1, <2>2 DEF Replaces
  <2> HIDE DEF S1
  <2>4. Replaces(S1, "authorities", p.authorities)
    BY <2>0, <2>3, WithFacts
  <2>5. /\ IsRead(S2) /\ S2["meta"] = <<p.meta>> /\ S2["authorities"] = p.authorities
        /\ S2["fences"] = <<>> /\ S2["registrations"] = <<>> /\ S2["entities"] = <<>>
    BY <2>0, <2>3, <2>4 DEF Replaces
  <2> HIDE DEF S2
  <2>6. Replaces(S2, "fences", p.fences)
    BY <2>0, <2>5, WithFacts
  <2>7. /\ IsRead(S3) /\ S3["meta"] = <<p.meta>> /\ S3["authorities"] = p.authorities
        /\ S3["fences"] = p.fences /\ S3["registrations"] = <<>> /\ S3["entities"] = <<>>
    BY <2>0, <2>5, <2>6 DEF Replaces
  <2> HIDE DEF S3
  <2>8. Replaces(S3, "registrations", p.registrations)
    BY <2>0, <2>7, WithFacts
  <2>9. /\ IsRead(S4) /\ S4["meta"] = <<p.meta>> /\ S4["authorities"] = p.authorities
        /\ S4["fences"] = p.fences /\ S4["registrations"] = p.registrations
        /\ S4["entities"] = <<>>
    BY <2>0, <2>7, <2>8 DEF Replaces
  <2> HIDE DEF S4
  <2>10. Replaces(S4, "entities", p.entities)
    BY <2>0, <2>9, WithFacts
  <2>11. /\ IsRead(S5) /\ S5["meta"] = <<p.meta>> /\ S5["authorities"] = p.authorities
         /\ S5["fences"] = p.fences /\ S5["registrations"] = p.registrations
         /\ S5["entities"] = p.entities
    BY <2>0, <2>9, <2>10 DEF Replaces
  <2> QED
    BY <2>1, <2>3, <2>5, <2>7, <2>9, <2>11
<1>8. Reached(h, in, S5, <<>>)
  <2> DEFINE meta == <<p.meta>>
  <2>0. /\ Bodies(1, meta, meta, FieldsOf(MetaFields)) /\ 1 \in 1..5 /\ Collection[1] = "meta"
        /\ 2 \in 1..5 /\ Collection[2] = "authorities" /\ 3 \in 1..5 /\ Collection[3] = "fences"
        /\ 5 \in 1..5 /\ Collection[5] = "registrations"
        /\ 4 \in 1..5 /\ Collection[4] = "entities"
    BY <1>1, CollectionNames
  <2>1. Reached(h, in, Blank, a \o br)
    <3>1. Reached(h, in, Blank, in)
      <4> HIDE DEF in
      <4> QED
        BY <1>4, <1>6, ReachedFirst
    <3> QED
      BY <1>4, <3>1
  <2>2. Reached(h, in, S1, br)
    <3> HIDE DEF in, br, meta
    <3> QED
      BY <1>4, <1>6, <1>7, <2>0, <2>1, ReachedBodies DEF meta
  <2>3. Reached(h, in, S2, cr)
    <3> HIDE DEF in, cr, S1, grants
    <3> QED
      BY <1>1, <1>4, <1>6, <1>7, <2>0, <2>2, ReachedBodies
  <2>4. Reached(h, in, S3, dr)
    <3> HIDE DEF in, dr, S2
    <3> QED
      BY <1>1, <1>4, <1>6, <1>7, <2>0, <2>3, ReachedBodies
  <2>5. Reached(h, in, S4, er)
    <3> HIDE DEF in, er, S3
    <3> QED
      BY <1>1, <1>4, <1>6, <1>7, <2>0, <2>4, ReachedBodies
  <2> QED
    <3> HIDE DEF in, S4, stored
    <3> QED
      BY <1>0, <1>1, <1>4, <1>6, <1>7, <2>0, <2>5, ReachedBodies
<1>9. ReadRecords(in) = Got(S5, <<>>)
  <2> HIDE DEF in, S5
  <2> QED
    BY <1>4, <1>6, <1>8, ReachedLast
<1> DEFINE reading == ReadRecords(in)
           whole == [reading.value EXCEPT !["meta"] = @[1]]
<1>10. reading.ok = TRUE /\ reading.value = S5
  <2> HIDE DEF reading, S5
  <2> QED
    BY <1>9 DEF Got, reading
<1>11. DecodePayload(in) =
          IF reading.ok
          THEN IF reading.value["meta"] = <<>> THEN Fail ELSE Got(whole, <<>>)
          ELSE Fail
  <2> HIDE DEF in
  <2> QED
    BY Zenon DEF DecodePayload, Then
<1>12. S5["meta"] # <<>> /\ [S5 EXCEPT !["meta"] = @[1]] = p
  <2> HIDE DEF S5
  <2>1. S5["meta"] # <<>>
    BY <1>7
  <2> DEFINE made == [S5 EXCEPT !["meta"] = @[1]]
             names == {"meta", "authorities", "fences", "entities", "registrations"}
  <2>2. S5 = [name \in names |-> S5[name]]
    BY <1>7, CollectionNames DEF IsRead
  <2>3. /\ made = [name \in names |-> made[name]]
        /\ made["meta"] = p.meta /\ made["authorities"] = p.authorities
        /\ made["fences"] = p.fences /\ made["registrations"] = p.registrations
        /\ made["entities"] = p.entities
    BY <1>7, <2>2
  <2> HIDE DEF made
  <2>4. made = [meta |-> p.meta, authorities |-> p.authorities, fences |-> p.fences,
                registrations |-> p.registrations, entities |-> p.entities]
    BY <2>3
  <2> QED
    BY <1>1, <2>1, <2>4 DEF made
<1>13. DecodePayload(in) = Got(p, <<>>)
  <2> HIDE DEF reading, S5, in
  <2> QED
    BY <1>10, <1>11, <1>12
<1> QED
  BY <1>5, <1>13

\* What the registry saves, within the bounds that Load checks, is loaded
\* again as it was.
THEOREM SavedPayloadLoads == Spec => []PayloadLoads
<1>1. Answered => PayloadLoads
  <2> SUFFICES ASSUME Answered, call = "load", result # Nothing
               PROVE  result = Got(input, <<>>)
    BY DEF PayloadLoads
  <2>1. input \in Payloads /\ result = DecodePayload(EncodePayload(input))
    BY DEF Answered, Answers
  <2>2. IsSaved(input)
    BY <2>1, AlgorithmsAssumption
  <2> QED
    BY <2>1, <2>2, SavedLoads
<1> QED
  BY <1>1, AnsweredInvariant, PTL

=============================================================================
