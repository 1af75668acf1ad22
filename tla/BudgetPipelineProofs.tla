------------------------ MODULE BudgetPipelineProofs ------------------------
(***************************************************************************)
(* BudgetPipeline.ApplyWithLimit for every input, configuration,           *)
(* estimator, summarizer and eviction strategy: the budget holds, measured *)
(* on the whole, what is required survives, nothing is evicted without     *)
(* need, and every call returns.                                           *)
(***************************************************************************)
EXTENDS BudgetPipeline, FiniteSetTheorems, SequenceTheorems, WellFoundedInduction, TLAPS

-----------------------------------------------------------------------------
(* Induction and sequences *)

\* Induction over the natural numbers, for a set of them.
LEMMA NatSetInduction ==
    ASSUME NEW S, 0 \in S, \A n \in Nat : n \in S => n + 1 \in S
    PROVE  Nat \subseteq S
<1> DEFINE T == Nat \ S
<1>1. SUFFICES ASSUME T # {} PROVE FALSE
  OBVIOUS
<1>2. IsWellFoundedOn(OpToRel(<, Nat), Nat)
  BY NatLessThanWellFounded
<1>3. PICK x \in T : \A y \in T : ~(<<y, x>> \in OpToRel(<, Nat))
  BY <1>1, <1>2, WFMin
<1>4. x \in Nat /\ x # 0
  BY <1>3
<1>5. x - 1 \in Nat /\ x - 1 < x /\ (x - 1) + 1 = x
  BY <1>4
<1>6. <<x - 1, x>> \in OpToRel(<, Nat)
  BY <1>4, <1>5 DEF OpToRel
<1>7. x - 1 \notin T
  BY <1>3, <1>6
<1>8. x - 1 \in S
  BY <1>5, <1>7
<1> QED
  BY <1>3, <1>5, <1>8

IsSequence(s) == s \in Seq(Range(s))

LEMMA SequenceDomain ==
    ASSUME NEW s, IsSequence(s)
    PROVE  Len(s) \in Nat /\ DOMAIN s = 1..Len(s)
BY DEF IsSequence

-----------------------------------------------------------------------------
(* What Kept keeps *)

\* f has, for every k, what is kept of the first k elements.
KeepsUpTo(f, n, s, S) ==
    f = [k \in 0..n |-> IF k = 0 THEN << >>
                        ELSE IF s[k] \in S THEN Append(f[k - 1], s[k]) ELSE f[k - 1]]

LEMMA KeepsExtends ==
    ASSUME NEW n \in Nat, NEW s, NEW S, NEW f, KeepsUpTo(f, n, s, S)
    PROVE  \E g : KeepsUpTo(g, n + 1, s, S)
<1> DEFINE g == [k \in 0..n + 1 |->
                   IF k <= n THEN f[k]
                   ELSE IF s[n + 1] \in S THEN Append(f[n], s[n + 1]) ELSE f[n]]
           body(k) == IF k = 0 THEN << >>
                      ELSE IF s[k] \in S THEN Append(g[k - 1], s[k]) ELSE g[k - 1]
<1>1. ASSUME NEW k \in 0..n + 1
      PROVE  g[k] = body(k)
  <2>1. CASE k <= n
    <3>1. g[k] = f[k] /\ (k # 0 => g[k - 1] = f[k - 1])
      BY <2>1
    <3>2. f[k] = IF k = 0 THEN << >>
                 ELSE IF s[k] \in S THEN Append(f[k - 1], s[k]) ELSE f[k - 1]
      <4>1. k \in 0..n
        BY <2>1
      <4> HIDE DEF g, body
      <4> QED
        BY <4>1 DEF KeepsUpTo
    <3> HIDE DEF g
    <3> QED
      BY <3>1, <3>2
  <2>2. CASE k = n + 1
    <3>1. g[n + 1] = (IF s[n + 1] \in S THEN Append(f[n], s[n + 1]) ELSE f[n]) /\ g[n] = f[n]
      OBVIOUS
    <3>2. n + 1 # 0 /\ (n + 1) - 1 = n
      OBVIOUS
    <3> HIDE DEF g
    <3> QED
      BY <2>2, <3>1, <3>2
  <2> QED
    BY <2>1, <2>2
<1>2. g = [k \in 0..n + 1 |-> g[k]]
  OBVIOUS
<1> HIDE DEF g
<1>3. g = [k \in 0..n + 1 |-> body(k)]
  BY <1>1, <1>2
<1> QED
  BY <1>3 DEF KeepsUpTo

LEMMA KeepsExists ==
    ASSUME NEW s, NEW S
    PROVE  \A n \in Nat : \E f : KeepsUpTo(f, n, s, S)
<1> DEFINE N == {n \in Nat : \E f : KeepsUpTo(f, n, s, S)}
<1>1. 0 \in N
  <2> DEFINE f == [k \in {0} |-> << >>]
  <2>1. 0..0 = {0}
    OBVIOUS
  <2>2. KeepsUpTo(f, 0, s, S)
    BY <2>1 DEF KeepsUpTo
  <2> QED
    BY <2>2
<1>2. \A n \in Nat : n \in N => n + 1 \in N
  BY KeepsExtends
<1> HIDE DEF N
<1>3. Nat \subseteq N
  BY <1>1, <1>2, NatSetInduction
<1> QED
  BY <1>3 DEF N

LEMMA KeptIs ==
    ASSUME NEW s, IsSequence(s), NEW S
    PROVE  \E f : KeepsUpTo(f, Len(s), s, S) /\ Kept(s, S) = f[Len(s)]
<1> DEFINE f == CHOOSE f : KeepsUpTo(f, Len(s), s, S)
<1>1. KeepsUpTo(f, Len(s), s, S)
  BY KeepsExists, SequenceDomain
<1>2. Kept(s, S) = f[Len(s)]
  BY DEF Kept, KeepsUpTo
<1> QED
  BY <1>1, <1>2

\* Kept gives a sequence of elements of s.
LEMMA KeptElements ==
    ASSUME NEW s, IsSequence(s), NEW S
    PROVE  Kept(s, S) \in Seq(Range(s))
<1> DEFINE n == Len(s)
           R == Range(s)
<1>1. n \in Nat /\ DOMAIN s = 1..n /\ \A k \in 1..n : s[k] \in R
  BY SequenceDomain DEF Range
<1> HIDE DEF n, R
<1>2. PICK f : KeepsUpTo(f, n, s, S) /\ Kept(s, S) = f[n]
  BY KeptIs DEF n
<1> DEFINE N == {k \in Nat : k <= n => f[k] \in Seq(R)}
<1>3. 0 \in N
  BY <1>1, <1>2 DEF KeepsUpTo
<1>4. ASSUME NEW k \in Nat, k \in N
      PROVE  k + 1 \in N
  <2> SUFFICES ASSUME k + 1 <= n
               PROVE  f[k + 1] \in Seq(R)
    OBVIOUS
  <2>1. f[k] \in Seq(R) /\ s[k + 1] \in R
    BY <1>1, <1>4
  <2>2. f[k + 1] = IF s[k + 1] \in S THEN Append(f[k], s[k + 1]) ELSE f[k]
    <3>1. k + 1 \in 0..n /\ k + 1 # 0 /\ (k + 1) - 1 = k
      BY <1>1
    <3> QED
      BY <1>2, <3>1 DEF KeepsUpTo
  <2> QED
    BY <2>1, <2>2, AppendProperties
<1> HIDE DEF N
<1>5. Nat \subseteq N
  BY <1>3, <1>4, NatSetInduction
<1> QED
  BY <1>1, <1>2, <1>5 DEF N, R

\* Only the elements of s matter.
LEMMA KeptWithin ==
    ASSUME NEW s, IsSequence(s), NEW S
    PROVE  Kept(s, S) = Kept(s, S \cap Range(s))
<1> DEFINE n == Len(s)
           R == Range(s)
<1>1. n \in Nat /\ DOMAIN s = 1..n /\ \A k \in 1..n : s[k] \in R
  BY SequenceDomain DEF Range
<1> HIDE DEF n, R
<1>2. PICK f : KeepsUpTo(f, n, s, S) /\ Kept(s, S) = f[n]
  BY KeptIs DEF n
<1>3. PICK g : KeepsUpTo(g, n, s, S \cap R) /\ Kept(s, S \cap R) = g[n]
  BY KeptIs DEF n
<1> DEFINE N == {k \in Nat : k <= n => f[k] = g[k]}
<1>4. 0 \in N
  BY <1>1, <1>2, <1>3 DEF KeepsUpTo
<1>5. ASSUME NEW k \in Nat, k \in N
      PROVE  k + 1 \in N
  <2> SUFFICES ASSUME k + 1 <= n
               PROVE  f[k + 1] = g[k + 1]
    OBVIOUS
  <2>1. f[k] = g[k] /\ s[k + 1] \in R
    BY <1>1, <1>5
  <2>2. k + 1 \in 0..n /\ k + 1 # 0 /\ (k + 1) - 1 = k
    BY <1>1
  <2>3. f[k + 1] = IF s[k + 1] \in S THEN Append(f[k], s[k + 1]) ELSE f[k]
    BY <1>2, <2>2 DEF KeepsUpTo
  <2>4. g[k + 1] = IF s[k + 1] \in S \cap R THEN Append(g[k], s[k + 1]) ELSE g[k]
    BY <1>3, <2>2 DEF KeepsUpTo
  <2> QED
    BY <2>1, <2>3, <2>4
<1> HIDE DEF N
<1>6. Nat \subseteq N
  BY <1>4, <1>5, NatSetInduction
<1> QED
  BY <1>1, <1>2, <1>3, <1>6 DEF N, R

-----------------------------------------------------------------------------
(* Counting tokens *)

SumsUpTo(f, n, ms) == f = [k \in 0..n |-> IF k = 0 THEN 0 ELSE f[k - 1] + ms[k].tokens]

LEMMA SumsExtends ==
    ASSUME NEW n \in Nat, NEW ms, NEW f, SumsUpTo(f, n, ms)
    PROVE  \E g : SumsUpTo(g, n + 1, ms)
<1> DEFINE g == [k \in 0..n + 1 |-> IF k <= n THEN f[k] ELSE f[n] + ms[n + 1].tokens]
           body(k) == IF k = 0 THEN 0 ELSE g[k - 1] + ms[k].tokens
<1>1. ASSUME NEW k \in 0..n + 1
      PROVE  g[k] = body(k)
  <2>1. CASE k <= n
    <3>1. g[k] = f[k] /\ (k # 0 => g[k - 1] = f[k - 1])
      BY <2>1
    <3>2. f[k] = IF k = 0 THEN 0 ELSE f[k - 1] + ms[k].tokens
      BY <2>1 DEF SumsUpTo
    <3> HIDE DEF g
    <3> QED
      BY <3>1, <3>2
  <2>2. CASE k = n + 1
    <3>1. g[n + 1] = f[n] + ms[n + 1].tokens /\ g[n] = f[n]
      OBVIOUS
    <3>2. n + 1 # 0 /\ (n + 1) - 1 = n
      OBVIOUS
    <3> HIDE DEF g
    <3> QED
      BY <2>2, <3>1, <3>2
  <2> QED
    BY <2>1, <2>2
<1>2. g = [k \in 0..n + 1 |-> g[k]]
  OBVIOUS
<1> HIDE DEF g
<1>3. g = [k \in 0..n + 1 |-> body(k)]
  BY <1>1, <1>2
<1> QED
  BY <1>3 DEF SumsUpTo

LEMMA SumsExists ==
    ASSUME NEW ms
    PROVE  \A n \in Nat : \E f : SumsUpTo(f, n, ms)
<1> DEFINE N == {n \in Nat : \E f : SumsUpTo(f, n, ms)}
<1>1. 0 \in N
  <2> DEFINE f == [k \in {0} |-> 0]
  <2>1. 0..0 = {0}
    OBVIOUS
  <2>2. SumsUpTo(f, 0, ms)
    BY <2>1 DEF SumsUpTo
  <2> QED
    BY <2>2
<1>2. \A n \in Nat : n \in N => n + 1 \in N
  BY SumsExtends
<1> HIDE DEF N
<1>3. Nat \subseteq N
  BY <1>1, <1>2, NatSetInduction
<1> QED
  BY <1>3 DEF N

\* Every message counts, and none counts negatively.
LEMMA WeightIsCount ==
    ASSUME NEW ms, IsSequence(ms), \A i \in DOMAIN ms : ms[i].tokens \in Nat
    PROVE  Weight(ms) \in Nat
<1> DEFINE n == Len(ms)
           f == CHOOSE f : SumsUpTo(f, n, ms)
           N == {k \in Nat : k <= n => f[k] \in Nat}
<1>1. n \in Nat /\ DOMAIN ms = 1..n
  BY SequenceDomain
<1>2. Weight(ms) = f[n]
  BY DEF Weight, SumsUpTo
<1> HIDE DEF n
<1>3. SumsUpTo(f, n, ms)
  BY <1>1, SumsExists
<1> HIDE DEF f
<1>4. 0 \in N
  BY <1>1, <1>3 DEF SumsUpTo
<1>5. ASSUME NEW k \in Nat, k \in N
      PROVE  k + 1 \in N
  <2> SUFFICES ASSUME k + 1 <= n
               PROVE  f[k + 1] \in Nat
    OBVIOUS
  <2>1. k + 1 \in 0..n /\ k + 1 # 0 /\ (k + 1) - 1 = k /\ k + 1 \in DOMAIN ms /\ k <= n
    BY <1>1
  <2>2. f[k + 1] = f[k] + ms[k + 1].tokens
    BY <1>3, <2>1 DEF SumsUpTo
  <2>3. f[k] \in Nat /\ ms[k + 1].tokens \in Nat
    BY <1>5, <2>1
  <2> QED
    BY <2>2, <2>3
<1> HIDE DEF N
<1>6. Nat \subseteq N
  BY <1>4, <1>5, NatSetInduction
<1> QED
  BY <1>1, <1>2, <1>6 DEF N

\* Percents of a limit are in order and within it: the split into hundreds and
\* the rest loses nothing that matters.
LEMMA PercentInOrder ==
    ASSUME NEW limit \in Nat, NEW p \in Nat, NEW q \in Nat, p <= q, q <= 100
    PROVE  /\ BudgetPercent(limit, p) \in Nat
           /\ BudgetPercent(limit, p) <= BudgetPercent(limit, q)
           /\ BudgetPercent(limit, q) <= limit
<1> DEFINE a == limit \div 100
           b == limit % 100
<1>1. a \in Nat /\ b \in Nat /\ limit = 100 * a + b
  OBVIOUS
<1> HIDE DEF a, b
<1>2. a * p \in Nat /\ a * q \in Nat /\ b * p \in Nat /\ b * q \in Nat
  BY <1>1
<1>3. a * p <= a * q /\ b * p <= b * q
  BY <1>1
<1>4. a * q <= 100 * a /\ b * q <= 100 * b
  BY <1>1
<1>5. /\ (b * p) \div 100 \in Nat
      /\ (b * p) \div 100 <= (b * q) \div 100
      /\ (b * q) \div 100 <= b
  <2> DEFINE x == b * p
             y == b * q
  <2>1. x \in Nat /\ y \in Nat /\ x <= y /\ y <= 100 * b
    BY <1>2, <1>3, <1>4
  <2> HIDE DEF x, y
  <2>2. x \div 100 \in Nat /\ x \div 100 <= y \div 100 /\ y \div 100 <= b
    BY <1>1, <2>1
  <2> QED
    BY <2>2 DEF x, y
<1>6. /\ BudgetPercent(limit, p) = a * p + ((b * p) \div 100)
      /\ BudgetPercent(limit, q) = a * q + ((b * q) \div 100)
  BY DEF BudgetPercent, a, b
<1> QED
  BY <1>1, <1>2, <1>3, <1>4, <1>5, <1>6

\* The input and every part of it have a count, with every estimator.
LEMMA PartsCounted ==
    ASSUME input \in Inputs
    PROVE  Estimate(input) \in Nat /\ \A S : Estimate(At(S)) \in Nat
<1> DEFINE all == [i \in Positions |-> i]
<1>1. IsSequence(input) /\ \A i \in Positions : input[i].tokens \in Nat
  BY InputsAssumption DEF IsSequence, Positions
<1>2. Len(input) \in Nat /\ Positions = 1..Len(input)
  BY <1>1, SequenceDomain DEF Positions
<1>3. all \in Seq(Positions) /\ IsSequence(all) /\ Range(all) = Positions
  BY <1>2 DEF IsSequence, Range
<1>4. Estimate(input) \in Nat
  BY <1>1, WeightIsCount, HostCostAssumption DEF Estimate, Positions
<1>5. ASSUME NEW S
      PROVE  Estimate(At(S)) \in Nat
  <2>1. Ascending(S) = Kept(all, S) /\ Kept(all, S) = Kept(all, S \cap Positions)
    BY <1>3, KeptWithin DEF Ascending
  <2> DEFINE ps == Kept(all, S \cap Positions)
             ms == [k \in DOMAIN ps |-> input[ps[k]]]
  <2>2. At(S) = ms
    BY <2>1 DEF At, Messages
  <2>3. ps \in Seq(Positions)
    BY <1>3, KeptElements
  <2>4. HostCost(ms) \in Nat
    <3>1. S \cap Positions \in SUBSET DOMAIN input
      BY DEF Positions
    <3> QED
      BY <3>1, HostCostAssumption DEF Positions
  <2> HIDE DEF ps
  <2>5. IsSequence(ms)
    <3>1. DOMAIN ps = 1..Len(ps) /\ Len(ps) \in Nat
      BY <2>3
    <3> QED
      BY <3>1 DEF IsSequence, Range
  <2>6. \A k \in DOMAIN ms : ms[k].tokens \in Nat
    BY <1>1, <2>3
  <2> HIDE DEF ms
  <2>7. Weight(ms) \in Nat
    BY <2>5, <2>6, WeightIsCount
  <2> QED
    BY <2>2, <2>4, <2>7 DEF Estimate
<1> QED
  BY <1>4, <1>5

-----------------------------------------------------------------------------
(* The invariant *)

IsDecision(d) ==
    d = [before |-> d.before, after |-> d.after, trigger |-> d.trigger, goal |-> d.goal,
         summaryMax |-> d.summaryMax, summaryGoal |-> d.summaryGoal, compacted |-> d.compacted]

\* The stages behind the first measurement, but the last.
Deciding == {"protect", "compare", "evict complete", "summarize", "evict",
             "drop head", "drop tail", "merge", "admit"}

Stages == {"inspect", "select", "measure", "verify", "done"} \cup Deciding

TypeOK ==
    /\ input \in Inputs
    /\ cfg \in Configs
    /\ pc \in Stages
    /\ pc # "done" => answer = "none"
    /\ IsDecision(decision)

\* The decision was made for this input and this limit.
Measured ==
    pc \in Deciding \cup {"verify"} \/ answer = "ok" =>
        /\ decision.before = Estimate(input)
        /\ decision.trigger = BudgetPercent(cfg.limit, cfg.trigger)
        /\ decision.goal = BudgetPercent(cfg.limit, cfg.target)

\* The summarizer is asked only after the required part was found to fit.
RoomReserved == pc = "summarize" => Reserved <= cfg.limit

\* A summary was given what the required part leaves of the limit.
SummaryRoom ==
    decision.compacted =>
        /\ decision.summaryGoal <= decision.summaryMax
        /\ decision.summaryMax <= cfg.limit
        /\ decision.summaryGoal <= decision.goal

\* What is about to be returned has been measured as a whole.
ResultMeasured ==
    pc = "verify" \/ answer = "ok" => decision.after = Estimate(out) /\ Estimate(out) <= cfg.limit

Inv ==
    /\ TypeOK
    /\ Measured
    /\ RoomReserved
    /\ SummaryRoom
    /\ ResultMeasured

LEMMA PercentsOfLimit ==
    ASSUME cfg \in Configs
    PROVE  /\ cfg.limit \in Nat
           /\ BudgetPercent(cfg.limit, cfg.target) \in Nat
           /\ BudgetPercent(cfg.limit, cfg.trigger) \in Nat
           /\ BudgetPercent(cfg.limit, cfg.target) <= BudgetPercent(cfg.limit, cfg.trigger)
           /\ BudgetPercent(cfg.limit, cfg.trigger) <= cfg.limit
<1>1. cfg.limit \in Nat /\ cfg.target \in Nat /\ cfg.trigger \in Nat /\ cfg.target <= cfg.trigger /\ cfg.trigger <= 100
  BY ConfigsAssumption DEF ConfigOK
<1> DEFINE l == cfg.limit
           p == cfg.target
           q == cfg.trigger
<1>2. l \in Nat /\ p \in Nat /\ q \in Nat /\ p <= q /\ q <= 100 /\ q <= q
  BY <1>1
<1> HIDE DEF l, p, q
<1>3. /\ BudgetPercent(l, p) \in Nat /\ BudgetPercent(l, p) <= BudgetPercent(l, q)
      /\ BudgetPercent(l, q) <= l
  BY <1>2, PercentInOrder
<1>4. BudgetPercent(l, q) \in Nat
  BY <1>2, PercentInOrder
<1> QED
  BY <1>2, <1>3, <1>4 DEF l, p, q

-----------------------------------------------------------------------------
(* Every step keeps it *)

LEMMA InitInv ==
    ASSUME Init
    PROVE  Inv
<1>1. TypeOK
  BY DEF Init, TypeOK, Stages, IsDecision, NoDecision
<1>2. Measured /\ RoomReserved /\ SummaryRoom /\ ResultMeasured
  BY DEF Init, Measured, Deciding, RoomReserved, SummaryRoom, ResultMeasured, NoDecision
<1> QED
  BY <1>1, <1>2 DEF Inv

\* The call ends without a result.
LEMMA FailInv ==
    ASSUME Inv, NEW kind, kind # "ok", pc' = "done", answer' = kind,
           UNCHANGED <<input, cfg, decision>>
    PROVE  Inv'
<1>1. TypeOK'
  BY DEF Inv, TypeOK, Stages
<1>2. Measured' /\ RoomReserved' /\ SummaryRoom' /\ ResultMeasured'
  BY DEF Inv, Measured, Deciding, RoomReserved, SummaryRoom, ResultMeasured
<1> QED
  BY <1>1, <1>2 DEF Inv

FailKinds == {"failed", "invalid round", "invalid retention", "invalid summary", "budget exceeded",
              "required overflow", "block too large"}

LEMMA FailsInv ==
    ASSUME Inv, NEW kind \in FailKinds, Fail(kind)
    PROVE  Inv'
<1>1. kind # "ok"
  BY DEF FailKinds
<1> QED
  BY <1>1, FailInv DEF Fail, Answer

\* The call goes on and neither measures nor decides.
LEMMA QuietInv ==
    ASSUME Inv, pc # "done", pc' \in Stages \ {"verify", "done"},
           pc' \in Deciding => pc \in Deciding,
           pc' = "summarize" => Reserved' <= cfg.limit,
           UNCHANGED <<input, cfg, decision, answer>>
    PROVE  Inv'
<1>1. TypeOK'
  BY DEF Inv, TypeOK
<1>2. answer' # "ok"
  BY DEF Inv, TypeOK
<1>3. Measured'
  BY <1>2 DEF Inv, Measured, Estimate, Stages, Deciding
<1>4. RoomReserved' /\ SummaryRoom' /\ ResultMeasured'
  BY <1>2 DEF Inv, RoomReserved, SummaryRoom, ResultMeasured
<1> QED
  BY <1>1, <1>3, <1>4 DEF Inv

\* A result that was measured goes to the last check.
LEMMA ToVerifyInv ==
    ASSUME Inv, pc \in Deciding, pc' = "verify", NEW count, count = Estimate(out'), count <= cfg.limit,
           decision' = [decision EXCEPT !.after = count],
           UNCHANGED <<input, cfg, answer>>
    PROVE  Inv'
<1>1. /\ IsDecision(decision')
      /\ decision'.after = count
      /\ decision'.before = decision.before /\ decision'.trigger = decision.trigger
      /\ decision'.goal = decision.goal /\ decision'.summaryMax = decision.summaryMax
      /\ decision'.summaryGoal = decision.summaryGoal /\ decision'.compacted = decision.compacted
  BY DEF Inv, TypeOK, IsDecision
<1>2. TypeOK'
  BY <1>1 DEF Inv, TypeOK, Stages, Deciding
<1>3. Measured'
  BY <1>1 DEF Inv, Measured, Estimate
<1>4. RoomReserved' /\ SummaryRoom'
  BY <1>1 DEF Inv, RoomReserved, SummaryRoom
<1>5. Estimate(out)' = count
  BY DEF Estimate
<1>6. ResultMeasured'
  BY <1>1, <1>5 DEF ResultMeasured
<1> QED
  BY <1>2, <1>3, <1>4, <1>6 DEF Inv

LEMMA MeasureInputInv ==
    ASSUME Inv, MeasureInput
    PROVE  Inv'
<1>1. /\ pc = "measure" /\ pc' = "protect"
      /\ UNCHANGED <<input, cfg, required, cur, output, out, answer>>
      /\ decision' = [NoDecision EXCEPT
                        !.before = Estimate(input),
                        !.trigger = BudgetPercent(cfg.limit, cfg.trigger),
                        !.goal = BudgetPercent(cfg.limit, cfg.target)]
  BY DEF MeasureInput, Goto
<1>2. /\ IsDecision(decision') /\ decision'.compacted = FALSE
      /\ decision'.before = Estimate(input)
      /\ decision'.trigger = BudgetPercent(cfg.limit, cfg.trigger)
      /\ decision'.goal = BudgetPercent(cfg.limit, cfg.target)
  BY <1>1 DEF NoDecision, IsDecision
<1>3. TypeOK' /\ answer' # "ok"
  BY <1>1, <1>2 DEF Inv, TypeOK, Stages, Deciding
<1>4. Measured'
  BY <1>1, <1>2 DEF Measured, Estimate
<1>5. RoomReserved' /\ SummaryRoom' /\ ResultMeasured'
  BY <1>1, <1>2, <1>3 DEF RoomReserved, SummaryRoom, ResultMeasured
<1> QED
  BY <1>3, <1>4, <1>5 DEF Inv

LEMMA FitsInv ==
    ASSUME Inv, Fits
    PROVE  Inv'
<1>1. /\ pc = "compare" /\ pc' = "verify"
      /\ decision.before <= decision.trigger
      /\ decision' = [decision EXCEPT !.after = decision.before]
      /\ out' = input
      /\ UNCHANGED <<input, cfg, required, cur, output, answer>>
  BY DEF Fits, Goto
<1>2. /\ decision.before = Estimate(input)
      /\ decision.trigger = BudgetPercent(cfg.limit, cfg.trigger)
  BY <1>1 DEF Inv, Measured, Deciding
<1>3. decision.before <= cfg.limit
  BY <1>1, <1>2, PartsCounted, PercentsOfLimit DEF Inv, TypeOK
<1> QED
  BY <1>1, <1>2, <1>3, ToVerifyInv DEF Deciding

LEMMA ReserveInv ==
    ASSUME Inv, Reserve
    PROVE  Inv'
<1>1. pc = "compare" /\ answer = "none"
  BY DEF Reserve, Inv, TypeOK
<1>2. CASE Fail("required overflow")
  BY <1>2, FailsInv DEF FailKinds
<1>3. CASE /\ decision.before <= cfg.limit
           /\ decision' = [decision EXCEPT !.after = decision.before]
           /\ out' = input
           /\ Goto("verify")
           /\ UNCHANGED <<input, cfg, required, cur, output, answer>>
  <2>1. decision.before = Estimate(input)
    BY <1>1 DEF Inv, Measured, Deciding
  <2> QED
    BY <1>1, <1>3, <2>1, ToVerifyInv DEF Deciding, Goto
<1>4. CASE /\ Reserved <= cfg.limit
           /\ Goto(IF cfg.summarizer THEN "summarize" ELSE "evict")
           /\ UNCHANGED <<input, cfg, required, output, decision, out, answer>>
  <2>1. Reserved' = Reserved
    BY <1>4 DEF Reserved, At, Messages, Ascending, Positions, Estimate
  <2> QED
    BY <1>1, <1>4, <2>1, QuietInv DEF Goto, Stages, Deciding
<1> QED
  BY <1>2, <1>3, <1>4 DEF Reserve

LEMMA SummarizeOptionalInv ==
    ASSUME Inv, SummarizeOptional
    PROVE  Inv'
<1>1. pc = "summarize" /\ answer = "none"
  BY DEF SummarizeOptional, Inv, TypeOK
<1>2. CASE \E kind \in {"budget exceeded", "invalid round", "invalid summary"} : Fail(kind)
  BY <1>2, FailsInv DEF FailKinds
<1>3. CASE /\ decision' = [decision EXCEPT !.compacted = TRUE, !.summaryMax = Allowance,
                                           !.summaryGoal = SummaryGoal]
           /\ Goto("merge")
           /\ UNCHANGED <<input, cfg, required, cur, out, answer>>
  <2>1. /\ IsDecision(decision')
        /\ decision'.before = decision.before /\ decision'.trigger = decision.trigger
        /\ decision'.goal = decision.goal
        /\ decision'.summaryMax = Allowance /\ decision'.summaryGoal = SummaryGoal
    BY <1>3 DEF Inv, TypeOK, IsDecision
  <2>2. Reserved \in Nat /\ Reserved <= cfg.limit /\ cfg.limit \in Nat
    BY <1>1, PartsCounted, PercentsOfLimit DEF Inv, TypeOK, RoomReserved, Reserved
  <2>3. decision.goal \in Nat /\ decision.goal <= cfg.limit
    BY <1>1, PercentsOfLimit DEF Inv, TypeOK, Measured, Deciding
  <2>4. SummaryGoal = IF decision.goal - Reserved >= 0 THEN decision.goal - Reserved ELSE 0
    <3> DEFINE g == decision.goal - Reserved
    <3>1. g \in Int
      BY <2>2, <2>3
    <3> HIDE DEF g
    <3>2. Max({0, g}) \in {0, g} /\ \A y \in {0, g} : Max({0, g}) >= y
      BY <3>1 DEF Max
    <3>3. Max({0, g}) = IF g >= 0 THEN g ELSE 0
      BY <3>1, <3>2
    <3> QED
      BY <3>3 DEF g, SummaryGoal
  <2>5. SummaryRoom'
    BY <1>3, <2>1, <2>2, <2>3, <2>4 DEF SummaryRoom, Allowance
  <2>6. TypeOK'
    BY <1>1, <1>3, <2>1 DEF Inv, TypeOK, Stages, Deciding, Goto
  <2>7. Measured'
    BY <1>1, <1>3, <2>1 DEF Inv, Measured, Estimate, Deciding
  <2>8. RoomReserved' /\ ResultMeasured'
    BY <1>1, <1>3 DEF RoomReserved, ResultMeasured, Goto
  <2> QED
    BY <2>5, <2>6, <2>7, <2>8 DEF Inv
<1> QED
  BY <1>2, <1>3 DEF SummarizeOptional

\* What a strategy returns is inspected.
LEMMA EvictedInv ==
    ASSUME Inv, pc \in Deciding, NEW ms, Evicted(ms)
    PROVE  Inv'
<1>1. CASE Fail("invalid round")
  BY <1>1, FailsInv DEF FailKinds
<1>2. CASE Goto("merge") /\ UNCHANGED <<input, cfg, decision, answer>>
  BY <1>2, QuietInv DEF Goto, Stages, Deciding
<1> QED
  BY <1>1, <1>2 DEF Evicted

LEMMA EvictionInv ==
    ASSUME Inv,
           \/ StartCompleteEviction \/ EvictCompleteCandidate \/ OptionalFits \/ ApplyStrict
           \/ ApplyDrop \/ ApplyHost \/ ApplyHeadFast \/ ApplyHeadSelective \/ DropHeadUnit
           \/ DropHeadDone \/ ApplyTail \/ DropTailUnit
    PROVE  Inv'
<1>1. CASE StartCompleteEviction
  BY <1>1, FailsInv, QuietInv DEF StartCompleteEviction, FailKinds, Goto, Stages, Deciding
<1>2. CASE EvictCompleteCandidate
  <2>1. pc = "evict complete"
    BY <1>2 DEF EvictCompleteCandidate
  <2>2. \/ Fail("required overflow")
        \/ /\ pc' \in {pc, "admit"}
           /\ UNCHANGED <<input, cfg, decision, answer>>
    BY <1>2 DEF EvictCompleteCandidate, Goto
  <2> QED
    BY <2>1, <2>2, FailsInv, QuietInv DEF FailKinds, Stages, Deciding
<1>3. CASE OptionalFits
  BY <1>3, QuietInv DEF OptionalFits, Goto, Stages, Deciding
<1>4. CASE ApplyStrict
  BY <1>4, FailsInv DEF ApplyStrict, FailKinds
<1>5. CASE ApplyDrop
  BY <1>5, EvictedInv DEF ApplyDrop, ApplyStrategy, Deciding
<1>6. CASE ApplyHost
  BY <1>6, EvictedInv DEF ApplyHost, ApplyStrategy, Deciding
<1>7. CASE ApplyHeadFast
  BY <1>7, EvictedInv DEF ApplyHeadFast, ApplyStrategy, Deciding
<1>8. CASE ApplyHeadSelective
  BY <1>8, QuietInv DEF ApplyHeadSelective, ApplyStrategy, Goto, Stages, Deciding
<1>9. CASE DropHeadUnit
  BY <1>9, QuietInv DEF DropHeadUnit, Stages, Deciding
<1>10. CASE DropHeadDone
  BY <1>10, EvictedInv DEF DropHeadDone, Deciding
<1>11. CASE ApplyTail
  BY <1>11, QuietInv DEF ApplyTail, ApplyStrategy, Goto, Stages, Deciding
<1>12. CASE DropTailUnit
  <2>1. pc = "drop tail"
    BY <1>12 DEF DropTailUnit
  <2>2. \/ Fail("block too large")
        \/ \E ms : Evicted(ms)
        \/ UNCHANGED <<pc, input, cfg, decision, answer>>
    BY <1>12 DEF DropTailUnit
  <2> QED
    BY <2>1, <2>2, FailsInv, EvictedInv, QuietInv DEF FailKinds, Stages, Deciding
<1> QED
  BY <1>1, <1>2, <1>3, <1>4, <1>5, <1>6, <1>7, <1>8, <1>9, <1>10, <1>11, <1>12

LEMMA AdmitInv ==
    ASSUME Inv, Admit
    PROVE  Inv'
<1>1. pc = "admit"
  BY DEF Admit
<1>2. CASE \E kind \in {"invalid round", "budget exceeded"} : Fail(kind)
  BY <1>2, FailsInv DEF FailKinds
<1>3. CASE /\ Estimate(out) <= cfg.limit
           /\ decision' = [decision EXCEPT !.after = Estimate(out)]
           /\ Goto("verify")
           /\ UNCHANGED <<input, cfg, required, cur, output, out, answer>>
  BY <1>1, <1>3, ToVerifyInv DEF Deciding, Goto
<1> QED
  BY <1>2, <1>3 DEF Admit

LEMMA VerifyInv ==
    ASSUME Inv, Verify
    PROVE  Inv'
<1>1. /\ pc = "verify" /\ pc' = "done" /\ answer' \in {"ok", "invalid retention"}
      /\ UNCHANGED <<input, cfg, required, cur, output, decision, out>>
  BY DEF Verify, Answer
<1>2. TypeOK'
  BY <1>1 DEF Inv, TypeOK, Stages
<1>3. Measured'
  BY <1>1 DEF Inv, Measured, Estimate, Deciding
<1>4. RoomReserved' /\ SummaryRoom' /\ ResultMeasured'
  BY <1>1 DEF Inv, RoomReserved, SummaryRoom, ResultMeasured, Estimate
<1> QED
  BY <1>2, <1>3, <1>4 DEF Inv

\* The stages that select and put together what is required.
LEMMA SelectionInv ==
    ASSUME Inv,
           \/ InspectBudgetRounds \/ SelectRequired \/ ProtectSuffix \/ MergeRequired
           \/ Interrupted
    PROVE  Inv'
<1>1. CASE InspectBudgetRounds
  BY <1>1, FailsInv, QuietInv DEF InspectBudgetRounds, FailKinds, Goto, Stages, Deciding
<1>2. CASE SelectRequired
  <2>1. pc = "select"
    BY <1>2 DEF SelectRequired
  <2>2. \/ Fail("invalid retention")
        \/ pc' = "measure" /\ UNCHANGED <<input, cfg, decision, answer>>
    BY <1>2 DEF SelectRequired, Goto
  <2> QED
    BY <2>1, <2>2, FailsInv, QuietInv DEF FailKinds, Stages, Deciding
<1>3. CASE ProtectSuffix
  <2>1. pc = "protect" /\ UNCHANGED <<input, cfg, decision>>
    BY <1>3 DEF ProtectSuffix
  <2>2. \/ \E kind \in {"duplicate id", "invalid retention"} : pc' = "done" /\ answer' = kind
        \/ pc' = "compare" /\ UNCHANGED answer
    BY <1>3 DEF ProtectSuffix, Answer, Goto
  <2> QED
    BY <2>1, <2>2, FailInv, QuietInv DEF Stages, Deciding
<1>4. CASE MergeRequired
  <2>1. pc = "merge" /\ UNCHANGED <<input, cfg, decision>>
    BY <1>4 DEF MergeRequired
  <2>2. \/ \E kind \in {"duplicate id", "invalid retention"} : pc' = "done" /\ answer' = kind
        \/ pc' = "admit" /\ UNCHANGED answer
    BY <1>4 DEF MergeRequired, Answer, Goto
  <2> QED
    BY <2>1, <2>2, FailInv, QuietInv DEF Stages, Deciding
<1>5. CASE Interrupted
  BY <1>5, FailsInv DEF Interrupted, FailKinds
<1> QED
  BY <1>1, <1>2, <1>3, <1>4, <1>5

LEMMA NextInv ==
    ASSUME Inv, [Next]_vars
    PROVE  Inv'
<1>1. CASE UNCHANGED vars
  BY <1>1 DEF vars, Inv, TypeOK, Measured, RoomReserved, SummaryRoom, ResultMeasured, Estimate,
              Reserved, At, Messages, Ascending, Positions
<1>2. CASE Next
  BY <1>2, SelectionInv, MeasureInputInv, FitsInv, ReserveInv, SummarizeOptionalInv, EvictionInv,
     AdmitInv, VerifyInv DEF Next
<1> QED
  BY <1>1, <1>2

-----------------------------------------------------------------------------
(* The theorems *)

\* Every reachable state satisfies the inductive invariant.
THEOREM InvHolds == Spec => []Inv
<1>1. Init => Inv
  BY InitInv
<1>2. Inv /\ [Next]_vars => Inv'
  BY NextInv
<1> QED
  BY <1>1, <1>2, PTL DEF Spec

\* ApplyWithLimit never returns messages that count for more than the limit, nor
\* a decision that its own validation refuses, with any estimator, summarizer
\* and strategy.
THEOREM BudgetHolds == Spec => []FitsLimit
<1>1. Inv => FitsLimit
  BY PercentsOfLimit DEF Inv, TypeOK, Measured, SummaryRoom, ResultMeasured, FitsLimit
<1> QED
  BY <1>1, InvHolds, PTL

-----------------------------------------------------------------------------
(* Eviction comes to an end: what the helpers give *)

LEMMA MinOf ==
    ASSUME NEW S, S \subseteq Nat, S # {}
    PROVE  Min(S) \in S /\ \A y \in S : Min(S) <= y
<1>1. IsWellFoundedOn(OpToRel(<, Nat), Nat)
  BY NatLessThanWellFounded
<1>2. PICK x \in S : \A y \in S : ~(<<y, x>> \in OpToRel(<, Nat))
  BY <1>1, WFMin
<1>3. \A y \in S : x <= y
  <2> TAKE y \in S
  <2>1. ~(y < x)
    BY <1>2 DEF OpToRel
  <2> QED
    BY <2>1
<1> QED
  BY <1>2, <1>3 DEF Min

LEMMA MaxOf ==
    ASSUME NEW n \in Nat, NEW S, S \subseteq 1..n, S # {}
    PROVE  Max(S) \in S /\ \A y \in S : Max(S) >= y
<1> DEFINE T == {n - x : x \in S}
<1>1. T \subseteq Nat /\ T # {}
  <2>1. \A x \in S : n - x \in Nat
    OBVIOUS
  <2> QED
    BY <2>1
<1>2. Min(T) \in T /\ \A y \in T : Min(T) <= y
  BY <1>1, MinOf
<1>3. PICK x \in S : Min(T) = n - x
  BY <1>2
<1>4. \A y \in S : x >= y
  <2> TAKE y \in S
  <2>1. n - x <= n - y
    BY <1>2, <1>3
  <2> QED
    BY <2>1
<1> QED
  BY <1>3, <1>4 DEF Max

InOrder(s) == \A i, j \in DOMAIN s : i < j => s[i] < s[j]

\* Of positions in order Kept keeps those in S, in order, and is shorter if there
\* are others.
LEMMA KeptInOrder ==
    ASSUME NEW s, s \in Seq(Nat), InOrder(s), NEW S
    PROVE  LET t == Kept(s, S)
           IN  /\ t \in Seq(Range(s) \cap S)
               /\ InOrder(t)
               /\ Range(s) \cap S \subseteq Range(t)
               /\ Len(t) <= Len(s)
               /\ \A j \in DOMAIN s : s[j] \notin S => Len(t) < Len(s)
<1> DEFINE n == Len(s)
           R == Range(s) \cap S
           P(t, k) ==
             /\ t \in Seq(R)
             /\ InOrder(t)
             /\ \A i \in DOMAIN t : \E j \in 1..k : t[i] = s[j]
             /\ \A j \in 1..k : s[j] \in S => \E i \in DOMAIN t : t[i] = s[j]
             /\ Len(t) <= k
             /\ \A j \in 1..k : s[j] \notin S => Len(t) < k
<1>1. IsSequence(s) /\ n \in Nat /\ DOMAIN s = 1..n /\ \A k \in 1..n : s[k] \in Range(s) /\ s[k] \in Nat
  BY DEF IsSequence, Range
<1> HIDE DEF n, R
<1>2. PICK f : KeepsUpTo(f, n, s, S) /\ Kept(s, S) = f[n]
  BY <1>1, KeptIs DEF n
<1> DEFINE N == {k \in Nat : k <= n => P(f[k], k)}
<1>3. 0 \in N
  <2>1. f[0] = << >>
    BY <1>1, <1>2 DEF KeepsUpTo
  <2>2. P(<< >>, 0)
    BY DEF InOrder
  <2> HIDE DEF P
  <2> QED
    BY <2>1, <2>2
<1>4. ASSUME NEW k \in Nat, k \in N
      PROVE  k + 1 \in N
  <2> SUFFICES ASSUME k + 1 <= n
               PROVE  P(f[k + 1], k + 1)
    <3> HIDE DEF P
    <3> QED
      OBVIOUS
  <2> DEFINE t == f[k]
             x == s[k + 1]
  <2>1. k + 1 \in 0..n /\ k + 1 # 0 /\ (k + 1) - 1 = k /\ k + 1 \in 1..n /\ k <= n
    BY <1>1
  <2>2. P(t, k)
    <3> HIDE DEF P
    <3> QED
      BY <1>4, <2>1
  <2>3. f[k + 1] = IF x \in S THEN Append(t, x) ELSE t
    BY <1>2, <2>1 DEF KeepsUpTo
  <2> HIDE DEF t
  <2>4. CASE x \notin S
    <3>1. \A j \in 1..k + 1 : s[j] \in S => j \in 1..k
      BY <2>4
    <3>2. Len(t) <= k + 1 /\ Len(t) < k + 1
      BY <2>2
    <3>3. \A i \in DOMAIN t : \E j \in 1..k + 1 : t[i] = s[j]
      BY <2>2
    <3>4. P(t, k + 1)
      BY <2>2, <3>1, <3>2, <3>3
    <3> HIDE DEF P
    <3> QED
      BY <2>3, <2>4, <3>4
  <2>5. CASE x \in S
    <3> DEFINE g == Append(t, x)
               m == Len(t)
    <3>1. m \in Nat /\ DOMAIN t = 1..m /\ t \in Seq(R) /\ x \in R
      BY <1>1, <2>1, <2>2, <2>5 DEF R
    <3>2. /\ g \in Seq(R) /\ Len(g) = m + 1 /\ DOMAIN g = 1..m + 1
          /\ \A i \in 1..m : g[i] = t[i]
          /\ g[m + 1] = x
      BY <3>1
    <3> HIDE DEF g, m
    <3>3. InOrder(g)
      <4> SUFFICES ASSUME NEW i \in 1..m + 1, NEW j \in 1..m + 1, i < j
                   PROVE  g[i] < g[j]
        BY <3>2 DEF InOrder
      <4>1. CASE j # m + 1
        <5>1. i \in 1..m /\ j \in 1..m
          BY <3>1, <4>1
        <5> QED
          BY <2>2, <3>1, <3>2, <5>1 DEF InOrder
      <4>2. CASE j = m + 1
        <5>1. i \in 1..m
          BY <3>1, <4>2
        <5>2. PICK h \in 1..k : t[i] = s[h]
          BY <2>2, <3>1, <5>1
        <5>3. s[h] < s[k + 1]
          <6>1. h \in 1..n /\ h < k + 1
            BY <1>1, <2>1
          <6> QED
            BY <1>1, <2>1, <6>1 DEF InOrder
        <5> QED
          BY <3>2, <4>2, <5>1, <5>2, <5>3
      <4> QED
        BY <4>1, <4>2
    <3>4. \A i \in DOMAIN g : \E j \in 1..k + 1 : g[i] = s[j]
      <4> TAKE i \in DOMAIN g
      <4>1. CASE i = m + 1
        BY <3>2, <4>1
      <4>2. CASE i \in 1..m
        BY <2>2, <3>1, <3>2, <4>2
      <4> QED
        BY <3>1, <3>2, <4>1, <4>2
    <3>5. \A j \in 1..k + 1 : s[j] \in S => \E i \in DOMAIN g : g[i] = s[j]
      <4> TAKE j \in 1..k + 1
      <4>1. CASE j = k + 1
        <5>1. m + 1 \in DOMAIN g
          BY <3>1, <3>2
        <5> QED
          BY <3>2, <4>1, <5>1
      <4>2. CASE j \in 1..k
        <5>1. s[j] \in S => \E i \in 1..m : t[i] = s[j]
          BY <2>2, <3>1, <4>2
        <5>2. 1..m \subseteq DOMAIN g
          BY <3>1, <3>2
        <5> QED
          BY <3>2, <5>1, <5>2
      <4> QED
        BY <4>1, <4>2
    <3>6. Len(g) <= k + 1 /\ \A j \in 1..k + 1 : s[j] \notin S => Len(g) < k + 1
      <4>1. m <= k /\ \A j \in 1..k : s[j] \notin S => m < k
        BY <2>2 DEF m
      <4>2. \A j \in 1..k + 1 : s[j] \notin S => j \in 1..k
        BY <2>5
      <4> QED
        BY <3>1, <3>2, <4>1, <4>2
    <3>7. P(g, k + 1)
      BY <3>2, <3>3, <3>4, <3>5, <3>6
    <3> HIDE DEF P
    <3> QED
      BY <2>3, <2>5, <3>7 DEF g
  <2> HIDE DEF P
  <2> QED
    BY <2>4, <2>5
<1> HIDE DEF N
<1>5. Nat \subseteq N
  BY <1>3, <1>4, NatSetInduction
<1>6. P(Kept(s, S), n)
  <2> HIDE DEF P
  <2> QED
    BY <1>1, <1>2, <1>5 DEF N
<1>7. R \subseteq Range(Kept(s, S))
  <2> SUFFICES ASSUME NEW y \in R
               PROVE  y \in Range(Kept(s, S))
    OBVIOUS
  <2>1. PICK j \in 1..n : y = s[j]
    BY <1>1 DEF R, Range
  <2>2. y \in S
    BY DEF R
  <2> QED
    BY <1>6, <2>1, <2>2 DEF Range
<1> QED
  BY <1>1, <1>6, <1>7 DEF n, R

-----------------------------------------------------------------------------
(* Where rounds end *)

LEMMA BlockEnd ==
    ASSUME NEW ms, IsSequence(ms), NEW i \in DOMAIN ms
    PROVE  LET e == ContiguousToolBlockEnd(ms, i)
           IN  /\ e \in i..Len(ms)
               /\ \A k \in i+1..e : ms[k].role = "tool"
               /\ e < Len(ms) => ms[e + 1].role # "tool"
<1> DEFINE n == Len(ms)
           S == {e \in i..n : e = n \/ ms[e + 1].role # "tool"}
           e == Min(S)
<1>1. n \in Nat /\ i \in 1..n
  BY SequenceDomain
<1> HIDE DEF n
<1>2. S \subseteq Nat /\ n \in S
  BY <1>1
<1>3. e \in S /\ \A y \in S : e <= y
  BY <1>2, MinOf
<1> HIDE DEF e
<1>4. e \in i..n /\ (e < n => ms[e + 1].role # "tool")
  BY <1>1, <1>3
<1>5. ASSUME NEW k \in i+1..e
      PROVE  ms[k].role = "tool"
  <2>1. k - 1 \in i..n /\ k - 1 < e /\ (k - 1) + 1 = k /\ k - 1 # n
    BY <1>1, <1>4
  <2>2. k - 1 \notin S
    BY <1>1, <1>3, <1>4, <2>1
  <2> QED
    BY <2>1, <2>2
<1> QED
  BY <1>4, <1>5 DEF ContiguousToolBlockEnd, n

LEMMA RoundEnd ==
    ASSUME NEW ms, IsSequence(ms), NEW i \in DOMAIN ms
    PROVE  ToolRoundEndIndex(ms, i) \in i..Len(ms)
<1>1. Len(ms) \in Nat /\ i \in 1..Len(ms)
  BY SequenceDomain
<1> QED
  BY <1>1, BlockEnd DEF ToolRoundEndIndex

\* The tail's unit is the last message, or a complete round up to it.
LEMMA TailStart ==
    ASSUME NEW ms, IsSequence(ms), Len(ms) > 0
    PROVE  LET s == ToolRoundStartForTail(ms)
           IN  /\ s \in 1..Len(ms)
               /\ s # Len(ms) => IsCompleteRound(ms, s) /\ ContiguousToolBlockEnd(ms, s) = Len(ms)
<1> DEFINE last == Len(ms)
           starts == {i \in 1..last - 1 : /\ ms[i].role = "assistant"
                                          /\ HasToolCalls(ms[i])
                                          /\ \A k \in i+1..last-1 : ms[k].role = "tool"
                                          /\ ToolRoundEndIndex(ms, i) = last}
           s == ToolRoundStartForTail(ms)
<1>1. last \in Nat /\ last > 0
  BY SequenceDomain
<1>2. s = IF starts = {} THEN last ELSE CHOOSE i \in starts : TRUE
  BY DEF ToolRoundStartForTail
<1> HIDE DEF s, last
<1>3. CASE starts = {}
  BY <1>1, <1>2, <1>3 DEF s, last
<1>4. CASE starts # {}
  <2>1. s \in starts
    BY <1>2, <1>4
  <2>2. s \in 1..last - 1 /\ ToolRoundEndIndex(ms, s) = last
    BY <2>1
  <2>3. s \in 1..last /\ s # last
    BY <1>1, <2>2
  <2>4. IsCompleteRound(ms, s) /\ ContiguousToolBlockEnd(ms, s) = last
    BY <2>2, <2>3 DEF ToolRoundEndIndex
  <2> QED
    BY <2>3, <2>4 DEF s, last
<1> QED
  BY <1>3, <1>4

\* Induction over sequences, for a set of them.
LEMMA SeqSetInduction ==
    ASSUME NEW R, NEW P, << >> \in P,
           \A s \in Seq(R), x \in R : s \in P => Append(s, x) \in P
    PROVE  Seq(R) \subseteq P
<1> DEFINE N == {n \in Nat : \A s \in Seq(R) : Len(s) = n => s \in P}
<1>1. 0 \in N
  BY EmptySeq
<1>2. ASSUME NEW n \in Nat, n \in N
      PROVE  n + 1 \in N
  <2> SUFFICES ASSUME NEW s \in Seq(R), Len(s) = n + 1
               PROVE  s \in P
    OBVIOUS
  <2>1. s # << >>
    BY EmptySeq
  <2>2. PICK t \in Seq(R), x \in R : s = Append(t, x)
    BY <2>1, SequenceEmptyOrAppend
  <2>3. Len(t) = n
    BY <2>2, AppendProperties, LenProperties
  <2>4. t \in P
    BY <1>2, <2>3
  <2> QED
    BY <2>2, <2>4
<1> HIDE DEF N
<1>3. Nat \subseteq N
  BY <1>1, <1>2, NatSetInduction
<1>4. \A s \in Seq(R) : Len(s) \in Nat
  BY LenProperties
<1> QED
  BY <1>3, <1>4 DEF N

\* Kept, by the last element.
LEMMA KeptEmpty ==
    ASSUME NEW S
    PROVE  Kept(<< >>, S) = << >>
<1>1. IsSequence(<< >>) /\ Len(<< >>) = 0
  BY EmptySeq DEF IsSequence
<1>2. PICK f : KeepsUpTo(f, 0, << >>, S) /\ Kept(<< >>, S) = f[0]
  BY <1>1, KeptIs
<1> QED
  BY <1>2 DEF KeepsUpTo

\* What is kept of the first k elements depends on these alone.
LEMMA KeepsAgree ==
    ASSUME NEW s, NEW t, NEW S, NEW n \in Nat, NEW m \in Nat, n <= m,
           \A k \in 1..n : s[k] = t[k],
           NEW f, KeepsUpTo(f, n, s, S), NEW g, KeepsUpTo(g, m, t, S)
    PROVE  \A k \in 0..n : f[k] = g[k]
<1> DEFINE N == {k \in Nat : k <= n => f[k] = g[k]}
<1>1. 0 \in N
  BY DEF KeepsUpTo
<1>2. ASSUME NEW k \in Nat, k \in N
      PROVE  k + 1 \in N
  <2> SUFFICES ASSUME k + 1 <= n
               PROVE  f[k + 1] = g[k + 1]
    OBVIOUS
  <2>1. f[k] = g[k] /\ s[k + 1] = t[k + 1]
    BY <1>2
  <2>2. k + 1 \in 0..n /\ k + 1 \in 0..m /\ k + 1 # 0 /\ (k + 1) - 1 = k
    OBVIOUS
  <2>3. f[k + 1] = IF s[k + 1] \in S THEN Append(f[k], s[k + 1]) ELSE f[k]
    BY <2>2 DEF KeepsUpTo
  <2>4. g[k + 1] = IF t[k + 1] \in S THEN Append(g[k], t[k + 1]) ELSE g[k]
    BY <2>2 DEF KeepsUpTo
  <2> QED
    BY <2>1, <2>3, <2>4
<1> HIDE DEF N
<1>3. Nat \subseteq N
  BY <1>1, <1>2, NatSetInduction
<1> QED
  BY <1>3 DEF N

LEMMA KeptAppend ==
    ASSUME NEW R, NEW s \in Seq(R), NEW x \in R, NEW S
    PROVE  Kept(Append(s, x), S) = IF x \in S THEN Append(Kept(s, S), x) ELSE Kept(s, S)
<1> DEFINE t == Append(s, x)
           n == Len(s)
<1>1. t \in Seq(R) /\ Len(t) = n + 1 /\ (\A k \in 1..n : t[k] = s[k]) /\ t[n + 1] = x /\ n \in Nat
  BY AppendProperties, LenProperties
<1>2. IsSequence(s) /\ IsSequence(t)
  BY <1>1, SeqOfRange DEF IsSequence
<1> HIDE DEF t, n
<1>3. PICK f : KeepsUpTo(f, n, s, S) /\ Kept(s, S) = f[n]
  BY <1>2, KeptIs DEF n
<1>4. PICK g : KeepsUpTo(g, n + 1, t, S) /\ Kept(t, S) = g[n + 1]
  BY <1>1, <1>2, KeptIs
<1>5. f[n] = g[n]
  <2>1. n <= n + 1 /\ n \in 0..n /\ n + 1 \in Nat
    BY <1>1
  <2>2. n + 1 \in Nat /\ n <= n + 1 /\ \A k \in 1..n : s[k] = t[k]
    BY <1>1
  <2>3. \A k \in 0..n : f[k] = g[k]
    BY <1>1, <1>3, <1>4, <2>2, KeepsAgree
  <2> QED
    BY <2>1, <2>3
<1>6. g[n + 1] = IF t[n + 1] \in S THEN Append(g[n], t[n + 1]) ELSE g[n]
  <2>1. n + 1 \in 0..n + 1 /\ n + 1 # 0 /\ (n + 1) - 1 = n
    BY <1>1
  <2> QED
    BY <1>4, <2>1 DEF KeepsUpTo
<1> QED
  BY <1>1, <1>3, <1>4, <1>5, <1>6 DEF t

LEMMA KeptType ==
    ASSUME NEW R, NEW s \in Seq(R), NEW S
    PROVE  Kept(s, S) \in Seq(R \cap S)
<1> DEFINE P == {t \in Seq(R) : Kept(t, S) \in Seq(R \cap S)}
<1>1. << >> \in P
  BY KeptEmpty, EmptySeq
<1>2. ASSUME NEW t \in Seq(R), NEW x \in R, t \in P
      PROVE  Append(t, x) \in P
  <2>1. Append(t, x) \in Seq(R)
    BY AppendProperties
  <2>2. CASE x \in S
    <3>1. Kept(Append(t, x), S) = Append(Kept(t, S), x)
      BY <2>2, KeptAppend
    <3>2. Kept(t, S) \in Seq(R \cap S) /\ x \in R \cap S
      BY <1>2, <2>2
    <3>3. Append(Kept(t, S), x) \in Seq(R \cap S)
      BY <3>2, AppendProperties
    <3> QED
      BY <2>1, <3>1, <3>3
  <2>3. CASE x \notin S
    BY <1>2, <2>1, <2>3, KeptAppend
  <2> QED
    BY <2>2, <2>3
<1> HIDE DEF P
<1>3. Seq(R) \subseteq P
  BY <1>1, <1>2, SeqSetInduction
<1> QED
  BY <1>3 DEF P

LEMMA KeptConcat ==
    ASSUME NEW R, NEW s \in Seq(R), NEW t \in Seq(R), NEW S
    PROVE  Kept(s \o t, S) = Kept(s, S) \o Kept(t, S)
<1> DEFINE P == {u \in Seq(R) : Kept(s \o u, S) = Kept(s, S) \o Kept(u, S)}
<1>0. Kept(s, S) \in Seq(R \cap S) /\ \A u \in Seq(R) : Kept(u, S) \in Seq(R \cap S)
  BY KeptType
<1>1. << >> \in P
  BY <1>0, KeptEmpty, EmptySeq, ConcatEmptySeq
<1>2. ASSUME NEW u \in Seq(R), NEW x \in R, u \in P
      PROVE  Append(u, x) \in P
  <2>1. Append(u, x) \in Seq(R) /\ s \o u \in Seq(R)
    BY AppendProperties, ConcatProperties
  <2>2. s \o Append(u, x) = Append(s \o u, x)
    BY <2>1
  <2>3. Kept(Append(s \o u, x), S) = IF x \in S THEN Append(Kept(s \o u, S), x) ELSE Kept(s \o u, S)
    BY <2>1, KeptAppend
  <2>4. Kept(s \o u, S) = Kept(s, S) \o Kept(u, S)
    BY <1>2
  <2>5. Kept(Append(u, x), S) = IF x \in S THEN Append(Kept(u, S), x) ELSE Kept(u, S)
    BY KeptAppend
  <2>6. CASE x \notin S
    BY <2>1, <2>2, <2>3, <2>4, <2>5, <2>6
  <2>7. CASE x \in S
    <3> DEFINE a == Kept(s, S)
               b == Kept(u, S)
    <3>1. a \in Seq(R \cap S) /\ b \in Seq(R \cap S) /\ x \in R \cap S
      BY <1>0, <2>7
    <3> HIDE DEF a, b
    <3>2. a \o Append(b, x) = Append(a \o b, x)
      BY <3>1
    <3> QED
      BY <2>1, <2>2, <2>3, <2>4, <2>5, <2>7, <3>2 DEF a, b
  <2> QED
    BY <2>6, <2>7
<1> HIDE DEF P
<1>3. Seq(R) \subseteq P
  BY <1>1, <1>2, SeqSetInduction
<1> QED
  BY <1>3 DEF P

LEMMA KeptAll ==
    ASSUME NEW S, NEW s \in Seq(S)
    PROVE  Kept(s, S) = s
<1> DEFINE P == {t \in Seq(S) : Kept(t, S) = t}
<1>1. << >> \in P
  BY KeptEmpty, EmptySeq
<1>2. ASSUME NEW t \in Seq(S), NEW x \in S, t \in P
      PROVE  Append(t, x) \in P
  BY <1>2, KeptAppend, AppendProperties
<1> HIDE DEF P
<1>3. Seq(S) \subseteq P
  BY <1>1, <1>2, SeqSetInduction
<1> QED
  BY <1>3 DEF P

LEMMA KeptKept ==
    ASSUME NEW R, NEW s \in Seq(R), NEW A, NEW B
    PROVE  Kept(Kept(s, A), B) = Kept(s, A \cap B)
<1> DEFINE P == {t \in Seq(R) : Kept(Kept(t, A), B) = Kept(t, A \cap B)}
<1>1. << >> \in P
  BY KeptEmpty, EmptySeq
<1>2. ASSUME NEW t \in Seq(R), NEW x \in R, t \in P
      PROVE  Append(t, x) \in P
  <2>1. Append(t, x) \in Seq(R)
    BY AppendProperties
  <2>2. Kept(t, A) \in Seq(R)
    <3>1. Kept(t, A) \in Seq(R \cap A) /\ R \cap A \subseteq R
      BY KeptType
    <3> QED
      BY <3>1, SeqMonotonic
  <2>3. Kept(Append(t, x), A) = IF x \in A THEN Append(Kept(t, A), x) ELSE Kept(t, A)
    BY KeptAppend
  <2>4. Kept(Append(t, x), A \cap B)
          = IF x \in A \cap B THEN Append(Kept(t, A \cap B), x) ELSE Kept(t, A \cap B)
    BY KeptAppend
  <2>5. Kept(Append(Kept(t, A), x), B)
          = IF x \in B THEN Append(Kept(Kept(t, A), B), x) ELSE Kept(Kept(t, A), B)
    BY <2>2, KeptAppend
  <2>6. Kept(Kept(t, A), B) = Kept(t, A \cap B)
    BY <1>2
  <2>7. Kept(Kept(Append(t, x), A), B) = Kept(Append(t, x), A \cap B)
    <3>1. CASE x \notin A
      BY <2>3, <2>4, <2>6, <3>1
    <3>2. CASE x \in A /\ x \in B
      BY <2>3, <2>4, <2>5, <2>6, <3>2
    <3>3. CASE x \in A /\ x \notin B
      BY <2>3, <2>4, <2>5, <2>6, <3>3
    <3> QED
      BY <3>1, <3>2, <3>3
  <2> QED
    BY <2>1, <2>7
<1> HIDE DEF P
<1>3. Seq(R) \subseteq P
  BY <1>1, <1>2, SeqSetInduction
<1> QED
  BY <1>3 DEF P

\* There is one way to put positions in order.
LEMMA OrderedUnique ==
    ASSUME NEW s \in Seq(Nat), NEW t \in Seq(Nat), InOrder(s), InOrder(t), Range(s) = Range(t)
    PROVE  s = t
<1> DEFINE m == Len(s)
           n == Len(t)
           D == {k \in Nat : k \in 1..m /\ k \in 1..n /\ s[k] # t[k]}
<1>1. /\ m \in Nat /\ DOMAIN s = 1..m /\ \A i \in 1..m : s[i] \in Nat
      /\ n \in Nat /\ DOMAIN t = 1..n /\ \A i \in 1..n : t[i] \in Nat
  BY LenProperties, ElementOfSeq
<1>2. /\ \A i \in 1..m : \E j \in 1..n : s[i] = t[j]
      /\ \A j \in 1..n : \E i \in 1..m : s[i] = t[j]
  BY <1>1 DEF Range
<1> HIDE DEF m, n
<1>3. /\ \A i, j \in 1..m : i < j => s[i] < s[j]
      /\ \A i, j \in 1..n : i < j => t[i] < t[j]
  BY <1>1 DEF InOrder
<1>4. D = {}
  <2>1. SUFFICES ASSUME D # {} PROVE FALSE
    OBVIOUS
  <2>2. D \subseteq Nat
    OBVIOUS
  <2> DEFINE k == Min(D)
  <2>3. k \in D /\ \A y \in D : k <= y
    BY <2>1, <2>2, MinOf
  <2> HIDE DEF k
  <2>4. /\ k \in Nat /\ k \in 1..m /\ k \in 1..n /\ s[k] # t[k]
        /\ \A i \in 1..k - 1 : s[i] = t[i]
    <3>1. k \in Nat /\ k \in 1..m /\ k \in 1..n /\ s[k] # t[k]
      BY <2>3
    <3>2. ASSUME NEW i \in 1..k - 1, s[i] # t[i]
          PROVE  FALSE
      <4>1. i \in D /\ i < k
        BY <1>1, <3>1, <3>2
      <4> QED
        BY <2>3, <3>1, <4>1
    <3> QED
      BY <3>1, <3>2
  <2> HIDE DEF D
  <2>5. CASE s[k] < t[k]
    <3>1. PICK j \in 1..n : s[k] = t[j]
      BY <1>2, <2>4
    <3>2. CASE j < k
      BY <1>1, <1>3, <2>4, <3>1, <3>2
    <3>3. CASE j >= k
      <4>1. j = k \/ k < j
        BY <2>4, <3>3
      <4>2. t[k] = t[j] \/ t[k] < t[j]
        BY <1>3, <2>4, <4>1
      <4>3. t[k] \in Nat /\ t[j] \in Nat
        BY <1>1, <2>4
      <4> QED
        BY <2>5, <3>1, <4>2, <4>3
    <3> QED
      BY <2>4, <3>2, <3>3
  <2>6. CASE t[k] < s[k]
    <3>1. PICK j \in 1..m : s[j] = t[k]
      BY <1>2, <2>4
    <3>2. CASE j < k
      BY <1>1, <1>3, <2>4, <3>1, <3>2
    <3>3. CASE j >= k
      <4>1. j = k \/ k < j
        BY <2>4, <3>3
      <4>2. s[k] = s[j] \/ s[k] < s[j]
        BY <1>3, <2>4, <4>1
      <4>3. s[k] \in Nat /\ s[j] \in Nat
        BY <1>1, <2>4
      <4> QED
        BY <2>6, <3>1, <4>2, <4>3
    <3> QED
      BY <2>4, <3>2, <3>3
  <2> QED
    BY <1>1, <2>4, <2>5, <2>6
<1>5. \A k \in Nat : k \in 1..m /\ k \in 1..n => s[k] = t[k]
  BY <1>4
<1>6. m = n
  <2>1. CASE m < n
    <3>1. m + 1 \in 1..n
      BY <1>1, <2>1
    <3>2. PICK i \in 1..m : s[i] = t[m + 1]
      BY <1>2, <3>1
    <3>3. s[i] = t[i] /\ i \in 1..n /\ i < m + 1
      BY <1>1, <1>5, <2>1, <3>2
    <3>4. t[i] < t[m + 1] /\ t[i] \in Nat
      BY <1>1, <1>3, <3>1, <3>3
    <3> QED
      BY <3>2, <3>3, <3>4
  <2>2. CASE n < m
    <3>1. n + 1 \in 1..m
      BY <1>1, <2>2
    <3>2. PICK i \in 1..n : s[n + 1] = t[i]
      BY <1>2, <3>1
    <3>3. s[i] = t[i] /\ i \in 1..m /\ i < n + 1
      BY <1>1, <1>5, <2>2, <3>2
    <3>4. s[i] < s[n + 1] /\ s[i] \in Nat
      BY <1>1, <1>3, <3>1, <3>3
    <3> QED
      BY <3>2, <3>3, <3>4
  <2> QED
    BY <1>1, <2>1, <2>2
<1>7. \A i \in 1..m : s[i] = t[i]
  BY <1>1, <1>5, <1>6
<1> QED
  BY <1>6, <1>7, SeqEqual DEF m, n

LEMMA OrderedSubSeq ==
    ASSUME NEW s \in Seq(Nat), InOrder(s), NEW a \in Nat \ {0}, NEW b \in Nat, b <= Len(s)
    PROVE  InOrder(SubSeq(s, a, b)) /\ Range(SubSeq(s, a, b)) \subseteq Range(s)
<1> DEFINE t == SubSeq(s, a, b)
           m == Len(s)
<1>1. m \in Nat /\ DOMAIN s = 1..m /\ \A i \in 1..m : s[i] \in Nat
  BY LenProperties, ElementOfSeq
<1>2. /\ t \in Seq(Nat) /\ Len(t) = IF a <= b THEN b - a + 1 ELSE 0
      /\ \A i \in 1..b - a + 1 : t[i] = s[a + i - 1]
  <2>1. \A i \in a..b : s[i] \in Nat
    BY <1>1
  <2> QED
    BY <2>1, SubSeqProperties
<1> HIDE DEF t, m
<1>3. DOMAIN t = 1..b - a + 1 /\ b <= m
  <2>1. DOMAIN t = 1..Len(t)
    BY <1>2, LenProperties
  <2>2. CASE a <= b
    BY <1>2, <2>1, <2>2 DEF m
  <2>3. CASE a > b
    <3>1. 1..Len(t) = {} /\ 1..b - a + 1 = {}
      BY <1>2, <2>3
    <3> QED
      BY <2>1, <3>1 DEF m
  <2> QED
    BY <2>2, <2>3
<1>4. \A i \in DOMAIN t : i \in 1..b - a + 1 /\ t[i] = s[a + i - 1] /\ a + i - 1 \in 1..m
  <2> SUFFICES ASSUME NEW i \in 1..b - a + 1
               PROVE  t[i] = s[a + i - 1] /\ a + i - 1 \in 1..m
    BY <1>3
  <2>1. a + i - 1 \in 1..m
    BY <1>1, <1>3
  <2> QED
    BY <1>2, <2>1
<1>5. InOrder(t)
  <2> SUFFICES ASSUME NEW i \in DOMAIN t, NEW j \in DOMAIN t, i < j
               PROVE  t[i] < t[j]
    BY DEF InOrder
  <2>1. a + i - 1 < a + j - 1
    BY <1>4
  <2> QED
    BY <1>1, <1>4, <2>1 DEF InOrder
<1>6. Range(t) \subseteq Range(s)
  BY <1>1, <1>4 DEF Range
<1> QED
  BY <1>5, <1>6 DEF t

\* The identity on positions is a sequence in order.
LEMMA PositionsAre ==
    ASSUME input \in Inputs
    PROVE  /\ Len(input) \in Nat /\ Positions = 1..Len(input)
           /\ input \in Seq(Range(input))
           /\ [i \in Positions |-> i] \in Seq(Positions)
           /\ InOrder([i \in Positions |-> i])
           /\ Range([i \in Positions |-> i]) = Positions
           /\ Positions \subseteq Nat
           /\ Seq(Positions) \subseteq Seq(Nat)
<1> DEFINE all == [i \in Positions |-> i]
<1>1. IsSequence(input)
  BY InputsAssumption DEF IsSequence
<1>2. Len(input) \in Nat /\ Positions = 1..Len(input)
  BY <1>1, SequenceDomain DEF Positions
<1>3. all \in Seq(Positions) /\ Range(all) = Positions /\ DOMAIN all = Positions
  BY <1>2 DEF Range
<1>4. InOrder(all)
  BY DEF InOrder
<1>5. Positions \subseteq Nat
  BY <1>2
<1>6. Seq(Positions) \subseteq Seq(Nat)
  BY <1>5, SeqMonotonic
<1> QED
  BY <1>1, <1>2, <1>3, <1>4, <1>5, <1>6 DEF IsSequence

LEMMA AscendingIs ==
    ASSUME input \in Inputs, NEW S
    PROVE  /\ Ascending(S) \in Seq(Positions \cap S)
           /\ Ascending(S) \in Seq(Positions)
           /\ InOrder(Ascending(S))
           /\ Range(Ascending(S)) = Positions \cap S
<1> DEFINE all == [i \in Positions |-> i]
           t == Kept(all, S)
<1>1. all \in Seq(Positions) /\ all \in Seq(Nat) /\ InOrder(all) /\ Range(all) = Positions
  BY PositionsAre
<1>2. Ascending(S) = t
  BY DEF Ascending
<1> HIDE DEF all
<1>3. t \in Seq(Positions \cap S) /\ InOrder(t) /\ Positions \cap S \subseteq Range(t)
  BY <1>1, KeptInOrder
<1> HIDE DEF t
<1>4. Range(t) \subseteq Positions \cap S
  BY <1>3, RangeOfSeq
<1>5. t \in Seq(Positions)
  <2>1. Positions \cap S \subseteq Positions
    OBVIOUS
  <2> QED
    BY <1>3, <2>1, SeqMonotonic
<1> QED
  BY <1>2, <1>3, <1>4, <1>5

\* A sequence of positions in order is the ascending one of its positions.
LEMMA OrderedAscending ==
    ASSUME input \in Inputs, NEW ps \in Seq(Positions), InOrder(ps)
    PROVE  ps = Ascending(Range(ps)) /\ Range(ps) \subseteq Positions
<1> DEFINE t == Ascending(Range(ps))
<1>1. Range(ps) \subseteq Positions
  BY RangeOfSeq
<1>2. t \in Seq(Positions) /\ InOrder(t) /\ Range(t) = Range(ps)
  BY <1>1, AscendingIs
<1>3. ps \in Seq(Nat) /\ t \in Seq(Nat)
  BY <1>2, PositionsAre
<1> HIDE DEF t
<1>4. ps = t
  BY <1>2, <1>3, OrderedUnique
<1> QED
  BY <1>1, <1>4 DEF t

LEMMA AscendingKept ==
    ASSUME input \in Inputs, NEW A, NEW B
    PROVE  Kept(Ascending(A), B) = Ascending(A \cap B)
<1>1. [i \in Positions |-> i] \in Seq(Positions)
  BY PositionsAre
<1>2. Kept(Kept([i \in Positions |-> i], A), B) = Kept([i \in Positions |-> i], A \cap B)
  BY <1>1, KeptKept
<1> QED
  BY <1>2 DEF Ascending

-----------------------------------------------------------------------------
(* The messages at positions *)

LEMMA MessagesAre ==
    ASSUME input \in Inputs, NEW ps \in Seq(Positions)
    PROVE  /\ Messages(ps) \in Seq(Range(input))
           /\ Len(Messages(ps)) = Len(ps)
           /\ DOMAIN Messages(ps) = DOMAIN ps
           /\ \A k \in DOMAIN ps : Messages(ps)[k] = input[ps[k]]
<1>1. DOMAIN ps = 1..Len(ps) /\ Len(ps) \in Nat /\ \A k \in 1..Len(ps) : ps[k] \in Positions
  BY LenProperties, ElementOfSeq
<1>2. \A k \in 1..Len(ps) : input[ps[k]] \in Range(input)
  BY <1>1 DEF Positions, Range
<1>3. Messages(ps) = [k \in 1..Len(ps) |-> input[ps[k]]]
  BY <1>1 DEF Messages
<1> QED
  BY <1>1, <1>2, <1>3

LEMMA MessagesAppend ==
    ASSUME input \in Inputs, NEW ps \in Seq(Positions), NEW i \in Positions
    PROVE  Messages(Append(ps, i)) = Append(Messages(ps), input[i])
<1> DEFINE a == Messages(Append(ps, i))
           b == Append(Messages(ps), input[i])
           R == Range(input)
           n == Len(ps)
<1>1. input[i] \in R
  BY DEF Positions, Range
<1>2. /\ Append(ps, i) \in Seq(Positions) /\ Len(Append(ps, i)) = n + 1
      /\ (\A k \in 1..n : Append(ps, i)[k] = ps[k])
      /\ Append(ps, i)[n + 1] = i
      /\ n \in Nat /\ DOMAIN ps = 1..n /\ DOMAIN Append(ps, i) = 1..n + 1
  BY AppendProperties, LenProperties
<1>3. a \in Seq(R) /\ Len(a) = n + 1 /\ \A k \in 1..n + 1 : a[k] = input[Append(ps, i)[k]]
  BY <1>2, MessagesAre
<1>4. /\ Messages(ps) \in Seq(R) /\ Len(Messages(ps)) = n
      /\ \A k \in 1..n : Messages(ps)[k] = input[ps[k]]
  BY <1>2, MessagesAre
<1>5. /\ b \in Seq(R) /\ Len(b) = n + 1 /\ (\A k \in 1..n : b[k] = Messages(ps)[k])
      /\ b[n + 1] = input[i]
  BY <1>1, <1>4, AppendProperties
<1> HIDE DEF a, b, n, R
<1>6. \A k \in 1..n + 1 : a[k] = b[k]
  <2> TAKE k \in 1..n + 1
  <2>1. CASE k = n + 1
    BY <1>2, <1>3, <1>5, <2>1
  <2>2. CASE k \in 1..n
    BY <1>2, <1>3, <1>4, <1>5, <2>2
  <2> QED
    BY <1>2, <2>1, <2>2
<1>7. a = b
  BY <1>3, <1>5, <1>6, SeqEqual
<1> QED
  BY <1>7 DEF a, b

LEMMA KeptMessages ==
    ASSUME input \in Inputs, NEW ps \in Seq(Positions), NEW M
    PROVE  Kept(Messages(ps), M) = Messages(Kept(ps, {i \in Positions : input[i] \in M}))
<1> DEFINE S == {i \in Positions : input[i] \in M}
           P == {qs \in Seq(Positions) : Kept(Messages(qs), M) = Messages(Kept(qs, S))}
<1>1. << >> \in P
  <2>1. Messages(<< >>) = << >>
    BY DEF Messages
  <2> QED
    BY <2>1, KeptEmpty, EmptySeq
<1>2. ASSUME NEW qs \in Seq(Positions), NEW i \in Positions, qs \in P
      PROVE  Append(qs, i) \in P
  <2>1. Append(qs, i) \in Seq(Positions)
    BY AppendProperties
  <2>2. Messages(Append(qs, i)) = Append(Messages(qs), input[i])
    BY MessagesAppend
  <2>3. Messages(qs) \in Seq(Range(input)) /\ input[i] \in Range(input)
    BY MessagesAre DEF Positions, Range
  <2>4. Kept(Append(Messages(qs), input[i]), M)
          = IF input[i] \in M THEN Append(Kept(Messages(qs), M), input[i]) ELSE Kept(Messages(qs), M)
    <3> DEFINE R == Range(input)
               ms == Messages(qs)
               x == input[i]
    <3> HIDE DEF R, ms, x
    <3>1. ms \in Seq(R) /\ x \in R
      BY <2>3 DEF R, ms, x
    <3>2. Kept(Append(ms, x), M) = IF x \in M THEN Append(Kept(ms, M), x) ELSE Kept(ms, M)
      BY <3>1, KeptAppend
    <3> QED
      BY <3>2 DEF ms, x
  <2>5. Kept(Append(qs, i), S) = IF i \in S THEN Append(Kept(qs, S), i) ELSE Kept(qs, S)
    BY KeptAppend
  <2>6. Kept(Messages(qs), M) = Messages(Kept(qs, S))
    BY <1>2
  <2>7. Kept(qs, S) \in Seq(Positions)
    <3>1. Kept(qs, S) \in Seq(Positions \cap S) /\ Positions \cap S \subseteq Positions
      BY KeptType
    <3> QED
      BY <3>1, SeqMonotonic
  <2>8. Kept(Messages(Append(qs, i)), M) = Messages(Kept(Append(qs, i), S))
    <3>1. CASE i \in S
      <4>1. input[i] \in M
        BY <3>1
      <4>2. Messages(Append(Kept(qs, S), i)) = Append(Messages(Kept(qs, S)), input[i])
        BY <2>7, MessagesAppend
      <4> HIDE DEF S
      <4> QED
        BY <2>2, <2>4, <2>5, <2>6, <3>1, <4>1, <4>2
    <3>2. CASE i \notin S
      <4>1. input[i] \notin M
        BY <3>2
      <4> HIDE DEF S
      <4> QED
        BY <2>2, <2>4, <2>5, <2>6, <3>2, <4>1
    <3> QED
      BY <3>1, <3>2
  <2> QED
    BY <2>1, <2>8
<1> HIDE DEF P
<1>3. Seq(Positions) \subseteq P
  BY <1>1, <1>2, SeqSetInduction
<1> QED
  BY <1>3 DEF P

LEMMA MessagesConcat ==
    ASSUME input \in Inputs, NEW ps \in Seq(Positions), NEW qs \in Seq(Positions)
    PROVE  Messages(ps \o qs) = Messages(ps) \o Messages(qs)
<1> DEFINE a == Messages(ps \o qs)
           x == Messages(ps)
           y == Messages(qs)
           R == Range(input)
           m == Len(ps)
           n == Len(qs)
<1>1. /\ m \in Nat /\ n \in Nat /\ DOMAIN ps = 1..m /\ DOMAIN qs = 1..n
      /\ ps \o qs \in Seq(Positions) /\ Len(ps \o qs) = m + n /\ DOMAIN (ps \o qs) = 1..m + n
      /\ \A k \in 1..m + n : (ps \o qs)[k] = IF k <= m THEN ps[k] ELSE qs[k - m]
  BY ConcatProperties, LenProperties
<1>2. a \in Seq(R) /\ Len(a) = m + n /\ \A k \in 1..m + n : a[k] = input[(ps \o qs)[k]]
  BY <1>1, MessagesAre
<1>3. /\ x \in Seq(R) /\ Len(x) = m /\ (\A k \in 1..m : x[k] = input[ps[k]])
      /\ y \in Seq(R) /\ Len(y) = n /\ (\A k \in 1..n : y[k] = input[qs[k]])
  BY <1>1, MessagesAre
<1> HIDE DEF a, x, y, m, n, R
<1>4. /\ x \o y \in Seq(R) /\ Len(x \o y) = m + n
      /\ \A k \in 1..m + n : (x \o y)[k] = IF k <= m THEN x[k] ELSE y[k - m]
  <2>1. x \in Seq(R) /\ y \in Seq(R)
    BY <1>3
  <2>2. /\ x \o y \in Seq(R) /\ Len(x \o y) = Len(x) + Len(y)
        /\ \A k \in 1..Len(x) + Len(y) : (x \o y)[k] = IF k <= Len(x) THEN x[k] ELSE y[k - Len(x)]
    BY <2>1, ConcatProperties
  <2>3. Len(x) = m /\ Len(y) = n
    BY <1>3
  <2> QED
    BY <2>2, <2>3
<1>5. \A k \in 1..m + n : a[k] = (x \o y)[k]
  <2> TAKE k \in 1..m + n
  <2>1. CASE k <= m
    BY <1>1, <1>2, <1>3, <1>4, <2>1
  <2>2. CASE ~(k <= m)
    <3>1. k - m \in 1..n
      BY <1>1, <2>2
    <3>2. a[k] = input[qs[k - m]]
      BY <1>1, <1>2, <2>2
    <3>3. (x \o y)[k] = y[k - m]
      BY <1>4, <2>2
    <3> QED
      BY <1>3, <3>1, <3>2, <3>3
  <2> QED
    BY <2>1, <2>2
<1>6. a = x \o y
  BY <1>2, <1>4, <1>5, SeqEqual
<1> QED
  BY <1>6 DEF a, x, y

LEMMA MessagesSubSeq ==
    ASSUME input \in Inputs, NEW ps \in Seq(Positions), NEW k \in 1..Len(ps) + 1
    PROVE  Messages(SubSeq(ps, k, Len(ps))) = SubSeq(Messages(ps), k, Len(ps))
<1> DEFINE n == Len(ps)
           a == Messages(SubSeq(ps, k, n))
           x == Messages(ps)
           b == SubSeq(x, k, n)
           R == Range(input)
<1>1. n \in Nat /\ DOMAIN ps = 1..n /\ \A j \in 1..n : ps[j] \in Positions
  BY LenProperties, ElementOfSeq
<1>2. x \in Seq(R) /\ Len(x) = n /\ \A j \in 1..n : x[j] = input[ps[j]] /\ x[j] \in R
  BY <1>1, MessagesAre, ElementOfSeq
<1>3. k \in Int /\ n \in Int /\ k - 1 <= n /\ k >= 1
  BY <1>1 DEF n
<1>4. /\ SubSeq(ps, k, n) \in Seq(Positions) /\ Len(SubSeq(ps, k, n)) = n - k + 1
      /\ \A j \in 1..n - k + 1 : SubSeq(ps, k, n)[j] = ps[k + j - 1]
  <2>1. \A j \in k..n : ps[j] \in Positions
    BY <1>1, <1>3
  <2> HIDE DEF n
  <2> QED
    BY <1>3, <2>1, SubSeqProperties
<1>5. /\ b \in Seq(R) /\ Len(b) = n - k + 1
      /\ \A j \in 1..n - k + 1 : b[j] = x[k + j - 1]
  <2>1. \A j \in k..n : x[j] \in R
    BY <1>1, <1>2, <1>3
  <2> HIDE DEF n, x, R
  <2> QED
    BY <1>3, <2>1, SubSeqProperties
<1>6. /\ a \in Seq(R) /\ Len(a) = n - k + 1
      /\ \A j \in 1..n - k + 1 : a[j] = input[SubSeq(ps, k, n)[j]]
  BY <1>4, MessagesAre, LenProperties
<1> HIDE DEF a, b, x, n, R
<1>7. \A j \in 1..n - k + 1 : a[j] = b[j]
  <2> TAKE j \in 1..n - k + 1
  <2>1. k + j - 1 \in 1..n
    BY <1>1, <1>3
  <2> QED
    BY <1>2, <1>4, <1>5, <1>6, <2>1
<1>8. a = b
  BY <1>5, <1>6, <1>7, SeqEqual
<1> QED
  BY <1>8 DEF a, b, n, x

LEMMA SubSeqIs ==
    ASSUME NEW R, NEW s \in Seq(R), NEW a \in Nat \ {0}, NEW b \in Nat, b <= Len(s), a <= b + 1
    PROVE  /\ SubSeq(s, a, b) \in Seq(R)
           /\ Len(SubSeq(s, a, b)) = b - a + 1
           /\ \A i \in 1..b - a + 1 : SubSeq(s, a, b)[i] = s[a + i - 1]
<1>1. \A i \in a..b : s[i] \in R
  BY LenProperties, ElementOfSeq
<1>2. /\ SubSeq(s, a, b) \in Seq(R)
      /\ Len(SubSeq(s, a, b)) = IF a <= b THEN b - a + 1 ELSE 0
      /\ \A i \in 1..b - a + 1 : SubSeq(s, a, b)[i] = s[a + i - 1]
  BY <1>1, SubSeqProperties
<1>3. (IF a <= b THEN b - a + 1 ELSE 0) = b - a + 1
  OBVIOUS
<1> QED
  BY <1>2, <1>3

\* What ends as s does from k on ends alike.
LEMMA EndsAlikeBy ==
    ASSUME NEW R, NEW s \in Seq(R), NEW x \in Seq(R), NEW k \in 1..Len(s) + 1
    PROVE  EndsAlike(s, x \o SubSeq(s, k, Len(s)), Len(s) - k + 1)
<1> DEFINE n == Len(s)
           m == Len(x)
           u == SubSeq(s, k, n)
           t == x \o u
           l == n - k + 1
           a == SubSeq(t, m + 1, m + l)
<1>1. n \in Nat /\ m \in Nat
  BY LenProperties
<1>2. k \in Nat /\ k # 0 /\ k <= n + 1 /\ l \in Nat
  BY <1>1
<1>3. u \in Seq(R) /\ Len(u) = l /\ \A i \in 1..l : u[i] = s[k + i - 1]
  <2> HIDE DEF n
  <2> QED
    BY <1>1, <1>2, SubSeqIs DEF n
<1>4. /\ t \in Seq(R) /\ Len(t) = m + l
      /\ \A i \in 1..m + l : t[i] = IF i <= m THEN x[i] ELSE u[i - m]
  <2> HIDE DEF u, l
  <2> QED
    BY <1>3, ConcatProperties
<1> HIDE DEF n, m, u, t
<1>5. a \in Seq(R) /\ Len(a) = l /\ \A i \in 1..l : a[i] = t[m + i]
  <2>1. /\ a \in Seq(R) /\ Len(a) = (m + l) - (m + 1) + 1
        /\ \A i \in 1..(m + l) - (m + 1) + 1 : a[i] = t[(m + 1) + i - 1]
    <3>1. m + 1 \in Nat \ {0} /\ m + l \in Nat /\ m + l <= Len(t) /\ m + 1 <= (m + l) + 1
      BY <1>1, <1>2, <1>4
    <3> HIDE DEF l
    <3> QED
      BY <1>4, <3>1, SubSeqIs
  <2>2. (m + l) - (m + 1) + 1 = l /\ \A i \in 1..l : (m + 1) + i - 1 = m + i
    BY <1>1, <1>2
  <2> HIDE DEF a, l
  <2> QED
    BY <2>1, <2>2
<1> HIDE DEF a
<1>6. \A i \in 1..l : a[i] = u[i]
  <2> TAKE i \in 1..l
  <2>1. m + i \in 1..m + l /\ ~(m + i <= m) /\ (m + i) - m = i
    BY <1>1, <1>2
  <2> QED
    BY <1>4, <1>5, <2>1
<1>7. a = u
  BY <1>3, <1>5, <1>6, SeqEqual
<1>8. Len(t) - l + 1 = m + 1 /\ Len(t) = m + l /\ l <= Len(t) /\ n - l + 1 = k
  BY <1>1, <1>2, <1>4
<1>9. SubSeq(t, Len(t) - l + 1, Len(t)) = SubSeq(s, n - l + 1, n)
  BY <1>7, <1>8 DEF a, u
<1>10. EndsAlike(s, t, l)
  BY <1>8, <1>9 DEF EndsAlike, n
<1> QED
  BY <1>10 DEF t, u, n, l

\* If the end of s is kept, what is kept ends with it.
LEMMA KeptEnd ==
    ASSUME NEW R, NEW s \in Seq(R), NEW T, NEW k \in 1..Len(s) + 1, \A j \in k..Len(s) : s[j] \in T
    PROVE  \E x \in Seq(R) : Kept(s, T) = x \o SubSeq(s, k, Len(s))
<1> DEFINE n == Len(s)
           a == SubSeq(s, 1, k - 1)
           b == SubSeq(s, k, n)
           x == Kept(a, T)
<1>1. n \in Nat /\ k \in Nat /\ k # 0 /\ k <= n + 1 /\ k - 1 \in Nat /\ k - 1 <= n
  BY LenProperties
<1>2. a \in Seq(R)
  <2>1. 1 \in Nat \ {0} /\ 1 <= (k - 1) + 1
    BY <1>1
  <2> QED
    BY <1>1, <2>1, SubSeqIs DEF n
<1>3. b \in Seq(R) /\ Len(b) = n - k + 1 /\ \A i \in 1..n - k + 1 : b[i] = s[k + i - 1]
  BY <1>1, SubSeqIs DEF n
<1> HIDE DEF n
<1>4. s = a \o b
  <2>1. k - 1 \in 0..n /\ 1 \in 1..n + 1 /\ n \in (k - 1)..n /\ (k - 1) + 1 = k
    BY <1>1
  <2>2. SubSeq(s, 1, k - 1) \o SubSeq(s, (k - 1) + 1, n) = SubSeq(s, 1, n)
    <3>1. k - 1 \in 1 - 1..n
      BY <2>1
    <3> QED
      BY <2>1, <3>1, ConcatAdjacentSubSeq DEF n
  <2>3. SubSeq(s, 1, n) = s
    BY SubSeqFull DEF n
  <2> QED
    BY <2>1, <2>2, <2>3
<1> HIDE DEF a, b
<1>5. b \in Seq(T)
  <2>1. \A i \in 1..Len(b) : b[i] \in T
    <3> TAKE i \in 1..Len(b)
    <3>1. k + i - 1 \in k..n /\ i \in 1..n - k + 1
      BY <1>1, <1>3
    <3> QED
      BY <1>3, <3>1 DEF n
  <2>2. b = [i \in 1..Len(b) |-> b[i]] /\ Len(b) \in Nat
    BY <1>3, LenProperties
  <2> QED
    BY <2>1, <2>2
<1>6. Kept(b, T) = b
  BY <1>5, KeptAll
<1>7. Kept(s, T) = x \o b
  BY <1>2, <1>3, <1>4, <1>6, KeptConcat
<1>8. x \in Seq(R)
  <2>1. x \in Seq(R \cap T) /\ R \cap T \subseteq R
    BY <1>2, KeptType
  <2> QED
    BY <2>1, SeqMonotonic
<1> QED
  BY <1>7, <1>8 DEF b, n

\* The whole input is its messages at all positions.
LEMMA AllMessages ==
    ASSUME input \in Inputs
    PROVE  /\ At(Positions) = input
           /\ Ascending(Positions) = [i \in Positions |-> i]
           /\ Messages([i \in Positions |-> i]) = input
<1>1. [i \in Positions |-> i] \in Seq(Positions)
  BY PositionsAre
<1>2. Ascending(Positions) = [i \in Positions |-> i]
  BY <1>1, KeptAll DEF Ascending
<1>3. Messages([i \in Positions |-> i]) = input
  <2>1. Messages([i \in Positions |-> i]) = [i \in Positions |-> input[i]]
    BY DEF Messages
  <2>2. input = [i \in Positions |-> input[i]]
    BY PositionsAre, LenProperties DEF Positions
  <2> QED
    BY <2>1, <2>2
<1> QED
  BY <1>2, <1>3 DEF At

\* A result that has the positions from p on ends as the input does.
LEMMA PendingEnd ==
    ASSUME input \in Inputs, NEW R, Range(input) \subseteq R, NEW x \in Seq(R), NEW T,
           NEW p \in 1..Len(input) + 1, p..Len(input) \subseteq T
    PROVE  EndsAlike(input, x \o At(T), Len(input) - p + 1)
<1> DEFINE n == Len(input)
           all == [i \in Positions |-> i]
<1>1. n \in Nat /\ Positions = 1..n /\ all \in Seq(Positions) /\ Len(all) = n /\ input \in Seq(Range(input))
  BY PositionsAre
<1>2. \A j \in p..Len(all) : all[j] \in T
  BY <1>1
<1>3. Ascending(T) = Kept(all, T)
  BY DEF Ascending
<1>4. Messages(all) = input
  BY AllMessages
<1> HIDE DEF n, all
<1>5. PICK y \in Seq(Positions) : Kept(all, T) = y \o SubSeq(all, p, Len(all))
  <2>1. p \in 1..Len(all) + 1
    BY <1>1 DEF n
  <2>2. all \in Seq(Positions)
    BY <1>1
  <2> QED
    BY <1>2, <2>1, <2>2, KeptEnd
<1>6. p \in 1..n + 1 /\ p \in Nat /\ p # 0 /\ p <= n + 1
  BY <1>1 DEF n
<1>7. SubSeq(all, p, n) \in Seq(Positions)
  <2>1. all \in Seq(Positions) /\ n \in Nat /\ n <= Len(all)
    BY <1>1
  <2> QED
    BY <1>6, <2>1, SubSeqIs
<1>8. At(T) = Messages(y) \o SubSeq(input, p, n)
  <2>1. At(T) = Messages(y \o SubSeq(all, p, n))
    BY <1>1, <1>3, <1>5 DEF At
  <2>2. Messages(y \o SubSeq(all, p, n)) = Messages(y) \o Messages(SubSeq(all, p, n))
    BY <1>7, MessagesConcat
  <2>3. Messages(SubSeq(all, p, n)) = SubSeq(Messages(all), p, n)
    BY <1>1, <1>6, MessagesSubSeq
  <2> QED
    BY <1>4, <2>1, <2>2, <2>3
<1>9. Messages(y) \in Seq(R) /\ input \in Seq(R)
  BY <1>1, MessagesAre, SeqMonotonic
<1>10. SubSeq(input, p, n) \in Seq(R)
  BY <1>1, <1>6, <1>9, SubSeqIs DEF n
<1>11. x \o At(T) = (x \o Messages(y)) \o SubSeq(input, p, n)
  <2> DEFINE b == Messages(y)
             c == SubSeq(input, p, n)
  <2>1. x \in Seq(R) /\ b \in Seq(R) /\ c \in Seq(R)
    BY <1>9, <1>10
  <2> HIDE DEF b, c
  <2>2. (x \o b) \o c = x \o (b \o c)
    BY <2>1, ConcatAssociative, SMTT(40)
  <2> QED
    BY <1>8, <2>2 DEF b, c
<1>12. x \o Messages(y) \in Seq(R)
  BY <1>9, ConcatProperties
<1> QED
  BY <1>6, <1>9, <1>11, <1>12, EndsAlikeBy DEF n

NotFixed(ms) == Kept(ms, {m \in Range(ms) : m.id \notin cfg.fixed})
History == Ascending({i \in Positions : input[i].id \notin cfg.fixed})

\* A result that has the last positions of the history ends, fixed messages aside,
\* as the input does.
LEMMA RecentEnd ==
    ASSUME input \in Inputs, NEW R, Range(input) \subseteq R, NEW x \in Seq(R), NEW T,
           NEW k \in 1..Len(History) + 1, \A j \in k..Len(History) : History[j] \in T
    PROVE  /\ Len(NotFixed(input)) = Len(History)
           /\ EndsAlike(NotFixed(input), NotFixed(x \o At(T)), Len(History) - k + 1)
<1> DEFINE F == {m \in R : m.id \notin cfg.fixed}
           H == {i \in Positions : input[i].id \notin cfg.fixed}
           all == [i \in Positions |-> i]
           h == History
           n == Len(h)
<1>1. all \in Seq(Positions) /\ input \in Seq(Range(input)) /\ Messages(all) = input
  BY PositionsAre, AllMessages
<1>2. h \in Seq(Positions) /\ h = Kept(all, H)
  BY AscendingIs DEF History, Ascending
<1>3. n \in Nat
  BY <1>2, LenProperties
<1>4. ASSUME NEW ms \in Seq(R)
      PROVE  NotFixed(ms) = Kept(ms, F)
  <2>1. IsSequence(ms) /\ Range(ms) \subseteq R
    BY SeqOfRange, RangeOfSeq DEF IsSequence
  <2>2. F \cap Range(ms) = {m \in Range(ms) : m.id \notin cfg.fixed}
    BY <2>1
  <2>3. Kept(ms, F) = Kept(ms, F \cap Range(ms))
    BY <2>1, KeptWithin
  <2> QED
    BY <2>2, <2>3 DEF NotFixed
<1>5. {i \in Positions : input[i] \in F} = H
  <2>1. \A i \in Positions : input[i] \in R
    BY DEF Positions, Range
  <2> QED
    BY <2>1
<1> HIDE DEF F, H, all, h
<1>6. ASSUME NEW ps \in Seq(Positions)
      PROVE  Kept(Messages(ps), F) = Messages(Kept(ps, H))
  BY <1>5, KeptMessages
<1>7. input \in Seq(R) /\ \A ps \in Seq(Positions) : Messages(ps) \in Seq(R)
  BY <1>1, MessagesAre, SeqMonotonic
<1>8. NotFixed(input) = Messages(h)
  BY <1>1, <1>2, <1>4, <1>6, <1>7
<1>9. Kept(Ascending(T), H) = Kept(h, T)
  <2>1. Kept(Ascending(T), H) = Ascending(T \cap H) /\ Kept(Ascending(H), T) = Ascending(H \cap T)
    BY AscendingKept
  <2>2. T \cap H = H \cap T /\ Ascending(H) = h
    BY <1>2 DEF Ascending, all
  <2> QED
    BY <2>1, <2>2
<1>10. PICK y \in Seq(Positions) : Kept(h, T) = y \o SubSeq(h, k, n)
  <2>1. k \in 1..Len(h) + 1 /\ \A j \in k..Len(h) : h[j] \in T
    BY DEF h
  <2>2. h \in Seq(Positions)
    BY <1>2
  <2> QED
    BY <2>1, <2>2, KeptEnd
<1>11. k \in 1..n + 1 /\ k \in Nat /\ k # 0 /\ k <= n + 1
  BY <1>3 DEF h
<1>12. SubSeq(h, k, n) \in Seq(Positions)
  BY <1>2, <1>3, <1>11, SubSeqIs
<1>13. Ascending(T) \in Seq(Positions)
  BY AscendingIs
<1>14. Kept(At(T), F) = Messages(y) \o SubSeq(Messages(h), k, n)
  <2>1. Kept(At(T), F) = Messages(y \o SubSeq(h, k, n))
    BY <1>6, <1>9, <1>10, <1>13 DEF At
  <2>2. Messages(y \o SubSeq(h, k, n)) = Messages(y) \o Messages(SubSeq(h, k, n))
    BY <1>12, MessagesConcat
  <2>3. Messages(SubSeq(h, k, n)) = SubSeq(Messages(h), k, n)
    BY <1>2, <1>11, MessagesSubSeq
  <2> QED
    BY <2>1, <2>2, <2>3
<1>15. At(T) \in Seq(R)
  BY <1>7, <1>13 DEF At
<1>16. NotFixed(x \o At(T)) = Kept(x, F) \o (Messages(y) \o SubSeq(Messages(h), k, n))
  <2> DEFINE a == At(T)
  <2>1. a \in Seq(R)
    BY <1>15
  <2>2. Kept(a, F) = Messages(y) \o SubSeq(Messages(h), k, n)
    BY <1>14
  <2> HIDE DEF a
  <2>3. x \o a \in Seq(R)
    BY <2>1, ConcatProperties
  <2>4. NotFixed(x \o a) = Kept(x \o a, F)
    BY <1>4, <2>3
  <2>5. Kept(x \o a, F) = Kept(x, F) \o Kept(a, F)
    BY <2>1, KeptConcat
  <2> QED
    BY <2>2, <2>4, <2>5 DEF a
<1>17. Kept(x, F) \in Seq(R)
  <2>1. Kept(x, F) \in Seq(R \cap F) /\ R \cap F \subseteq R
    BY KeptType
  <2> QED
    BY <2>1, SeqMonotonic
<1>18. Messages(h) \in Seq(R) /\ Len(Messages(h)) = n
  BY <1>2, <1>7, MessagesAre
<1>19. SubSeq(Messages(h), k, n) \in Seq(R)
  BY <1>3, <1>11, <1>18, SubSeqIs
<1>20. NotFixed(x \o At(T)) = (Kept(x, F) \o Messages(y)) \o SubSeq(Messages(h), k, n)
  <2> DEFINE a == Kept(x, F)
             b == Messages(y)
             c == SubSeq(Messages(h), k, n)
  <2>1. a \in Seq(R) /\ b \in Seq(R) /\ c \in Seq(R)
    BY <1>7, <1>17, <1>19
  <2>2. NotFixed(x \o At(T)) = a \o (b \o c)
    BY <1>16
  <2> HIDE DEF a, b, c
  <2>3. (a \o b) \o c = a \o (b \o c)
    BY <2>1, ConcatAssociative
  <2>4. NotFixed(x \o At(T)) = (a \o b) \o c
    BY <2>2, <2>3
  <2> QED
    BY <2>4 DEF a, b, c
<1>21. Kept(x, F) \o Messages(y) \in Seq(R)
  BY <1>7, <1>17, ConcatProperties
<1>22. EndsAlike(Messages(h), NotFixed(x \o At(T)), n - k + 1)
  BY <1>11, <1>18, <1>20, <1>21, EndsAlikeBy
<1> QED
  BY <1>8, <1>18, <1>22 DEF h

-----------------------------------------------------------------------------
(* What the protected suffix covers *)

LEMMA MaskedIs ==
    ASSUME input \in Inputs
    PROVE  /\ IsSequence(Masked(input)) /\ DOMAIN Masked(input) = Positions
           /\ Len(Masked(input)) = Len(input)
           /\ \A i \in Positions :
                IF input[i].id \in cfg.fixed
                THEN /\ Masked(input)[i].role = "system"
                     /\ Masked(input)[i].calls = << >> /\ Masked(input)[i].results = << >>
                ELSE Masked(input)[i] = input[i]
<1> DEFINE mask(m) == [m EXCEPT !.role = "system", !.calls = << >>, !.results = << >>]
           ms == Masked(input)
<1>1. Len(input) \in Nat /\ Positions = 1..Len(input)
  BY PositionsAre
<1>2. ms = [i \in 1..Len(input) |-> IF input[i].id \in cfg.fixed THEN mask(input[i]) ELSE input[i]]
  BY <1>1 DEF Masked, Positions
<1>3. \A i \in Positions : DOMAIN input[i] = {"id", "role", "calls", "results", "tokens"}
  BY InputsAssumption DEF Positions
<1>4. \A i \in Positions :
        mask(input[i]).role = "system" /\ mask(input[i]).calls = << >> /\ mask(input[i]).results = << >>
  BY <1>3
<1> HIDE DEF mask
<1>5. DOMAIN ms = 1..Len(input)
  BY <1>2
<1>6. ms \in Seq(Range(ms)) /\ Len(ms) = Len(input)
  <2>1. \A i \in 1..Len(input) : ms[i] \in Range(ms)
    BY <1>5 DEF Range
  <2>2. ms = [i \in 1..Len(input) |-> ms[i]]
    BY <1>2
  <2> HIDE DEF ms
  <2> QED
    BY <1>1, <2>1, <2>2
<1>7. \A i \in Positions : ms[i] = IF input[i].id \in cfg.fixed THEN mask(input[i]) ELSE input[i]
  BY <1>1, <1>2
<1> HIDE DEF ms
<1>8. \A i \in Positions :
        IF input[i].id \in cfg.fixed
        THEN ms[i].role = "system" /\ ms[i].calls = << >> /\ ms[i].results = << >>
        ELSE ms[i] = input[i]
  BY <1>4, <1>7
<1> QED
  BY <1>1, <1>5, <1>6, <1>8 DEF ms, IsSequence

LEMMA BudgetSuffix ==
    ASSUME NEW n \in Nat, NEW rounds, \A r \in rounds : r.start \in Nat \ {0}, cfg.rolling \in Nat
    PROVE  \E a \in Nat \ {0} :
             /\ ProtectBudgetSuffix(n, rounds) = a..n
             /\ \A r \in rounds : r.state = "pending" => a <= r.start
             /\ cfg.rolling > 0 => a <= 1 \/ a <= n - cfg.rolling + 1
<1> DEFINE start == IF cfg.rolling < n THEN n - cfg.rolling + 1 ELSE 1
           A == {start} \cup {r.start : r \in {r \in rounds :
                    \/ r.state = "pending" /\ r.start < start
                    \/ r.start < start /\ start <= r.end}}
           tail == IF cfg.rolling > 0 THEN RollingTailStart(n, rounds) ELSE n + 1
           B == {tail} \cup {r.start : r \in {r \in rounds : r.state = "pending"}}
<1>1. start \in Nat \ {0} /\ (start <= 1 \/ start <= n - cfg.rolling + 1)
  OBVIOUS
<1> HIDE DEF start
<1>2. A \subseteq Nat \ {0} /\ A # {} /\ start \in A
  BY <1>1
<1>3. Min(A) \in A /\ \A y \in A : Min(A) <= y
  BY <1>2, MinOf
<1>4. RollingTailStart(n, rounds) = Min(A)
  BY DEF RollingTailStart, start
<1> HIDE DEF A
<1>5. tail \in Nat \ {0} /\ (cfg.rolling > 0 => tail <= start)
  <2> HIDE DEF B
  <2>1. Min(A) \in Nat \ {0} /\ Min(A) <= start
    BY <1>2, <1>3
  <2>2. tail = IF cfg.rolling > 0 THEN Min(A) ELSE n + 1
    BY <1>4
  <2>3. n + 1 \in Nat \ {0}
    OBVIOUS
  <2> HIDE DEF tail
  <2> QED
    BY <2>1, <2>2, <2>3
<1> HIDE DEF tail
<1>6. B \subseteq Nat \ {0} /\ B # {} /\ tail \in B
  BY <1>5
<1>7. Min(B) \in B /\ \A y \in B : Min(B) <= y
  BY <1>6, MinOf
<1>8. ProtectBudgetSuffix(n, rounds) = Min(B)..n
  BY DEF ProtectBudgetSuffix, tail
<1>9. \A r \in rounds : r.state = "pending" => r.start \in B
  OBVIOUS
<1> HIDE DEF B
<1>10. Min(B) \in Nat \ {0} /\ Min(B) <= tail
  BY <1>6, <1>7
<1>11. cfg.rolling > 0 => Min(B) <= 1 \/ Min(B) <= n - cfg.rolling + 1
  <2>1. SUFFICES ASSUME cfg.rolling > 0
                 PROVE  Min(B) <= 1 \/ Min(B) <= n - cfg.rolling + 1
    OBVIOUS
  <2>2. Min(B) <= start
    BY <1>1, <1>5, <1>10, <2>1
  <2> QED
    BY <1>1, <1>10, <2>2
<1> QED
  BY <1>7, <1>8, <1>9, <1>10, <1>11

\* Rounds begin and end at positions.
LEMMA RoundsAre ==
    ASSUME NEW ms, IsSequence(ms)
    PROVE  /\ \A s \in Opens(ms) : /\ s \in 1..Len(ms)
                                   /\ ContiguousToolBlockEnd(ms, s) \in s..Len(ms)
           /\ \A r \in Rounds(ms) :
                /\ r.start \in Opens(ms) /\ r.end = ContiguousToolBlockEnd(ms, r.start)
                /\ r.state = LocalState(ms, r.start)
                /\ r.start \in Nat \ {0}
           /\ \A s \in Opens(ms) :
                [start |-> s, end |-> ContiguousToolBlockEnd(ms, s), state |-> LocalState(ms, s)]
                  \in Rounds(ms)
<1>1. Len(ms) \in Nat /\ DOMAIN ms = 1..Len(ms)
  BY SequenceDomain
<1>2. \A s \in Opens(ms) : s \in DOMAIN ms
  BY DEF Opens
<1>3. \A s \in Opens(ms) : ContiguousToolBlockEnd(ms, s) \in s..Len(ms)
  BY <1>2, BlockEnd
<1>4. \A r \in Rounds(ms) :
        /\ r.start \in Opens(ms) /\ r.end = ContiguousToolBlockEnd(ms, r.start)
        /\ r.state = LocalState(ms, r.start)
  BY DEF Rounds
<1> QED
  BY <1>1, <1>2, <1>3, <1>4 DEF Rounds

\* A round that is pending in the input is pending among the messages that are
\* not fixed: what is fixed between them answers nothing.
LEMMA PendingInHistory ==
    ASSUME input \in Inputs, LayoutValid(Masked(input)),
           NEW s \in Opens(Masked(input)), LocalState(Masked(input), s) = "pending"
    PROVE  \E k \in DOMAIN History :
             /\ History[k] = s
             /\ k \in Opens(Messages(History))
             /\ LocalState(Messages(History), k) = "pending"
<1> DEFINE ms == Masked(input)
           h == History
           hm == Messages(h)
           F == {i \in Positions : input[i].id \notin cfg.fixed}
<1>1. Positions \subseteq Nat /\ F \subseteq Positions
  BY PositionsAre
<1>2. h \in Seq(Positions) /\ InOrder(h) /\ Range(h) = F
  BY AscendingIs, <1>1 DEF History
<1>3. IsSequence(ms) /\ DOMAIN ms = Positions
  BY MaskedIs
<1>4. /\ \A i \in F : ms[i] = input[i]
      /\ \A i \in Positions : i \notin F =>
           ms[i].role = "system" /\ ms[i].calls = << >> /\ ms[i].results = << >>
  BY MaskedIs
<1>5. /\ DOMAIN hm = DOMAIN h /\ DOMAIN h = 1..Len(h) /\ Len(h) \in Nat
      /\ \A j \in DOMAIN h : hm[j] = input[h[j]] /\ h[j] \in F
      /\ IsSequence(hm)
  <2>1. hm \in Seq(Range(input)) /\ DOMAIN hm = DOMAIN h /\ \A j \in DOMAIN h : hm[j] = input[h[j]]
    BY <1>2, MessagesAre
  <2>2. IsSequence(hm)
    BY <2>1, SeqOfRange DEF IsSequence
  <2>3. DOMAIN h = 1..Len(h) /\ Len(h) \in Nat
    BY <1>2, LenProperties
  <2>4. \A j \in DOMAIN h : h[j] \in F
    BY <1>2 DEF Range
  <2> QED
    BY <2>1, <2>2, <2>3, <2>4
<1>6. s \in DOMAIN ms /\ HasToolCalls(ms[s]) /\ ms[s].role # "tool"
  BY DEF Opens
<1> HIDE DEF ms, h, hm, F
<1>7. s \in F
  BY <1>3, <1>4, <1>6 DEF HasToolCalls
<1>8. PICK k \in DOMAIN h : h[k] = s
  BY <1>2, <1>7 DEF Range
<1>9. k \in Opens(hm)
  BY <1>4, <1>5, <1>6, <1>7, <1>8 DEF Opens
<1> DEFINE e == ContiguousToolBlockEnd(ms, s)
           f == ContiguousToolBlockEnd(hm, k)
<1>10. f \in k..Len(hm) /\ \A j \in k+1..f : hm[j].role = "tool"
  BY <1>5, <1>8, BlockEnd
<1>11. Len(hm) = Len(h)
  BY <1>5, SequenceDomain DEF IsSequence
<1> HIDE DEF f
<1>12. ASSUME NEW j \in k+1..f
       PROVE  h[j] \in s+1..e
  <2>1. j \in DOMAIN h /\ k < j /\ hm[j].role = "tool"
    BY <1>5, <1>8, <1>10, <1>11
  <2> DEFINE i == h[j]
  <2>2. i \in F /\ i \in Positions /\ s < i /\ ms[i].role = "tool"
    BY <1>1, <1>2, <1>4, <1>5, <1>8, <2>1 DEF InOrder
  <2>3. InToolBlock(ms, i)
    BY <1>3, <2>2 DEF LayoutValid, ms
  <2>4. PICK t \in Opens(ms) : t < i /\ i <= ContiguousToolBlockEnd(ms, t)
    BY <2>3 DEF InToolBlock
  <2> HIDE DEF i
  <2>5. t \in DOMAIN ms /\ HasToolCalls(ms[t]) /\ ms[t].role # "tool"
    BY DEF Opens
  <2>6. ContiguousToolBlockEnd(ms, t) \in t..Len(ms)
        /\ \A l \in t+1..ContiguousToolBlockEnd(ms, t) : ms[l].role = "tool"
    BY <1>3, <2>5, BlockEnd
  <2>7. s \in Nat /\ t \in Nat /\ i \in Nat /\ ContiguousToolBlockEnd(ms, t) \in Nat
    <3>1. Len(ms) \in Nat
      BY <1>3, SequenceDomain
    <3> QED
      BY <1>1, <1>3, <1>6, <2>2, <2>5, <2>6, <3>1
  <2>8. CASE t < s
    <3>1. s \in t+1..ContiguousToolBlockEnd(ms, t)
      BY <2>2, <2>4, <2>7, <2>8
    <3> QED
      BY <1>6, <2>6, <3>1
  <2>9. CASE s < t
    <3>1. t \in F
      BY <1>3, <1>4, <2>5 DEF HasToolCalls
    <3>2. PICK l \in DOMAIN h : h[l] = t
      BY <1>2, <3>1 DEF Range
    <3>3. k < l /\ l < j
      <4>1. /\ l < k => h[l] < h[k]
            /\ j < l => h[j] < h[l]
        BY <1>2, <1>8, <2>1, <3>2 DEF InOrder
      <4>2. k \in Nat /\ l \in Nat /\ j \in Nat
        BY <1>5, <1>8, <2>1, <3>2
      <4> QED
        BY <1>8, <2>4, <2>7, <2>9, <3>2, <4>1, <4>2 DEF i
    <3>4. l \in k+1..f
      <4>1. k \in Nat /\ f \in Nat /\ l \in Nat
        BY <1>5, <1>8, <1>10, <1>11, <3>2
      <4> QED
        BY <3>3, <4>1
    <3>5. hm[l].role = "tool" /\ hm[l] = ms[t]
      BY <1>4, <1>5, <1>10, <3>1, <3>2, <3>4
    <3> QED
      BY <2>5, <3>5
  <2>10. CASE t = s
    BY <2>2, <2>4, <2>7, <2>10 DEF i, e
  <2> QED
    BY <2>7, <2>8, <2>9, <2>10
<1>13. Answered(hm, k + 1, f) \subseteq Answered(ms, s + 1, e)
  <2> SUFFICES ASSUME NEW j \in k+1..f, NEW c \in Elements(hm[j].results)
               PROVE  c \in Answered(ms, s + 1, e)
    BY DEF Answered
  <2>1. h[j] \in s+1..e
    BY <1>12
  <2>2. j \in DOMAIN h
    BY <1>5, <1>8, <1>10, <1>11
  <2>3. hm[j] = ms[h[j]]
    BY <1>4, <1>5, <2>2
  <2> QED
    BY <2>1, <2>3 DEF Answered
<1>14. ms[s].calls = hm[k].calls
  BY <1>4, <1>5, <1>7, <1>8
<1>15. ~(Elements(ms[s].calls) \subseteq Answered(ms, s + 1, e))
  BY DEF LocalState, ms, e
<1>16. LocalState(hm, k) = "pending"
  BY <1>13, <1>14, <1>15 DEF LocalState, f
<1> QED
  BY <1>8, <1>9, <1>16 DEF h, hm

\* With ProtectSuffix everything from a pending round on is required, and the
\* last messages of the history.
LEMMA SuffixCovers ==
    ASSUME input \in Inputs, cfg \in Configs, LayoutValid(Masked(input)), NEW S,
           \A i \in Positions : input[i].id \in cfg.fixed => i \in S
    PROVE  /\ ProtectedSuffix \subseteq Positions
           /\ \A s \in Opens(Masked(input)) :
                LocalState(Masked(input), s) = "pending" => s..Len(input) \subseteq S \cup ProtectedSuffix
           /\ \A j \in DOMAIN History :
                j > Len(History) - cfg.rolling => History[j] \in S \cup ProtectedSuffix
           /\ cfg.rolling = 0 => \A s \in ProtectedSuffix : s..Len(input) \subseteq ProtectedSuffix
<1> DEFINE n == Len(input)
           ms == Masked(input)
           h == History
           H == {i \in Positions : input[i].id \notin cfg.fixed}
<1>1. n \in Nat /\ Positions = 1..n /\ cfg.rolling \in Nat
  BY PositionsAre, ConfigsAssumption DEF ConfigOK
<1>2. IsSequence(ms) /\ Len(ms) = n
  BY MaskedIs
<1>3. h \in Seq(Positions) /\ InOrder(h) /\ Range(h) = H
  BY AscendingIs DEF History
<1>4. DOMAIN h = 1..Len(h) /\ Len(h) \in Nat /\ \A j \in DOMAIN h : h[j] \in Positions
  BY <1>3, LenProperties, ElementOfSeq
<1> HIDE DEF n, ms, h, H
<1>5. CASE cfg.fixed = {} \/ cfg.rolling = 0
  <2>1. \A r \in Rounds(ms) : r.start \in Nat \ {0}
    BY <1>2, RoundsAre
  <2>2. PICK a \in Nat \ {0} :
             /\ ProtectBudgetSuffix(n, Rounds(ms)) = a..n
             /\ \A r \in Rounds(ms) : r.state = "pending" => a <= r.start
             /\ cfg.rolling > 0 => a <= 1 \/ a <= n - cfg.rolling + 1
    BY <1>1, <2>1, BudgetSuffix
  <2>3. ProtectedSuffix = a..n
    BY <1>5, <2>2 DEF ProtectedSuffix, n, ms
  <2>4. ProtectedSuffix \subseteq Positions
    BY <1>1, <2>3
  <2>5. ASSUME NEW s \in Opens(ms), LocalState(ms, s) = "pending"
        PROVE  s..n \subseteq ProtectedSuffix
    <3>1. s \in 1..n
      BY <1>2, RoundsAre
    <3> DEFINE r == [start |-> s, end |-> ContiguousToolBlockEnd(ms, s), state |-> LocalState(ms, s)]
    <3>2. r \in Rounds(ms) /\ r.start = s /\ r.state = "pending"
      BY <1>2, <2>5, RoundsAre
    <3> HIDE DEF r
    <3>3. a <= s
      BY <2>2, <3>2
    <3> QED
      BY <1>1, <2>3, <3>1, <3>3
  <2>6. ASSUME NEW j \in DOMAIN h, j > Len(h) - cfg.rolling
        PROVE  h[j] \in ProtectedSuffix
    <3>1. cfg.rolling > 0 /\ cfg.fixed = {}
      BY <1>1, <1>4, <1>5, <2>6
    <3>2. H = Positions
      BY <3>1 DEF H
    <3>3. h = [i \in Positions |-> i]
      BY <3>2, AllMessages DEF h, History, H
    <3>4. j \in 1..n /\ h[j] = j /\ Len(h) = n
      BY <1>1, <3>3
    <3> QED
      BY <1>1, <2>2, <2>3, <2>6, <3>1, <3>4
  <2>7. \A s \in ProtectedSuffix : s..n \subseteq ProtectedSuffix
    BY <1>1, <2>3
  <2> QED
    BY <2>4, <2>5, <2>6, <2>7 DEF n, ms, h
<1>6. CASE ~(cfg.fixed = {} \/ cfg.rolling = 0)
  <2> DEFINE hm == Messages(h)
  <2>1. IsSequence(hm)
    BY <1>3, MessagesAre, SeqOfRange DEF IsSequence
  <2> HIDE DEF hm
  <2>2. \A r \in Rounds(hm) : r.start \in Nat \ {0}
    BY <2>1, RoundsAre
  <2>3. PICK a \in Nat \ {0} :
             /\ ProtectBudgetSuffix(Len(h), Rounds(hm)) = a..Len(h)
             /\ \A r \in Rounds(hm) : r.state = "pending" => a <= r.start
             /\ cfg.rolling > 0 => a <= 1 \/ a <= Len(h) - cfg.rolling + 1
    BY <1>1, <1>4, <2>2, BudgetSuffix
  <2>4. ProtectedSuffix = {h[k] : k \in a..Len(h)}
    BY <1>6, <2>3 DEF ProtectedSuffix, h, hm, History
  <2>5. ProtectedSuffix \subseteq Positions
    <3>1. a..Len(h) \subseteq DOMAIN h
      BY <1>4
    <3> QED
      BY <1>4, <2>4, <3>1
  <2>6. ASSUME NEW s \in Opens(ms), LocalState(ms, s) = "pending"
        PROVE  s..n \subseteq S \cup ProtectedSuffix
    <3>1. s \in 1..n
      BY <1>2, RoundsAre
    <3>2. PICK k \in DOMAIN h : h[k] = s /\ k \in Opens(hm) /\ LocalState(hm, k) = "pending"
      BY <2>6, PendingInHistory DEF ms, h, hm
    <3> DEFINE r == [start |-> k, end |-> ContiguousToolBlockEnd(hm, k), state |-> LocalState(hm, k)]
    <3>3. r \in Rounds(hm) /\ r.start = k /\ r.state = "pending"
      BY <2>1, <3>2, RoundsAre
    <3> HIDE DEF r
    <3>4. a <= k
      BY <2>3, <3>3
    <3> SUFFICES ASSUME NEW i \in s..n, i \notin S
                 PROVE  i \in ProtectedSuffix
      OBVIOUS
    <3>5. i \in H
      BY <1>1, <3>1 DEF H
    <3>6. PICK l \in DOMAIN h : h[l] = i
      BY <1>3, <3>5 DEF Range
    <3>7. k <= l
      <4>1. l < k => h[l] < h[k]
        BY <1>3, <3>2, <3>6 DEF InOrder
      <4>2. s <= i /\ s \in Nat /\ i \in Nat
        BY <1>1, <3>1
      <4> QED
        BY <1>4, <3>2, <3>6, <4>1, <4>2
    <3>8. l \in a..Len(h)
      BY <1>4, <3>4, <3>6, <3>7
    <3> QED
      BY <2>4, <3>6, <3>8
  <2>7. ASSUME NEW j \in DOMAIN h, j > Len(h) - cfg.rolling
        PROVE  h[j] \in ProtectedSuffix
    <3>1. j \in a..Len(h)
      BY <1>1, <1>4, <1>6, <2>3, <2>7
    <3> QED
      BY <2>4, <3>1
  <2> QED
    BY <1>6, <2>5, <2>6, <2>7 DEF n, ms, h
<1> QED
  BY <1>5, <1>6

-----------------------------------------------------------------------------
(* What is required stays and what is left of the input is in order: the     *)
(* invariant                                                                 *)

\* The stages behind the choice of what is required.
Composing == {"compare", "evict complete", "summarize", "evict", "drop head", "drop tail",
              "merge", "admit", "verify"}

LayoutKnown ==
    pc \in {"select", "measure", "protect"} \cup Composing \/ answer = "ok" =>
        LayoutValid(Masked(input))

\* Fixed messages are required, and without a rolling summary the rounds of what
\* is required are.
FixedRequired ==
    pc \in {"measure", "protect"} \cup Composing \/ answer = "ok" =>
        /\ required \subseteq Positions
        /\ \A i \in Positions : input[i].id \in cfg.fixed => i \in required
        /\ cfg.rolling = 0 =>
             \A s \in required \cap Opens(Masked(input)) :
                s..ContiguousToolBlockEnd(Masked(input), s) \subseteq required

\* From the first pending round on everything is required, and with a rolling
\* summary the last messages of the history are.
SuffixRequired ==
    pc \in Composing \/ answer = "ok" =>
        /\ \A s \in Opens(Masked(input)) :
             LocalState(Masked(input), s) = "pending" => s..Len(input) \subseteq required
        /\ \A j \in DOMAIN History : j > Len(History) - cfg.rolling => History[j] \in required

\* An eviction candidate is made of positions of the input in their order.
CandidateOK ==
    /\ pc \in {"evict complete", "evict", "drop head", "drop tail"} =>
         cur \in Seq(Positions) /\ InOrder(cur) /\ ~cfg.summarizer
    /\ pc = "evict complete" => required \subseteq Range(cur) /\ cfg.strategy # "host"
    /\ pc \in {"evict", "drop head", "drop tail"} => Range(cur) \subseteq Optional
    /\ pc = "evict" => cur # << >>
    /\ pc \in {"drop head", "drop tail"} => cfg.strategy # "host"
    /\ pc \in {"evict", "drop head", "drop tail"} => Reserved <= cfg.limit
    /\ pc = "summarize" => Optional # {} /\ cfg.summarizer
    /\ decision.compacted => pc \in {"merge", "admit", "verify", "done"}

\* What strategy or summarizer answered.
OutputOK ==
    /\ pc \in {"merge", "admit", "verify"} /\ decision.compacted => cfg.summarizer /\ Optional # {}
    /\ pc = "merge" /\ decision.compacted => \E m \in Summaries : output = <<m>>
    /\ pc = "merge" /\ ~decision.compacted => ~cfg.summarizer
    /\ pc = "merge" /\ ~decision.compacted /\ cfg.strategy # "host" =>
         \E S \in SUBSET Optional : output = At(S)
    /\ pc = "merge" => output \in Seq(Range(output))

\* What is about to be returned is the input less optional messages, or with a
\* summary in their place.
ResultFromInput ==
    pc \in {"admit", "verify"} \/ answer = "ok" =>
        /\ required # {} \/ cfg.strategy # "host" \/ cfg.summarizer => FromInput
        /\ decision.compacted => cfg.summarizer /\ Optional # {}
        /\ out \in Seq(Range(out))

Plan ==
    /\ LayoutKnown
    /\ FixedRequired
    /\ SuffixRequired
    /\ CandidateOK
    /\ OutputOK
    /\ ResultFromInput

LEMMA Same ==
    ASSUME UNCHANGED <<input, cfg>>
    PROVE  /\ Positions' = Positions /\ Masked(input)' = Masked(input) /\ History' = History
           /\ \A S : At(S)' = At(S) /\ Ascending(S)' = Ascending(S)
<1>1. Positions' = Positions
  BY DEF Positions
<1>2. \A S : Ascending(S)' = Ascending(S)
  BY <1>1 DEF Ascending
<1>3. \A S : At(S)' = At(S)
  BY <1>2 DEF At, Messages
<1>4. Masked(input)' = Masked(input)
  BY DEF Masked
<1>5. History' = History
  BY <1>1 DEF History, Ascending
<1> QED
  BY <1>1, <1>2, <1>3, <1>4, <1>5

LEMMA SameParts ==
    ASSUME UNCHANGED <<input, cfg, required>>
    PROVE  Optional' = Optional /\ Reserved' = Reserved
<1>1. Optional' = Optional
  BY DEF Optional, Positions
<1>2. Reserved' = Reserved
  BY DEF Reserved, At, Messages, Ascending, Positions, Estimate
<1> QED
  BY <1>1, <1>2

LEMMA PlanCarried ==
    ASSUME Plan, pc \in Composing, UNCHANGED <<input, cfg, required>>
    PROVE  LayoutKnown' /\ FixedRequired' /\ SuffixRequired'
<1>1. Positions' = Positions /\ Masked(input)' = Masked(input) /\ History' = History
  BY Same
<1>2. LayoutKnown'
  BY <1>1 DEF Plan, LayoutKnown
<1>3. FixedRequired'
  BY <1>1 DEF Plan, FixedRequired
<1>4. SuffixRequired'
  BY <1>1 DEF Plan, SuffixRequired
<1> QED
  BY <1>2, <1>3, <1>4

LEMMA FailPlan ==
    ASSUME pc' = "done", answer' # "ok"
    PROVE  Plan'
BY DEF Plan, LayoutKnown, FixedRequired, SuffixRequired, CandidateOK, OutputOK, ResultFromInput,
       Composing

LEMMA FailsPlan ==
    ASSUME NEW kind \in FailKinds, Fail(kind)
    PROVE  Plan'
<1>1. kind # "ok"
  BY DEF FailKinds
<1> QED
  BY <1>1, FailPlan DEF Fail, Answer

\* Nothing is summarised before the summarizer was asked.
LEMMA NotYetCompacted ==
    ASSUME Plan, pc \notin {"merge", "admit", "verify", "done"}
    PROVE  ~decision.compacted
BY DEF Plan, CandidateOK

LEMMA InspectPlan ==
    ASSUME Inv, Plan, InspectBudgetRounds
    PROVE  Plan'
<1>1. CASE Fail("invalid round")
  BY <1>1, FailsPlan DEF FailKinds
<1>2. CASE /\ LayoutValid(Masked(input))
           /\ Goto("select")
           /\ UNCHANGED <<input, cfg, required, cur, output, decision, out, answer>>
  <2>1. pc = "inspect" /\ pc' = "select" /\ answer' # "ok" /\ ~decision.compacted
    BY <1>2, NotYetCompacted DEF InspectBudgetRounds, Goto, Inv, TypeOK
  <2>2. LayoutKnown'
    BY <1>2, Same DEF LayoutKnown
  <2> QED
    BY <1>2, <2>1, <2>2 DEF Plan, FixedRequired, SuffixRequired, CandidateOK, OutputOK,
       ResultFromInput, Composing
<1> QED
  BY <1>1, <1>2 DEF InspectBudgetRounds

\* What is required is closed under rounds.
LEMMA ExpandedRounds ==
    ASSUME NEW ms, IsSequence(ms), NEW S, S \subseteq 1..Len(ms)
    PROVE  LET E == ExpandRequiredRounds(S, Rounds(ms))
           IN  /\ S \subseteq E /\ E \subseteq 1..Len(ms)
               /\ \A s \in E \cap Opens(ms) : s..ContiguousToolBlockEnd(ms, s) \subseteq E
<1> DEFINE R == Rounds(ms)
           E == ExpandRequiredRounds(S, R)
           end(s) == ContiguousToolBlockEnd(ms, s)
           n == Len(ms)
<1>1. n \in Nat /\ DOMAIN ms = 1..n
  BY SequenceDomain
<1>2. /\ \A s \in Opens(ms) : s \in 1..n /\ end(s) \in s..n
      /\ \A r \in R : r.start \in Opens(ms) /\ r.end = end(r.start)
      /\ \A s \in Opens(ms) : \E r \in R : r.start = s
  <2>1. /\ \A s \in Opens(ms) : s \in 1..n /\ end(s) \in s..n
        /\ \A r \in R : r.start \in Opens(ms) /\ r.end = end(r.start)
    BY RoundsAre
  <2>2. ASSUME NEW s \in Opens(ms)
        PROVE  \E r \in R : r.start = s
    <3>1. [start |-> s, end |-> end(s), state |-> LocalState(ms, s)] \in R
      BY RoundsAre
    <3> QED
      BY <3>1
  <2> QED
    BY <2>1, <2>2
<1>3. \A s \in Opens(ms) : \A k \in s+1..end(s) : k \notin Opens(ms)
  <2> SUFFICES ASSUME NEW s \in Opens(ms), NEW k \in s+1..end(s)
               PROVE  k \notin Opens(ms)
    OBVIOUS
  <2>1. s \in DOMAIN ms
    BY DEF Opens
  <2>2. ms[k].role = "tool"
    BY <2>1, BlockEnd
  <2> QED
    BY <2>2 DEF Opens
<1> HIDE DEF R, end, n
<1>4. E = S \cup UNION {r.start..r.end : r \in {r \in R : (r.start..r.end) \cap S # {}}}
  BY DEF ExpandRequiredRounds
<1> HIDE DEF E
<1>5. \A x : x \in E <=> x \in S \/ \E r \in R : (r.start..r.end) \cap S # {} /\ x \in r.start..r.end
  BY <1>4
<1>6. S \subseteq E
  BY <1>5
<1>7. E \subseteq 1..n
  <2> SUFFICES ASSUME NEW x \in E
               PROVE  x \in 1..n
    OBVIOUS
  <2>1. CASE x \in S
    BY <2>1 DEF n
  <2>2. CASE \E r \in R : x \in r.start..r.end
    <3>1. PICK r \in R : x \in r.start..r.end
      BY <2>2
    <3>2. r.start \in 1..n /\ r.end \in r.start..n
      BY <1>2
    <3> QED
      BY <1>1, <3>1, <3>2
  <2> QED
    BY <1>5, <2>1, <2>2
<1>8. ASSUME NEW s \in E \cap Opens(ms)
      PROVE  s..end(s) \subseteq E
  <2>0. s \in 1..n /\ end(s) \in s..n
    BY <1>2
  <2>1. CASE s \in S
    <3>1. PICK r \in R : r.start = s /\ r.end = end(s)
      BY <1>2
    <3>2. s \in (r.start..r.end) \cap S
      BY <1>1, <2>0, <2>1, <3>1
    <3> QED
      BY <1>5, <3>1, <3>2
  <2>2. CASE s \notin S
    <3>1. PICK r \in R : (r.start..r.end) \cap S # {} /\ s \in r.start..r.end
      BY <1>5, <2>2
    <3>2. r.start \in Opens(ms) /\ r.end = end(r.start) /\ r.start \in 1..n
      BY <1>2
    <3>3. s = r.start \/ s \in r.start+1..end(r.start)
      BY <1>1, <3>1, <3>2
    <3>4. s = r.start
      BY <1>3, <3>2, <3>3
    <3> QED
      BY <1>5, <3>1, <3>2, <3>4
  <2> QED
    BY <2>1, <2>2
<1> QED
  BY <1>6, <1>7, <1>8 DEF E, R, end, n

LEMMA SelectPlan ==
    ASSUME Inv, Plan, SelectRequired
    PROVE  Plan'
<1> DEFINE chosen == {i \in Positions : Selected(input[i])}
<1>1. pc = "select"
  BY DEF SelectRequired
<1>2. CASE Fail("invalid retention")
  BY <1>2, FailsPlan DEF FailKinds
<1>3. CASE /\ required' = ExpandRequiredRounds(chosen, Rounds(Masked(input)))
           /\ Goto("measure")
           /\ UNCHANGED <<input, cfg, cur, output, decision, out, answer>>
  <2>1. pc' = "measure" /\ answer' # "ok" /\ ~decision.compacted
    BY <1>1, <1>3, NotYetCompacted DEF Goto, Inv, TypeOK
  <2>2. LayoutValid(Masked(input))
    BY <1>1 DEF Plan, LayoutKnown
  <2>3. Positions' = Positions /\ Masked(input)' = Masked(input)
    BY <1>3, Same
  <2>4. LayoutKnown'
    BY <2>2, <2>3 DEF LayoutKnown
  <2>5. IsSequence(Masked(input)) /\ chosen \subseteq 1..Len(Masked(input)) /\ Positions = 1..Len(Masked(input))
    BY MaskedIs, PositionsAre DEF Inv, TypeOK
  <2>6. /\ chosen \subseteq required' /\ required' \subseteq Positions
        /\ \A s \in required' \cap Opens(Masked(input)) :
             s..ContiguousToolBlockEnd(Masked(input), s) \subseteq required'
    <3> HIDE DEF chosen
    <3> QED
      BY <1>3, <2>5, ExpandedRounds
  <2>7. \A i \in Positions : input[i].id \in cfg.fixed => i \in chosen
    BY DEF Selected
  <2> HIDE DEF chosen
  <2>8. \A i \in Positions' : input'[i].id \in cfg'.fixed => i \in required'
    BY <1>3, <2>3, <2>6, <2>7
  <2>9. FixedRequired'
    BY <2>3, <2>6, <2>8 DEF FixedRequired
  <2> QED
    BY <1>3, <2>1, <2>4, <2>9 DEF Plan, SuffixRequired, CandidateOK, OutputOK, ResultFromInput,
       Composing
<1> QED
  BY <1>2, <1>3 DEF SelectRequired

LEMMA MeasurePlan ==
    ASSUME Inv, Plan, MeasureInput
    PROVE  Plan'
<1>1. /\ pc = "measure" /\ pc' = "protect"
      /\ UNCHANGED <<input, cfg, required, cur, output, out, answer>>
      /\ answer' # "ok" /\ ~decision'.compacted
  BY DEF MeasureInput, Goto, NoDecision, Inv, TypeOK
<1>2. Positions' = Positions /\ Masked(input)' = Masked(input)
  BY <1>1, Same
<1>3. LayoutKnown' /\ FixedRequired'
  BY <1>1, <1>2 DEF Plan, LayoutKnown, FixedRequired
<1> QED
  BY <1>1, <1>3 DEF Plan, SuffixRequired, CandidateOK, OutputOK, ResultFromInput, Composing

LEMMA ProtectPlan ==
    ASSUME Inv, Plan, ProtectSuffix
    PROVE  Plan'
<1>1. /\ pc = "protect" /\ required' = required \cup ProtectedSuffix
      /\ UNCHANGED <<input, cfg, cur, output, decision, out>>
  BY DEF ProtectSuffix
<1>2. CASE \E kind \in {"duplicate id", "invalid retention"} : Answer(kind)
  BY <1>2, FailPlan DEF Answer
<1>3. CASE pc' = "compare" /\ UNCHANGED answer
  <2>1. answer' # "ok" /\ ~decision.compacted
    BY <1>1, <1>3, NotYetCompacted DEF Inv, TypeOK
  <2>2. /\ Positions' = Positions /\ Masked(input)' = Masked(input) /\ History' = History
        /\ input \in Inputs /\ cfg \in Configs
    BY <1>1, Same DEF Inv, TypeOK
  <2>3. LayoutValid(Masked(input)) /\ LayoutKnown'
    BY <1>1, <2>2 DEF Plan, LayoutKnown
  <2>4. /\ required \subseteq Positions
        /\ \A i \in Positions : input[i].id \in cfg.fixed => i \in required
        /\ cfg.rolling = 0 =>
             \A s \in required \cap Opens(Masked(input)) :
                s..ContiguousToolBlockEnd(Masked(input), s) \subseteq required
    BY <1>1 DEF Plan, FixedRequired
  <2>5. /\ ProtectedSuffix \subseteq Positions
        /\ \A s \in Opens(Masked(input)) :
             LocalState(Masked(input), s) = "pending" => s..Len(input) \subseteq required'
        /\ \A j \in DOMAIN History : j > Len(History) - cfg.rolling => History[j] \in required'
        /\ cfg.rolling = 0 => \A s \in ProtectedSuffix : s..Len(input) \subseteq ProtectedSuffix
    BY <1>1, <2>2, <2>3, <2>4, SuffixCovers
  <2>6. ASSUME cfg.rolling = 0, NEW s \in required' \cap Opens(Masked(input))
        PROVE  s..ContiguousToolBlockEnd(Masked(input), s) \subseteq required'
    <3>1. CASE s \in required
      BY <1>1, <2>4, <2>6, <3>1
    <3>2. CASE s \in ProtectedSuffix
      <4>1. ContiguousToolBlockEnd(Masked(input), s) \in s..Len(input) /\ s \in 1..Len(input)
            /\ Len(input) \in Nat
        BY <2>2, MaskedIs, RoundsAre, PositionsAre
      <4>2. s..ContiguousToolBlockEnd(Masked(input), s) \subseteq s..Len(input)
        BY <4>1
      <4> QED
        BY <1>1, <2>5, <2>6, <3>2, <4>2
    <3> QED
      BY <1>1, <3>1, <3>2
  <2>7. required' \subseteq Positions /\ \A i \in Positions : input[i].id \in cfg.fixed => i \in required'
    BY <1>1, <2>4, <2>5
  <2>8. FixedRequired'
    BY <1>1, <2>2, <2>6, <2>7 DEF FixedRequired
  <2>9. SuffixRequired'
    BY <1>1, <2>2, <2>5 DEF SuffixRequired
  <2> QED
    BY <1>1, <1>3, <2>1, <2>3, <2>8, <2>9 DEF Plan, CandidateOK, OutputOK, ResultFromInput
<1> QED
  BY <1>2, <1>3 DEF ProtectSuffix, Goto

LEMMA InitPlan ==
    ASSUME Init
    PROVE  Plan
<1>1. pc = "inspect" /\ answer = "none" /\ ~decision.compacted
  BY DEF Init, NoDecision
<1> QED
  BY <1>1 DEF Plan, LayoutKnown, FixedRequired, SuffixRequired, CandidateOK, OutputOK,
     ResultFromInput, Composing

\* Positions in their order name a part of the input.
LEMMA OrderedIsPart ==
    ASSUME input \in Inputs, NEW ps \in Seq(Positions), InOrder(ps)
    PROVE  Messages(ps) = At(Range(ps)) /\ Range(ps) \subseteq Positions
<1>1. ps = Ascending(Range(ps)) /\ Range(ps) \subseteq Positions
  BY OrderedAscending
<1> HIDE DEF Messages
<1> QED
  BY <1>1 DEF At

\* The parts of the input are sequences of messages.
LEMMA PartIsSequence ==
    ASSUME input \in Inputs, NEW S
    PROVE  At(S) \in Seq(Range(input)) /\ At(S) \in Seq(Range(At(S)))
<1>1. Ascending(S) \in Seq(Positions)
  BY AscendingIs
<1>2. At(S) \in Seq(Range(input))
  BY <1>1, MessagesAre DEF At
<1>3. At(S) \in Seq(Range(At(S)))
  BY <1>2 DEF Range
<1> QED
  BY <1>2, <1>3

LEMMA EmptyPart ==
    ASSUME input \in Inputs
    PROVE  At({}) = << >>
<1>1. Ascending({}) \in Seq(Positions \cap {})
  BY AscendingIs
<1>2. Ascending({}) = << >>
  <2>1. CASE Len(Ascending({})) = 0
    BY <1>1, <2>1
  <2>2. CASE Len(Ascending({})) # 0
    <3>1. Ascending({})[1] \in Positions \cap {}
      BY <1>1, <2>2
    <3> QED
      BY <3>1
  <2> QED
    BY <2>1, <2>2
<1>3. << >> \in Seq(Positions)
  OBVIOUS
<1>4. Messages(<< >>) \in Seq(Range(input)) /\ Len(Messages(<< >>)) = 0
  BY <1>3, MessagesAre
<1>5. At({}) = Messages(<< >>)
  BY <1>2 DEF At, Messages
<1> HIDE DEF Messages
<1> QED
  BY <1>4, <1>5

\* The result is the input less optional messages.
LEMMA PartFromInput ==
    ASSUME UNCHANGED <<input, cfg, required>>, ~decision'.compacted,
           NEW S \in SUBSET Optional, out' = At(required \cup S)
    PROVE  FromInput'
<1>1. Optional' = Optional
  BY SameParts
<1>2. At(required \cup S)' = At(required \cup S)
  BY DEF At, Messages, Ascending, Positions
<1> QED
  BY <1>1, <1>2 DEF FromInput

LEMMA WholeIsPart ==
    ASSUME Inv, Plan, pc \in Composing
    PROVE  input = At(required \cup Optional) /\ input \in Seq(Range(input))
<1>1. required \cup Optional = Positions
  BY DEF Plan, FixedRequired, Optional
<1> QED
  BY <1>1, AllMessages, PositionsAre DEF Inv, TypeOK

LEMMA FitsPlan ==
    ASSUME Inv, Plan, Fits
    PROVE  Plan'
<1>1. /\ pc = "compare" /\ pc' = "verify" /\ out' = input
      /\ UNCHANGED <<input, cfg, required, cur, output, answer>>
      /\ decision'.compacted = decision.compacted
  BY DEF Fits, Goto, Inv, TypeOK, IsDecision
<1>2. ~decision'.compacted
  BY <1>1, NotYetCompacted
<1>3. input = At(required \cup Optional) /\ input \in Seq(Range(input))
  BY <1>1, WholeIsPart DEF Composing
<1>4. FromInput'
  BY <1>1, <1>2, <1>3, PartFromInput
<1>5. LayoutKnown' /\ FixedRequired' /\ SuffixRequired'
  BY <1>1, PlanCarried DEF Composing
<1>6. ResultFromInput'
  BY <1>1, <1>2, <1>3, <1>4 DEF ResultFromInput
<1> QED
  BY <1>1, <1>2, <1>5, <1>6 DEF Plan, CandidateOK, OutputOK

LEMMA StartCompleteEvictionPlan ==
    ASSUME Inv, Plan, StartCompleteEviction
    PROVE  Plan'
<1>1. CASE Fail("budget exceeded")
  BY <1>1, FailsPlan DEF FailKinds
<1>2. CASE /\ cur' = Ascending(Positions)
           /\ Goto("evict complete")
           /\ UNCHANGED <<input, cfg, required, output, decision, out, answer>>
  <2>1. pc = "compare" /\ pc' = "evict complete" /\ ~cfg.summarizer /\ cfg.strategy # "host"
        /\ answer' # "ok" /\ ~decision.compacted
    BY <1>2, NotYetCompacted DEF StartCompleteEviction, CompleteEviction, Goto, Inv, TypeOK
  <2>2. LayoutKnown' /\ FixedRequired' /\ SuffixRequired'
    BY <1>2, <2>1, PlanCarried DEF Composing
  <2>3. cur' \in Seq(Positions) /\ InOrder(cur') /\ Range(cur') = Positions
    <3>1. Positions \cap Positions = Positions
      OBVIOUS
    <3> QED
      BY <1>2, <3>1, AscendingIs DEF Inv, TypeOK
  <2>4. required \subseteq Positions /\ Positions' = Positions
    BY <1>2, <2>1, Same DEF Plan, FixedRequired, Composing
  <2>5. CandidateOK'
    BY <1>2, <2>1, <2>3, <2>4 DEF CandidateOK
  <2> QED
    BY <1>2, <2>1, <2>2, <2>5 DEF Plan, OutputOK, ResultFromInput
<1> QED
  BY <1>1, <1>2 DEF StartCompleteEviction

\* What is taken out of a candidate are optional messages.
LEMMA WithoutOK ==
    ASSUME input \in Inputs, NEW ps \in Seq(Positions), InOrder(ps), required \subseteq Range(ps), NEW gone
    PROVE  LET qs == Without(ps, gone)
           IN  /\ qs \in Seq(Positions) /\ InOrder(qs)
               /\ required \subseteq Range(qs)
               /\ Len(qs) <= Len(ps)
               /\ \A k \in DOMAIN ps : ps[k] \in gone \ required => Len(qs) < Len(ps)
<1> DEFINE S == required \cup (Positions \ gone)
           qs == Kept(ps, S)
<1>1. ps \in Seq(Nat) /\ Seq(Positions) \subseteq Seq(Nat)
  BY PositionsAre
<1>2. qs \in Seq(Positions \cap S)
  BY KeptType
<1>3. qs \in Seq(Positions)
  BY <1>2
<1>4. /\ InOrder(qs) /\ Range(ps) \cap S \subseteq Range(qs) /\ Len(qs) <= Len(ps)
      /\ \A j \in DOMAIN ps : ps[j] \notin S => Len(qs) < Len(ps)
  BY <1>1, KeptInOrder
<1>5. required \subseteq Range(qs)
  BY <1>4
<1>6. \A k \in DOMAIN ps : ps[k] \in gone \ required => ps[k] \notin S
  OBVIOUS
<1> HIDE DEF S
<1> QED
  BY <1>3, <1>4, <1>5, <1>6 DEF Without, S

LEMMA EvictCompleteCandidatePlan ==
    ASSUME Inv, Plan, EvictCompleteCandidate
    PROVE  Plan'
<1>0. /\ input \in Inputs /\ pc = "evict complete" /\ ~decision.compacted
      /\ cur \in Seq(Positions) /\ InOrder(cur) /\ required \subseteq Range(cur)
      /\ ~cfg.summarizer /\ cfg.strategy # "host" /\ required \subseteq Positions
  BY NotYetCompacted DEF EvictCompleteCandidate, Inv, TypeOK, Plan, CandidateOK, FixedRequired, Composing
<1>1. CASE Fail("required overflow")
  BY <1>1, FailsPlan DEF FailKinds
<1>2. ASSUME NEW next, next \in Seq(Positions), InOrder(next), required \subseteq Range(next),
             cur' = next,
             \/ UNCHANGED <<pc, out>>
             \/ Goto("admit") /\ out' = Messages(next),
             UNCHANGED <<input, cfg, required, output, decision, answer>>
      PROVE  Plan'
  <2>1. answer' # "ok" /\ Positions' = Positions /\ Optional' = Optional
    BY <1>0, <1>2, Same, SameParts DEF Inv, TypeOK
  <2>2. LayoutKnown' /\ FixedRequired' /\ SuffixRequired'
    BY <1>0, <1>2, PlanCarried DEF Composing
  <2>3. CASE UNCHANGED <<pc, out>>
    <3>1. CandidateOK'
      BY <1>0, <1>2, <2>1, <2>3 DEF CandidateOK
    <3> QED
      BY <1>0, <1>2, <2>1, <2>2, <2>3, <3>1 DEF Plan, OutputOK, ResultFromInput
  <2>4. CASE Goto("admit") /\ out' = Messages(next)
    <3>1. Messages(next) = At(Range(next)) /\ Range(next) \subseteq Positions
      BY <1>0, <1>2, OrderedIsPart
    <3>2. Range(next) = required \cup (Range(next) \cap Optional) /\ Range(next) \cap Optional \in SUBSET Optional
      BY <1>2, <3>1 DEF Optional
    <3>3. FromInput'
      BY <1>0, <1>2, <2>4, <3>1, <3>2, PartFromInput
    <3>4. out' \in Seq(Range(out'))
      BY <1>0, <2>4, <3>1, PartIsSequence
    <3>5. pc' = "admit"
      BY <2>4 DEF Goto
    <3>6. ResultFromInput'
      BY <1>0, <1>2, <3>3, <3>4 DEF ResultFromInput
    <3> QED
      BY <1>0, <1>2, <2>1, <2>2, <3>5, <3>6 DEF Plan, OutputOK, CandidateOK
  <2> QED
    BY <1>2, <2>3, <2>4
<1>3. ASSUME NEW gone, NEW more,
             NEW next, next = Without(cur, gone) \/ next = Without(Without(cur, gone), more)
      PROVE  next \in Seq(Positions) /\ InOrder(next) /\ required \subseteq Range(next)
  <2> DEFINE smaller == Without(cur, gone)
  <2>1. smaller \in Seq(Positions) /\ InOrder(smaller) /\ required \subseteq Range(smaller)
    BY <1>0, WithoutOK
  <2>2. LET qs == Without(smaller, more)
        IN  qs \in Seq(Positions) /\ InOrder(qs) /\ required \subseteq Range(qs)
    <3> HIDE DEF smaller
    <3> QED
      BY <1>0, <2>1, WithoutOK
  <2> QED
    BY <1>3, <2>1, <2>2
<1> DEFINE left == {k \in DOMAIN cur : cur[k] \notin required}
           tail == cfg.strategy = "tail"
           index == IF tail THEN Max(left) ELSE Min(left)
           unit == CandidateUnit(cur, index, tail, cfg.strategy # "head" \/ cfg.atomic)
           gone == IF cfg.strategy = "drop" THEN Positions ELSE {cur[k] : k \in unit}
           smaller == Without(cur, gone)
           optional == Len(Kept(smaller, Optional))
           next == IF cfg.strategy = "head" /\ optional < cfg.minimum
                   THEN Without(smaller, Positions)
                   ELSE smaller
<1>4. \/ Fail("required overflow")
      \/ /\ cur' = next
         /\ IF Estimate(Messages(next)) > cfg.limit
            THEN UNCHANGED <<pc, out>>
            ELSE Goto("admit") /\ out' = Messages(next)
         /\ UNCHANGED <<input, cfg, required, output, decision, answer>>
  BY DEF EvictCompleteCandidate
<1>5. next \in Seq(Positions) /\ InOrder(next) /\ required \subseteq Range(next)
  <2>1. next = smaller \/ next = Without(smaller, Positions)
    OBVIOUS
  <2> HIDE DEF next, gone
  <2> QED
    BY <1>3, <2>1
<1> HIDE DEF next
<1> QED
  BY <1>1, <1>2, <1>4, <1>5

LEMMA ReservePlan ==
    ASSUME Inv, Plan, Reserve
    PROVE  Plan'
<1>0. pc = "compare" /\ ~decision.compacted /\ answer # "ok" /\ input \in Inputs
  BY NotYetCompacted DEF Reserve, Inv, TypeOK
<1>1. CASE Fail("required overflow")
  BY <1>1, FailsPlan DEF FailKinds
<1>2. CASE /\ decision' = [decision EXCEPT !.after = decision.before]
           /\ out' = input
           /\ Goto("verify")
           /\ UNCHANGED <<input, cfg, required, cur, output, answer>>
  <2>1. pc' = "verify" /\ ~decision'.compacted
    BY <1>0, <1>2 DEF Goto, Inv, TypeOK, IsDecision
  <2>2. input = At(required \cup Optional) /\ input \in Seq(Range(input))
    BY <1>0, WholeIsPart DEF Composing
  <2>3. FromInput'
    BY <1>2, <2>1, <2>2, PartFromInput
  <2>4. LayoutKnown' /\ FixedRequired' /\ SuffixRequired'
    BY <1>0, <1>2, PlanCarried DEF Composing
  <2>5. ResultFromInput'
    BY <1>2, <2>1, <2>2, <2>3 DEF ResultFromInput
  <2> QED
    BY <1>2, <2>1, <2>4, <2>5 DEF Plan, CandidateOK, OutputOK
<1>3. CASE /\ Reserved <= cfg.limit
           /\ Optional # {}
           /\ cur' = Ascending(Optional)
           /\ Goto(IF cfg.summarizer THEN "summarize" ELSE "evict")
           /\ UNCHANGED <<input, cfg, required, output, decision, out, answer>>
  <2>1. /\ pc' = IF cfg.summarizer THEN "summarize" ELSE "evict"
        /\ Optional' = Optional /\ Reserved' = Reserved /\ Positions' = Positions
    BY <1>3, Same, SameParts DEF Goto
  <2>2. LayoutKnown' /\ FixedRequired' /\ SuffixRequired'
    BY <1>0, <1>3, PlanCarried DEF Composing
  <2>3. cur' \in Seq(Positions) /\ InOrder(cur') /\ Range(cur') = Optional
    <3>1. Positions \cap Optional = Optional
      BY DEF Optional
    <3> QED
      BY <1>0, <1>3, <3>1, AscendingIs
  <2>4. cur' # << >>
    BY <1>3, <2>3 DEF Range
  <2>5. CandidateOK'
    BY <1>0, <1>3, <2>1, <2>3, <2>4 DEF CandidateOK
  <2> QED
    BY <1>0, <1>3, <2>1, <2>2, <2>5 DEF Plan, OutputOK, ResultFromInput
<1> QED
  BY <1>1, <1>2, <1>3 DEF Reserve

LEMMA SummarizeOptionalPlan ==
    ASSUME Inv, Plan, SummarizeOptional
    PROVE  Plan'
<1>0. pc = "summarize" /\ answer # "ok" /\ Optional # {} /\ cfg.summarizer
  BY DEF SummarizeOptional, Inv, TypeOK, Plan, CandidateOK
<1>1. PICK summary \in Summaries :
        \/ \E kind \in FailKinds : Fail(kind)
        \/ /\ output' = <<summary>>
           /\ decision' = [decision EXCEPT
                !.compacted = TRUE,
                !.summaryMax = Allowance,
                !.summaryGoal = SummaryGoal]
           /\ Goto("merge")
           /\ UNCHANGED <<input, cfg, required, cur, out, answer>>
  <2>1. {"budget exceeded", "invalid round", "invalid summary"} \subseteq FailKinds
    BY DEF FailKinds
  <2> QED
    BY <2>1 DEF SummarizeOptional
<1>2. CASE \E kind \in FailKinds : Fail(kind)
  BY <1>2, FailsPlan
<1>3. CASE /\ output' = <<summary>>
           /\ pc' = "merge"
           /\ UNCHANGED <<input, cfg, required, cur, out, answer>>
  <2>1. Optional' = Optional
    BY <1>3, SameParts
  <2>2. LayoutKnown' /\ FixedRequired' /\ SuffixRequired'
    BY <1>0, <1>3, PlanCarried DEF Composing
  <2>3. output' \in Seq(Range(output'))
    BY <1>3 DEF Range
  <2>4. decision'.compacted
    BY <1>1, <1>3 DEF Inv, TypeOK, IsDecision, Fail, Answer
  <2> QED
    BY <1>0, <1>3, <2>1, <2>2, <2>3, <2>4 DEF Plan, CandidateOK, OutputOK, ResultFromInput
<1> QED
  BY <1>1, <1>2, <1>3 DEF Goto

\* What a strategy answers is part of the optional messages, or the host's word.
LEMMA OutputPlan ==
    ASSUME Inv, Plan, pc \in {"evict", "drop head", "drop tail"}, NEW ms, ms \in Seq(Range(ms)),
           cfg.strategy # "host" => \E S \in SUBSET Optional : ms = At(S),
           output' = ms, pc' = "merge", UNCHANGED <<input, cfg, required, cur, decision, out, answer>>
    PROVE  Plan'
<1>1. ~decision.compacted /\ answer' # "ok" /\ ~cfg.summarizer
  BY NotYetCompacted DEF Inv, TypeOK, Plan, CandidateOK
<1>2. Optional' = Optional /\ \A S : At(S)' = At(S)
  BY Same, SameParts
<1>3. LayoutKnown' /\ FixedRequired' /\ SuffixRequired'
  BY PlanCarried DEF Composing
<1>4. cfg'.strategy # "host" => \E S \in SUBSET Optional' : output' = At(S)'
  BY <1>2
<1>5. OutputOK'
  BY <1>1, <1>2, <1>4 DEF OutputOK
<1> QED
  BY <1>1, <1>3, <1>5 DEF Plan, CandidateOK, ResultFromInput

LEMMA EvictedPlan ==
    ASSUME Inv, Plan, pc \in {"evict", "drop head", "drop tail"}, NEW ms, ms \in Seq(Range(ms)),
           cfg.strategy # "host" => \E S \in SUBSET Optional : ms = At(S),
           Evicted(ms)
    PROVE  Plan'
<1>1. CASE Fail("invalid round")
  BY <1>1, FailsPlan DEF FailKinds
<1>2. CASE /\ output' = ms
           /\ Goto("merge")
           /\ UNCHANGED <<input, cfg, required, cur, decision, out, answer>>
  BY <1>2, OutputPlan DEF Goto
<1> QED
  BY <1>1, <1>2 DEF Evicted

\* A part of the candidate is a part of the optional messages.
LEMMA CandidatePart ==
    ASSUME Inv, Plan, pc \in {"evict", "drop head", "drop tail"},
           NEW ps \in Seq(Positions), InOrder(ps), Range(ps) \subseteq Range(cur)
    PROVE  /\ Messages(ps) \in Seq(Range(Messages(ps)))
           /\ \E S \in SUBSET Optional : Messages(ps) = At(S)
<1>1. input \in Inputs /\ Range(cur) \subseteq Optional
  BY DEF Inv, TypeOK, Plan, CandidateOK
<1>2. Messages(ps) = At(Range(ps))
  BY <1>1, OrderedIsPart
<1>3. Range(ps) \in SUBSET Optional
  BY <1>1
<1> HIDE DEF Messages
<1> QED
  BY <1>1, <1>2, <1>3, PartIsSequence

LEMMA EmptyOutput ==
    ASSUME input \in Inputs
    PROVE  /\ << >> \in Seq(Range(<< >>))
           /\ \E S \in SUBSET Optional : << >> = At(S)
<1>1. {} \in SUBSET Optional
  OBVIOUS
<1> QED
  BY <1>1, EmptyPart

LEMMA TakePlan ==
    ASSUME Inv, Plan,
           OptionalFits \/ ApplyStrict \/ ApplyDrop \/ ApplyHeadSelective \/ ApplyTail
    PROVE  Plan'
<1>0. /\ pc = "evict" /\ answer # "ok" /\ ~decision.compacted /\ ~cfg.summarizer /\ input \in Inputs
      /\ cur \in Seq(Positions) /\ InOrder(cur) /\ Range(cur) \subseteq Optional
      /\ Reserved <= cfg.limit
  <2>1. pc = "evict"
    BY DEF OptionalFits, ApplyStrict, ApplyDrop, ApplyHeadSelective, ApplyTail, ApplyStrategy
  <2> QED
    BY <2>1, NotYetCompacted DEF Inv, TypeOK, Plan, CandidateOK
<1>1. CASE OptionalFits
  <2>1. /\ Messages(cur) \in Seq(Range(Messages(cur)))
        /\ \E S \in SUBSET Optional : Messages(cur) = At(S)
    BY <1>0, CandidatePart
  <2> HIDE DEF Messages
  <2> QED
    BY <1>0, <1>1, <2>1, OutputPlan DEF OptionalFits, Goto
<1>2. CASE ApplyStrict
  BY <1>2, FailsPlan DEF ApplyStrict, FailKinds
<1>3. CASE ApplyDrop
  BY <1>0, <1>3, EmptyOutput, EvictedPlan DEF ApplyDrop
<1>4. CASE ApplyHeadSelective \/ ApplyTail
  <2>1. /\ pc' \in {"drop head", "drop tail"} /\ cfg.strategy # "host"
        /\ UNCHANGED <<input, cfg, required, cur, output, decision, out, answer>>
    BY <1>4 DEF ApplyHeadSelective, ApplyTail, ApplyStrategy, Goto
  <2>2. Positions' = Positions /\ Optional' = Optional /\ Reserved' = Reserved
    BY <2>1, Same, SameParts
  <2>3. LayoutKnown' /\ FixedRequired' /\ SuffixRequired'
    BY <1>0, <2>1, PlanCarried DEF Composing
  <2>4. CandidateOK'
    BY <1>0, <2>1, <2>2 DEF CandidateOK
  <2> QED
    BY <1>0, <2>1, <2>3, <2>4 DEF Plan, OutputOK, ResultFromInput
<1> QED
  BY <1>1, <1>2, <1>3, <1>4

LEMMA EmptyWeight == Weight(<< >>) = 0
<1>1. PICK f : SumsUpTo(f, 0, << >>)
  BY SumsExists
<1>2. Len(<< >>) = 0
  OBVIOUS
<1>3. f = [k \in 0..0 |-> IF k = 0 THEN 0 ELSE f[k - 1] + << >>[k].tokens]
  BY <1>1 DEF SumsUpTo
<1>4. f = [k \in 0..Len(<< >>) |-> IF k = 0 THEN 0 ELSE f[k - 1] + << >>[k].tokens]
  BY <1>2, <1>3
<1> DEFINE g == CHOOSE g : g = [k \in 0..Len(<< >>) |-> IF k = 0 THEN 0 ELSE g[k - 1] + << >>[k].tokens]
<1>5. g = [k \in 0..Len(<< >>) |-> IF k = 0 THEN 0 ELSE g[k - 1] + << >>[k].tokens]
  BY <1>4
<1>6. Weight(<< >>) = g[Len(<< >>)]
  BY DEF Weight
<1> QED
  BY <1>2, <1>5, <1>6

LEMMA SelfSequence ==
    ASSUME NEW R, NEW s \in Seq(R)
    PROVE  IsSequence(s) /\ Len(s) \in Nat
<1>1. s \in Seq(Range(s))
  BY DEF Range
<1> QED
  BY <1>1 DEF IsSequence

LEMMA CandidateIs ==
    ASSUME Inv, Plan, pc \in {"evict", "drop head", "drop tail"}
    PROVE  /\ input \in Inputs /\ answer # "ok" /\ ~decision.compacted /\ ~cfg.summarizer
           /\ cur \in Seq(Positions) /\ InOrder(cur) /\ Range(cur) \subseteq Optional
           /\ Len(cur) \in Nat /\ Positions \subseteq Nat /\ Reserved <= cfg.limit
           /\ Len(Messages(cur)) = Len(cur) /\ IsSequence(Messages(cur))
           /\ pc # "evict" => cfg.strategy # "host"
           /\ pc = "evict" => cur # << >>
<1>1. /\ input \in Inputs /\ answer # "ok" /\ ~decision.compacted /\ ~cfg.summarizer
      /\ cur \in Seq(Positions) /\ InOrder(cur) /\ Range(cur) \subseteq Optional
      /\ Reserved <= cfg.limit
      /\ pc # "evict" => cfg.strategy # "host"
      /\ pc = "evict" => cur # << >>
  BY NotYetCompacted DEF Inv, TypeOK, Plan, CandidateOK
<1>2. Messages(cur) \in Seq(Range(input)) /\ Len(Messages(cur)) = Len(cur)
  BY <1>1, MessagesAre
<1>3. IsSequence(Messages(cur)) /\ Len(cur) \in Nat
  BY <1>1, <1>2, SelfSequence
<1>4. Positions \subseteq Nat
  BY <1>1, PositionsAre
<1> QED
  BY <1>1, <1>2, <1>3, <1>4

LEMMA CandidateSub ==
    ASSUME Inv, Plan, pc \in {"evict", "drop head", "drop tail"},
           NEW a \in Nat \ {0}, NEW b \in Nat, b <= Len(cur), a <= b + 1
    PROVE  LET ps == SubSeq(cur, a, b)
           IN  ps \in Seq(Positions) /\ InOrder(ps) /\ Range(ps) \subseteq Range(cur)
<1>1. cur \in Seq(Positions) /\ cur \in Seq(Nat) /\ InOrder(cur)
  BY CandidateIs, PositionsAre
<1> QED
  BY <1>1, SubSeqIs, OrderedSubSeq

LEMMA EnforcedPart ==
    ASSUME Inv, Plan, pc \in {"evict", "drop head", "drop tail"},
           NEW ps \in Seq(Positions), InOrder(ps), Range(ps) \subseteq Range(cur),
           Evicted(EnforceMinMessages(Messages(ps)))
    PROVE  Plan'
<1> HIDE DEF Messages
<1>1. /\ Messages(ps) \in Seq(Range(Messages(ps)))
      /\ \E S \in SUBSET Optional : Messages(ps) = At(S)
  BY CandidatePart
<1>2. input \in Inputs
  BY CandidateIs
<1>3. EnforceMinMessages(Messages(ps)) \in {Messages(ps), << >>}
  BY DEF EnforceMinMessages
<1>4. /\ << >> \in Seq(Range(<< >>))
      /\ \E S \in SUBSET Optional : << >> = At(S)
  BY <1>2, EmptyOutput
<1>5. PICK ms \in {Messages(ps), << >>} : Evicted(ms)
  BY <1>3
<1>6. ms \in Seq(Range(ms)) /\ \E S \in SUBSET Optional : ms = At(S)
  BY <1>1, <1>4
<1> QED
  BY <1>5, <1>6, EvictedPlan

LEMMA ApplyHostPlan ==
    ASSUME Inv, Plan, ApplyHost
    PROVE  Plan'
<1>0. pc = "evict" /\ cfg.strategy = "host"
  BY DEF ApplyHost, ApplyStrategy
<1>1. /\ input \in Inputs /\ cur \in Seq(Positions) /\ InOrder(cur) /\ cur # << >>
  BY <1>0, CandidateIs
<1>2. PICK o \in HostOutputs(Messages(cur)) : Evicted(o)
  BY DEF ApplyHost
<1>3. cur = Ascending(Range(cur)) /\ Range(cur) \subseteq Positions
  BY <1>1, OrderedAscending
<1>4. PICK S \in SUBSET DOMAIN input : S = Range(cur) /\ S # {}
  <2>1. Range(cur) # {}
    <3>1. 1 \in DOMAIN cur
      BY <1>1
    <3> QED
      BY <3>1 DEF Range
  <2> QED
    BY <1>3, <2>1 DEF Positions
<1> DEFINE ps == Kept([i \in DOMAIN input |-> i], S)
           ms == [k \in DOMAIN ps |-> input[ps[k]]]
<1>5. cur = ps
  BY <1>3, <1>4 DEF Ascending, Positions
<1>6. Messages(cur) = ms
  BY <1>5 DEF Messages
<1>7. \A x \in HostOutputs(ms) : x \in Seq(Range(x))
  BY <1>1, <1>4, HostOutputsAssumption
<1>8. o \in Seq(Range(o))
  <2> HIDE DEF Messages, ms
  <2> QED
    BY <1>2, <1>6, <1>7
<1> QED
  BY <1>0, <1>2, <1>8, EvictedPlan

LEMMA ApplyHeadFastPlan ==
    ASSUME Inv, Plan, ApplyHeadFast
    PROVE  Plan'
<1> DEFINE n == Len(cur)
           fitting == {k \in 1..n + 1 : Weight(SubSeq(Messages(cur), k, n)) <= Allowance}
<1>0. pc = "evict" /\ cfg.strategy = "head"
  BY DEF ApplyHeadFast, ApplyStrategy
<1>1. /\ input \in Inputs /\ n \in Nat /\ Len(Messages(cur)) = n /\ IsSequence(Messages(cur))
      /\ Reserved <= cfg.limit /\ cur \in Seq(Positions)
  BY <1>0, CandidateIs
<1>2. Evicted(EnforceMinMessages(SubSeq(Messages(cur), Min(fitting), n)))
  <2> HIDE DEF Messages
  <2> QED
    BY <1>1 DEF ApplyHeadFast
<1>3. Min(fitting) \in 1..n + 1
  <2>1. SubSeq(Messages(cur), n + 1, n) = << >>
    <3> HIDE DEF Messages
    <3> QED
      BY <1>1, SubSeqIs DEF IsSequence
  <2>2. Allowance \in Nat
    <3>1. Reserved \in Nat /\ cfg.limit \in Nat
      BY <1>1, PartsCounted, PercentsOfLimit DEF Reserved, Inv, TypeOK
    <3> QED
      BY <1>1, <3>1 DEF Allowance
  <2>3. n + 1 \in fitting
    <3>1. Weight(SubSeq(Messages(cur), n + 1, n)) = 0
      BY <2>1, EmptyWeight
    <3>2. n + 1 \in 1..n + 1 /\ 0 <= Allowance
      BY <1>1, <2>2
    <3> HIDE DEF Messages
    <3> QED
      BY <3>1, <3>2
  <2>4. fitting \subseteq Nat /\ fitting # {} /\ fitting \subseteq 1..n + 1
    BY <1>1, <2>3
  <2> HIDE DEF fitting
  <2> QED
    BY <2>4, MinOf
<1> HIDE DEF fitting
<1>4. SubSeq(Messages(cur), Min(fitting), n) = Messages(SubSeq(cur, Min(fitting), n))
  BY <1>1, <1>3, MessagesSubSeq
<1>5. LET ps == SubSeq(cur, Min(fitting), n)
      IN  ps \in Seq(Positions) /\ InOrder(ps) /\ Range(ps) \subseteq Range(cur)
  <2>1. Min(fitting) \in Nat \ {0} /\ Min(fitting) <= n + 1
    BY <1>1, <1>3
  <2> QED
    BY <1>0, <1>1, <2>1, CandidateSub
<1> QED
  BY <1>0, <1>2, <1>4, <1>5, EnforcedPart

\* A candidate from which messages were dropped.
LEMMA DroppedPlan ==
    ASSUME Inv, Plan, pc \in {"drop head", "drop tail"},
           NEW a \in Nat \ {0}, NEW b \in Nat, b <= Len(cur), a <= b + 1,
           cur' = SubSeq(cur, a, b),
           UNCHANGED <<input, cfg, pc, required, output, decision, out, answer>>
    PROVE  Plan'
<1>1. /\ ~decision.compacted /\ answer # "ok" /\ ~cfg.summarizer /\ Reserved <= cfg.limit
      /\ cfg.strategy # "host" /\ Range(cur) \subseteq Optional
  BY CandidateIs
<1>2. LayoutKnown' /\ FixedRequired' /\ SuffixRequired'
  BY PlanCarried DEF Composing
<1>3. Positions' = Positions /\ Optional' = Optional /\ Reserved' = Reserved
  BY Same, SameParts
<1>4. cur' \in Seq(Positions) /\ InOrder(cur') /\ Range(cur') \subseteq Optional
  BY <1>1, CandidateSub
<1>5. CandidateOK'
  BY <1>1, <1>3, <1>4 DEF CandidateOK
<1> QED
  BY <1>1, <1>2, <1>5 DEF Plan, OutputOK, ResultFromInput

LEMMA DropHeadPlan ==
    ASSUME Inv, Plan, DropHeadUnit \/ DropHeadDone
    PROVE  Plan'
<1>0. pc = "drop head"
  BY DEF DropHeadUnit, DropHeadDone
<1>1. /\ cur \in Seq(Positions) /\ InOrder(cur) /\ Len(cur) \in Nat
      /\ Len(Messages(cur)) = Len(cur) /\ IsSequence(Messages(cur))
  BY <1>0, CandidateIs
<1>2. CASE DropHeadUnit
  <2> DEFINE ms == Messages(cur)
             end == IF cfg.atomic /\ ms[1].role = "assistant" /\ HasToolCalls(ms[1])
                    THEN ToolRoundEndIndex(ms, 1)
                    ELSE 1
  <2>1. /\ cur # << >> /\ cur' = SubSeq(cur, end + 1, Len(cur))
        /\ UNCHANGED <<input, cfg, pc, required, output, decision, out, answer>>
    BY <1>2 DEF DropHeadUnit
  <2>2. Len(cur) >= 1
    BY <1>1, <2>1
  <2>3. end \in 1..Len(cur)
    <3>1. 1 \in DOMAIN ms
      BY <1>1, <2>2, SequenceDomain
    <3>2. ToolRoundEndIndex(ms, 1) \in 1..Len(cur)
      <4> HIDE DEF ms
      <4> QED
        BY <1>1, <3>1, RoundEnd DEF ms
    <3> QED
      BY <1>1, <2>2, <3>2
  <2> HIDE DEF end
  <2>4. PICK a \in Nat \ {0} : a = end + 1 /\ a <= Len(cur) + 1
    BY <1>1, <2>3
  <2>5. cur' = SubSeq(cur, a, Len(cur)) /\ Len(cur) <= Len(cur)
    BY <1>1, <2>1, <2>4
  <2> QED
    BY <1>0, <1>1, <2>1, <2>4, <2>5, DroppedPlan
<1>3. CASE DropHeadDone
  <2>1. Evicted(EnforceMinMessages(Messages(cur)))
    BY <1>3 DEF DropHeadDone
  <2> QED
    BY <1>0, <1>1, <2>1, EnforcedPart
<1> QED
  BY <1>2, <1>3

LEMMA DropTailUnitPlan ==
    ASSUME Inv, Plan, DropTailUnit
    PROVE  Plan'
<1> DEFINE ms == Messages(cur)
           last == Len(cur)
           end == IF ms[last].role # "tool" THEN last - 1
                  ELSE ToolRoundStartForTail(ms) - 1
           next == SubSeq(cur, 1, end)
<1>0. pc = "drop tail"
  BY DEF DropTailUnit
<1>1. /\ cur \in Seq(Positions) /\ InOrder(cur) /\ Len(cur) \in Nat
      /\ Len(ms) = Len(cur) /\ IsSequence(ms)
  BY <1>0, CandidateIs
<1>2. CASE Fail("block too large")
  BY <1>2, FailsPlan DEF FailKinds
<1>3. last > 1 => end \in 0..last - 1
  <2> HIDE DEF ms
  <2> QED
    BY <1>1, TailStart
<1>4. CASE last > 1 /\ Evicted(Messages(next))
  <2>1. next \in Seq(Positions) /\ InOrder(next) /\ Range(next) \subseteq Range(cur)
    <3> HIDE DEF end
    <3>1. end \in Nat /\ end <= Len(cur) /\ 1 <= end + 1 /\ 1 \in Nat \ {0}
      BY <1>1, <1>3, <1>4
    <3> QED
      BY <1>0, <3>1, CandidateSub
  <2> HIDE DEF next
  <2>2. /\ Messages(next) \in Seq(Range(Messages(next)))
        /\ \E S \in SUBSET Optional : Messages(next) = At(S)
    BY <1>0, <2>1, CandidatePart
  <2> HIDE DEF Messages
  <2> QED
    BY <1>0, <1>4, <2>2, EvictedPlan
<1>5. CASE /\ last > 1
           /\ cur' = next
           /\ UNCHANGED <<input, cfg, pc, required, output, decision, out, answer>>
  <2> HIDE DEF end
  <2>1. end \in Nat /\ end <= Len(cur) /\ 1 <= end + 1 /\ 1 \in Nat \ {0}
    BY <1>1, <1>3, <1>5
  <2> QED
    BY <1>0, <1>5, <2>1, DroppedPlan
<1> QED
  BY <1>2, <1>4, <1>5 DEF DropTailUnit

\* A sequence with one element between two parts.
LEMMA SequencesEqual ==
    ASSUME NEW R, NEW s \in Seq(R), NEW t \in Seq(R), Len(s) = Len(t), \A j \in 1..Len(s) : s[j] = t[j]
    PROVE  s = t
OBVIOUS

LEMMA Concatenated ==
    ASSUME NEW R, NEW x \in Seq(R), NEW y \in Seq(R)
    PROVE  /\ x \o y \in Seq(R) /\ Len(x \o y) = Len(x) + Len(y)
           /\ \A j \in 1..Len(x) : (x \o y)[j] = x[j]
           /\ \A j \in 1..Len(y) : (x \o y)[Len(x) + j] = y[j]
OBVIOUS

LEMMA Joined ==
    ASSUME NEW R, NEW x \in Seq(R), NEW y \in Seq(R), NEW m \in R
    PROVE  LET s == x \o <<m>> \o y
               k == Len(x) + 1
           IN  /\ s \in Seq(R) /\ k \in DOMAIN s /\ s[k] = m
               /\ SubSeq(s, 1, k - 1) = x
               /\ SubSeq(s, k + 1, Len(s)) = y
<1> DEFINE z == x \o <<m>>
           s == z \o y
           n == Len(x)
           h == Len(y)
<1>1. n \in Nat /\ h \in Nat
  OBVIOUS
<1>2. z \in Seq(R) /\ Len(z) = n + 1 /\ z[n + 1] = m /\ \A j \in 1..n : z[j] = x[j]
  <2>1. <<m>> \in Seq(R) /\ Len(<<m>>) = 1 /\ <<m>>[1] = m
    OBVIOUS
  <2>2. /\ z \in Seq(R) /\ Len(z) = n + 1
        /\ \A j \in 1..n : z[j] = x[j]
        /\ \A j \in 1..1 : z[n + j] = <<m>>[j]
    BY <2>1, Concatenated
  <2> QED
    BY <2>1, <2>2
<1> HIDE DEF z
<1>3. /\ s \in Seq(R) /\ Len(s) = (n + 1) + h
      /\ \A j \in 1..n + 1 : s[j] = z[j]
      /\ \A j \in 1..h : s[(n + 1) + j] = y[j]
  <2>1. /\ z \o y \in Seq(R) /\ Len(z \o y) = Len(z) + Len(y)
        /\ \A j \in 1..Len(z) : (z \o y)[j] = z[j]
        /\ \A j \in 1..Len(y) : (z \o y)[Len(z) + j] = y[j]
    <3>1. z \in Seq(R)
      BY <1>2
    <3> HIDE DEF s, n, h
    <3> QED
      BY <3>1, Concatenated
  <2> HIDE DEF s
  <2>2. s = z \o y /\ Len(z) = n + 1
    BY <1>2 DEF s
  <2> QED
    BY <2>1, <2>2
<1> HIDE DEF s
<1> USE DEF n, h
<1>4. n + 1 \in DOMAIN s /\ s[n + 1] = m
  BY <1>1, <1>2, <1>3
<1>5. SubSeq(s, 1, n) = x
  <2>1. /\ SubSeq(s, 1, n) \in Seq(R) /\ Len(SubSeq(s, 1, n)) = n - 1 + 1
        /\ \A j \in 1..n - 1 + 1 : SubSeq(s, 1, n)[j] = s[1 + j - 1]
    <3>1. 1 \in Nat \ {0} /\ n <= Len(s) /\ 1 <= n + 1
      BY <1>1, <1>3
    <3> QED
      BY <1>1, <1>3, <3>1, SubSeqIs
  <2>2. Len(SubSeq(s, 1, n)) = n /\ \A j \in 1..n : SubSeq(s, 1, n)[j] = x[j]
    BY <1>1, <1>2, <1>3, <2>1
  <2> QED
    BY <2>1, <2>2, SequencesEqual
<1>6. SubSeq(s, n + 2, Len(s)) = y
  <2> DEFINE t == SubSeq(s, n + 2, Len(s))
  <2>1. /\ t \in Seq(R) /\ Len(t) = Len(s) - (n + 2) + 1
        /\ \A j \in 1..Len(s) - (n + 2) + 1 : t[j] = s[(n + 2) + j - 1]
    <3>1. n + 2 \in Nat \ {0} /\ Len(s) \in Nat /\ Len(s) <= Len(s) /\ n + 2 <= Len(s) + 1
      BY <1>1, <1>3
    <3> QED
      BY <1>3, <3>1, SubSeqIs
  <2> HIDE DEF t
  <2>2. Len(t) = h /\ \A j \in 1..h : t[j] = s[(n + 1) + j]
    <3>1. Len(s) - (n + 2) + 1 = h /\ \A j \in 1..h : (n + 2) + j - 1 = (n + 1) + j
      BY <1>1, <1>3
    <3> QED
      BY <2>1, <3>1
  <2>3. \A j \in 1..h : t[j] = y[j]
    BY <1>3, <2>2
  <2> QED
    BY <2>1, <2>2, <2>3, SequencesEqual DEF t
<1>7. s = x \o <<m>> \o y /\ (n + 1) - 1 = n /\ (n + 1) + 1 = n + 2
  BY <1>1 DEF s, z
<1> QED
  BY <1>3, <1>4, <1>5, <1>6, <1>7

\* A result in which one message stands for all optional ones.
LEMMA SummaryFromInput ==
    ASSUME input \in Inputs, UNCHANGED <<input, cfg, required>>, decision'.compacted,
           NEW m \in Summaries,
           out' = At({i \in required : i < Min(Optional)}) \o <<m>>
                    \o At({i \in required : i > Min(Optional)})
    PROVE  FromInput' /\ out' \in Seq(Range(out'))
<1> DEFINE R == Range(input) \cup {m}
           x == At({i \in required : i < Min(Optional)})
           y == At({i \in required : i > Min(Optional)})
<1>1. x \in Seq(Range(input)) /\ y \in Seq(Range(input))
  BY PartIsSequence
<1>2. out' = x \o <<m>> \o y
  OBVIOUS
<1>3. At({i \in required : i < Min(Optional)})' = x /\ At({i \in required : i > Min(Optional)})' = y
  BY DEF At, Messages, Ascending, Positions, Optional
<1> HIDE DEF x, y
<1>4. x \in Seq(R) /\ y \in Seq(R) /\ m \in R
  BY <1>1
<1> HIDE DEF R
<1>5. PICK k \in DOMAIN out' :
        /\ out' \in Seq(R)
        /\ out'[k] = m
        /\ SubSeq(out', 1, k - 1) = x
        /\ SubSeq(out', k + 1, Len(out')) = y
  <2>1. LET s == x \o <<m>> \o y
            k == Len(x) + 1
        IN  /\ s \in Seq(R) /\ k \in DOMAIN s /\ s[k] = m
            /\ SubSeq(s, 1, k - 1) = x
            /\ SubSeq(s, k + 1, Len(s)) = y
    BY <1>4, Joined
  <2> QED
    BY <1>2, <2>1, Zenon
<1>6. out' \in Seq(Range(out'))
  BY <1>5, SelfSequence DEF IsSequence
<1> QED
  BY <1>3, <1>5, <1>6 DEF FromInput

LEMMA MergeRequiredPlan ==
    ASSUME Inv, Plan, MergeRequired
    PROVE  Plan'
<1>1. /\ pc = "merge" /\ UNCHANGED <<input, cfg, required, cur, output, decision>>
      /\ input \in Inputs /\ answer # "ok"
  BY DEF MergeRequired, Inv, TypeOK
<1>2. CASE \E kind \in {"duplicate id", "invalid retention"} : Answer(kind)
  BY <1>2, FailPlan DEF Answer
<1>3. ASSUME pc' = "admit", answer' = answer,
             \/ required = {} /\ out' = output
             \/ required # {} /\ out' = Merged
      PROVE  Plan'
  <2>1. LayoutKnown' /\ FixedRequired' /\ SuffixRequired'
    BY <1>1, <1>3, PlanCarried DEF Composing
  <2>2. Optional' = Optional
    BY <1>1, SameParts
  <2>3. /\ decision.compacted => cfg.summarizer /\ Optional # {} /\ \E m \in Summaries : output = <<m>>
        /\ ~decision.compacted => ~cfg.summarizer
        /\ ~decision.compacted /\ cfg.strategy # "host" => \E S \in SUBSET Optional : output = At(S)
        /\ output \in Seq(Range(output))
    BY <1>1 DEF Plan, OutputOK
  <2>4. CASE decision.compacted
    <3>1. PICK m \in Summaries : output = <<m>>
      BY <2>3, <2>4
    <3>2. out' = At({i \in required : i < Min(Optional)}) \o <<m>>
                    \o At({i \in required : i > Min(Optional)})
      <4>1. CASE required = {}
        <5>1. {i \in required : i < Min(Optional)} = {} /\ {i \in required : i > Min(Optional)} = {}
          BY <4>1
        <5>2. At({}) = << >> /\ << >> \o <<m>> \o << >> = <<m>>
          BY <1>1, EmptyPart
        <5> HIDE DEF At
        <5> QED
          BY <1>3, <3>1, <4>1, <5>1, <5>2
      <4>2. CASE required # {}
        BY <1>3, <2>4, <3>1, <4>2 DEF Merged, MergedSummary
      <4> QED
        BY <4>1, <4>2
    <3>3. FromInput' /\ out' \in Seq(Range(out'))
      BY <1>1, <2>4, <3>2, SummaryFromInput
    <3>4. ResultFromInput'
      BY <1>1, <2>2, <2>3, <3>3 DEF ResultFromInput
    <3> QED
      BY <1>1, <1>3, <2>1, <2>2, <2>3, <2>4, <3>4 DEF Plan, OutputOK, CandidateOK
  <2>5. CASE ~decision.compacted
    <3>1. CASE required = {} /\ cfg.strategy = "host"
      <4>1. ResultFromInput'
        BY <1>1, <1>3, <2>2, <2>3, <2>5, <3>1 DEF ResultFromInput
      <4> QED
        BY <1>1, <1>3, <2>1, <2>5, <4>1 DEF Plan, OutputOK, CandidateOK
    <3>2. CASE \E S \in SUBSET Optional : out' = At(required \cup S)
      <4>1. FromInput'
        BY <1>1, <2>5, <3>2, PartFromInput
      <4>2. out' \in Seq(Range(out'))
        BY <1>1, <3>2, PartIsSequence
      <4>3. ResultFromInput'
        BY <1>1, <2>5, <4>1, <4>2 DEF ResultFromInput
      <4> QED
        BY <1>1, <1>3, <2>1, <2>5, <4>3 DEF Plan, OutputOK, CandidateOK
    <3>3. CASE required = {} /\ cfg.strategy # "host"
      <4>1. PICK S \in SUBSET Optional : output = At(S)
        BY <2>3, <2>5, <3>3
      <4>2. required \cup S = S /\ out' = At(S)
        BY <1>3, <3>3, <4>1
      <4> QED
        BY <3>2, <4>2
    <3>4. CASE required # {}
      <4>1. {i \in Optional : Taken(i)} \in SUBSET Optional
        OBVIOUS
      <4>2. out' = At(required \cup {i \in Optional : Taken(i)})
        BY <1>3, <2>5, <3>4 DEF Merged
      <4> QED
        BY <3>2, <4>1, <4>2
    <3> QED
      BY <3>1, <3>2, <3>3, <3>4
  <2> QED
    BY <2>4, <2>5
<1>4. \/ \E kind \in {"duplicate id", "invalid retention"} : Answer(kind)
      \/ /\ pc' = "admit" /\ answer' = answer
         /\ \/ required = {} /\ out' = output
            \/ required # {} /\ out' = Merged
  BY DEF MergeRequired, Goto
<1> QED
  BY <1>2, <1>3, <1>4

LEMMA AdmitPlan ==
    ASSUME Inv, Plan, Admit
    PROVE  Plan'
<1>1. CASE \E kind \in FailKinds : Fail(kind)
  BY <1>1, FailsPlan
<1>2. CASE /\ decision' = [decision EXCEPT !.after = Estimate(out)]
           /\ Goto("verify")
           /\ UNCHANGED <<input, cfg, required, cur, output, out, answer>>
  <2>1. pc = "admit" /\ pc' = "verify" /\ decision'.compacted = decision.compacted /\ answer # "ok"
    BY <1>2 DEF Admit, Goto, Inv, TypeOK, IsDecision
  <2>2. LayoutKnown' /\ FixedRequired' /\ SuffixRequired'
    BY <1>2, <2>1, PlanCarried DEF Composing
  <2>3. Optional' = Optional /\ \A S : At(S)' = At(S)
    BY <1>2, Same, SameParts
  <2>4. /\ required # {} \/ cfg.strategy # "host" \/ cfg.summarizer => FromInput
        /\ decision.compacted => cfg.summarizer /\ Optional # {}
        /\ out \in Seq(Range(out))
    BY <2>1 DEF Plan, ResultFromInput
  <2>5. FromInput => FromInput'
    <3>1. /\ At({i \in required : i < Min(Optional)})' = At({i \in required : i < Min(Optional)})
          /\ At({i \in required : i > Min(Optional)})' = At({i \in required : i > Min(Optional)})
          /\ \A S : At(required \cup S)' = At(required \cup S)
      BY <1>2 DEF At, Messages, Ascending, Positions, Optional
    <3> QED
      BY <1>2, <2>1, <2>3, <3>1 DEF FromInput
  <2>6. ResultFromInput'
    BY <1>2, <2>3, <2>1, <2>4, <2>5 DEF ResultFromInput
  <2> QED
    BY <1>2, <2>1, <2>2, <2>3, <2>4, <2>6 DEF Plan, OutputOK, CandidateOK
<1>3. {"invalid round", "budget exceeded"} \subseteq FailKinds
  BY DEF FailKinds
<1> QED
  BY <1>1, <1>2, <1>3 DEF Admit

\* What Plan says of a result only depends on what is listed here.
LEMMA KeptPlan ==
    ASSUME Plan, UNCHANGED <<input, cfg, required, cur, output, decision, out>>,
           \/ UNCHANGED <<pc, answer>>
           \/ pc = "verify" /\ pc' = "done"
    PROVE  Plan'
<1>1. Positions' = Positions /\ Masked(input)' = Masked(input) /\ History' = History
      /\ \A S : At(S)' = At(S)
  BY Same
<1>2. Optional' = Optional /\ Reserved' = Reserved
  BY SameParts
<1>3. LayoutKnown' /\ FixedRequired' /\ SuffixRequired'
  BY <1>1 DEF Plan, LayoutKnown, FixedRequired, SuffixRequired, Composing
<1>4. FromInput => FromInput'
  <2>1. /\ At({i \in required : i < Min(Optional)})' = At({i \in required : i < Min(Optional)})
        /\ At({i \in required : i > Min(Optional)})' = At({i \in required : i > Min(Optional)})
        /\ \A S : At(required \cup S)' = At(required \cup S)
    BY DEF At, Messages, Ascending, Positions, Optional
  <2> QED
    BY <1>2, <2>1 DEF FromInput
<1>5. CandidateOK'
  BY <1>1, <1>2 DEF Plan, CandidateOK
<1>6. OutputOK'
  BY <1>1, <1>2 DEF Plan, OutputOK
<1>7. ResultFromInput'
  BY <1>1, <1>2, <1>4 DEF Plan, ResultFromInput
<1> QED
  BY <1>3, <1>5, <1>6, <1>7 DEF Plan

LEMMA VerifyPlan ==
    ASSUME Inv, Plan, Verify
    PROVE  Plan'
BY KeptPlan DEF Verify, Answer

LEMMA NextPlan ==
    ASSUME Inv, Plan, [Next]_vars
    PROVE  Plan'
<1>1. CASE InspectBudgetRounds \/ SelectRequired \/ MeasureInput \/ ProtectSuffix \/ Fits \/ Reserve
  BY <1>1, InspectPlan, SelectPlan, MeasurePlan, ProtectPlan, FitsPlan, ReservePlan
<1>2. CASE StartCompleteEviction \/ EvictCompleteCandidate \/ SummarizeOptional
  BY <1>2, StartCompleteEvictionPlan, EvictCompleteCandidatePlan, SummarizeOptionalPlan
<1>3. CASE OptionalFits \/ ApplyStrict \/ ApplyDrop \/ ApplyHeadSelective \/ ApplyTail
  BY <1>3, TakePlan
<1>4. CASE ApplyHost \/ ApplyHeadFast \/ DropHeadUnit \/ DropHeadDone \/ DropTailUnit
  BY <1>4, ApplyHostPlan, ApplyHeadFastPlan, DropHeadPlan, DropTailUnitPlan
<1>5. CASE MergeRequired \/ Admit \/ Verify
  BY <1>5, MergeRequiredPlan, AdmitPlan, VerifyPlan
<1>6. CASE Interrupted
  BY <1>6, FailsPlan DEF Interrupted, FailKinds
<1>7. CASE UNCHANGED vars
  BY <1>7, KeptPlan DEF vars
<1> QED
  BY <1>1, <1>2, <1>3, <1>4, <1>5, <1>6, <1>7 DEF Next

LEMMA Split ==
    ASSUME NEW R, NEW s \in Seq(R), NEW k \in 1..Len(s)
    PROVE  /\ SubSeq(s, 1, k) \in Seq(R)
           /\ s = SubSeq(s, 1, k) \o SubSeq(s, k + 1, Len(s))
<1> DEFINE n == Len(s)
           x == SubSeq(s, 1, k)
           y == SubSeq(s, k + 1, n)
<1>1. n \in Nat /\ k \in Nat /\ 1 <= k /\ k <= n
  OBVIOUS
<1>2. x \in Seq(R) /\ Len(x) = k /\ \A j \in 1..k : x[j] = s[j]
  <2>1. /\ x \in Seq(R) /\ Len(x) = k - 1 + 1
        /\ \A j \in 1..k - 1 + 1 : x[j] = s[1 + j - 1]
    <3>1. 1 \in Nat \ {0} /\ 1 <= k + 1
      BY <1>1
    <3> QED
      BY <1>1, <3>1, SubSeqIs
  <2>2. k - 1 + 1 = k /\ \A j \in 1..k : 1 + j - 1 = j
    BY <1>1
  <2> HIDE DEF x
  <2> QED
    BY <2>1, <2>2
<1>3. y \in Seq(R) /\ Len(y) = n - k /\ \A j \in 1..n - k : y[j] = s[k + j]
  <2>1. /\ y \in Seq(R) /\ Len(y) = n - (k + 1) + 1
        /\ \A j \in 1..n - (k + 1) + 1 : y[j] = s[(k + 1) + j - 1]
    <3>1. k + 1 \in Nat \ {0} /\ n <= Len(s) /\ k + 1 <= n + 1
      BY <1>1
    <3> QED
      BY <1>1, <3>1, SubSeqIs
  <2>2. n - (k + 1) + 1 = n - k /\ \A j \in 1..n - k : (k + 1) + j - 1 = k + j
    BY <1>1
  <2> HIDE DEF y
  <2> QED
    BY <2>1, <2>2
<1> HIDE DEF x, y
<1>4. /\ x \o y \in Seq(R) /\ Len(x \o y) = Len(x) + Len(y)
      /\ \A j \in 1..Len(x) : (x \o y)[j] = x[j]
      /\ \A j \in 1..Len(y) : (x \o y)[Len(x) + j] = y[j]
  <2>1. x \in Seq(R) /\ y \in Seq(R)
    BY <1>2, <1>3
  <2> QED
    BY <2>1, Concatenated
<1>5. Len(x \o y) = n /\ \A j \in 1..n : (x \o y)[j] = s[j]
  <2>1. ASSUME NEW j \in 1..n, j > k
        PROVE  (x \o y)[j] = s[j]
    <3>1. PICK i \in 1..n - k : j = k + i
      <4>1. j - k \in 1..n - k /\ j = k + (j - k)
        BY <1>1, <2>1
      <4> QED
        BY <4>1
    <3>2. (x \o y)[k + i] = y[i] /\ y[i] = s[k + i]
      BY <1>2, <1>3, <1>4
    <3> QED
      BY <3>1, <3>2
  <2>2. ASSUME NEW j \in 1..n, j <= k
        PROVE  (x \o y)[j] = s[j]
    BY <1>1, <1>2, <1>4, <2>2
  <2> QED
    BY <1>1, <1>2, <1>3, <1>4, <2>1, <2>2
<1>6. s = x \o y
  BY <1>4, <1>5, SequencesEqual
<1> QED
  BY <1>2, <1>6 DEF x, y

\* A result ends in the required messages that nothing optional stands behind.
LEMMA ResultEnd ==
    ASSUME Inv, Plan, answer = "ok", FromInput
    PROVE  \E R, T : \E x \in Seq(R) :
             /\ Range(input) \subseteq R
             /\ out = x \o At(T)
             /\ \A p \in 1..Len(input) + 1 :
                  p..Len(input) \subseteq required => p..Len(input) \subseteq T
             /\ \A k \in 1..Len(History) + 1 :
                  (\A j \in k..Len(History) : History[j] \in required)
                    => \A j \in k..Len(History) : History[j] \in T
<1>1. /\ input \in Inputs /\ Len(input) \in Nat /\ Positions = 1..Len(input)
      /\ out \in Seq(Range(out))
      /\ decision.compacted => Optional # {}
      /\ required \subseteq Positions
      /\ \A i \in Positions : input[i].id \in cfg.fixed => i \in required
  BY PositionsAre DEF Inv, TypeOK, Plan, ResultFromInput, FixedRequired
<1>2. CASE ~decision.compacted
  <2>1. PICK S \in SUBSET Optional : out = At(required \cup S)
    BY <1>2 DEF FromInput
  <2>2. At(required \cup S) \in Seq(Range(input))
    BY <1>1, PartIsSequence
  <2> HIDE DEF At
  <2>3. << >> \in Seq(Range(input)) /\ out = << >> \o At(required \cup S)
    BY <2>1, <2>2
  <2> QED
    BY <2>3
<1>3. CASE decision.compacted
  <2> DEFINE f == Min(Optional)
             T == {i \in required : i > f}
             R == Range(out) \cup Range(input)
  <2>1. PICK k \in DOMAIN out : SubSeq(out, k + 1, Len(out)) = At(T)
    BY <1>3 DEF FromInput
  <2>2. f \in Positions /\ f \notin required /\ f \in Nat
    <3>1. Optional \subseteq Nat /\ Optional # {}
      BY <1>1, <1>3 DEF Optional
    <3>2. f \in Optional
      BY <3>1, MinOf
    <3> QED
      BY <1>1, <3>2 DEF Optional
  <2> HIDE DEF f
  <2>3. SubSeq(out, 1, k) \in Seq(Range(out)) /\ out = SubSeq(out, 1, k) \o At(T)
    <3>1. k \in 1..Len(out)
      BY <1>1, <2>1
    <3>2. /\ SubSeq(out, 1, k) \in Seq(Range(out))
          /\ out = SubSeq(out, 1, k) \o SubSeq(out, k + 1, Len(out))
      BY <1>1, <3>1, Split
    <3> HIDE DEF T
    <3> QED
      BY <2>1, <3>2
  <2>4. ASSUME NEW p \in 1..Len(input) + 1, p..Len(input) \subseteq required
        PROVE  p..Len(input) \subseteq T
    <3>1. f < p
      BY <1>1, <2>2, <2>4
    <3> QED
      BY <1>1, <2>2, <2>4, <3>1
  <2>5. ASSUME NEW h \in 1..Len(History) + 1,
               \A j \in h..Len(History) : History[j] \in required
        PROVE  \A j \in h..Len(History) : History[j] \in T
    <3>1. /\ History \in Seq(Positions) /\ InOrder(History)
          /\ Range(History) = Positions \cap {i \in Positions : input[i].id \notin cfg.fixed}
      BY <1>1, AscendingIs DEF History
    <3>2. f \in Range(History)
      BY <1>1, <2>2, <3>1
    <3> HIDE DEF History
    <3>3. PICK q \in DOMAIN History : History[q] = f
      BY <3>2 DEF Range
    <3>4. q \in 1..Len(History) /\ Len(History) \in Nat
      BY <3>1, <3>3
    <3>5. q < h
      BY <2>2, <2>5, <3>3, <3>4
    <3>6. ASSUME NEW j \in h..Len(History)
          PROVE  History[j] \in T
      <4>1. j \in DOMAIN History /\ q < j
        BY <3>1, <3>4, <3>5
      <4>2. f < History[j]
        BY <3>1, <3>3, <4>1 DEF InOrder
      <4>3. History[j] \in required /\ History[j] \in Positions
        BY <1>1, <2>5
      <4> QED
        BY <1>1, <2>2, <4>2, <4>3
    <3> QED
      BY <3>6
  <2>6. SubSeq(out, 1, k) \in Seq(R) /\ Range(input) \subseteq R
    BY <2>3
  <2> HIDE DEF T, R
  <2> QED
    BY <2>3, <2>4, <2>5, <2>6
<1> QED
  BY <1>2, <1>3

LEMMA KeptByPlan ==
    ASSUME Inv, Plan
    PROVE  RequiredKept
<1> SUFFICES ASSUME answer = "ok"
             PROVE  /\ required # {} \/ cfg.strategy # "host" \/ cfg.summarizer => FromInput
                    /\ \A r \in Rounds(Masked(input)) :
                         r.state = "pending" => EndsAlike(input, out, Len(input) - r.start + 1)
                    /\ EndsAlike(NotFixed(input), NotFixed(out), Min({cfg.rolling, Len(NotFixed(input))}))
  BY DEF RequiredKept, NotFixed
<1>1. /\ input \in Inputs /\ Len(input) \in Nat /\ Positions = 1..Len(input)
      /\ out \in Seq(Range(out)) /\ cfg.rolling \in Nat
      /\ cfg.rolling > 0 => cfg.summarizer
      /\ required # {} \/ cfg.strategy # "host" \/ cfg.summarizer => FromInput
  BY PositionsAre, ConfigsAssumption DEF Inv, TypeOK, Plan, ResultFromInput, ConfigOK
<1>2. /\ \A s \in Opens(Masked(input)) :
           LocalState(Masked(input), s) = "pending" => s..Len(input) \subseteq required
      /\ \A j \in DOMAIN History : j > Len(History) - cfg.rolling => History[j] \in required
  BY DEF Plan, SuffixRequired
<1>3. ASSUME NEW r \in Rounds(Masked(input)), r.state = "pending"
      PROVE  r.start \in 1..Len(input) /\ r.start..Len(input) \subseteq required
  <2>1. IsSequence(Masked(input)) /\ Len(Masked(input)) = Len(input)
    BY <1>1, MaskedIs
  <2>2. r.start \in Opens(Masked(input)) /\ LocalState(Masked(input), r.start) = "pending"
        /\ r.start \in 1..Len(Masked(input))
    BY <1>3, <2>1, RoundsAre
  <2> QED
    BY <1>2, <2>1, <2>2
<1>4. /\ History \in Seq(Positions) /\ Len(History) \in Nat /\ DOMAIN History = 1..Len(History)
      /\ Len(NotFixed(input)) = Len(History)
  <2>1. History \in Seq(Positions)
    BY <1>1, AscendingIs DEF History
  <2>2. /\ << >> \in Seq(Range(input)) /\ Len(History) \in Nat /\ DOMAIN History = 1..Len(History)
        /\ Len(History) + 1 \in 1..Len(History) + 1
        /\ \A j \in Len(History) + 1..Len(History) : History[j] \in {}
    BY <2>1
  <2>3. Len(NotFixed(input)) = Len(History)
    BY <1>1, <2>2, RecentEnd
  <2> QED
    BY <2>1, <2>2, <2>3
<1> DEFINE m == Min({cfg.rolling, Len(History)})
<1>5. m \in Nat /\ m <= Len(History) /\ m <= cfg.rolling
  <2>1. {cfg.rolling, Len(History)} \subseteq Nat /\ {cfg.rolling, Len(History)} # {}
    BY <1>1, <1>4
  <2>2. m \in {cfg.rolling, Len(History)} /\ \A y \in {cfg.rolling, Len(History)} : m <= y
    BY <2>1, MinOf
  <2> QED
    BY <2>1, <2>2
<1> HIDE DEF m
<1>6. CASE FromInput
  <2>1. PICK R, T : \E x \in Seq(R) :
             /\ Range(input) \subseteq R
             /\ out = x \o At(T)
             /\ \A p \in 1..Len(input) + 1 :
                  p..Len(input) \subseteq required => p..Len(input) \subseteq T
             /\ \A k \in 1..Len(History) + 1 :
                  (\A j \in k..Len(History) : History[j] \in required)
                    => \A j \in k..Len(History) : History[j] \in T
    BY <1>6, ResultEnd
  <2>2. PICK x \in Seq(R) :
             /\ Range(input) \subseteq R
             /\ out = x \o At(T)
             /\ \A p \in 1..Len(input) + 1 :
                  p..Len(input) \subseteq required => p..Len(input) \subseteq T
             /\ \A k \in 1..Len(History) + 1 :
                  (\A j \in k..Len(History) : History[j] \in required)
                    => \A j \in k..Len(History) : History[j] \in T
    BY <2>1
  <2>3. ASSUME NEW r \in Rounds(Masked(input)), r.state = "pending"
        PROVE  EndsAlike(input, out, Len(input) - r.start + 1)
    <3>1. PICK p \in 1..Len(input) + 1 : p = r.start /\ p..Len(input) \subseteq required
      BY <1>1, <1>3, <2>3
    <3>2. p..Len(input) \subseteq T
      BY <2>2, <3>1
    <3>3. EndsAlike(input, x \o At(T), Len(input) - p + 1)
      BY <1>1, <2>2, <3>2, PendingEnd
    <3> QED
      BY <2>2, <3>1, <3>3
  <2>4. EndsAlike(NotFixed(input), NotFixed(out), m)
    <3>1. PICK k \in 1..Len(History) + 1 : k = Len(History) - m + 1
      <4>1. Len(History) - m + 1 \in 1..Len(History) + 1
        <5> HIDE DEF History
        <5> QED
          BY <1>4, <1>5
      <4> QED
        BY <4>1
    <3>2. \A j \in k..Len(History) : History[j] \in required
      <4> SUFFICES ASSUME NEW j \in k..Len(History)
                   PROVE  History[j] \in required
        OBVIOUS
      <4>1. j \in DOMAIN History /\ j > Len(History) - cfg.rolling
        BY <1>1, <1>4, <1>5, <3>1
      <4> QED
        BY <1>2, <4>1
    <3>3. \A j \in k..Len(History) : History[j] \in T
      BY <2>2, <3>2
    <3>4. EndsAlike(NotFixed(input), NotFixed(x \o At(T)), Len(History) - k + 1)
      BY <1>1, <2>2, <3>3, RecentEnd
    <3>5. Len(History) - k + 1 = m
      BY <1>4, <1>5, <3>1
    <3> QED
      BY <2>2, <3>4, <3>5
  <2> QED
    BY <1>1, <1>4, <2>3, <2>4 DEF m
<1>7. CASE required = {} /\ cfg.strategy = "host" /\ ~cfg.summarizer
  <2>1. \A r \in Rounds(Masked(input)) : r.state # "pending"
    <3> SUFFICES ASSUME NEW r \in Rounds(Masked(input)), r.state = "pending"
                 PROVE  FALSE
      OBVIOUS
    <3>1. r.start \in 1..Len(input) /\ r.start..Len(input) \subseteq {}
      BY <1>3, <1>7
    <3> QED
      BY <1>1, <3>1
  <2>2. cfg.rolling = 0 /\ m = 0
    BY <1>1, <1>5, <1>7
  <2>3. NotFixed(out) \in Seq(Range(out)) /\ NotFixed(input) \in Seq(Range(input))
    <3>1. input \in Seq(Range(input))
      BY <1>1, PositionsAre
    <3>2. \A s, M : s \in Seq(Range(s)) => Kept(s, M) \in Seq(Range(s))
      BY KeptElements DEF IsSequence
    <3> QED
      BY <1>1, <3>1, <3>2 DEF NotFixed
  <2>4. \A R : \A s \in Seq(R) : SubSeq(s, Len(s) - 0 + 1, Len(s)) = << >> /\ Len(s) \in Nat
    <3> SUFFICES ASSUME NEW R, NEW s \in Seq(R)
                 PROVE  SubSeq(s, Len(s) - 0 + 1, Len(s)) = << >> /\ Len(s) \in Nat
      OBVIOUS
    <3>1. Len(s) \in Nat /\ Len(s) - 0 + 1 \in Nat \ {0} /\ Len(s) <= Len(s)
          /\ Len(s) - 0 + 1 <= Len(s) + 1 /\ Len(s) - (Len(s) - 0 + 1) + 1 = 0
      OBVIOUS
    <3>2. SubSeq(s, Len(s) - 0 + 1, Len(s)) \in Seq(R)
          /\ Len(SubSeq(s, Len(s) - 0 + 1, Len(s))) = 0
      BY <3>1, SubSeqIs
    <3> QED
      BY <3>1, <3>2
  <2>5. EndsAlike(NotFixed(input), NotFixed(out), 0)
    BY <2>3, <2>4 DEF EndsAlike
  <2> QED
    BY <1>4, <1>7, <2>1, <2>2, <2>5 DEF m
<1> QED
  BY <1>1, <1>6, <1>7

\* Whatever callbacks answer and however the budget is met: what is required
\* comes out unchanged and in order, and so do the end of the history from the
\* first open round on and, with a rolling summary, its most recent messages.
THEOREM RequiredSurvives == Spec => []RequiredKept
<1>1. Init => Plan
  BY InitPlan
<1>2. Inv /\ Plan /\ [Next]_vars => Plan'
  BY NextPlan
<1>3. Inv /\ Plan => RequiredKept
  BY KeptByPlan
<1> QED
  BY <1>1, <1>2, <1>3, InvHolds, PTL DEF Spec

-----------------------------------------------------------------------------
(* Eviction ends: every turn of a loop makes its candidate shorter           *)

\* How many steps a call has made at most when it is at a stage.
Paced ==
    /\ steps \in Nat
    /\ pc = "inspect" => steps = 0
    /\ pc = "select" => steps <= 1
    /\ pc = "measure" => steps <= 2
    /\ pc = "protect" => steps <= 3
    /\ pc = "compare" => steps <= 4
    /\ pc \in {"summarize", "evict"} => steps <= 5
    /\ pc = "evict complete" => steps <= 5 + Len(input) - Len(cur)
    /\ pc \in {"drop head", "drop tail"} => steps <= 6 + Len(input) - Len(cur)
    /\ pc = "merge" => steps <= 7 + Len(input)
    /\ pc = "admit" => steps <= 8 + Len(input)
    /\ pc = "verify" => steps <= 9 + Len(input)
    /\ pc = "done" => steps <= 10 + Len(input)

LEMMA InputLength ==
    ASSUME Inv
    PROVE  Len(input) \in Nat
BY PositionsAre DEF Inv, TypeOK

LEMMA InitPaced ==
    ASSUME Init
    PROVE  Paced
<1>1. pc = "inspect" /\ steps = 0
  BY DEF Init
<1> QED
  BY <1>1 DEF Paced

\* A candidate is no longer than the input.
LEMMA CandidateLength ==
    ASSUME input \in Inputs, NEW ps \in Seq(Positions), InOrder(ps)
    PROVE  Len(ps) \in Nat /\ Len(ps) <= Len(input)
<1> DEFINE all == [i \in Positions |-> i]
<1>1. all \in Seq(Positions) /\ InOrder(all) /\ Seq(Positions) \subseteq Seq(Nat)
      /\ Positions = 1..Len(input) /\ Len(input) \in Nat
  BY PositionsAre
<1>2. ps = Kept(all, Range(ps))
  BY OrderedAscending DEF Ascending
<1>3. Len(all) = Len(input)
  BY <1>1
<1> HIDE DEF all
<1>4. Len(Kept(all, Range(ps))) <= Len(all)
  BY <1>1, KeptInOrder
<1> QED
  BY <1>2, <1>3, <1>4

\* The stages with a candidate, and those that loop over it.
Shrinking == {"evict complete", "drop head", "drop tail"}

LEMMA CandidatePositions ==
    ASSUME Inv, Plan, pc = "evict" \/ pc \in Shrinking
    PROVE  /\ input \in Inputs /\ cur \in Seq(Positions) /\ InOrder(cur)
           /\ Len(cur) \in Nat /\ Len(cur) <= Len(input) /\ Len(input) \in Nat
           /\ IsSequence(Messages(cur)) /\ Len(Messages(cur)) = Len(cur)
           /\ DOMAIN cur = 1..Len(cur)
           /\ DOMAIN Messages(cur) = 1..Len(cur)
           /\ \A k \in DOMAIN cur : Messages(cur)[k] = input[cur[k]]
<1>1. input \in Inputs /\ cur \in Seq(Positions) /\ InOrder(cur)
  BY DEF Inv, TypeOK, Plan, CandidateOK, Shrinking
<1>2. /\ Messages(cur) \in Seq(Range(input)) /\ Len(Messages(cur)) = Len(cur)
      /\ DOMAIN Messages(cur) = DOMAIN cur
      /\ \A k \in DOMAIN cur : Messages(cur)[k] = input[cur[k]]
  BY <1>1, MessagesAre
<1>3. IsSequence(Messages(cur))
  BY <1>2, SelfSequence
<1>4. DOMAIN cur = 1..Len(cur)
  BY <1>1
<1> QED
  BY <1>1, <1>2, <1>3, <1>4, CandidateLength, InputLength

LEMMA Ticks ==
    ASSUME NEW s \in Nat, NEW n \in Nat
    PROVE  /\ s + 1 \in Nat
           /\ s = 0 => s + 1 <= 1 /\ s <= 9 + n
           /\ s <= 1 => s + 1 <= 2 /\ s <= 9 + n
           /\ s <= 2 => s + 1 <= 3 /\ s <= 9 + n
           /\ s <= 3 => s + 1 <= 4 /\ s <= 9 + n
           /\ s <= 4 => s + 1 <= 5 /\ s + 1 <= 9 + n /\ s <= 9 + n
           /\ s <= 5 => s + 1 <= 7 + n /\ s <= 9 + n
           /\ s <= 7 + n => s + 1 <= 8 + n /\ s <= 9 + n
           /\ s <= 8 + n => s + 1 <= 9 + n /\ s <= 9 + n
           /\ s <= 9 + n => s + 1 <= 10 + n
OBVIOUS

LEMMA ShrinkingTicks ==
    ASSUME NEW s \in Nat, NEW n \in Nat, NEW k \in Nat, k <= n
    PROVE  /\ s <= 4 => s + 1 <= 5 + n - k
           /\ s <= 5 => s + 1 <= 6 + n - k
           /\ s <= 5 + n - k => s <= 9 + n /\ s + 1 <= 8 + n
           /\ s <= 6 + n - k => s <= 9 + n /\ s + 1 <= 7 + n
           /\ \A l \in Nat : l < k => /\ s <= 5 + n - k => s + 1 <= 5 + n - l
                                      /\ s <= 6 + n - k => s + 1 <= 6 + n - l
OBVIOUS

LEMMA Counted ==
    ASSUME Inv, Paced, Count
    PROVE  steps \in Nat /\ steps' = steps + 1 /\ steps' \in Nat /\ Len(input) \in Nat
<1>1. steps \in Nat /\ steps' = steps + 1
  BY DEF Paced, Count
<1>2. steps + 1 \in Nat
  BY <1>1
<1> QED
  BY <1>1, <1>2, InputLength

\* Before it returns a call has a step left.
LEMMA StepLeft ==
    ASSUME Inv, Plan, Paced, pc # "done"
    PROVE  steps <= 9 + Len(input)
<1>1. steps \in Nat /\ Len(input) \in Nat
  BY InputLength DEF Paced
<1>2. CASE pc \in Shrinking
  <2>1. Len(cur) \in Nat /\ Len(cur) <= Len(input)
    BY <1>2, CandidatePositions
  <2>2. \/ steps <= 5 + Len(input) - Len(cur)
        \/ steps <= 6 + Len(input) - Len(cur)
    BY <1>2 DEF Paced, Shrinking
  <2> QED
    BY <1>1, <2>1, <2>2, ShrinkingTicks
<1>3. CASE pc \notin Shrinking
  <2>1. \/ steps = 0 \/ steps <= 1 \/ steps <= 2 \/ steps <= 3 \/ steps <= 4 \/ steps <= 5
        \/ steps <= 7 + Len(input) \/ steps <= 8 + Len(input) \/ steps <= 9 + Len(input)
    BY <1>3 DEF Paced, Inv, TypeOK, Stages, Deciding, Shrinking
  <2> QED
    BY <1>1, <2>1, Ticks
<1> QED
  BY <1>2, <1>3

LEMMA DonePaced ==
    ASSUME Inv, Plan, Paced, pc # "done", pc' = "done", Count, UNCHANGED input
    PROVE  Paced'
<1>1. steps <= 9 + Len(input)
  BY StepLeft
<1>2. steps' <= 10 + Len(input)
  BY <1>1, Counted, Ticks
<1>3. steps' \in Nat /\ steps' <= 10 + Len(input)'
  BY <1>2, Counted
<1> QED
  BY <1>3 DEF Paced

LEMMA FailPaced ==
    ASSUME Inv, Plan, Paced, pc # "done", NEW kind, Fail(kind), Count
    PROVE  Paced'
BY DonePaced DEF Fail, Answer

\* A stage that is no loop.
LEMMA StagePaced ==
    ASSUME Inv, Plan, Paced, Count,
           InspectBudgetRounds \/ SelectRequired \/ MeasureInput \/ ProtectSuffix \/ Fits
    PROVE  Paced'
<1>1. pc # "done" /\ input' = input
  BY DEF InspectBudgetRounds, SelectRequired, MeasureInput, ProtectSuffix, Fits, Fail
<1>2. \/ pc' = "done"
      \/ pc = "inspect" /\ pc' = "select"
      \/ pc = "select" /\ pc' = "measure"
      \/ pc = "measure" /\ pc' = "protect"
      \/ pc = "protect" /\ pc' = "compare"
      \/ pc = "compare" /\ pc' = "verify"
  BY DEF InspectBudgetRounds, SelectRequired, MeasureInput, ProtectSuffix, Fits, Fail, Answer, Goto
<1>3. /\ steps = 0 => steps' <= 1
      /\ steps <= 1 => steps' <= 2
      /\ steps <= 2 => steps' <= 3
      /\ steps <= 3 => steps' <= 4
      /\ steps <= 4 => steps' <= 9 + Len(input)
      /\ steps' \in Nat
  BY Counted, Ticks
<1>4. CASE pc' = "done"
  BY <1>1, <1>4, DonePaced
<1>5. CASE pc' # "done"
  <2>1. /\ pc' = "select" => steps' <= 1
        /\ pc' = "measure" => steps' <= 2
        /\ pc' = "protect" => steps' <= 3
        /\ pc' = "compare" => steps' <= 4
        /\ pc' = "verify" => steps' <= 9 + Len(input)
    BY <1>2, <1>3, <1>5, Zenon DEF Paced
  <2> QED
    BY <1>1, <1>2, <1>3, <1>5, <2>1, Zenon DEF Paced
<1> QED
  BY <1>4, <1>5

LEMMA OverflowPaced ==
    ASSUME Inv, Plan, Paced, Count,
           StartCompleteEviction \/ Reserve \/ SummarizeOptional
    PROVE  Paced'
<1>1. pc # "done" /\ input' = input
  BY DEF StartCompleteEviction, Reserve, SummarizeOptional, Fail
<1>2. \/ pc' = "done"
      \/ pc = "compare" /\ pc' = "evict complete" /\ cur' = Ascending(Positions)
      \/ pc = "compare" /\ pc' \in {"summarize", "evict", "verify"}
      \/ pc = "summarize" /\ pc' = "merge"
  BY DEF StartCompleteEviction, Reserve, SummarizeOptional, Fail, Answer, Goto
<1>3. /\ steps <= 4 => steps' <= 5 /\ steps' <= 9 + Len(input)
      /\ steps <= 5 => steps' <= 7 + Len(input)
      /\ steps' \in Nat
  BY Counted, Ticks
<1>4. steps <= 4 => steps' <= 5 + Len(input) - Len(Ascending(Positions))
  <2>1. Len(Ascending(Positions)) \in Nat /\ Len(Ascending(Positions)) <= Len(input)
    BY AscendingIs, CandidateLength DEF Inv, TypeOK
  <2> QED
    BY <2>1, Counted, ShrinkingTicks
<1>5. CASE pc' = "done"
  BY <1>1, <1>5, DonePaced
<1>6. CASE pc = "compare" /\ pc' = "evict complete" /\ cur' = Ascending(Positions)
  <2>1. steps' <= 5 + Len(input)' - Len(cur)'
    BY <1>1, <1>4, <1>6, Zenon DEF Paced
  <2> QED
    BY <1>3, <1>6, <2>1, Zenon DEF Paced
<1>7. CASE pc = "compare" /\ pc' \in {"summarize", "evict", "verify"}
  <2>1. steps' <= 5 /\ steps' <= 9 + Len(input)'
    BY <1>1, <1>3, <1>7, Zenon DEF Paced
  <2> QED
    BY <1>3, <1>7, <2>1, Zenon DEF Paced
<1>8. CASE pc = "summarize" /\ pc' = "merge"
  <2>1. steps' <= 7 + Len(input)'
    BY <1>1, <1>3, <1>8, Zenon DEF Paced
  <2> QED
    BY <1>3, <1>8, <2>1, Zenon DEF Paced
<1> QED
  BY <1>2, <1>5, <1>6, <1>7, <1>8

LEMMA StrategyPaced ==
    ASSUME Inv, Plan, Paced, Count,
           \/ OptionalFits \/ ApplyStrict \/ ApplyDrop \/ ApplyHost \/ ApplyHeadFast
           \/ ApplyHeadSelective \/ ApplyTail
    PROVE  Paced'
<1>1. pc = "evict" /\ input' = input
  BY DEF OptionalFits, ApplyStrict, ApplyDrop, ApplyHost, ApplyHeadFast, ApplyHeadSelective,
     ApplyTail, ApplyStrategy, Evicted, Fail
<1>2. \/ pc' = "done" \/ pc' = "merge"
      \/ /\ pc' \in {"drop head", "drop tail"}
         /\ cur' = cur
  BY DEF OptionalFits, ApplyStrict, ApplyDrop, ApplyHost, ApplyHeadFast, ApplyHeadSelective,
     ApplyTail, Evicted, Fail, Answer, Goto
<1>3. /\ steps' \in Nat
      /\ steps' <= 7 + Len(input)
      /\ steps' <= 6 + Len(input) - Len(cur)
  <2>1. Len(cur) \in Nat /\ Len(cur) <= Len(input)
    BY <1>1, CandidatePositions
  <2>2. steps <= 5
    BY <1>1 DEF Paced
  <2> QED
    BY <2>1, <2>2, Counted, Ticks, ShrinkingTicks
<1>4. CASE pc' = "done"
  BY <1>1, <1>4, DonePaced
<1>5. CASE pc' = "merge"
  BY <1>1, <1>3, <1>5, Zenon DEF Paced
<1>6. CASE pc' \in {"drop head", "drop tail"} /\ cur' = cur
  BY <1>1, <1>3, <1>6, Zenon DEF Paced
<1> QED
  BY <1>2, <1>4, <1>5, <1>6

LEMMA ComposePaced ==
    ASSUME Inv, Plan, Paced, Count, MergeRequired \/ Admit \/ Verify
    PROVE  Paced'
<1>1. pc # "done" /\ input' = input
  BY DEF MergeRequired, Admit, Verify, Fail
<1>2. \/ pc' = "done"
      \/ pc = "merge" /\ pc' = "admit"
      \/ pc = "admit" /\ pc' = "verify"
  BY DEF MergeRequired, Admit, Verify, Fail, Answer, Goto
<1>3. /\ steps <= 7 + Len(input) => steps' <= 8 + Len(input)
      /\ steps <= 8 + Len(input) => steps' <= 9 + Len(input)
      /\ steps' \in Nat
  BY Counted, Ticks
<1>4. CASE pc' = "done"
  BY <1>1, <1>4, DonePaced
<1>5. CASE pc = "merge" /\ pc' = "admit"
  BY <1>1, <1>3, <1>5, Zenon DEF Paced
<1>6. CASE pc = "admit" /\ pc' = "verify"
  BY <1>1, <1>3, <1>6, Zenon DEF Paced
<1> QED
  BY <1>2, <1>4, <1>5, <1>6

\* A loop goes on with fewer messages than it had.
LEMMA ShorterPaced ==
    ASSUME Inv, Plan, Paced, Count, UNCHANGED <<input, pc>>, pc \in Shrinking,
           Len(cur') \in Nat, Len(cur') < Len(cur)
    PROVE  Paced'
<1>1. Len(cur) \in Nat /\ Len(cur) <= Len(input)
  BY CandidatePositions
<1>2. /\ steps <= 5 + Len(input) - Len(cur) => steps' <= 5 + Len(input) - Len(cur')
      /\ steps <= 6 + Len(input) - Len(cur) => steps' <= 6 + Len(input) - Len(cur')
      /\ steps' \in Nat
  BY <1>1, Counted, ShrinkingTicks
<1>3. pc' = pc /\ input' = input
  OBVIOUS
<1> QED
  BY <1>2, <1>3, Zenon DEF Paced, Shrinking

LEMMA EvictedPaced ==
    ASSUME Inv, Plan, Paced, Count, pc \in Shrinking, pc # "evict complete", NEW ms, Evicted(ms)
    PROVE  Paced'
<1>1. CASE Fail("invalid round")
  BY <1>1, FailPaced DEF Shrinking
<1>2. CASE pc' = "merge" /\ input' = input
  <2>1. Len(cur) \in Nat /\ Len(cur) <= Len(input)
    BY CandidatePositions
  <2>2. steps <= 6 + Len(input) - Len(cur) => steps' <= 7 + Len(input)
    <3>1. steps \in Nat /\ Len(input) \in Nat /\ steps' = steps + 1
      BY Counted
    <3> QED
      BY <2>1, <3>1, ShrinkingTicks
  <2>3. steps' <= 7 + Len(input)' /\ steps' \in Nat
    BY <1>2, <2>2, Counted, Zenon DEF Paced, Shrinking
  <2> QED
    BY <1>2, <2>3, Zenon DEF Paced
<1> QED
  BY <1>1, <1>2 DEF Evicted, Goto

LEMMA DropHeadPaced ==
    ASSUME Inv, Plan, Paced, Count, DropHeadUnit \/ DropHeadDone
    PROVE  Paced'
<1> DEFINE ms == Messages(cur)
           end == IF cfg.atomic /\ ms[1].role = "assistant" /\ HasToolCalls(ms[1])
                  THEN ToolRoundEndIndex(ms, 1)
                  ELSE 1
<1>0. pc \in Shrinking /\ pc # "evict complete"
  BY DEF DropHeadUnit, DropHeadDone, Shrinking
<1>1. /\ cur \in Seq(Positions) /\ Len(cur) \in Nat
      /\ Len(ms) = Len(cur) /\ IsSequence(ms) /\ DOMAIN ms = 1..Len(cur)
  BY <1>0, CandidatePositions
<1>2. CASE DropHeadUnit
  <2>1. /\ cur # << >> /\ cur' = SubSeq(cur, end + 1, Len(cur)) /\ UNCHANGED <<input, pc>>
    BY <1>2 DEF DropHeadUnit
  <2>2. Len(cur) >= 1
    BY <1>1, <2>1
  <2>3. end \in 1..Len(cur)
    <3>1. 1 \in DOMAIN ms
      BY <1>1, <2>2
    <3> HIDE DEF ms
    <3>2. ToolRoundEndIndex(ms, 1) \in 1..Len(cur)
      BY <1>1, <3>1, RoundEnd
    <3> QED
      BY <1>1, <2>2, <3>2
  <2> HIDE DEF end
  <2>4. Len(cur') \in Nat /\ Len(cur') < Len(cur)
    <3>1. end + 1 \in Nat \ {0} /\ end + 1 <= Len(cur) + 1 /\ Len(cur) <= Len(cur)
      BY <1>1, <2>3
    <3>2. Len(SubSeq(cur, end + 1, Len(cur))) = Len(cur) - (end + 1) + 1
      BY <1>1, <3>1, SubSeqIs
    <3>3. Len(cur') = Len(cur) - (end + 1) + 1 /\ Len(cur) \in Nat
      BY <1>1, <2>1, <3>2
    <3> HIDE DEF ms
    <3> QED
      BY <2>3, <3>3
  <2> QED
    BY <1>0, <2>1, <2>4, ShorterPaced
<1>3. CASE DropHeadDone
  <2>1. PICK o : Evicted(o)
    BY <1>3 DEF DropHeadDone
  <2> QED
    BY <1>0, <2>1, EvictedPaced
<1> QED
  BY <1>2, <1>3

LEMMA DropTailPaced ==
    ASSUME Inv, Plan, Paced, Count, DropTailUnit
    PROVE  Paced'
<1> DEFINE ms == Messages(cur)
           last == Len(cur)
           end == IF ms[last].role # "tool" THEN last - 1
                  ELSE ToolRoundStartForTail(ms) - 1
           next == SubSeq(cur, 1, end)
<1>0. pc \in Shrinking /\ pc # "evict complete" /\ pc # "done"
  BY DEF DropTailUnit, Shrinking
<1>1. /\ cur \in Seq(Positions) /\ Len(cur) \in Nat
      /\ Len(ms) = Len(cur) /\ IsSequence(ms)
  BY <1>0, CandidatePositions
<1>2. CASE \E kind : Fail(kind)
  BY <1>0, <1>2, FailPaced
<1>3. CASE \E o : Evicted(o)
  BY <1>0, <1>3, EvictedPaced
<1>4. CASE last > 1 /\ cur' = next /\ UNCHANGED <<input, pc>>
  <2>1. end \in 0..last - 1
    <3> HIDE DEF ms
    <3> QED
      BY <1>1, <1>4, TailStart
  <2> HIDE DEF end
  <2>2. Len(next) = end
    <3>1. 1 \in Nat \ {0} /\ end \in Nat /\ end <= Len(cur) /\ 1 <= end + 1
      BY <1>1, <2>1
    <3>2. Len(next) = end - 1 + 1
      BY <1>1, <3>1, SubSeqIs
    <3> QED
      BY <3>1, <3>2
  <2>3. Len(cur') \in Nat /\ Len(cur') < Len(cur)
    BY <1>1, <1>4, <2>1, <2>2
  <2> QED
    BY <1>0, <1>4, <2>3, ShorterPaced
<1>5. \/ \E kind : Fail(kind)
      \/ \E o : Evicted(o)
      \/ last > 1 /\ cur' = next /\ UNCHANGED <<input, pc>>
  BY DEF DropTailUnit
<1> QED
  BY <1>2, <1>3, <1>4, <1>5

\* A round that ends at k when what is behind is cut off is split by the
\* candidate unit only if the candidate still holds a message there that answers
\* one of its calls again; the layout of the input rules that out.
LEMMA TailUnitRemoves ==
    ASSUME FixedCallsLast, input \in Inputs, cfg \in Configs,
           cur \in Seq(Positions), InOrder(cur), required \subseteq Range(cur),
           LayoutValid(Masked(input)),
           \A i \in Positions : input[i].id \in cfg.fixed => i \in required,
           \A t \in required \cap Opens(Masked(input)) :
              t..ContiguousToolBlockEnd(Masked(input), t) \subseteq required,
           \A t \in Opens(Masked(input)) :
              LocalState(Masked(input), t) = "pending" => t..Len(input) \subseteq required,
           NEW k \in DOMAIN cur, cur[k] \notin required,
           NEW s \in DOMAIN cur, s < k,
           IsCompleteRound(SubSeq(Messages(cur), 1, k), s),
           ContiguousToolBlockEnd(SubSeq(Messages(cur), 1, k), s) = k
    PROVE  cur[s] \notin required
<1> DEFINE ms == Messages(cur)
           sub == SubSeq(ms, 1, k)
           masked == Masked(input)
           p == cur[s]
           q == cur[k]
           n == Len(input)
<1> SUFFICES ASSUME p \in required
             PROVE  FALSE
  OBVIOUS
<1>1. /\ input \in Inputs /\ cur \in Seq(Positions) /\ InOrder(cur)
      /\ Len(cur) \in Nat /\ n \in Nat /\ DOMAIN cur = 1..Len(cur)
      /\ IsSequence(ms) /\ Len(ms) = Len(cur) /\ DOMAIN ms = 1..Len(cur)
      /\ \A j \in DOMAIN cur : ms[j] = input[cur[j]] /\ cur[j] \in Positions
      /\ Positions = 1..n /\ cfg \in Configs
  <2>1. Len(cur) \in Nat /\ DOMAIN cur = 1..Len(cur)
    OBVIOUS
  <2>2. /\ ms \in Seq(Range(input)) /\ Len(ms) = Len(cur) /\ DOMAIN ms = DOMAIN cur
        /\ \A j \in DOMAIN cur : ms[j] = input[cur[j]] /\ cur[j] \in Positions
    BY MessagesAre
  <2> HIDE DEF ms
  <2>3. IsSequence(ms)
    BY <2>2, SelfSequence
  <2> QED
    BY <2>1, <2>2, <2>3, PositionsAre
<1>2. /\ required \subseteq Range(cur) /\ LayoutValid(masked)
      /\ \A i \in Positions : input[i].id \in cfg.fixed => i \in required
      /\ \A t \in required \cap Opens(masked) : t..ContiguousToolBlockEnd(masked, t) \subseteq required
      /\ \A t \in Opens(masked) : LocalState(masked, t) = "pending" => t..n \subseteq required
  OBVIOUS
<1> HIDE DEF sub
<1>0. IsCompleteRound(sub, s) /\ ContiguousToolBlockEnd(sub, s) = k /\ sub = SubSeq(ms, 1, k)
  BY DEF sub
<1> HIDE DEF ms
<1>3. /\ \A j \in 1..k : sub[j] = ms[j] /\ k \in 1..Len(cur) /\ s \in 1..k
      /\ k \in Nat /\ s \in Nat
  <2>1. k \in 1..Len(cur) /\ 1 \in Nat \ {0} /\ k \in Nat /\ k <= Len(ms) /\ 1 <= k + 1
    BY <1>1
  <2>2. \A j \in 1..k - 1 + 1 : sub[j] = ms[1 + j - 1]
    BY <1>0, <1>1, <2>1, SubSeqIs DEF IsSequence
  <2>3. k - 1 + 1 = k /\ \A j \in 1..k : 1 + j - 1 = j
    BY <2>1
  <2>4. s \in 1..k /\ s \in Nat
    BY <1>1, <2>1
  <2> QED
    BY <2>1, <2>2, <2>3, <2>4
<1>4. /\ ms[s].role = "assistant" /\ HasToolCalls(ms[s])
      /\ \A j \in s+1..k : ms[j].role = "tool" /\ ms[j].results # << >>
      /\ \A j \in s+1..k : Elements(ms[j].results) \subseteq Elements(ms[s].calls)
      /\ \A i, j \in s+1..k : \A x \in DOMAIN ms[i].results, y \in DOMAIN ms[j].results :
           ms[i].results[x] = ms[j].results[y] => i = j
  <2>1. \A j \in s+1..k : j \in 1..k
    BY <1>3
  <2>2. sub[s].role = "assistant" /\ HasToolCalls(sub[s]) /\ ResultsValid(sub, s + 1, k, sub[s].calls)
    BY <1>0 DEF IsCompleteRound
  <2>3. sub[s] = ms[s] /\ \A j \in s+1..k : sub[j] = ms[j]
    BY <1>3, <2>1
  <2>4. /\ \A j \in s+1..k : sub[j].role = "tool" /\ sub[j].results # << >>
        /\ \A j \in s+1..k : Elements(sub[j].results) \subseteq Elements(sub[s].calls)
        /\ \A i, j \in s+1..k : \A x \in DOMAIN sub[i].results, y \in DOMAIN sub[j].results :
             sub[i].results[x] = sub[j].results[y] => i = j
    BY <2>2 DEF ResultsValid
  <2> QED
    BY <2>2, <2>3, <2>4
<1>5. /\ p \in Positions /\ q \in Positions /\ p < q /\ p \in Nat /\ q \in Nat
      /\ ms[s] = input[p] /\ ms[k] = input[q] /\ k \in s+1..k
  BY <1>1, <1>3 DEF InOrder
<1>6. input[q].id \notin cfg.fixed
  BY <1>2, <1>5
<1>7. input[p].id \notin cfg.fixed
  <2> SUFFICES ASSUME input[p].id \in cfg.fixed
               PROVE  FALSE
    OBVIOUS
  <2>1. cfg.fixed \in {c.fixed : c \in Configs}
    BY <1>1
  <2>2. p \in DOMAIN input /\ q \in DOMAIN input /\ HasToolCalls(input[p])
    BY <1>4, <1>5 DEF Positions
  <2>3. input[q].id \in cfg.fixed
    BY <1>1, <1>5, <2>1, <2>2 DEF FixedCallsLast
  <2> QED
    BY <1>6, <2>3
<1>8. /\ IsSequence(masked) /\ DOMAIN masked = Positions /\ Len(masked) = n
      /\ masked[p] = input[p] /\ masked[q] = input[q]
      /\ \A u \in Positions : masked[u].results # << >> => masked[u] = input[u]
  BY <1>1, <1>5, <1>6, <1>7, MaskedIs
<1> HIDE DEF masked
<1>9. p \in Opens(masked) /\ masked[p].role = "assistant" /\ masked[q].role = "tool"
  BY <1>4, <1>5, <1>8 DEF Opens
<1>10. PICK t \in Opens(masked) : t < q /\ q <= ContiguousToolBlockEnd(masked, t)
  BY <1>2, <1>5, <1>8, <1>9 DEF LayoutValid, InToolBlock
<1>11. /\ t \in 1..n /\ ContiguousToolBlockEnd(masked, t) \in t..n
       /\ \A j \in t+1..ContiguousToolBlockEnd(masked, t) : masked[j].role = "tool"
       /\ masked[t].role # "tool"
  <2>1. t \in DOMAIN masked /\ masked[t].role # "tool"
    BY DEF Opens
  <2> QED
    BY <1>1, <1>8, <2>1, BlockEnd
<1>12. t \notin required
  <2> SUFFICES ASSUME t \in required
               PROVE  FALSE
    OBVIOUS
  <2>1. q \in t..ContiguousToolBlockEnd(masked, t)
    BY <1>5, <1>10, <1>11
  <2> QED
    BY <1>2, <2>1
<1>13. p < t
  <2>1. p # t
    BY <1>12
  <2>2. ~(t < p)
    <3> SUFFICES ASSUME t < p
                 PROVE  FALSE
      OBVIOUS
    <3>1. p \in t+1..ContiguousToolBlockEnd(masked, t)
      BY <1>5, <1>10, <1>11
    <3>2. masked[p].role = "tool"
      BY <1>11, <3>1
    <3> QED
      BY <1>9, <3>2
  <2> QED
    BY <1>5, <1>11, <2>1, <2>2
<1> DEFINE e == ContiguousToolBlockEnd(masked, p)
<1>14. e \in p..n /\ e < t
  <2>1. /\ e \in p..Len(masked)
        /\ \A j \in p+1..e : masked[j].role = "tool"
    BY <1>5, <1>8, BlockEnd
  <2>2. ~(t \in p+1..e)
    BY <1>11, <2>1
  <2> HIDE DEF e
  <2> QED
    BY <1>5, <1>8, <1>11, <1>13, <2>1, <2>2
<1>15. Elements(masked[p].calls) \subseteq Answered(masked, p + 1, e)
  <2>1. LocalState(masked, p) # "pending"
    <3> SUFFICES ASSUME LocalState(masked, p) = "pending"
                 PROVE  FALSE
      OBVIOUS
    <3>1. q \in p..n
      BY <1>1, <1>5
    <3> QED
      BY <1>2, <1>9, <3>1
  <2> QED
    BY <2>1 DEF LocalState
<1>16. PICK y \in DOMAIN input[q].results : input[q].results[y] \in Elements(input[p].calls)
  <2>1. input[q].results # << >> /\ Elements(input[q].results) \subseteq Elements(input[p].calls)
    BY <1>4, <1>5
  <2>2. input[q].results \in Seq(Range(input[q].results))
    BY <1>1, <1>5, InputsAssumption DEF Positions
  <2>3. 1 \in DOMAIN input[q].results
    BY <2>1, <2>2
  <2> QED
    BY <2>1, <2>3 DEF Elements
<1>17. PICK u \in p+1..e : input[q].results[y] \in Elements(masked[u].results)
  BY <1>8, <1>15, <1>16 DEF Answered
<1> HIDE DEF e
<1>18. u \in Positions /\ u < q /\ p < u /\ u \in p..e
  BY <1>1, <1>5, <1>11, <1>10, <1>14, <1>17
<1>19. PICK x \in DOMAIN input[u].results : input[u].results[x] = input[q].results[y]
  <2>1. masked[u].results # << >>
    BY <1>17 DEF Elements
  <2>2. masked[u] = input[u]
    BY <1>8, <1>18, <2>1
  <2> QED
    BY <1>17, <2>2 DEF Elements
<1>20. u \in required
  BY <1>2, <1>9, <1>18 DEF e
<1>21. PICK j \in DOMAIN cur : cur[j] = u
  BY <1>2, <1>20 DEF Range
<1>22. j \in s+1..k /\ j # k
  <2>1. j \in 1..Len(cur) /\ k \in 1..Len(cur) /\ s \in 1..Len(cur) /\ j # s /\ j # k
    BY <1>1, <1>3, <1>5, <1>18, <1>21
  <2>2. ~(j < s)
    <3> SUFFICES ASSUME j < s
                 PROVE  FALSE
      OBVIOUS
    <3>1. cur[j] < cur[s]
      BY <1>1, <2>1 DEF InOrder
    <3> QED
      BY <1>1, <1>5, <1>18, <1>21, <3>1
  <2>3. ~(k < j)
    <3> SUFFICES ASSUME k < j
                 PROVE  FALSE
      OBVIOUS
    <3>1. cur[k] < cur[j]
      BY <1>1, <2>1 DEF InOrder
    <3> QED
      BY <1>1, <1>5, <1>18, <1>21, <3>1
  <2> QED
    BY <1>1, <1>3, <2>1, <2>2, <2>3
<1>23. ms[j] = input[u]
  BY <1>1, <1>21
<1> QED
  BY <1>4, <1>5, <1>16, <1>19, <1>22, <1>23

\* What evictCompleteCandidate takes out of its candidate.
Left == {k \in DOMAIN cur : cur[k] \notin required}
IsTail == cfg.strategy = "tail"
Index == IF IsTail THEN Max(Left) ELSE Min(Left)
Unit == CandidateUnit(cur, Index, IsTail, cfg.strategy # "head" \/ cfg.atomic)
Gone == IF cfg.strategy = "drop" THEN Positions ELSE {cur[k] : k \in Unit}

\* It holds an optional message.
LEMMA UnitRemoves ==
    ASSUME FixedCallsLast, input \in Inputs, cfg \in Configs,
           cur \in Seq(Positions), InOrder(cur), required \subseteq Range(cur),
           LayoutValid(Masked(input)),
           \A i \in Positions : input[i].id \in cfg.fixed => i \in required,
           \A t \in required \cap Opens(Masked(input)) :
              t..ContiguousToolBlockEnd(Masked(input), t) \subseteq required,
           \A t \in Opens(Masked(input)) :
              LocalState(Masked(input), t) = "pending" => t..Len(input) \subseteq required,
           Left # {}
    PROVE  \E k \in DOMAIN cur : cur[k] \in Gone \ required
<1> DEFINE ms == Messages(cur)
           n == Len(cur)
           k == Index
           sub == SubSeq(ms, 1, k)
           atomic == cfg.strategy # "head" \/ cfg.atomic
           start == IF IsTail /\ ms[k].role = "tool" THEN ToolRoundStartForTail(sub) ELSE k
           end == IF atomic /\ HasToolCalls(ms[start]) THEN ToolRoundEndIndex(ms, start) ELSE k
<1>1. /\ n \in Nat /\ DOMAIN cur = 1..n /\ IsSequence(ms) /\ DOMAIN ms = 1..n /\ Len(ms) = n
      /\ \A j \in 1..n : cur[j] \in Positions
  <2>1. n \in Nat /\ DOMAIN cur = 1..n /\ \A j \in 1..n : cur[j] \in Positions
    OBVIOUS
  <2>2. ms \in Seq(Range(input)) /\ Len(ms) = n /\ DOMAIN ms = DOMAIN cur
    BY MessagesAre
  <2> HIDE DEF ms
  <2>3. IsSequence(ms)
    BY <2>2, SelfSequence
  <2> QED
    BY <2>1, <2>2, <2>3
<1>2. k \in Left /\ k \in 1..n /\ cur[k] \notin required /\ cur[k] \in Positions
  <2>1. Left \subseteq 1..n /\ Left \subseteq Nat
    BY <1>1 DEF Left
  <2>2. Max(Left) \in Left /\ Min(Left) \in Left
    BY <1>1, <2>1, MinOf, MaxOf
  <2>3. k \in Left
    BY <2>2 DEF Index
  <2> HIDE DEF k
  <2> QED
    BY <1>1, <2>1, <2>3 DEF Left
<1> HIDE DEF k
<1>3. CASE cfg.strategy = "drop"
  BY <1>1, <1>2, <1>3 DEF Gone
<1>4. ASSUME NEW j \in 1..n, j \in start..end, cur[j] \notin required, cfg.strategy # "drop"
      PROVE  \E i \in DOMAIN cur : cur[i] \in Gone \ required
  <2>1. Unit = start..end
    BY DEF Unit, CandidateUnit, k
  <2> HIDE DEF start, end
  <2>2. cur[j] \in Gone
    BY <1>4, <2>1 DEF Gone
  <2> QED
    BY <1>1, <1>4, <2>2
<1>5. CASE start = k
  <2>1. end \in k..n
    <3>1. ToolRoundEndIndex(ms, k) \in k..n
      <4> HIDE DEF ms
      <4> QED
        BY <1>1, <1>2, RoundEnd
    <3> HIDE DEF ms, start
    <3> QED
      BY <1>1, <1>2, <1>5, <3>1
  <2> HIDE DEF start, end
  <2>2. k \in start..end
    BY <1>1, <1>2, <1>5, <2>1
  <2> QED
    BY <1>2, <1>3, <1>4, <2>2
<1>6. CASE start # k
  <2>1. IsTail /\ start = ToolRoundStartForTail(sub) /\ atomic
    BY <1>6 DEF IsTail
  <2>2. IsSequence(sub) /\ Len(sub) = k /\ \A j \in 1..k : sub[j] = ms[j]
    <3>1. 1 \in Nat \ {0} /\ k \in Nat /\ k <= Len(ms) /\ 1 <= k + 1 /\ k - 1 + 1 = k
          /\ \A j \in 1..k : 1 + j - 1 = j
      BY <1>1, <1>2
    <3> HIDE DEF ms
    <3>2. /\ sub \in Seq(Range(ms)) /\ Len(sub) = k - 1 + 1
          /\ \A j \in 1..k - 1 + 1 : sub[j] = ms[1 + j - 1]
      BY <1>1, <3>1, SubSeqIs DEF IsSequence
    <3> HIDE DEF sub
    <3>3. IsSequence(sub)
      BY <3>2, SelfSequence
    <3> QED
      BY <3>1, <3>2, <3>3
  <2>3. /\ start \in 1..k /\ start < k
        /\ IsCompleteRound(sub, start) /\ ContiguousToolBlockEnd(sub, start) = k
    <3>1. Len(sub) > 0 /\ k \in Nat
      BY <1>1, <1>2, <2>2
    <3>2. LET s == ToolRoundStartForTail(sub)
          IN  /\ s \in 1..Len(sub)
              /\ s # Len(sub) => IsCompleteRound(sub, s) /\ ContiguousToolBlockEnd(sub, s) = Len(sub)
      <4> HIDE DEF sub
      <4> QED
        BY <2>2, <3>1, TailStart
    <3> HIDE DEF sub, start
    <3> QED
      BY <1>6, <2>1, <2>2, <3>1, <3>2
  <2>4. start \in DOMAIN cur /\ start \in Nat /\ start \in 1..n
    BY <1>1, <1>2, <2>3
  <2>5. HasToolCalls(ms[start]) /\ end = ToolRoundEndIndex(ms, start)
    <3>1. HasToolCalls(sub[start])
      BY <2>3 DEF IsCompleteRound
    <3>2. HasToolCalls(ms[start])
      <4> HIDE DEF sub, start
      <4> QED
        BY <2>2, <2>3, <3>1
    <3> QED
      BY <2>1, <3>2
  <2>6. CASE IsCompleteRound(ms, start)
    <3>1. end = ContiguousToolBlockEnd(ms, start)
      BY <2>5, <2>6 DEF ToolRoundEndIndex
    <3> HIDE DEF end, start
    <3>2. end >= k
      <4>0. start \in DOMAIN sub
        BY <2>2, <2>3, SequenceDomain
      <4> HIDE DEF sub, ms
      <4>1. /\ end \in start..n
            /\ end < n => ms[end + 1].role # "tool"
        BY <1>1, <2>4, <3>1, BlockEnd
      <4>2. \A j \in start+1..k : sub[j].role = "tool"
        BY <2>2, <2>3, <4>0, BlockEnd
      <4> SUFFICES ASSUME end < k
                   PROVE  FALSE
        BY <1>1, <1>2, <4>1
      <4>3. end + 1 \in start+1..k /\ end < n /\ end + 1 \in 1..k
        BY <1>1, <1>2, <2>3, <2>4, <4>1
      <4> QED
        BY <2>2, <4>1, <4>2, <4>3
    <3>3. k \in start..end
      <4>1. end \in start..n
        <5> HIDE DEF ms
        <5> QED
          BY <1>1, <2>4, <3>1, BlockEnd
      <4> QED
        BY <1>1, <1>2, <2>3, <2>4, <3>2, <4>1
    <3> QED
      BY <1>2, <1>3, <1>4, <3>3
  <2>7. CASE ~IsCompleteRound(ms, start)
    <3>1. end = start
      BY <2>5, <2>7 DEF ToolRoundEndIndex
    <3> HIDE DEF end, start
    <3>2. start \in start..end
      BY <2>4, <3>1
    <3>3. k \in DOMAIN cur
      BY <1>1, <1>2
    <3>4. cur[start] \notin required
      BY <1>2, <2>3, <2>4, <3>3, TailUnitRemoves
    <3> QED
      BY <1>3, <1>4, <2>4, <3>2, <3>4
  <2> QED
    BY <2>6, <2>7
<1> QED
  BY <1>5, <1>6

LEMMA NothingBelowZero == \A r \in Nat : ~(r > 0) => r = 0
OBVIOUS

LEMMA LengthBetween ==
    ASSUME NEW R, NEW s \in Seq(R), NEW t \in Seq(R), NEW u \in Seq(R),
           Len(u) <= Len(t), Len(t) < Len(s)
    PROVE  Len(t) \in Nat /\ Len(u) \in Nat /\ Len(u) < Len(s)
OBVIOUS

\* Every turn of evictCompleteCandidate makes its candidate shorter.
LEMMA CandidateShrinks ==
    ASSUME FixedCallsLast, Inv, Plan, pc \in Shrinking, pc = "evict complete", Left # {},
           NEW next,
           \/ next = Without(cur, Gone)
           \/ next = Without(Without(cur, Gone), Positions)
    PROVE  Len(next) \in Nat /\ Len(next) < Len(cur)
<1>1. /\ input \in Inputs /\ cur \in Seq(Positions) /\ InOrder(cur) /\ cfg \in Configs
      /\ required \subseteq Range(cur) /\ LayoutValid(Masked(input)) /\ ~cfg.summarizer
      /\ \A i \in Positions : input[i].id \in cfg.fixed => i \in required
      /\ cfg.rolling = 0 =>
           \A t \in required \cap Opens(Masked(input)) :
              t..ContiguousToolBlockEnd(Masked(input), t) \subseteq required
      /\ \A t \in Opens(Masked(input)) :
           LocalState(Masked(input), t) = "pending" => t..Len(input) \subseteq required
  BY DEF Inv, TypeOK, Plan, CandidateOK, LayoutKnown, FixedRequired, SuffixRequired, Composing
<1>2. cfg.rolling = 0
  <2>1. cfg.rolling \in Nat /\ (cfg.rolling > 0 => cfg.summarizer)
    BY <1>1, ConfigsAssumption DEF ConfigOK
  <2>2. \A r \in Nat : ~(r > 0) => r = 0
    BY NothingBelowZero
  <2> QED
    BY <1>1, <2>1, <2>2, Zenon
<1>3. PICK k \in DOMAIN cur : cur[k] \in Gone \ required
  BY <1>1, <1>2, UnitRemoves
<1>4. LET qs == Without(cur, Gone)
      IN  /\ qs \in Seq(Positions) /\ InOrder(qs) /\ required \subseteq Range(qs)
          /\ Len(qs) < Len(cur)
  BY <1>1, <1>3, WithoutOK
<1>5. LET qs == Without(Without(cur, Gone), Positions)
      IN  qs \in Seq(Positions) /\ Len(qs) <= Len(Without(cur, Gone))
  BY <1>1, <1>4, WithoutOK
<1> QED
  BY <1>1, <1>4, <1>5, LengthBetween

LEMMA EvictCompletePaced ==
    ASSUME FixedCallsLast, Inv, Plan, Paced, Count, EvictCompleteCandidate
    PROVE  Paced'
<1> DEFINE smaller == Without(cur, Gone)
           optional == Len(Kept(smaller, Optional))
           next == IF cfg.strategy = "head" /\ optional < cfg.minimum
                   THEN Without(smaller, Positions)
                   ELSE smaller
<1>1. pc \in Shrinking /\ pc = "evict complete" /\ pc # "done"
  BY DEF EvictCompleteCandidate, Shrinking
<1>2. \/ Fail("required overflow")
      \/ /\ Left # {}
         /\ cur' = next
         /\ IF Estimate(Messages(next)) > cfg.limit
            THEN UNCHANGED <<pc, out>>
            ELSE Goto("admit") /\ out' = Messages(next)
         /\ UNCHANGED <<input, cfg, required, output, decision, answer>>
  BY DEF EvictCompleteCandidate, Left, IsTail, Index, Unit, Gone
<1>3. CASE Fail("required overflow")
  BY <1>1, <1>3, FailPaced
<1>4. CASE /\ Left # {}
           /\ cur' = next
           /\ UNCHANGED pc \/ Goto("admit")
           /\ UNCHANGED input
  <2>1. next = Without(cur, Gone) \/ next = Without(Without(cur, Gone), Positions)
    OBVIOUS
  <2> HIDE DEF next
  <2>2. Len(next) \in Nat /\ Len(next) < Len(cur)
    BY <1>1, <1>4, <2>1, CandidateShrinks
  <2>3. CASE UNCHANGED pc
    <3>1. Len(cur') \in Nat /\ Len(cur') < Len(cur)
      BY <1>4, <2>2, Zenon
    <3> QED
      BY <1>1, <1>4, <2>3, <3>1, ShorterPaced
  <2>4. CASE Goto("admit")
    <3>1. Len(cur) \in Nat /\ Len(cur) <= Len(input)
      BY <1>1, CandidatePositions
    <3>2. steps <= 5 + Len(input) - Len(cur) => steps' <= 8 + Len(input)
      <4>1. steps \in Nat /\ Len(input) \in Nat /\ steps' = steps + 1
        BY Counted
      <4> QED
        BY <3>1, <4>1, ShrinkingTicks
    <3>3. steps' <= 8 + Len(input)' /\ steps' \in Nat
      BY <1>1, <1>4, <3>2, Counted, Zenon DEF Paced
    <3>4. pc' = "admit"
      BY <2>4 DEF Goto
    <3> QED
      BY <3>3, <3>4, Zenon DEF Paced
  <2> QED
    BY <1>4, <2>3, <2>4
<1> HIDE DEF next
<1> QED
  BY <1>2, <1>3, <1>4

LEMMA NextPaced ==
    ASSUME FixedCallsLast, Inv, Plan, Paced, [Next]_vars
    PROVE  Paced'
<1>1. CASE /\ Count
           /\ \/ InspectBudgetRounds \/ SelectRequired \/ MeasureInput \/ ProtectSuffix \/ Fits
              \/ StartCompleteEviction \/ Reserve \/ SummarizeOptional
  BY <1>1, StagePaced, OverflowPaced
<1>2. CASE Count /\ EvictCompleteCandidate
  BY <1>2, EvictCompletePaced
<1>3. CASE /\ Count
           /\ \/ OptionalFits \/ ApplyStrict \/ ApplyDrop \/ ApplyHost \/ ApplyHeadFast
              \/ ApplyHeadSelective \/ ApplyTail
  BY <1>3, StrategyPaced
<1>4. CASE Count /\ (DropHeadUnit \/ DropHeadDone \/ DropTailUnit)
  BY <1>4, DropHeadPaced, DropTailPaced
<1>5. CASE Count /\ (MergeRequired \/ Admit \/ Verify)
  BY <1>5, ComposePaced
<1>6. CASE Count /\ Interrupted
  BY <1>6, FailPaced DEF Interrupted
<1>7. CASE UNCHANGED vars
  <2>1. input' = input /\ pc' = pc /\ cur' = cur /\ steps' = steps
    BY <1>7 DEF vars
  <2>2. Len(input)' = Len(input) /\ Len(cur)' = Len(cur)
    BY <2>1
  <2>3. /\ steps' \in Nat
        /\ pc' = "inspect" => steps' = 0
        /\ pc' = "select" => steps' <= 1
        /\ pc' = "measure" => steps' <= 2
        /\ pc' = "protect" => steps' <= 3
        /\ pc' = "compare" => steps' <= 4
        /\ pc' \in {"summarize", "evict"} => steps' <= 5
    BY <2>1, Zenon DEF Paced
  <2>4. /\ pc' = "evict complete" => steps' <= 5 + Len(input)' - Len(cur)'
        /\ pc' \in {"drop head", "drop tail"} => steps' <= 6 + Len(input)' - Len(cur)'
    BY <2>1, <2>2, Zenon DEF Paced
  <2>5. /\ pc' = "merge" => steps' <= 7 + Len(input)'
        /\ pc' = "admit" => steps' <= 8 + Len(input)'
        /\ pc' = "verify" => steps' <= 9 + Len(input)'
        /\ pc' = "done" => steps' <= 10 + Len(input)'
    BY <2>1, <2>2, Zenon DEF Paced
  <2> QED
    BY <2>3, <2>4, <2>5, Zenon DEF Paced
<1> QED
  BY <1>1, <1>2, <1>3, <1>4, <1>5, <1>6, <1>7 DEF Next

\* A call returns after at most ten stages and one step for every message of its
\* input: each turn of an eviction loop takes a message away.
THEOREM EvictionEnds ==
    ASSUME FixedCallsLast
    PROVE  Spec => []Returns
<1>1. Init => Paced
  BY InitPaced
<1>2. Inv /\ Plan /\ Paced /\ [Next]_vars => Paced'
  BY NextPaced
<1>3. Init => Plan
  BY InitPlan
<1>4. Inv /\ Plan /\ [Next]_vars => Plan'
  BY NextPlan
<1>5. Inv /\ Plan /\ Paced => Returns
  <2> SUFFICES ASSUME Inv, Plan, Paced
               PROVE  steps <= 10 + Len(input)
    BY DEF Returns
  <2>1. CASE pc = "done"
    BY <2>1, Zenon DEF Paced
  <2>2. CASE pc # "done"
    <3>1. steps <= 9 + Len(input) /\ steps \in Nat /\ Len(input) \in Nat
      BY <2>2, StepLeft, InputLength DEF Paced
    <3> QED
      BY <3>1
  <2> QED
    BY <2>1, <2>2
<1> QED
  BY <1>1, <1>2, <1>3, <1>4, <1>5, InvHolds, PTL DEF Spec

-----------------------------------------------------------------------------
(* The weight of parts *)

\* A sum over the first k messages depends on these alone.
LEMMA SumsAgree ==
    ASSUME NEW s, NEW t, NEW n \in Nat, NEW m \in Nat, n <= m,
           \A k \in 1..n : s[k] = t[k],
           NEW f, SumsUpTo(f, n, s), NEW g, SumsUpTo(g, m, t)
    PROVE  \A k \in 0..n : f[k] = g[k]
<1> DEFINE N == {k \in Nat : k <= n => f[k] = g[k]}
<1>1. 0 \in N
  BY DEF SumsUpTo
<1>2. ASSUME NEW k \in Nat, k \in N
      PROVE  k + 1 \in N
  <2> SUFFICES ASSUME k + 1 <= n
               PROVE  f[k + 1] = g[k + 1]
    OBVIOUS
  <2>1. f[k] = g[k] /\ s[k + 1] = t[k + 1]
    BY <1>2
  <2>2. k + 1 \in 0..n /\ k + 1 \in 0..m /\ k + 1 # 0 /\ (k + 1) - 1 = k
    OBVIOUS
  <2>3. f[k + 1] = f[k] + s[k + 1].tokens
    BY <2>2 DEF SumsUpTo
  <2>4. g[k + 1] = g[k] + t[k + 1].tokens
    BY <2>2 DEF SumsUpTo
  <2> QED
    BY <2>1, <2>3, <2>4
<1> HIDE DEF N
<1>3. Nat \subseteq N
  BY <1>1, <1>2, NatSetInduction
<1> QED
  BY <1>3 DEF N

LEMMA WeightIs ==
    ASSUME NEW ms, IsSequence(ms)
    PROVE  \E f : SumsUpTo(f, Len(ms), ms) /\ Weight(ms) = f[Len(ms)]
<1> DEFINE n == Len(ms)
           f == CHOOSE f : SumsUpTo(f, n, ms)
<1>1. n \in Nat
  BY SequenceDomain
<1>2. Weight(ms) = f[n]
  BY DEF Weight, SumsUpTo
<1> HIDE DEF n
<1>3. SumsUpTo(f, n, ms)
  BY <1>1, SumsExists
<1> QED
  BY <1>2, <1>3 DEF n

LEMMA SumsStep ==
    ASSUME NEW s, NEW t, NEW n \in Nat, NEW m, m = n + 1,
           \A k \in 1..n : s[k] = t[k],
           NEW f, SumsUpTo(f, n, s), NEW g, SumsUpTo(g, m, t)
    PROVE  g[m] = f[n] + t[m].tokens
<1>1. m \in Nat /\ n <= m /\ n \in 0..n
  OBVIOUS
<1>2. \A k \in 0..n : f[k] = g[k]
  BY <1>1, SumsAgree
<1>3. f[n] = g[n]
  BY <1>1, <1>2
<1>4. m \in 0..m /\ m # 0 /\ m - 1 = n
  OBVIOUS
<1>5. g[m] = g[n] + t[m].tokens
  BY <1>4 DEF SumsUpTo
<1> QED
  BY <1>3, <1>5

\* Weight, by the last message.
LEMMA WeightAppend ==
    ASSUME NEW R, NEW s \in Seq(R), NEW x \in R
    PROVE  Weight(Append(s, x)) = Weight(s) + x.tokens
<1> DEFINE t == Append(s, x)
           n == Len(s)
<1>1. t \in Seq(R) /\ Len(t) = n + 1 /\ (\A k \in 1..n : t[k] = s[k]) /\ t[n + 1] = x /\ n \in Nat
  BY AppendProperties, LenProperties
<1>2. IsSequence(s) /\ IsSequence(t)
  BY <1>1, SeqOfRange DEF IsSequence
<1> HIDE DEF t, n
<1>3. PICK f : SumsUpTo(f, n, s) /\ Weight(s) = f[n]
  BY <1>2, WeightIs DEF n
<1>4. PICK g : SumsUpTo(g, n + 1, t) /\ Weight(t) = g[n + 1]
  BY <1>1, <1>2, WeightIs
<1>5. g[n + 1] = f[n] + t[n + 1].tokens
  <2> DEFINE m == n + 1
  <2>1. m = n + 1 /\ n \in Nat /\ SumsUpTo(f, n, s) /\ SumsUpTo(g, m, t) /\ \A k \in 1..n : s[k] = t[k]
    BY <1>1, <1>3, <1>4
  <2> HIDE DEF m
  <2>2. g[m] = f[n] + t[m].tokens
    BY <2>1, SumsStep
  <2> QED
    BY <2>1, <2>2
<1> QED
  BY <1>1, <1>3, <1>4, <1>5 DEF t

LEMMA AddingUp ==
    \A a, b, t \in Nat : /\ (a + b) + t = (a + t) + b
                         /\ (a + b) + t = a + (b + t)
OBVIOUS

\* The weight of two parts is that of both.
LEMMA WeightSplits ==
    ASSUME input \in Inputs, NEW A, NEW B, A \cap B = {}
    PROVE  /\ Weight(At(A)) \in Nat /\ Weight(At(B)) \in Nat
           /\ Weight(At(A \cup B)) = Weight(At(A)) + Weight(At(B))
<1> DEFINE W(s, S) == Weight(Messages(Kept(s, S)))
           P == {s \in Seq(Positions) : W(s, A) \in Nat /\ W(s, B) \in Nat
                                         /\ W(s, A \cup B) = W(s, A) + W(s, B)}
<1>1. << >> \in P
  <2>1. << >> \in Seq(Positions)
    BY EmptySeq
  <2>2. Messages(<< >>) = << >>
    <3>1. Messages(<< >>) \in Seq(Range(input)) /\ Len(Messages(<< >>)) = 0
      BY <2>1, MessagesAre
    <3> HIDE DEF Messages
    <3> QED
      BY <3>1, EmptySeq
  <2>3. \A S : W(<< >>, S) = 0
    BY <2>2, KeptEmpty, EmptyWeight
  <2> HIDE DEF W
  <2> QED
    BY <2>1, <2>3
<1>2. ASSUME NEW s \in Seq(Positions), NEW i \in Positions, s \in P
      PROVE  Append(s, i) \in P
  <2>1. input[i].tokens \in Nat
    BY InputsAssumption DEF Positions
  <2>2. ASSUME NEW S
        PROVE  W(Append(s, i), S) = IF i \in S THEN W(s, S) + input[i].tokens ELSE W(s, S)
    <3>1. Kept(Append(s, i), S) = IF i \in S THEN Append(Kept(s, S), i) ELSE Kept(s, S)
      BY KeptAppend
    <3>2. Kept(s, S) \in Seq(Positions)
      <4>1. Kept(s, S) \in Seq(Positions \cap S)
        BY KeptType
      <4> QED
        BY <4>1
    <3>3. Messages(Append(Kept(s, S), i)) = Append(Messages(Kept(s, S)), input[i])
      BY <3>2, MessagesAppend
    <3>4. Messages(Kept(s, S)) \in Seq(Range(input)) /\ input[i] \in Range(input)
      BY <3>2, MessagesAre DEF Positions, Range
    <3>5. Weight(Append(Messages(Kept(s, S)), input[i])) = Weight(Messages(Kept(s, S))) + input[i].tokens
      BY <3>4, WeightAppend
    <3> HIDE DEF Messages
    <3> QED
      BY <3>1, <3>3, <3>5
  <2> HIDE DEF W
  <2>3. /\ W(s, A) \in Nat /\ W(s, B) \in Nat
        /\ W(s, A \cup B) = W(s, A) + W(s, B)
    BY <1>2
  <2>4. Append(s, i) \in Seq(Positions)
    BY AppendProperties
  <2>5. CASE i \in A
    <3>1. i \in A \cup B /\ i \notin B
      BY <2>5
    <3>2. /\ W(Append(s, i), A) = W(s, A) + input[i].tokens
          /\ W(Append(s, i), B) = W(s, B)
          /\ W(Append(s, i), A \cup B) = W(s, A \cup B) + input[i].tokens
      BY <2>2, <2>5, <3>1
    <3> QED
      BY <2>1, <2>3, <2>4, <3>2, AddingUp
  <2>6. CASE i \in B
    <3>1. i \in A \cup B /\ i \notin A
      BY <2>6
    <3>2. /\ W(Append(s, i), A) = W(s, A)
          /\ W(Append(s, i), B) = W(s, B) + input[i].tokens
          /\ W(Append(s, i), A \cup B) = W(s, A \cup B) + input[i].tokens
      BY <2>2, <2>6, <3>1
    <3> QED
      BY <2>1, <2>3, <2>4, <3>2, AddingUp
  <2>7. CASE i \notin A /\ i \notin B
    <3>1. i \notin A \cup B
      BY <2>7
    <3>2. /\ W(Append(s, i), A) = W(s, A)
          /\ W(Append(s, i), B) = W(s, B)
          /\ W(Append(s, i), A \cup B) = W(s, A \cup B)
      BY <2>2, <2>7, <3>1
    <3> QED
      BY <2>3, <2>4, <3>2
  <2> QED
    BY <2>5, <2>6, <2>7
<1> HIDE DEF P, W
<1>3. Seq(Positions) \subseteq P
  BY <1>1, <1>2, SeqSetInduction
<1>4. [i \in Positions |-> i] \in Seq(Positions)
  BY PositionsAre
<1> QED
  BY <1>3, <1>4 DEF P, W, At, Ascending

-----------------------------------------------------------------------------
(* Where messages stand, and what mergeRequired takes back *)

\* The members of O with fewer than c smaller ones.
Lowest(O, c) == {i \in O : Cardinality({j \in O : j < i}) < c}

LEMMA FinitePart ==
    ASSUME NEW k \in Nat, NEW O, O \subseteq 1..k
    PROVE  IsFiniteSet(O) /\ Cardinality(O) \in Nat
<1>1. IsFiniteSet(1..k)
  BY FS_Interval
<1>2. IsFiniteSet(O)
  BY <1>1, FS_Subset
<1> QED
  BY <1>2, FS_CardinalityType

\* There are c of them.
LEMMA LowestCount ==
    ASSUME NEW k \in Nat
    PROVE  \A O \in SUBSET (1..k) : \A c \in 0..Cardinality(O) : Cardinality(Lowest(O, c)) = c
<1> DEFINE N == {n \in Nat : \A O \in SUBSET (1..k) :
                    Cardinality(O) = n => \A c \in 0..n : Cardinality(Lowest(O, c)) = c}
<1>1. 0 \in N
  <2> SUFFICES ASSUME NEW O \in SUBSET (1..k), Cardinality(O) = 0
               PROVE  \A c \in 0..0 : Cardinality(Lowest(O, c)) = c
    OBVIOUS
  <2>1. O = {}
    BY FinitePart, FS_EmptySet
  <2>2. \A c : Lowest(O, c) = {}
    BY <2>1 DEF Lowest
  <2>3. \A c : Cardinality(Lowest(O, c)) = 0
    BY <2>2, FS_EmptySet
  <2> QED
    BY <2>3
<1>2. ASSUME NEW n \in Nat, n \in N
      PROVE  n + 1 \in N
  <2> SUFFICES ASSUME NEW O \in SUBSET (1..k), Cardinality(O) = n + 1,
                      NEW c \in 0..n + 1
               PROVE  Cardinality(Lowest(O, c)) = c
    BY DEF N
  <2>1. IsFiniteSet(O) /\ O # {}
    <3>1. IsFiniteSet(O)
      BY FinitePart
    <3>2. Cardinality({}) = 0 /\ n + 1 # 0
      BY FS_EmptySet
    <3> QED
      BY <3>1, <3>2
  <2>2. PICK x \in O : \A y \in O : y <= x
    <3>1. Max(O) \in O /\ \A y \in O : Max(O) >= y
      BY <2>1, MaxOf
    <3>2. O \subseteq Nat
      OBVIOUS
    <3>3. \A y \in O : y <= Max(O)
      BY <3>1, <3>2
    <3> QED
      BY <3>1, <3>3
  <2> DEFINE P == O \ {x}
  <2>3. IsFiniteSet(P) /\ Cardinality(P) = n /\ P \in SUBSET (1..k)
    <3>1. Cardinality(P) = Cardinality(O) - 1 /\ IsFiniteSet(P)
      BY <2>1, <2>2, FS_RemoveElement
    <3> QED
      BY <3>1
  <2>4. {j \in O : j < x} = P
    <3>1. \A y \in O : y <= x => (y < x <=> y # x)
      OBVIOUS
    <3> QED
      BY <2>2, <3>1
  <2>5. ASSUME NEW i \in P
        PROVE  {j \in O : j < i} = {j \in P : j < i} /\ Cardinality({j \in O : j < i}) <= n
    <3>1. {j \in O : j < i} = {j \in P : j < i}
      BY <2>2
    <3>2. {j \in P : j < i} \in SUBSET P
      OBVIOUS
    <3>3. Cardinality({j \in P : j < i}) <= n
      BY <2>3, <3>2, FS_Subset
    <3> QED
      BY <3>1, <3>3
  <2>6. CASE c \in 0..n
    <3>1. Cardinality(Lowest(P, c)) = c
      BY <1>2, <2>3, <2>6 DEF N
    <3>2. x \notin Lowest(O, c)
      BY <2>3, <2>4, <2>6 DEF Lowest
    <3>3. \A i \in P : i \in Lowest(O, c) <=> i \in Lowest(P, c)
      <4> SUFFICES ASSUME NEW i \in P
                   PROVE  i \in Lowest(O, c) <=> i \in Lowest(P, c)
        OBVIOUS
      <4>1. {j \in O : j < i} = {j \in P : j < i}
        BY <2>5
      <4> QED
        BY <4>1 DEF Lowest
    <3>4. Lowest(O, c) \subseteq O /\ Lowest(P, c) \subseteq P
      BY DEF Lowest
    <3>5. Lowest(O, c) = Lowest(P, c)
      BY <3>2, <3>3, <3>4
    <3> QED
      BY <3>1, <3>5
  <2>7. CASE c = n + 1
    <3>1. ASSUME NEW i \in O
          PROVE  Cardinality({j \in O : j < i}) < c
      <4>1. CASE i = x
        BY <2>3, <2>4, <2>7, <4>1
      <4>2. CASE i # x
        <5>1. i \in P
          BY <4>2
        <5>2. {j \in O : j < i} \subseteq 1..k
          OBVIOUS
        <5>3. Cardinality({j \in O : j < i}) \in Nat
          BY <5>2, FinitePart
        <5>4. Cardinality({j \in O : j < i}) <= n
          BY <2>5, <5>1
        <5> QED
          BY <2>7, <5>3, <5>4
      <4> QED
        BY <4>1, <4>2
    <3>2. Lowest(O, c) = O
      BY <3>1 DEF Lowest
    <3> QED
      BY <2>7, <3>2
  <2> QED
    BY <2>6, <2>7
<1> HIDE DEF N
<1>3. Nat \subseteq N
  BY <1>1, <1>2, NatSetInduction
<1>4. \A O \in SUBSET (1..k) : Cardinality(O) \in Nat
  BY FinitePart
<1> QED
  BY <1>3, <1>4 DEF N

\* The members of S at which m stands.
Places(m, S) == {i \in S : input[i] = m}

LEMMA PlacesFinite ==
    ASSUME input \in Inputs, NEW S \in SUBSET Positions, NEW m
    PROVE  IsFiniteSet(Places(m, S)) /\ Cardinality(Places(m, S)) \in Nat
<1>1. Len(input) \in Nat /\ Places(m, S) \subseteq 1..Len(input)
  BY PositionsAre DEF Places
<1> QED
  BY <1>1, FinitePart

LEMMA OccurrencesAt ==
    ASSUME input \in Inputs, NEW S \in SUBSET Positions, NEW m
    PROVE  Occurrences(m, At(S)) = Cardinality(Places(m, S))
<1> DEFINE ps == Ascending(S)
           K == {k \in DOMAIN ps : input[ps[k]] = m}
           f == [k \in K |-> ps[k]]
<1>1. ps \in Seq(Positions) /\ InOrder(ps) /\ Range(ps) = S
  <2>1. Positions \cap S = S
    OBVIOUS
  <2> QED
    BY <2>1, AscendingIs
<1>2. DOMAIN ps = 1..Len(ps) /\ Len(ps) \in Nat
  BY <1>1
<1>3. IsFiniteSet(K)
  BY <1>2, FinitePart
<1>4. f \in [K -> Places(m, S)]
  BY <1>1 DEF Places, Range
<1>5. \A i, k \in K : f[i] = f[k] => i = k
  <2> SUFFICES ASSUME NEW i \in K, NEW k \in K, f[i] = f[k], i # k
               PROVE  FALSE
    OBVIOUS
  <2>1. ps[i] = ps[k] /\ ps[i] \in Nat /\ i \in Nat /\ k \in Nat /\ i \in DOMAIN ps /\ k \in DOMAIN ps
    BY <1>1, <1>2, PositionsAre
  <2>2. i < k \/ k < i
    BY <2>1
  <2> QED
    BY <1>1, <2>1, <2>2 DEF InOrder
<1>6. \A i \in Places(m, S) : \E k \in K : f[k] = i
  BY <1>1 DEF Places, Range
<1>7. ExistsBijection(K, Places(m, S))
  <2> HIDE DEF f, K
  <2>1. f \in Bijection(K, Places(m, S))
    <3>1. f \in Surjection(K, Places(m, S))
      BY <1>4, <1>6 DEF Surjection
    <3>2. f \in Injection(K, Places(m, S))
      BY <1>4, <1>5 DEF Injection, IsInjective
    <3> QED
      BY <3>1, <3>2 DEF Bijection
  <2> QED
    BY <2>1 DEF ExistsBijection
<1>8. Cardinality(Places(m, S)) = Cardinality(K)
  BY <1>3, <1>7, FS_Bijection
<1>9. {k \in DOMAIN At(S) : At(S)[k] = m} = K
  BY DEF At, Messages
<1> QED
  BY <1>8, <1>9 DEF Occurrences

LEMMA OneMessage ==
    ASSUME input \in Inputs, NEW i \in Positions
    PROVE  At({i}) = <<input[i]>>
<1> DEFINE ps == Ascending({i})
<1>1. ps \in Seq(Positions) /\ InOrder(ps) /\ Range(ps) = {i}
  <2>1. Positions \cap {i} = {i}
    OBVIOUS
  <2> QED
    BY <2>1, AscendingIs
<1>2. ps \in Seq(Nat) /\ <<i>> \in Seq(Nat)
  BY <1>1, PositionsAre
<1>3. InOrder(<<i>>) /\ Range(<<i>>) = {i}
  BY DEF InOrder, Range
<1>4. ps = <<i>>
  BY <1>1, <1>2, <1>3, OrderedUnique
<1> HIDE DEF ps
<1> QED
  BY <1>4 DEF At, Messages, ps

\* One place less.
LEMMA PlacesLess ==
    ASSUME input \in Inputs, NEW S \in SUBSET Positions, NEW i \in S, NEW m
    PROVE  Cardinality(Places(m, S \ {i}))
             = IF input[i] = m THEN Cardinality(Places(m, S)) - 1 ELSE Cardinality(Places(m, S))
<1>1. IsFiniteSet(Places(m, S))
  BY PlacesFinite
<1>2. CASE input[i] = m
  <2>1. Places(m, S \ {i}) = Places(m, S) \ {i} /\ i \in Places(m, S)
    BY <1>2 DEF Places
  <2>2. Cardinality(Places(m, S) \ {i}) = Cardinality(Places(m, S)) - 1
    BY <1>1, <2>1, FS_RemoveElement
  <2> QED
    BY <1>2, <2>1, <2>2
<1>3. CASE input[i] # m
  <2>1. Places(m, S \ {i}) = Places(m, S)
    BY <1>3 DEF Places
  <2> QED
    BY <1>3, <2>1
<1> QED
  BY <1>2, <1>3

LEMMA SomePlace ==
    ASSUME input \in Inputs, NEW S \in SUBSET Positions, NEW m
    PROVE  Cardinality(Places(m, S)) = 0 <=> \A i \in S : input[i] # m
<1>1. IsFiniteSet(Places(m, S))
  BY PlacesFinite
<1>2. Cardinality(Places(m, S)) = 0 <=> Places(m, S) = {}
  BY <1>1, FS_EmptySet
<1> QED
  BY <1>2 DEF Places

\* Parts with the same messages weigh the same.
LEMMA SameWeight ==
    ASSUME input \in Inputs
    PROVE  \A A, B \in SUBSET Positions :
             (\A m : Cardinality(Places(m, A)) = Cardinality(Places(m, B)))
             => Weight(At(A)) = Weight(At(B))
<1> DEFINE Alike(A, B) == \A m : Cardinality(Places(m, A)) = Cardinality(Places(m, B))
           N == {n \in Nat : \A A, B \in SUBSET Positions :
                    Cardinality(A) = n /\ Alike(A, B) => Weight(At(A)) = Weight(At(B))}
<1>0. \A S \in SUBSET Positions : IsFiniteSet(S) /\ Cardinality(S) \in Nat
  <2>1. Len(input) \in Nat /\ Positions = 1..Len(input)
    BY PositionsAre
  <2> QED
    BY <2>1, FinitePart
<1>1. 0 \in N
  <2> SUFFICES ASSUME NEW A \in SUBSET Positions, NEW B \in SUBSET Positions,
                      Cardinality(A) = 0, Alike(A, B)
               PROVE  Weight(At(A)) = Weight(At(B))
    OBVIOUS
  <2>1. A = {}
    BY <1>0, FS_EmptySet
  <2>2. ASSUME NEW i \in B
        PROVE  FALSE
    <3>1. Cardinality(Places(input[i], A)) = 0
      BY <2>1, SomePlace
    <3>2. Cardinality(Places(input[i], B)) = 0
      BY <3>1
    <3> QED
      BY <3>2, SomePlace
  <2>3. B = {}
    BY <2>2
  <2> QED
    BY <2>1, <2>3
<1>2. ASSUME NEW n \in Nat, n \in N
      PROVE  n + 1 \in N
  <2> SUFFICES ASSUME NEW A \in SUBSET Positions, NEW B \in SUBSET Positions,
                      Cardinality(A) = n + 1, Alike(A, B)
               PROVE  Weight(At(A)) = Weight(At(B))
    OBVIOUS
  <2>1. PICK i \in A : TRUE
    <3>1. Cardinality({}) = 0 /\ n + 1 # 0
      BY FS_EmptySet
    <3>2. A # {}
      BY <3>1
    <3> QED
      BY <3>2
  <2>2. PICK j \in B : input[j] = input[i]
    <3>1. Cardinality(Places(input[i], A)) # 0
      BY <2>1, SomePlace
    <3>2. Cardinality(Places(input[i], B)) # 0
      BY <3>1
    <3> QED
      BY <3>2, SomePlace
  <2> DEFINE C == A \ {i}
             D == B \ {j}
  <2>3. C \in SUBSET Positions /\ D \in SUBSET Positions /\ Cardinality(C) = n
    <3>1. Cardinality(C) = Cardinality(A) - 1
      BY <1>0, <2>1, FS_RemoveElement
    <3> QED
      BY <3>1
  <2>4. Alike(C, D)
    <3> SUFFICES ASSUME NEW m
                 PROVE  Cardinality(Places(m, C)) = Cardinality(Places(m, D))
      OBVIOUS
    <3>1. Cardinality(Places(m, C))
            = IF input[i] = m THEN Cardinality(Places(m, A)) - 1 ELSE Cardinality(Places(m, A))
      BY PlacesLess
    <3>2. Cardinality(Places(m, D))
            = IF input[j] = m THEN Cardinality(Places(m, B)) - 1 ELSE Cardinality(Places(m, B))
      BY PlacesLess
    <3>3. Cardinality(Places(m, A)) = Cardinality(Places(m, B))
      OBVIOUS
    <3> QED
      BY <2>2, <3>1, <3>2, <3>3
  <2>5. Weight(At(C)) = Weight(At(D))
    <3> HIDE DEF C, D, Alike
    <3> QED
      BY <1>2, <2>3, <2>4
  <2>6. At({i}) = At({j})
    <3>1. i \in Positions /\ j \in Positions
      OBVIOUS
    <3>2. At({i}) = <<input[i]>> /\ At({j}) = <<input[j]>>
      BY <3>1, OneMessage
    <3> QED
      BY <2>2, <3>2
  <2>7. Weight(At(A)) = Weight(At(C)) + Weight(At({i}))
    <3>1. C \cap {i} = {} /\ C \cup {i} = A
      OBVIOUS
    <3> HIDE DEF C
    <3> QED
      BY <3>1, WeightSplits
  <2>8. Weight(At(B)) = Weight(At(D)) + Weight(At({j}))
    <3>1. D \cap {j} = {} /\ D \cup {j} = B
      OBVIOUS
    <3> HIDE DEF D
    <3> QED
      BY <3>1, WeightSplits
  <2> QED
    BY <2>5, <2>6, <2>7, <2>8
<1> HIDE DEF N
<1>3. Nat \subseteq N
  BY <1>1, <1>2, NatSetInduction
<1> QED
  BY <1>0, <1>3 DEF N

\* What is taken back for an output weighs what the output does.
LEMMA TakenWeight ==
    ASSUME input \in Inputs, NEW S \in SUBSET Optional, output = At(S)
    PROVE  LET T == {i \in Optional : Taken(i)}
           IN  /\ Weight(At(T)) = Weight(At(S))
               /\ \A i \in S : \E j \in T : j <= i /\ input[j] = input[i]
<1> DEFINE T == {i \in Optional : Taken(i)}
<1>1. Optional \subseteq Positions /\ S \in SUBSET Positions /\ T \in SUBSET Positions
  BY DEF Optional
<1>2. Len(input) \in Nat /\ Positions = 1..Len(input)
  BY PositionsAre
<1>3. ASSUME NEW m
      PROVE  /\ Occurrences(m, output) = Cardinality(Places(m, S))
             /\ Cardinality(Places(m, S)) \in 0..Cardinality(Places(m, Optional))
  <2>1. Occurrences(m, output) = Cardinality(Places(m, S))
    BY <1>1, OccurrencesAt
  <2>2. Places(m, S) \in SUBSET Places(m, Optional)
    BY DEF Places
  <2>3. IsFiniteSet(Places(m, Optional)) /\ Cardinality(Places(m, Optional)) \in Nat
    BY <1>1, PlacesFinite
  <2>4. Cardinality(Places(m, S)) \in Nat
    BY <1>1, PlacesFinite
  <2>5. Cardinality(Places(m, S)) <= Cardinality(Places(m, Optional))
    BY <2>2, <2>3, FS_Subset
  <2> QED
    BY <2>1, <2>3, <2>4, <2>5
<1>4. ASSUME NEW m
      PROVE  Places(m, T) = Lowest(Places(m, Optional), Occurrences(m, output))
  <2>1. ASSUME NEW i \in Places(m, Optional)
        PROVE  {j \in Optional : j < i /\ input[j] = input[i]} = {j \in Places(m, Optional) : j < i}
    BY DEF Places
  <2>2. \A i \in Places(m, Optional) : input[i] = m
    BY DEF Places
  <2>3. \A i \in Places(m, Optional) :
          i \in Places(m, T) <=> i \in Lowest(Places(m, Optional), Occurrences(m, output))
    <3> SUFFICES ASSUME NEW i \in Places(m, Optional)
                 PROVE  i \in Places(m, T) <=> i \in Lowest(Places(m, Optional), Occurrences(m, output))
      OBVIOUS
    <3>1. Taken(i) <=> Cardinality({j \in Places(m, Optional) : j < i}) < Occurrences(m, output)
      BY <2>1, <2>2 DEF Taken
    <3>2. i \in Optional /\ input[i] = m
      BY DEF Places
    <3> QED
      BY <3>1, <3>2 DEF Places, Lowest
  <2>4. Places(m, T) \subseteq Places(m, Optional)
    BY DEF Places
  <2>5. Lowest(Places(m, Optional), Occurrences(m, output)) \subseteq Places(m, Optional)
    BY DEF Lowest
  <2> QED
    BY <2>3, <2>4, <2>5
<1> HIDE DEF T
<1>5. ASSUME NEW m
      PROVE  Cardinality(Places(m, T)) = Cardinality(Places(m, S))
  <2>1. Places(m, Optional) \in SUBSET (1..Len(input))
    BY <1>1, <1>2 DEF Places
  <2>2. Cardinality(Lowest(Places(m, Optional), Cardinality(Places(m, S)))) = Cardinality(Places(m, S))
    BY <1>2, <1>3, <2>1, LowestCount
  <2> QED
    BY <1>3, <1>4, <2>2
<1>6. Weight(At(T)) = Weight(At(S))
  BY <1>1, <1>5, SameWeight
<1>7. ASSUME NEW i \in S
      PROVE  \E j \in T : j <= i /\ input[j] = input[i]
  <2> DEFINE m == input[i]
             O == Places(m, Optional)
  <2>1. O # {} /\ O \subseteq Nat /\ i \in O
    <3>1. i \in O
      BY DEF Places
    <3>2. O \subseteq 1..Len(input)
      BY <1>1, <1>2 DEF Places
    <3>3. 1..Len(input) \subseteq Nat
      BY <1>2
    <3> HIDE DEF O
    <3> QED
      BY <3>1, <3>2, <3>3
  <2>2. Min(O) \in O /\ \A y \in O : Min(O) <= y
    <3> HIDE DEF O
    <3> QED
      BY <2>1, MinOf
  <2> DEFINE j == Min(O)
  <2> HIDE DEF j
  <2>3. j \in O /\ (\A y \in O : j <= y) /\ j <= i
    BY <2>1, <2>2 DEF j
  <2>4. {k \in O : k < j} = {}
    BY <2>1, <2>3
  <2>5. Cardinality({k \in O : k < j}) = 0
    BY <2>4, FS_EmptySet
  <2>6. 0 < Occurrences(m, output)
    <3>1. Cardinality(Places(m, S)) # 0
      BY <1>1, SomePlace
    <3>2. Cardinality(Places(m, S)) \in Nat
      BY <1>1, PlacesFinite
    <3> QED
      BY <1>3, <3>1, <3>2
  <2>7. j \in Lowest(O, Occurrences(m, output))
    BY <2>3, <2>5, <2>6 DEF Lowest
  <2>8. j \in Places(m, T)
    BY <1>4, <2>7
  <2> QED
    BY <2>3, <2>8 DEF Places
<1> QED
  BY <1>6, <1>7 DEF T

-----------------------------------------------------------------------------
(* No needless loss: the invariant *)

Refusals == {"required overflow", "budget exceeded", "block too large"}
Evicting == {"evict", "drop head"}

\* The strategies that evict whole units, and the one of them that stops at the
\* first tail that fits.
Whole == ~cfg.summarizer /\ (cfg.strategy = "drop" \/ (cfg.strategy = "head" /\ cfg.atomic))
Thorough == ~cfg.summarizer /\ cfg.strategy = "head" /\ cfg.atomic /\ cfg.minimum = 0

\* What is left of the optional messages when those before i are gone.
From(i) == {j \in Optional : j >= i}

\* The unit that starts at i would have fitted with everything behind it.
Needless(i) == input[i].role # "tool" /\ Estimate(At(required \cup From(i))) <= cfg.limit

\* What is left is a tail of the optional messages, and none in front of it is
\* gone without need.
FrontGone(rest) ==
    \E p \in 1..Len(input) + 1 : rest = From(p) /\ \A i \in Optional : i < p => ~Needless(i)

\* A refusal comes only when what is required does not fit alone.
RefusalDue ==
    /\ pc = "evict complete" => Estimate(Messages(cur)) > cfg.limit
    /\ pc \in Evicting \/ pc = "merge" => cfg.additive \/ required = {}
    /\ pc = "merge" => output = << >> \/ Estimate(output) <= Allowance
    /\ pc = "admit" /\ Estimate(out) > cfg.limit => out = At(required)
    /\ pc # "drop tail"
    /\ answer \in Refusals => Estimate(At(required)) > cfg.limit

\* An optional message is in the result, or an equal one before it, unless its
\* tail did not fit.
LossDue ==
    /\ pc = "evict complete" => FrontGone(Range(cur) \ required)
    /\ pc \in Evicting => FrontGone(Range(cur))
    /\ pc = "merge" => \E rest \in SUBSET Optional : output = At(rest) /\ FrontGone(rest)
    /\ pc \in {"admit", "verify"} \/ answer = "ok" =>
         \A i \in Optional :
            Needless(i) => \E j \in Optional : j <= i /\ \E k \in DOMAIN out : out[k] = input[j]

\* With Inv and Plan what makes NoNeedlessLoss inductive.
Due == (Whole => RefusalDue) /\ (Thorough => LossDue)

LEMMA SameLimits ==
    ASSUME UNCHANGED <<input, cfg, required>>
    PROVE  /\ Whole' = Whole /\ Thorough' = Thorough
           /\ Optional' = Optional
           /\ Allowance' = Allowance
           /\ At(required)' = At(required)
           /\ \A i : Needless(i)' <=> Needless(i)
           /\ \A S : FrontGone(S)' <=> FrontGone(S)
<1>1. Positions' = Positions /\ \A S : At(S)' = At(S)
  BY Same
<1>2. Optional' = Optional /\ Reserved' = Reserved
  BY SameParts
<1>3. \A i : From(i)' = From(i)
  BY <1>2 DEF From
<1>4. \A i : At(required \cup From(i))' = At(required \cup From(i))
  BY <1>1, <1>3
<1>5. \A i : Needless(i)' <=> Needless(i)
  <2> SUFFICES ASSUME NEW i
               PROVE  Needless(i)' <=> Needless(i)
    OBVIOUS
  <2>1. Estimate(At(required \cup From(i)))' = Estimate(At(required \cup From(i)))
    BY <1>4 DEF Estimate
  <2> QED
    BY <2>1 DEF Needless
<1>6. \A S : FrontGone(S)' <=> FrontGone(S)
  <2>1. input' = input
    OBVIOUS
  <2> QED
    BY <1>2, <1>3, <1>5, <2>1 DEF FrontGone
<1>7. Whole' = Whole /\ Thorough' = Thorough
  BY DEF Whole, Thorough
<1>8. Allowance' = Allowance
  BY <1>2 DEF Allowance
<1> QED
  BY <1>1, <1>2, <1>5, <1>6, <1>7, <1>8

LEMMA HundredPercent ==
    ASSUME NEW limit \in Nat
    PROVE  BudgetPercent(limit, 100) = limit
<1> DEFINE q == limit \div 100
           r == limit % 100
<1>1. q \in Nat /\ r \in Nat /\ limit = 100 * q + r
  OBVIOUS
<1>2. BudgetPercent(limit, 100) = q * 100 + (r * 100) \div 100
  BY DEF BudgetPercent
<1> HIDE DEF q, r
<1>3. (r * 100) \div 100 = r
  BY <1>1
<1> QED
  BY <1>1, <1>2, <1>3

\* Without a summarizer a block is touched only when it is over the limit.
LEMMA TriggerIsLimit ==
    ASSUME Inv, ~cfg.summarizer, pc \in Deciding
    PROVE  decision.trigger = cfg.limit /\ decision.before = Estimate(input)
<1>1. ConfigOK(cfg)
  BY ConfigsAssumption DEF Inv, TypeOK
<1>2. cfg.trigger = 100 /\ cfg.limit \in Nat
  BY <1>1 DEF ConfigOK
<1>3. decision.trigger = BudgetPercent(cfg.limit, cfg.trigger) /\ decision.before = Estimate(input)
  BY DEF Inv, Measured
<1> QED
  BY <1>2, <1>3, HundredPercent

LEMMA Counts ==
    ASSUME Inv
    PROVE  /\ input \in Inputs /\ cfg \in Configs /\ cfg.limit \in Nat
           /\ Estimate(input) \in Nat /\ (\A S : Estimate(At(S)) \in Nat)
           /\ pc # "done" => answer = "none"
<1>1. input \in Inputs /\ cfg \in Configs /\ (pc # "done" => answer = "none")
  BY DEF Inv, TypeOK
<1> QED
  BY <1>1, PartsCounted, PercentsOfLimit

\* Measuring by parts is measuring the whole, where the pipeline does it.
LEMMA PartsAddUp ==
    ASSUME Inv, cfg.additive \/ required = {}, required \subseteq Positions, NEW S \in SUBSET Optional
    PROVE  Estimate(At(S)) <= Allowance <=> Estimate(At(required \cup S)) <= cfg.limit
<1>1. cfg.limit \in Nat /\ (\A R : Estimate(At(R)) \in Nat) /\ input \in Inputs
  BY Counts
<1>2. CASE required = {}
  <2>1. Allowance = cfg.limit
    BY <1>1, <1>2 DEF Allowance, Reserved
  <2>2. required \cup S = S
    BY <1>2
  <2> QED
    BY <2>1, <2>2
<1>3. CASE required # {} /\ cfg.additive
  <2>1. Allowance = cfg.limit - Estimate(At(required))
    BY <1>3 DEF Allowance, Reserved
  <2>2. required \cap S = {}
    BY DEF Optional
  <2>3. Estimate(At(required \cup S)) = Estimate(At(required)) + Estimate(At(S))
    BY <1>1, <1>3, <2>2, WeightSplits DEF Estimate
  <2>4. Estimate(At(required)) \in Nat /\ Estimate(At(S)) \in Nat
    BY <1>1
  <2> QED
    BY <1>1, <2>1, <2>3, <2>4
<1> QED
  BY <1>2, <1>3

-----------------------------------------------------------------------------
(* Tails of the optional messages, and steps that keep to them *)

\* A unit is one message and the tool messages behind it.
LEMMA UnitTools ==
    ASSUME NEW ms, IsSequence(ms), NEW i \in DOMAIN ms
    PROVE  /\ ToolRoundEndIndex(ms, i) \in i..Len(ms)
           /\ \A k \in i+1..ToolRoundEndIndex(ms, i) : ms[k].role = "tool"
<1>1. Len(ms) \in Nat /\ i \in 1..Len(ms)
  BY SequenceDomain
<1>2. CASE IsCompleteRound(ms, i)
  <2>1. ToolRoundEndIndex(ms, i) = ContiguousToolBlockEnd(ms, i)
    BY <1>2 DEF ToolRoundEndIndex
  <2> QED
    BY <2>1, BlockEnd
<1>3. CASE ~IsCompleteRound(ms, i)
  <2>1. ToolRoundEndIndex(ms, i) = i
    BY <1>3 DEF ToolRoundEndIndex
  <2> QED
    BY <1>1, <2>1
<1> QED
  BY <1>2, <1>3

\* The first optional unit may go when what is left does not fit.
LEMMA UnitGone ==
    ASSUME input \in Inputs, NEW ps \in Seq(Positions), InOrder(ps),
           NEW a \in DOMAIN ps, NEW e \in a..Len(ps),
           ps[a] \notin required,
           \A k \in 1..a-1 : ps[k] \in required,
           \A k \in a+1..e : input[ps[k]].role = "tool",
           FrontGone(Range(ps) \ required),
           ~(Estimate(At(required \cup (Range(ps) \ required))) <= cfg.limit)
    PROVE  FrontGone({ps[k] : k \in e+1..Len(ps)} \ required)
<1> DEFINE rest == Range(ps) \ required
           q == ps[e] + 1
<1>1. /\ Len(ps) \in Nat /\ DOMAIN ps = 1..Len(ps)
      /\ a \in Nat /\ e \in Nat /\ a <= e /\ e \in DOMAIN ps
  OBVIOUS
<1>2. /\ Len(input) \in Nat /\ Positions = 1..Len(input)
      /\ \A k \in DOMAIN ps : ps[k] \in 1..Len(input) /\ ps[k] \in Nat
  BY PositionsAre
<1>3. PICK p \in 1..Len(input) + 1 : rest = From(p) /\ \A i \in Optional : i < p => ~Needless(i)
  BY DEF FrontGone
<1>4. \A i, j \in DOMAIN ps : i <= j => ps[i] <= ps[j]
  <2> SUFFICES ASSUME NEW i \in DOMAIN ps, NEW j \in DOMAIN ps, i <= j
               PROVE  ps[i] <= ps[j]
    OBVIOUS
  <2>1. i = j \/ i < j
    BY <1>1
  <2> QED
    BY <1>2, <2>1 DEF InOrder
<1>5. q \in 1..Len(input) + 1 /\ ps[a] <= ps[e] /\ ps[e] \in Nat
  <2>1. ps[e] \in 1..Len(input)
    BY <1>1, <1>2
  <2>2. ps[a] <= ps[e]
    BY <1>1, <1>4
  <2> QED
    BY <1>2, <2>1, <2>2
<1>6. ps[a] \in rest /\ ps[a] >= p /\ p \in Nat
  BY <1>1, <1>2, <1>3 DEF Range, From
<1>7. ps[e] >= p
  BY <1>2, <1>5, <1>6, <1>1
<1>8. Optional \subseteq Nat
  BY <1>2 DEF Optional
<1>9. {ps[k] : k \in e+1..Len(ps)} \ required = From(q)
  <2>1. ASSUME NEW k \in e+1..Len(ps), ps[k] \notin required
        PROVE  ps[k] \in From(q)
    <3>1. k \in DOMAIN ps /\ e < k
      BY <1>1
    <3>2. ps[e] < ps[k]
      BY <1>1, <3>1 DEF InOrder
    <3>3. ps[k] \in Optional
      BY <1>2, <2>1, <3>1 DEF Optional
    <3> QED
      BY <1>2, <1>5, <3>1, <3>2, <3>3 DEF From
  <2>2. ASSUME NEW j \in From(q)
        PROVE  /\ \E k \in e+1..Len(ps) : j = ps[k]
               /\ j \notin required
    <3>1. j \in Optional /\ j >= q /\ j \in Nat
      BY <1>8 DEF From
    <3>2. j \in From(p)
      BY <1>5, <1>6, <1>7, <3>1 DEF From
    <3>3. PICK k \in DOMAIN ps : j = ps[k]
      BY <1>3, <3>2 DEF Range
    <3>4. ~(k <= e)
      <4> SUFFICES ASSUME k <= e
                   PROVE  FALSE
        OBVIOUS
      <4>1. ps[k] <= ps[e]
        BY <1>1, <1>4
      <4> QED
        BY <1>5, <3>1, <3>3, <4>1
    <3>5. k \in e+1..Len(ps)
      BY <1>1, <3>4
    <3> QED
      BY <3>1, <3>3, <3>5 DEF Optional
  <2> HIDE DEF q
  <2> QED
    BY <2>1, <2>2
<1>10. ASSUME NEW i \in Optional, i < q
       PROVE  ~Needless(i)
  <2>1. CASE i < p
    BY <1>3, <2>1
  <2>2. CASE i >= p
    <3>1. i \in rest /\ i \in Nat
      BY <1>3, <1>8, <2>2 DEF From
    <3>2. PICK k \in DOMAIN ps : i = ps[k]
      BY <3>1 DEF Range
    <3>3. k <= e
      <4> SUFFICES ASSUME e < k
                   PROVE  FALSE
        BY <1>1
      <4>1. ps[e] < ps[k]
        BY <1>1 DEF InOrder
      <4> QED
        BY <1>5, <1>10, <3>1, <3>2, <4>1
    <3>4. k >= a
      <4> SUFFICES ASSUME k < a
                   PROVE  FALSE
        BY <1>1
      <4>1. ps[k] \in required
        BY <1>1
      <4> QED
        BY <3>1, <3>2, <4>1
    <3>5. CASE k = a
      <4>1. \A j \in rest : j >= i
        <5> SUFFICES ASSUME NEW j \in rest
                     PROVE  j >= i
          OBVIOUS
        <5>1. PICK l \in DOMAIN ps : j = ps[l]
          BY DEF Range
        <5>2. ~(l < a)
          BY <1>1, <5>1
        <5>3. a <= l
          BY <1>1, <5>2
        <5>4. ps[a] <= ps[l]
          BY <1>4, <5>3
        <5> QED
          BY <1>2, <3>2, <3>5, <5>1, <5>4
      <4>2. From(i) \subseteq From(p)
        <5> SUFFICES ASSUME NEW j \in From(i)
                     PROVE  j \in From(p)
          OBVIOUS
        <5>1. j \in Optional /\ j >= i /\ j \in Nat
          BY <1>8 DEF From
        <5>2. j >= p
          BY <1>6, <2>2, <3>1, <5>1
        <5> QED
          BY <5>1, <5>2 DEF From
      <4>3. From(p) \subseteq From(i)
        <5>1. \A j \in From(p) : j \in Optional /\ j >= i
          BY <1>3, <4>1 DEF From
        <5> QED
          BY <5>1 DEF From
      <4>4. From(i) = Range(ps) \ required
        BY <1>3, <4>2, <4>3
      <4> QED
        BY <4>4 DEF Needless
    <3>6. CASE k # a
      <4>1. k \in a+1..e
        BY <1>1, <3>3, <3>4, <3>6
      <4>2. input[i].role = "tool"
        BY <3>2, <4>1
      <4> QED
        BY <4>2 DEF Needless
    <3> QED
      BY <3>5, <3>6
  <2> QED
    BY <1>6, <1>8, <2>1, <2>2
<1> HIDE DEF q
<1> QED
  BY <1>5, <1>9, <1>10 DEF FrontGone

Judged == {"evict complete", "drop tail", "merge", "admit", "verify"}

\* Before eviction nothing is lost, and other answers say nothing of it.
LEMMA QuietDue ==
    ASSUME pc' \notin Judged \cup Evicting, answer' \notin Refusals \cup {"ok"}
    PROVE  Due'
<1>1. RefusalDue'
  BY Zenon DEF RefusalDue, Judged
<1>2. LossDue'
  BY Zenon DEF LossDue, Judged
<1> QED
  BY <1>1, <1>2 DEF Due

LEMMA SameEstimate ==
    ASSUME UNCHANGED <<input, cfg, required>>
    PROVE  /\ Estimate(At(required))' = Estimate(At(required))
           /\ \A x : x = out' => Estimate(out)' = Estimate(x)
           /\ \A x : x = output' => Estimate(output)' = Estimate(x)
           /\ cfg'.limit = cfg.limit /\ cfg'.additive = cfg.additive
<1>1. At(required)' = At(required)
  BY SameLimits
<1> QED
  BY <1>1 DEF Estimate

LEMMA RefusedDue ==
    ASSUME pc' = "done", answer' # "ok", UNCHANGED <<input, cfg, required>>,
           Whole => Estimate(At(required)) > cfg.limit
    PROVE  Due'
<1>1. ~(pc' \in Judged) /\ ~(pc' \in Evicting)
  BY Zenon DEF Judged, Evicting
<1>2. LossDue'
  BY <1>1, Zenon DEF LossDue, Judged
<1>3. ASSUME Whole'
      PROVE  RefusalDue'
  <2>1. Estimate(At(required))' > cfg'.limit
    BY <1>3, SameLimits, SameEstimate
  <2> QED
    BY <1>1, <2>1, Zenon DEF RefusalDue, Judged
<1> QED
  BY <1>2, <1>3 DEF Due

LEMMA ComposedDue ==
    ASSUME pc' \in {"admit", "verify"}, answer' = "none", UNCHANGED <<input, cfg, required>>,
           NEW result, out' = result,
           Whole /\ pc' = "admit" /\ Estimate(result) > cfg.limit => result = At(required),
           Thorough => \A i \in Optional :
              Needless(i) => \E j \in Optional : j <= i /\ \E k \in DOMAIN result : result[k] = input[j]
    PROVE  Due'
<1>1. pc' # "evict complete" /\ pc' # "merge" /\ pc' \notin Evicting /\ answer' \notin Refusals
      /\ pc' # "drop tail"
  BY Zenon DEF Evicting, Refusals
<1>2. ASSUME Whole'
      PROVE  RefusalDue'
  <2>1. pc' = "admit" /\ Estimate(out)' > cfg'.limit => out' = At(required)'
    BY <1>2, SameLimits, SameEstimate
  <2> QED
    BY <1>1, <2>1, Zenon DEF RefusalDue
<1>3. ASSUME Thorough'
      PROVE  LossDue'
  <2>1. \A i \in Optional' : Needless(i)' =>
           \E j \in Optional' : j <= i /\ \E k \in DOMAIN out' : out'[k] = input'[j]
    BY <1>3, SameLimits
  <2> QED
    BY <1>1, <2>1, Zenon DEF LossDue
<1> QED
  BY <1>2, <1>3 DEF Due

\* Only the strategies that evict whole units are held to it.
LEMMA NotWholeDue ==
    ASSUME ~Whole, UNCHANGED <<input, cfg, required>>
    PROVE  Due'
<1>1. ~Whole'
  BY SameLimits
<1> QED
  BY <1>1 DEF Due, Whole, Thorough

LEMMA ToMergeDue ==
    ASSUME Inv, Due, pc \in Evicting, NEW ms, output' = ms, pc' = "merge",
           UNCHANGED <<input, cfg, required, answer>>,
           Whole => ms = << >> \/ Estimate(ms) <= Allowance,
           Thorough => \E rest \in SUBSET Optional : ms = At(rest) /\ FrontGone(rest)
    PROVE  Due'
<1>1. answer' = "none"
  <2>1. pc # "done"
    BY Zenon DEF Evicting
  <2> QED
    BY <2>1, Counts
<1>2. /\ pc' # "evict complete" /\ pc' \notin Evicting /\ pc' # "admit" /\ pc' \notin {"admit", "verify"}
      /\ pc' # "drop tail" /\ answer' \notin Refusals /\ answer' # "ok"
  BY <1>1, Zenon DEF Evicting, Refusals
<1>3. ASSUME Whole'
      PROVE  RefusalDue'
  <2>1. Whole
    BY <1>3, SameLimits
  <2>2. cfg.additive \/ required = {}
    BY <2>1, Zenon DEF Due, RefusalDue
  <2>3. output' = << >> \/ Estimate(output)' <= Allowance'
    BY <2>1, SameLimits, SameEstimate
  <2>4. cfg'.additive \/ required' = {}
    BY <2>2
  <2> QED
    BY <1>2, <2>3, <2>4, Zenon DEF RefusalDue
<1>4. ASSUME Thorough'
      PROVE  LossDue'
  <2>1. PICK rest \in SUBSET Optional : ms = At(rest) /\ FrontGone(rest)
    BY <1>4, SameLimits
  <2>2. rest \in SUBSET Optional' /\ output' = At(rest)' /\ FrontGone(rest)'
    BY <2>1, SameLimits, Same
  <2>3. \E part \in SUBSET Optional' : output' = At(part)' /\ FrontGone(part)'
    BY <2>2
  <2> QED
    BY <1>2, <2>3, Zenon DEF LossDue
<1> QED
  BY <1>3, <1>4 DEF Due

LEMMA EvictedDue ==
    ASSUME Inv, Due, pc \in Evicting, NEW ms, Evicted(ms),
           Whole => ms = << >> \/ Estimate(ms) <= Allowance,
           Thorough => \E rest \in SUBSET Optional : ms = At(rest) /\ FrontGone(rest)
    PROVE  Due'
<1>1. CASE Fail("invalid round")
  <2>1. pc' \notin Judged \cup Evicting /\ answer' \notin Refusals \cup {"ok"}
    BY <1>1, Zenon DEF Fail, Answer, Judged, Evicting, Refusals
  <2> QED
    BY <2>1, QuietDue
<1>2. CASE /\ output' = ms
           /\ Goto("merge")
           /\ UNCHANGED <<input, cfg, required, cur, decision, out, answer>>
  BY <1>2, ToMergeDue DEF Goto
<1> QED
  BY <1>1, <1>2 DEF Evicted

LEMMA Present ==
    ASSUME input \in Inputs, NEW S \in SUBSET Positions, NEW j \in S
    PROVE  \E k \in DOMAIN At(S) : At(S)[k] = input[j]
<1>1. Ascending(S) \in Seq(Positions) /\ Range(Ascending(S)) = Positions \cap S
  BY AscendingIs
<1>2. PICK k \in DOMAIN Ascending(S) : Ascending(S)[k] = j
  BY <1>1 DEF Range
<1>3. DOMAIN Messages(Ascending(S)) = DOMAIN Ascending(S) /\ Messages(Ascending(S))[k] = input[j]
  BY <1>1, <1>2, MessagesAre
<1> QED
  BY <1>3 DEF At

LEMMA CompleteDue ==
    ASSUME pc' = "evict complete", answer' = "none", UNCHANGED <<input, cfg, required>>,
           NEW ps, cur' = ps,
           Whole => Estimate(Messages(ps)) > cfg.limit,
           Thorough => FrontGone(Range(ps) \ required)
    PROVE  Due'
<1>1. /\ pc' \notin Evicting /\ pc' # "merge" /\ pc' # "drop tail" /\ pc' # "admit"
      /\ pc' \notin {"admit", "verify"} /\ answer' \notin Refusals /\ answer' # "ok"
  BY Zenon DEF Evicting, Refusals
<1>2. ASSUME Whole'
      PROVE  RefusalDue'
  <2>1. Messages(cur)' = Messages(ps)
    BY DEF Messages
  <2>2. Estimate(Messages(cur))' > cfg'.limit
    BY <1>2, <2>1, SameLimits DEF Estimate
  <2> QED
    BY <1>1, <2>2, Zenon DEF RefusalDue
<1>3. ASSUME Thorough'
      PROVE  LossDue'
  <2>1. (Range(cur) \ required)' = Range(ps) \ required
    BY DEF Range
  <2>2. FrontGone(Range(ps) \ required)'
    BY <1>3, SameLimits
  <2>3. FrontGone(Range(cur) \ required)'
    BY <2>1, <2>2
  <2> QED
    BY <1>1, <2>3, Zenon DEF LossDue
<1> QED
  BY <1>2, <1>3 DEF Due

LEMMA EvictingDue ==
    ASSUME pc' \in Evicting, answer' = "none", UNCHANGED <<input, cfg, required>>,
           NEW ps, cur' = ps,
           Whole => cfg.additive \/ required = {},
           Thorough => FrontGone(Range(ps))
    PROVE  Due'
<1>1. /\ pc' # "evict complete" /\ pc' # "merge" /\ pc' # "drop tail" /\ pc' # "admit"
      /\ pc' \notin {"admit", "verify"} /\ answer' \notin Refusals /\ answer' # "ok"
  BY Zenon DEF Evicting, Refusals
<1>2. ASSUME Whole'
      PROVE  RefusalDue'
  <2>1. cfg'.additive \/ required' = {}
    BY <1>2, SameLimits
  <2> QED
    BY <1>1, <2>1, Zenon DEF RefusalDue
<1>3. ASSUME Thorough'
      PROVE  LossDue'
  <2>1. FrontGone(Range(ps))'
    BY <1>3, SameLimits
  <2>2. FrontGone(Range(cur))'
    BY <2>1
  <2> QED
    BY <1>1, <2>2, Zenon DEF LossDue
<1> QED
  BY <1>2, <1>3 DEF Due

-----------------------------------------------------------------------------
(* Every step keeps it *)

LEMMA AllLeft ==
    ASSUME input \in Inputs
    PROVE  FrontGone(Optional)
<1>1. Len(input) \in Nat /\ Positions = 1..Len(input)
  BY PositionsAre
<1>2. Optional \subseteq 1..Len(input)
  BY <1>1 DEF Optional
<1>3. \A i \in 1..Len(input) : i >= 1 /\ ~(i < 1)
  BY <1>1
<1>4. From(1) = Optional
  BY <1>2, <1>3 DEF From
<1>5. 1 \in 1..Len(input) + 1
  BY <1>1
<1>6. \A i \in Optional : ~(i < 1)
  BY <1>2, <1>3
<1> QED
  BY <1>4, <1>5, <1>6 DEF FrontGone

\* The whole input loses nothing.
LEMMA NothingLost ==
    ASSUME input \in Inputs
    PROVE  \A i \in Optional :
             Needless(i) => \E j \in Optional : j <= i /\ \E k \in DOMAIN input : input[k] = input[j]
<1>1. Optional \subseteq DOMAIN input /\ Optional \subseteq Nat
  BY PositionsAre DEF Optional, Positions
<1>2. \A i \in Nat : i <= i
  OBVIOUS
<1> QED
  BY <1>1, <1>2

LEMMA FitsDue ==
    ASSUME Inv, Fits
    PROVE  Due'
<1>1. pc = "compare" /\ pc' = "verify" /\ out' = input /\ UNCHANGED <<input, cfg, required, answer>>
  BY DEF Fits, Goto
<1>2. pc # "done" /\ pc' # "admit"
  BY <1>1, Zenon
<1>3. answer' = "none" /\ input \in Inputs
  BY <1>1, <1>2, Counts
<1> QED
  BY <1>1, <1>2, <1>3, NothingLost, ComposedDue

LEMMA StartCompleteEvictionDue ==
    ASSUME Inv, StartCompleteEviction
    PROVE  Due'
<1>1. /\ pc = "compare" /\ decision.before > decision.trigger /\ ~cfg.summarizer
      /\ pc # "done" /\ pc \in Deciding
  BY Zenon DEF StartCompleteEviction, CompleteEviction, Deciding
<1>2. input \in Inputs /\ answer = "none"
  BY <1>1, Counts
<1>3. CASE cfg.strategy = "strict" /\ Fail("budget exceeded")
  <2>1. ~Whole
    BY <1>3, Zenon DEF Whole
  <2> QED
    BY <1>3, <2>1, NotWholeDue DEF Fail
<1>4. CASE /\ cur' = Ascending(Positions)
           /\ Goto("evict complete")
           /\ UNCHANGED <<input, cfg, required, output, decision, out, answer>>
  <2>1. pc' = "evict complete" /\ answer' = "none"
    BY <1>2, <1>4 DEF Goto
  <2>2. Messages(Ascending(Positions)) = input /\ Range(Ascending(Positions)) = Positions
    <3>1. Positions \cap Positions = Positions
      OBVIOUS
    <3> QED
      BY <1>2, <3>1, AllMessages, AscendingIs
  <2>3. Estimate(Messages(Ascending(Positions))) > cfg.limit
    BY <1>1, <2>2, TriggerIsLimit
  <2>4. FrontGone(Range(Ascending(Positions)) \ required)
    <3>1. Range(Ascending(Positions)) \ required = Optional
      BY <2>2 DEF Optional
    <3> QED
      BY <1>2, <3>1, AllLeft
  <2> QED
    BY <1>4, <2>1, <2>3, <2>4, CompleteDue
<1> QED
  BY <1>3, <1>4 DEF StartCompleteEviction

LEMMA ReserveDue ==
    ASSUME Inv, Plan, Reserve
    PROVE  Due'
<1>1. /\ pc = "compare" /\ pc # "done" /\ pc \in Deciding /\ pc \in Composing
      /\ decision.before > decision.trigger /\ ~CompleteEviction
  BY Zenon DEF Reserve, Deciding, Composing
<1>2. input \in Inputs /\ answer = "none" /\ cfg.limit \in Nat
  BY <1>1, Counts
<1>3. CASE Reserved > cfg.limit /\ Fail("required overflow")
  <2>1. required # {}
    <3> SUFFICES ASSUME required = {}
                 PROVE  FALSE
      OBVIOUS
    <3>1. Reserved = 0
      BY DEF Reserved
    <3>2. ~(0 > cfg.limit)
      BY <1>2
    <3> QED
      BY <1>3, <3>1, <3>2
  <2>2. Estimate(At(required)) > cfg.limit
    BY <1>3, <2>1 DEF Reserved
  <2>3. pc' = "done" /\ answer' # "ok" /\ UNCHANGED <<input, cfg, required>>
    BY <1>3, Zenon DEF Fail, Answer
  <2> QED
    BY <2>2, <2>3, RefusedDue
<1>4. CASE Optional = {} /\ decision.before > cfg.limit /\ Fail("required overflow")
  <2>1. decision.before = Estimate(input)
    BY <1>1 DEF Inv, Measured
  <2>2. At(required) = input
    <3>1. input = At(required \cup Optional)
      BY <1>1, WholeIsPart
    <3>2. required \cup Optional = required
      BY <1>4
    <3> QED
      BY <3>1, <3>2
  <2>3. Estimate(At(required)) > cfg.limit
    BY <1>4, <2>1, <2>2
  <2>4. pc' = "done" /\ answer' # "ok" /\ UNCHANGED <<input, cfg, required>>
    BY <1>4, Zenon DEF Fail, Answer
  <2> QED
    BY <2>3, <2>4, RefusedDue
<1>5. CASE /\ out' = input
           /\ Goto("verify")
           /\ UNCHANGED <<input, cfg, required, cur, output, answer>>
  <2>1. pc' = "verify" /\ pc' # "admit" /\ answer' = "none"
    BY <1>2, <1>5, Zenon DEF Goto
  <2> QED
    BY <1>2, <1>5, <2>1, NothingLost, ComposedDue
<1>6. CASE /\ cur' = Ascending(Optional)
           /\ Goto(IF cfg.summarizer THEN "summarize" ELSE "evict")
           /\ UNCHANGED <<input, cfg, required, output, decision, out, answer>>
  <2>1. CASE cfg.summarizer
    <3>1. ~Whole
      BY <2>1 DEF Whole
    <3> QED
      BY <1>6, <3>1, NotWholeDue
  <2>2. CASE ~cfg.summarizer
    <3>1. pc' = "evict" /\ pc' \in Evicting /\ answer' = "none"
      BY <1>2, <1>6, <2>2, Zenon DEF Goto, Evicting
    <3>2. Whole => cfg.additive \/ required = {}
      BY <1>1, <2>2, Zenon DEF Whole, CompleteEviction
    <3>3. Range(Ascending(Optional)) = Optional
      <4>1. Positions \cap Optional = Optional
        BY DEF Optional
      <4> QED
        BY <1>2, <4>1, AscendingIs
    <3>4. FrontGone(Range(Ascending(Optional)))
      BY <1>2, <3>3, AllLeft
    <3> QED
      BY <1>6, <3>1, <3>2, <3>4, EvictingDue
  <2> QED
    BY <2>1, <2>2
<1> QED
  BY <1>3, <1>4, <1>5, <1>6 DEF Reserve

\* What fits its allowance goes on as it is.
LEMMA CandidateLeft ==
    ASSUME Inv, Plan, Due, pc \in Evicting
    PROVE  /\ Messages(cur) = At(Range(cur)) /\ Range(cur) \in SUBSET Optional
           /\ Thorough => FrontGone(Range(cur))
           /\ Whole => cfg.additive \/ required = {}
<1>1. pc \in {"evict", "drop head", "drop tail"}
  BY Zenon DEF Evicting
<1>2. input \in Inputs /\ cur \in Seq(Positions) /\ InOrder(cur) /\ Range(cur) \subseteq Optional
  BY <1>1, CandidateIs
<1>3. Messages(cur) = At(Range(cur))
  BY <1>2, OrderedIsPart
<1>4. Thorough => FrontGone(Range(cur))
  BY Zenon DEF Due, LossDue
<1>5. Whole => cfg.additive \/ required = {}
  BY Zenon DEF Due, RefusalDue
<1> QED
  BY <1>2, <1>3, <1>4, <1>5

LEMMA TakeDue ==
    ASSUME Inv, Plan, Due,
           OptionalFits \/ ApplyStrict \/ ApplyDrop \/ ApplyHost \/ ApplyHeadFast
           \/ ApplyHeadSelective \/ ApplyTail
    PROVE  Due'
<1>1. pc = "evict" /\ pc \in Evicting
  BY Zenon DEF OptionalFits, ApplyStrict, ApplyDrop, ApplyHost, ApplyHeadFast, ApplyHeadSelective,
               ApplyTail, ApplyStrategy, Evicting
<1>2. /\ Messages(cur) = At(Range(cur)) /\ Range(cur) \in SUBSET Optional
      /\ Thorough => FrontGone(Range(cur))
      /\ Whole => cfg.additive \/ required = {}
  BY <1>1, CandidateLeft
<1>3. CASE OptionalFits
  <2>1. /\ Estimate(Messages(cur)) <= Allowance /\ output' = Messages(cur) /\ pc' = "merge"
        /\ UNCHANGED <<input, cfg, required, answer>>
    BY <1>3 DEF OptionalFits, Goto
  <2> QED
    BY <1>1, <1>2, <2>1, ToMergeDue
<1>4. CASE ApplyDrop
  <2>1. Evicted(<< >>) /\ ~Thorough
    BY <1>4, Zenon DEF ApplyDrop, ApplyStrategy, Thorough
  <2> QED
    BY <1>1, <2>1, EvictedDue
<1>5. CASE ApplyHeadSelective
  <2>1. pc' = "drop head" /\ pc' \in Evicting /\ UNCHANGED <<input, cfg, required, cur, answer>>
    BY <1>5, Zenon DEF ApplyHeadSelective, Goto, Evicting
  <2>2. answer' = "none"
    <3>1. pc # "done"
      BY <1>1, Zenon
    <3> QED
      BY <2>1, <3>1, Counts
  <2> QED
    BY <1>2, <2>1, <2>2, EvictingDue
<1>6. CASE ApplyStrict \/ ApplyHost \/ ApplyHeadFast \/ ApplyTail
  <2>1. ~Whole
    BY <1>6, Zenon DEF ApplyStrict, ApplyHost, ApplyHeadFast, ApplyTail, ApplyStrategy, Whole
  <2>2. UNCHANGED <<input, cfg, required>>
    BY <1>6 DEF ApplyStrict, ApplyHost, ApplyHeadFast, ApplyTail, Evicted, Fail
  <2> QED
    BY <2>1, <2>2, NotWholeDue
<1> QED
  BY <1>3, <1>4, <1>5, <1>6

LEMMA DropTailDue ==
    ASSUME Inv, Due, DropTailUnit
    PROVE  Due'
<1>1. pc = "drop tail" /\ UNCHANGED <<input, cfg, required>>
  BY DEF DropTailUnit, Evicted, Fail
<1>2. ~Whole
  BY <1>1 DEF Due, RefusalDue
<1> QED
  BY <1>1, <1>2, NotWholeDue

LEMMA DropHeadDoneDue ==
    ASSUME Inv, Plan, Due, DropHeadDone
    PROVE  Due'
<1>1. /\ pc = "drop head" /\ pc \in Evicting
      /\ cur = << >> \/ Estimate(Messages(cur)) <= Allowance
      /\ Evicted(EnforceMinMessages(Messages(cur)))
  BY Zenon DEF DropHeadDone, Evicting
<1>2. /\ Messages(cur) = At(Range(cur)) /\ Range(cur) \in SUBSET Optional
      /\ Thorough => FrontGone(Range(cur))
  BY <1>1, CandidateLeft
<1> DEFINE ms == EnforceMinMessages(Messages(cur))
<1>3. ms = << >> \/ Estimate(ms) <= Allowance
  <2>1. ms = << >> \/ ms = Messages(cur)
    BY DEF EnforceMinMessages
  <2>2. cur = << >> => Messages(cur) = << >>
    <3>1. cur = << >> => Range(cur) = {}
      BY DEF Range
    <3>2. input \in Inputs
      BY Counts
    <3> QED
      BY <1>2, <3>1, <3>2, EmptyPart
  <2> HIDE DEF ms
  <2> QED
    BY <1>1, <2>1, <2>2
<1>4. Thorough => ms = Messages(cur)
  <2>1. Len(Messages(cur)) \in Nat
    <3>1. pc \in {"evict", "drop head", "drop tail"}
      BY <1>1, Zenon
    <3> QED
      BY <3>1, CandidateIs
  <2>2. \A n \in Nat : ~(n < 0)
    OBVIOUS
  <2> QED
    BY <2>1, <2>2 DEF EnforceMinMessages, Thorough
<1>5. Thorough => \E rest \in SUBSET Optional : ms = At(rest) /\ FrontGone(rest)
  BY <1>2, <1>4
<1> HIDE DEF ms
<1>6. Evicted(ms)
  BY <1>1 DEF ms
<1> QED
  BY <1>1, <1>3, <1>5, <1>6, EvictedDue

\* What is over stays over, as a negation.
LEMMA OverAllowance ==
    ASSUME Inv, NEW S, Estimate(At(S)) > Allowance
    PROVE  ~(Estimate(At(S)) <= Allowance)
<1>1. cfg.limit \in Nat /\ \A R : Estimate(At(R)) \in Nat
  BY Counts
<1>2. Reserved \in Nat
  BY <1>1 DEF Reserved
<1>3. Allowance \in Int
  BY <1>1, <1>2 DEF Allowance
<1>4. Estimate(At(S)) \in Nat
  BY <1>1
<1> QED
  BY <1>3, <1>4

LEMMA RangeOfRest ==
    ASSUME NEW R, NEW s \in Seq(R), NEW e \in 1..Len(s)
    PROVE  Range(SubSeq(s, e + 1, Len(s))) = {s[k] : k \in e+1..Len(s)}
<1> DEFINE a == e + 1
           b == Len(s)
           t == SubSeq(s, a, b)
<1>1. a \in Nat \ {0} /\ b \in Nat /\ b <= Len(s) /\ a <= b + 1
  OBVIOUS
<1>2. /\ t \in Seq(R) /\ Len(t) = b - a + 1
      /\ \A i \in 1..b - a + 1 : t[i] = s[a + i - 1]
  BY <1>1, SubSeqIs
<1> HIDE DEF a, b, t
<1>3. DOMAIN t = 1..b - a + 1
  BY <1>2
<1>4. \A i \in DOMAIN t : \E k \in a..b : t[i] = s[k]
  <2> SUFFICES ASSUME NEW i \in DOMAIN t
               PROVE  \E k \in a..b : t[i] = s[k]
    OBVIOUS
  <2>1. i \in 1..b - a + 1 /\ a + i - 1 \in a..b
    BY <1>1, <1>3
  <2> QED
    BY <1>2, <2>1
<1>5. \A k \in a..b : \E i \in DOMAIN t : t[i] = s[k]
  <2> SUFFICES ASSUME NEW k \in a..b
               PROVE  \E i \in DOMAIN t : t[i] = s[k]
    OBVIOUS
  <2>1. k - a + 1 \in 1..b - a + 1 /\ a + (k - a + 1) - 1 = k
    BY <1>1
  <2> QED
    BY <1>2, <1>3, <2>1
<1>6. Range(t) = {s[k] : k \in a..b}
  BY <1>4, <1>5 DEF Range
<1> QED
  BY <1>6 DEF a, b, t

LEMMA DropHeadUnitDue ==
    ASSUME Inv, Plan, Due, DropHeadUnit
    PROVE  Due'
<1> DEFINE ms == Messages(cur)
           end == IF cfg.atomic /\ ms[1].role = "assistant" /\ HasToolCalls(ms[1])
                  THEN ToolRoundEndIndex(ms, 1)
                  ELSE 1
           next == SubSeq(cur, end + 1, Len(cur))
<1>1. /\ pc = "drop head" /\ pc' = pc /\ cur # << >> /\ Estimate(ms) > Allowance
      /\ cur' = next /\ UNCHANGED <<input, cfg, required, answer>>
  BY DEF DropHeadUnit
<1>2. pc \in Evicting /\ pc # "done" /\ pc \in {"evict", "drop head", "drop tail"}
  BY <1>1, Zenon DEF Evicting
<1>3. /\ ms = At(Range(cur)) /\ Range(cur) \in SUBSET Optional
      /\ Thorough => FrontGone(Range(cur))
      /\ Whole => cfg.additive \/ required = {}
  BY <1>2, CandidateLeft
<1>4. /\ input \in Inputs /\ cur \in Seq(Positions) /\ InOrder(cur)
      /\ Len(ms) = Len(cur) /\ IsSequence(ms) /\ Len(cur) \in Nat
  BY <1>2, CandidateIs
<1>5. /\ DOMAIN cur = 1..Len(cur) /\ 1 \in DOMAIN cur
  <2>1. DOMAIN cur = 1..Len(cur)
    BY <1>4
  <2>2. Len(cur) # 0
    <3>1. cur # << >>
      BY <1>1, Zenon
    <3> QED
      BY <1>4, <3>1, EmptySeq
  <2> QED
    BY <1>4, <2>1, <2>2
<1>6. DOMAIN ms = DOMAIN cur /\ \A k \in DOMAIN cur : ms[k] = input[cur[k]]
  BY <1>4, MessagesAre
<1>7. end \in 1..Len(cur) /\ \A k \in 1+1..end : input[cur[k]].role = "tool"
  <2> HIDE DEF ms
  <2>1. CASE end = 1
    <3>1. \A k \in 1+1..1 : FALSE
      OBVIOUS
    <3> HIDE DEF end
    <3> QED
      BY <1>5, <2>1, <3>1
  <2>2. CASE end = ToolRoundEndIndex(ms, 1)
    <3>1. /\ ToolRoundEndIndex(ms, 1) \in 1..Len(ms)
          /\ \A k \in 1+1..ToolRoundEndIndex(ms, 1) : ms[k].role = "tool"
      BY <1>4, <1>5, <1>6, UnitTools
    <3> HIDE DEF end
    <3>2. \A k \in 1+1..end : k \in DOMAIN cur
      BY <1>4, <1>5, <2>2, <3>1
    <3> QED
      BY <1>4, <1>6, <2>2, <3>1, <3>2
  <2>3. end = 1 \/ end = ToolRoundEndIndex(ms, 1)
    OBVIOUS
  <2> QED
    BY <2>1, <2>2, <2>3
<1> HIDE DEF end, ms
<1>8. ASSUME Thorough
      PROVE  FrontGone(Range(next))
  <2>1. Whole
    BY <1>8 DEF Thorough, Whole
  <2>2. Range(cur) \ required = Range(cur)
    BY <1>3 DEF Optional
  <2>3. ~(Estimate(At(Range(cur))) <= Allowance)
    BY <1>1, <1>3, OverAllowance
  <2>4. required \subseteq Positions
    <3>1. pc \in Composing
      BY <1>1, Zenon DEF Composing
    <3> QED
      BY <3>1 DEF Plan, FixedRequired
  <2>5. ~(Estimate(At(required \cup Range(cur))) <= cfg.limit)
    BY <1>3, <2>1, <2>3, <2>4, PartsAddUp
  <2>6. ~(Estimate(At(required \cup (Range(cur) \ required))) <= cfg.limit)
    BY <2>2, <2>5
  <2>7. FrontGone(Range(cur) \ required)
    BY <1>3, <1>8, <2>2
  <2>8. cur[1] \notin required
    BY <1>3, <1>5 DEF Range, Optional
  <2>9. \A k \in 1..1-1 : cur[k] \in required
    OBVIOUS
  <2>10. FrontGone({cur[k] : k \in end+1..Len(cur)} \ required)
    BY <1>4, <1>5, <1>7, <2>6, <2>7, <2>8, <2>9, UnitGone
  <2>11. Range(next) = {cur[k] : k \in end+1..Len(cur)}
    BY <1>4, <1>7, RangeOfRest
  <2>12. Range(next) \ required = Range(next)
    <3>1. \A k \in end+1..Len(cur) : k \in DOMAIN cur
      BY <1>4, <1>5, <1>7
    <3>2. \A k \in DOMAIN cur : cur[k] \notin required
      BY <1>3 DEF Range, Optional
    <3> QED
      BY <2>11, <3>1, <3>2
  <2> QED
    BY <2>10, <2>11, <2>12
<1> HIDE DEF next
<1>9. pc' \in Evicting /\ answer' = "none"
  BY <1>1, <1>2, Counts
<1> QED
  BY <1>1, <1>3, <1>8, <1>9, EvictingDue

\* A message whose tail fits is in the tail that is left.
LEMMA KeptTail ==
    ASSUME input \in Inputs, NEW rest, FrontGone(rest), NEW i \in Optional, Needless(i)
    PROVE  i \in rest
<1>1. Len(input) \in Nat /\ i \in Nat
  BY PositionsAre DEF Optional
<1>2. PICK p \in 1..Len(input) + 1 : rest = From(p) /\ \A j \in Optional : j < p => ~Needless(j)
  BY DEF FrontGone
<1>3. ~(i < p) /\ p \in Nat
  BY <1>1, <1>2
<1>4. i >= p
  BY <1>1, <1>3
<1> QED
  BY <1>2, <1>4 DEF From

LEMMA WithoutRange ==
    ASSUME input \in Inputs, NEW ps \in Seq(Positions), InOrder(ps), required \subseteq Range(ps), NEW gone
    PROVE  LET qs == Without(ps, gone)
           IN  /\ qs \in Seq(Positions) /\ InOrder(qs) /\ required \subseteq Range(qs)
               /\ Range(qs) = required \cup (Range(ps) \ gone)
<1> DEFINE S == required \cup (Positions \ gone)
           qs == Kept(ps, S)
<1>1. ps \in Seq(Nat) /\ Range(ps) \subseteq Positions
  BY PositionsAre DEF Range
<1>2. qs \in Seq(Range(ps) \cap S) /\ Range(ps) \cap S \subseteq Range(qs)
  BY <1>1, KeptInOrder
<1>3. Range(qs) \subseteq Range(ps) \cap S
  <2> HIDE DEF qs, S
  <2> QED
    BY <1>2 DEF Range
<1>4. Range(qs) = Range(ps) \cap S
  BY <1>2, <1>3
<1>5. Range(qs) = required \cup (Range(ps) \ gone)
  BY <1>1, <1>4
<1>6. qs = Without(ps, gone)
  BY DEF Without
<1> HIDE DEF qs
<1> QED
  BY <1>5, <1>6, WithoutOK

\* Evicting the first optional unit of a complete candidate leaves a tail.
LEMMA CandidateGone ==
    ASSUME Inv, Thorough, cur \in Seq(Positions), InOrder(cur), required \subseteq Range(cur),
           Left # {}, FrontGone(Range(cur) \ required), Estimate(Messages(cur)) > cfg.limit
    PROVE  FrontGone(Range(Without(cur, Gone)) \ required)
<1> DEFINE ms == Messages(cur)
           k == Min(Left)
           end == IF HasToolCalls(ms[k]) THEN ToolRoundEndIndex(ms, k) ELSE k
<1>1. /\ input \in Inputs /\ cur \in Seq(Positions) /\ InOrder(cur) /\ required \subseteq Range(cur)
      /\ cfg.limit \in Nat /\ \A S : Estimate(At(S)) \in Nat
  BY Counts
<1>2. /\ Len(cur) \in Nat /\ DOMAIN cur = 1..Len(cur)
      /\ IsSequence(ms) /\ Len(ms) = Len(cur) /\ DOMAIN ms = DOMAIN cur
      /\ \A j \in DOMAIN cur : ms[j] = input[cur[j]]
  <2>1. Len(cur) \in Nat /\ DOMAIN cur = 1..Len(cur)
    BY <1>1
  <2>2. /\ ms \in Seq(Range(input)) /\ Len(ms) = Len(cur) /\ DOMAIN ms = DOMAIN cur
        /\ \A j \in DOMAIN cur : ms[j] = input[cur[j]]
    BY <1>1, MessagesAre
  <2> HIDE DEF ms
  <2> QED
    BY <2>1, <2>2, SelfSequence
<1>3. /\ k \in DOMAIN cur /\ cur[k] \notin required
      /\ \A j \in 1..k-1 : cur[j] \in required
  <2>1. Left \subseteq DOMAIN cur /\ Left \subseteq Nat
    BY <1>2 DEF Left
  <2>2. k \in Left /\ \A j \in Left : k <= j
    BY <2>1, MinOf
  <2> HIDE DEF k
  <2>3. ASSUME NEW j \in 1..k-1
        PROVE  cur[j] \in required
    <3>1. j \in DOMAIN cur /\ ~(k <= j)
      BY <1>2, <2>1, <2>2
    <3>2. j \notin Left
      BY <2>2, <3>1
    <3> QED
      BY <3>1, <3>2 DEF Left
  <2> QED
    BY <2>1, <2>2, <2>3 DEF Left
<1>4. Gone = {cur[j] : j \in k..end}
  <2>1. ~IsTail /\ cfg.strategy # "drop" /\ cfg.atomic
    BY Zenon DEF Thorough, IsTail
  <2>2. Index = k
    BY <2>1 DEF Index
  <2>3. Unit = k..end
    BY <2>1, <2>2 DEF Unit, CandidateUnit
  <2> HIDE DEF end, k
  <2> QED
    BY <2>1, <2>3 DEF Gone
<1> HIDE DEF k
<1>5. end \in k..Len(cur) /\ \A j \in k+1..end : input[cur[j]].role = "tool"
  <2> HIDE DEF ms
  <2>1. /\ ToolRoundEndIndex(ms, k) \in k..Len(ms)
        /\ \A j \in k+1..ToolRoundEndIndex(ms, k) : ms[j].role = "tool"
    BY <1>2, <1>3, UnitTools
  <2>2. end = k \/ end = ToolRoundEndIndex(ms, k)
    OBVIOUS
  <2> HIDE DEF end
  <2>3. end \in k..Len(cur)
    BY <1>2, <1>3, <2>1, <2>2
  <2>4. \A j \in k+1..end : ms[j].role = "tool"
    BY <1>2, <1>3, <2>1, <2>2
  <2>5. \A j \in k+1..end : j \in DOMAIN cur
    BY <1>2, <1>3, <2>3
  <2> QED
    BY <1>2, <2>3, <2>4, <2>5
<1> HIDE DEF end
<1>6. ~(Estimate(At(required \cup (Range(cur) \ required))) <= cfg.limit)
  <2>1. Messages(cur) = At(Range(cur))
    BY <1>1, OrderedIsPart
  <2>2. required \cup (Range(cur) \ required) = Range(cur)
    BY <1>1
  <2>3. Estimate(At(Range(cur))) > cfg.limit
    BY <2>1
  <2>4. Estimate(At(Range(cur))) \in Nat
    BY <1>1
  <2>5. ~(Estimate(At(Range(cur))) <= cfg.limit)
    BY <1>1, <2>3, <2>4
  <2> QED
    BY <2>2, <2>5
<1>7. FrontGone({cur[j] : j \in end+1..Len(cur)} \ required)
  BY <1>1, <1>3, <1>5, <1>6, UnitGone
<1>8. Range(Without(cur, Gone)) \ required = {cur[j] : j \in end+1..Len(cur)} \ required
  <2>1. Range(Without(cur, Gone)) = required \cup (Range(cur) \ Gone)
    BY <1>1, WithoutRange
  <2>2. ASSUME NEW j \in DOMAIN cur, cur[j] \notin required, cur[j] \notin Gone
        PROVE  j \in end+1..Len(cur)
    <3>1. ~(j < k)
      <4> SUFFICES ASSUME j < k
                   PROVE  FALSE
        OBVIOUS
      <4>1. j \in 1..k-1
        BY <1>2, <1>3
      <4> QED
        BY <1>3, <2>2, <4>1
    <3>2. ~(j \in k..end)
      BY <1>4, <2>2
    <3> QED
      BY <1>2, <1>3, <1>5, <3>1, <3>2
  <2>3. ASSUME NEW j \in end+1..Len(cur)
        PROVE  j \in DOMAIN cur /\ cur[j] \notin Gone
    <3>1. j \in DOMAIN cur
      BY <1>2, <1>3, <1>5
    <3>2. ASSUME NEW i \in k..end
          PROVE  cur[i] # cur[j]
      <4>1. i \in DOMAIN cur /\ i < j
        BY <1>2, <1>3, <1>5
      <4>2. cur[i] < cur[j]
        BY <1>1, <3>1, <4>1 DEF InOrder
      <4>3. cur[i] \in Nat /\ cur[j] \in Nat
        BY <1>1, <3>1, <4>1, PositionsAre
      <4> QED
        BY <4>2, <4>3
    <3> QED
      BY <1>4, <3>1, <3>2
  <2>4. \A x : x \in Range(cur) <=> \E j \in DOMAIN cur : x = cur[j]
    BY DEF Range
  <2> QED
    BY <2>1, <2>2, <2>3, <2>4
<1> QED
  BY <1>7, <1>8

LEMMA EvictCompleteDue ==
    ASSUME Inv, Plan, Due, EvictCompleteCandidate
    PROVE  Due'
<1> DEFINE smaller == Without(cur, Gone)
           optional == Len(Kept(smaller, Optional))
           next == IF cfg.strategy = "head" /\ optional < cfg.minimum
                   THEN Without(smaller, Positions)
                   ELSE smaller
<1>1. /\ pc = "evict complete" /\ pc # "done"
      /\ \/ Left = {} /\ Fail("required overflow")
         \/ /\ Left # {}
            /\ cur' = next
            /\ IF Estimate(Messages(next)) > cfg.limit
               THEN UNCHANGED <<pc, out>>
               ELSE Goto("admit") /\ out' = Messages(next)
            /\ UNCHANGED <<input, cfg, required, output, decision, answer>>
  BY DEF EvictCompleteCandidate, Left, IsTail, Index, Unit, Gone
<1>2. /\ cur \in Seq(Positions) /\ InOrder(cur) /\ required \subseteq Range(cur)
      /\ Whole => Estimate(Messages(cur)) > cfg.limit
      /\ Thorough => FrontGone(Range(cur) \ required)
  BY <1>1, Zenon DEF Plan, CandidateOK, Due, RefusalDue, LossDue
<1>3. input \in Inputs /\ answer = "none"
  BY <1>1, Counts
<1>4. CASE Left = {} /\ Fail("required overflow")
  <2>1. pc' = "done" /\ answer' # "ok" /\ UNCHANGED <<input, cfg, required>>
    BY <1>4, Zenon DEF Fail, Answer
  <2>2. Range(cur) = required
    BY <1>2, <1>4 DEF Left, Range
  <2>3. Messages(cur) = At(required)
    BY <1>2, <1>3, <2>2, OrderedIsPart
  <2> QED
    BY <1>2, <2>1, <2>3, RefusedDue
<1>5. smaller \in Seq(Positions) /\ InOrder(smaller) /\ required \subseteq Range(smaller)
  BY <1>2, <1>3, WithoutRange
<1>6. next \in Seq(Positions) /\ InOrder(next)
  <2>1. LET qs == Without(smaller, Positions) IN qs \in Seq(Positions) /\ InOrder(qs)
    <3> HIDE DEF smaller
    <3> QED
      BY <1>3, <1>5, WithoutRange
  <2>2. next = smaller \/ next = Without(smaller, Positions)
    OBVIOUS
  <2> HIDE DEF next, smaller
  <2> QED
    BY <1>5, <2>1, <2>2
<1>7. Thorough => next = smaller
  <2>1. optional \in Nat
    <3>1. Kept(smaller, Optional) \in Seq(Positions \cap Optional)
      <4> HIDE DEF smaller
      <4> QED
        BY <1>5, KeptType
    <3> HIDE DEF smaller
    <3> QED
      BY <3>1
  <2>2. ~(optional < 0)
    <3> HIDE DEF optional
    <3> QED
      BY <2>1
  <2> HIDE DEF smaller, optional
  <2> QED
    BY <2>2 DEF Thorough
<1> HIDE DEF next
<1>8. ASSUME Left # {}, Thorough
      PROVE  FrontGone(Range(next) \ required)
  <2>1. Whole
    BY <1>8 DEF Thorough, Whole
  <2>2. FrontGone(Range(smaller) \ required)
    BY <1>2, <1>8, <2>1, CandidateGone
  <2> QED
    BY <1>7, <1>8, <2>2
<1> HIDE DEF smaller
<1>9. CASE /\ Left # {} /\ cur' = next /\ Estimate(Messages(next)) > cfg.limit
           /\ UNCHANGED <<pc, out>>
           /\ UNCHANGED <<input, cfg, required, output, decision, answer>>
  <2>1. pc' = "evict complete" /\ answer' = "none"
    BY <1>1, <1>3, <1>9, Zenon
  <2> QED
    BY <1>8, <1>9, <2>1, CompleteDue
<1>10. CASE /\ Left # {} /\ cur' = next /\ ~(Estimate(Messages(next)) > cfg.limit)
            /\ Goto("admit") /\ out' = Messages(next)
            /\ UNCHANGED <<input, cfg, required, output, decision, answer>>
  <2>1. pc' \in {"admit", "verify"} /\ answer' = "none"
    BY <1>3, <1>10 DEF Goto
  <2>2. Messages(next) = At(Range(next)) /\ Range(next) \subseteq Positions
    BY <1>3, <1>6, OrderedIsPart
  <2>3. ASSUME Thorough, NEW i \in Optional, Needless(i)
        PROVE  \E j \in Optional : j <= i /\ \E k \in DOMAIN Messages(next) : Messages(next)[k] = input[j]
    <3>1. i \in Range(next)
      BY <1>3, <1>8, <1>10, <2>3, KeptTail
    <3>2. \E k \in DOMAIN At(Range(next)) : At(Range(next))[k] = input[i]
      BY <1>3, <2>2, <3>1, Present
    <3>3. i <= i
      BY <1>3, PositionsAre DEF Optional
    <3> QED
      BY <2>2, <3>2, <3>3
  <2> QED
    BY <1>10, <2>1, <2>3, ComposedDue
<1> QED
  BY <1>1, <1>4, <1>9, <1>10

\* Nothing is taken back for an output without messages.
LEMMA NothingTaken ==
    ASSUME input \in Inputs, output = << >>
    PROVE  {i \in Optional : Taken(i)} = {}
<1> SUFFICES ASSUME NEW i \in Optional
             PROVE  ~Taken(i)
  OBVIOUS
<1>1. Len(input) \in Nat /\ Positions = 1..Len(input)
  BY PositionsAre
<1> DEFINE before == {j \in Optional : j < i /\ input[j] = input[i]}
<1>2. before \subseteq 1..Len(input)
  BY <1>1 DEF Optional
<1>3. Cardinality(before) \in Nat
  <2> HIDE DEF before
  <2> QED
    BY <1>1, <1>2, FinitePart
<1>4. Occurrences(input[i], output) = 0
  <2>1. {k \in DOMAIN output : output[k] = input[i]} = {}
    OBVIOUS
  <2> QED
    BY <2>1, FS_EmptySet DEF Occurrences
<1> HIDE DEF before
<1>5. ~(Cardinality(before) < 0)
  BY <1>3
<1> QED
  BY <1>4, <1>5 DEF Taken, before

LEMMA MergeRequiredDue ==
    ASSUME Inv, Plan, Due, MergeRequired
    PROVE  Due'
<1> DEFINE T == {i \in Optional : Taken(i)}
           result == IF required = {} THEN output ELSE At(required \cup T)
<1>1. pc = "merge" /\ pc # "done" /\ pc \in Composing /\ UNCHANGED <<input, cfg, required, decision>>
  BY Zenon DEF MergeRequired, Composing
<1>2. input \in Inputs /\ answer = "none" /\ cfg.limit \in Nat /\ \A S : Estimate(At(S)) \in Nat
  BY <1>1, Counts
<1>3. CASE pc' = "done" /\ answer' \in {"duplicate id", "invalid retention"}
  <2>1. pc' \notin Judged \cup Evicting /\ answer' \notin Refusals \cup {"ok"}
    BY <1>3, Zenon DEF Judged, Evicting, Refusals
  <2> QED
    BY <2>1, QuietDue
<1>4. CASE ~Whole
  BY <1>1, <1>4, NotWholeDue
<1>5. CASE /\ Whole /\ pc' = "admit" /\ answer' = answer
           /\ \/ required = {} /\ out' = output
              \/ required # {} /\ out' = Merged
  <2>1. /\ ~decision.compacted
        /\ \E S \in SUBSET Optional : output = At(S)
    BY <1>1, <1>5, Zenon DEF Plan, OutputOK, Whole
  <2>2. out' = result
    BY <1>5, <2>1 DEF Merged
  <2>3. /\ cfg.additive \/ required = {}
        /\ output = << >> \/ Estimate(output) <= Allowance
        /\ Thorough => \E rest \in SUBSET Optional : output = At(rest) /\ FrontGone(rest)
    BY <1>1, <1>5, Zenon DEF Due, RefusalDue, LossDue
  <2>4. T \in SUBSET Optional /\ Optional \subseteq Positions /\ required \subseteq Positions
    <3>1. required \subseteq Positions
      BY <1>1 DEF Plan, FixedRequired
    <3> QED
      BY <3>1 DEF Optional
  <2>5. result = At(required) \/ ~(Estimate(result) > cfg.limit)
    <3>1. CASE output = << >>
      <4>1. T = {}
        BY <1>2, <3>1, NothingTaken
      <4>2. required = {} => output = At(required)
        BY <1>2, <3>1, EmptyPart
      <4> QED
        BY <4>1, <4>2
    <3>2. CASE required = {} /\ Estimate(output) <= Allowance
      <4>1. PICK S \in SUBSET Optional : output = At(S)
        BY <2>1
      <4>2. Estimate(At(required \cup S)) <= cfg.limit
        BY <2>3, <2>4, <3>2, <4>1, PartsAddUp
      <4>3. required \cup S = S
        BY <3>2
      <4>4. Estimate(output) <= cfg.limit /\ Estimate(output) \in Nat
        BY <1>2, <4>1, <4>2, <4>3
      <4> QED
        BY <1>2, <3>2, <4>4
    <3>3. CASE required # {} /\ Estimate(output) <= Allowance
      <4>1. PICK S \in SUBSET Optional : output = At(S)
        BY <2>1
      <4>2. Weight(At(T)) = Weight(At(S))
        BY <1>2, <4>1, TakenWeight
      <4>3. Estimate(At(T)) <= Allowance
        BY <2>3, <3>3, <4>1, <4>2 DEF Estimate
      <4> HIDE DEF T
      <4>4. Estimate(At(required \cup T)) <= cfg.limit
        BY <2>3, <2>4, <4>3, PartsAddUp
      <4>5. Estimate(At(required \cup T)) \in Nat
        BY <1>2
      <4>6. ~(Estimate(At(required \cup T)) > cfg.limit)
        BY <1>2, <4>4, <4>5
      <4> QED
        BY <3>3, <4>6
    <3> QED
      BY <2>3, <3>1, <3>2, <3>3
  <2>6. ASSUME Thorough, NEW i \in Optional, Needless(i)
        PROVE  \E j \in Optional : j <= i /\ \E k \in DOMAIN result : result[k] = input[j]
    <3>1. PICK rest \in SUBSET Optional : output = At(rest) /\ FrontGone(rest)
      BY <2>3, <2>6
    <3>2. i \in rest
      BY <1>2, <2>6, <3>1, KeptTail
    <3>3. CASE required = {}
      <4>1. \E k \in DOMAIN At(rest) : At(rest)[k] = input[i]
        BY <1>2, <2>4, <3>1, <3>2, Present
      <4>2. i <= i
        BY <1>2, <2>4, PositionsAre
      <4> QED
        BY <3>1, <3>3, <4>1, <4>2
    <3>4. CASE required # {}
      <4>1. PICK j \in T : j <= i /\ input[j] = input[i]
        BY <1>2, <3>1, <3>2, TakenWeight
      <4> HIDE DEF T
      <4>2. j \in required \cup T /\ required \cup T \in SUBSET Positions /\ j \in Optional
        BY <2>4, <4>1
      <4>3. \E k \in DOMAIN At(required \cup T) : At(required \cup T)[k] = input[j]
        BY <1>2, <4>2, Present
      <4> QED
        BY <3>4, <4>1, <4>2, <4>3
    <3> QED
      BY <3>3, <3>4
  <2> HIDE DEF result
  <2>7. pc' \in {"admit", "verify"} /\ answer' = "none"
    BY <1>2, <1>5
  <2> QED
    BY <1>1, <2>2, <2>5, <2>6, <2>7, ComposedDue
<1> HIDE DEF T, result
<1>6. \/ required = {} /\ out' = output /\ pc' = "admit" /\ answer' = answer
      \/ pc' = "done" /\ answer' \in {"duplicate id", "invalid retention"}
      \/ required # {} /\ out' = Merged /\ pc' = "admit" /\ answer' = answer
  BY Zenon DEF MergeRequired, Goto, Answer
<1>7. CASE required = {} /\ out' = output /\ pc' = "admit" /\ answer' = answer
  BY <1>4, <1>5, <1>7, Zenon
<1>8. CASE required # {} /\ out' = Merged /\ pc' = "admit" /\ answer' = answer
  BY <1>4, <1>5, <1>8, Zenon
<1> QED
  BY <1>3, <1>6, <1>7, <1>8, Zenon

LEMMA AdmitDue ==
    ASSUME Inv, Due, Admit
    PROVE  Due'
<1>1. pc = "admit" /\ pc # "done" /\ UNCHANGED <<input, cfg, required, out>>
  BY Zenon DEF Admit, Fail
<1>2. answer = "none"
  BY <1>1, Counts
<1>3. CASE Fail("invalid round")
  <2>1. pc' \notin Judged \cup Evicting /\ answer' \notin Refusals \cup {"ok"}
    BY <1>3, Zenon DEF Fail, Answer, Judged, Evicting, Refusals
  <2> QED
    BY <2>1, QuietDue
<1>4. CASE Estimate(out) > cfg.limit /\ Fail("budget exceeded")
  <2>1. pc' = "done" /\ answer' # "ok"
    BY <1>4, Zenon DEF Fail, Answer
  <2>2. Whole => out = At(required)
    BY <1>1, <1>4, Zenon DEF Due, RefusalDue
  <2> QED
    BY <1>1, <1>4, <2>1, <2>2, RefusedDue
<1>5. CASE Goto("verify") /\ UNCHANGED answer
  <2>1. pc' \in {"admit", "verify"} /\ pc' # "admit" /\ answer' = "none"
    BY <1>2, <1>5 DEF Goto
  <2>2. Thorough => \A i \in Optional :
           Needless(i) => \E j \in Optional : j <= i /\ \E k \in DOMAIN out : out[k] = input[j]
    BY <1>1, Zenon DEF Due, LossDue
  <2> QED
    BY <1>1, <2>1, <2>2, ComposedDue
<1> QED
  BY <1>3, <1>4, <1>5 DEF Admit

LEMMA VerifyDue ==
    ASSUME Inv, Due, Verify
    PROVE  Due'
<1>1. pc = "verify" /\ pc' = "done" /\ UNCHANGED <<input, cfg, required, out>>
  BY DEF Verify, Answer
<1>2. CASE answer' = "invalid retention"
  <2>1. pc' \notin Judged \cup Evicting /\ answer' \notin Refusals \cup {"ok"}
    BY <1>1, <1>2, Zenon DEF Judged, Evicting, Refusals
  <2> QED
    BY <2>1, QuietDue
<1>3. CASE answer' = "ok"
  <2>1. ~(pc' \in Judged) /\ ~(pc' \in Evicting) /\ answer' \notin Refusals
    BY <1>1, <1>3, Zenon DEF Judged, Evicting, Refusals
  <2>2. RefusalDue'
    BY <2>1, Zenon DEF RefusalDue, Judged
  <2>3. ASSUME Thorough'
        PROVE  LossDue'
    <3>1. \A i \in Optional :
             Needless(i) => \E j \in Optional : j <= i /\ \E k \in DOMAIN out : out[k] = input[j]
      BY <1>1, <2>3, SameLimits, Zenon DEF Due, LossDue
    <3>2. \A i \in Optional' :
             Needless(i)' => \E j \in Optional' : j <= i /\ \E k \in DOMAIN out' : out'[k] = input'[j]
      BY <1>1, <3>1, SameLimits
    <3> QED
      BY <2>1, <3>2, Zenon DEF LossDue, Judged
  <2> QED
    BY <2>2, <2>3 DEF Due
<1> QED
  BY <1>2, <1>3 DEF Verify, Answer

LEMMA EarlyDue ==
    ASSUME Inv, Plan,
           InspectBudgetRounds \/ SelectRequired \/ MeasureInput \/ ProtectSuffix
           \/ SummarizeOptional \/ Interrupted
    PROVE  Due'
<1>1. CASE SummarizeOptional
  <2>1. pc = "summarize" /\ UNCHANGED <<input, cfg, required>>
    BY <1>1 DEF SummarizeOptional, Fail
  <2>2. ~Whole
    BY <2>1 DEF Plan, CandidateOK, Whole
  <2> QED
    BY <2>1, <2>2, NotWholeDue
<1>2. CASE InspectBudgetRounds \/ SelectRequired \/ MeasureInput \/ ProtectSuffix \/ Interrupted
  <2>1. pc # "done"
    BY <1>2, Zenon DEF InspectBudgetRounds, SelectRequired, MeasureInput, ProtectSuffix, Interrupted
  <2>2. answer = "none"
    BY <2>1, Counts
  <2>3. pc' \in {"select", "measure", "protect", "compare", "done"}
    BY <1>2, Zenon DEF InspectBudgetRounds, SelectRequired, MeasureInput, ProtectSuffix, Interrupted,
                       Goto, Fail, Answer
  <2>4. answer' \in {answer, "invalid round", "invalid retention", "duplicate id", "failed"}
    BY <1>2, Zenon DEF InspectBudgetRounds, SelectRequired, MeasureInput, ProtectSuffix, Interrupted,
                       Fail, Answer
  <2>5. pc' \notin Judged \cup Evicting /\ answer' \notin Refusals \cup {"ok"}
    BY <2>2, <2>3, <2>4, Zenon DEF Judged, Evicting, Refusals
  <2> QED
    BY <2>5, QuietDue
<1> QED
  BY <1>1, <1>2

LEMMA StutterDue ==
    ASSUME Due, UNCHANGED vars
    PROVE  Due'
<1>1. /\ UNCHANGED <<input, cfg, required>>
      /\ pc' = pc /\ cur' = cur /\ output' = output /\ out' = out /\ answer' = answer
  BY DEF vars
<1>2. Messages(cur)' = Messages(cur) /\ Range(cur)' = Range(cur)
  BY <1>1 DEF Messages, Range
<1>3. Estimate(Messages(cur))' = Estimate(Messages(cur)) /\ cfg'.limit = cfg.limit
      /\ cfg'.additive = cfg.additive
  BY <1>1, <1>2 DEF Estimate
<1>4. Estimate(output)' = Estimate(output) /\ Estimate(out)' = Estimate(out)
      /\ Estimate(At(required))' = Estimate(At(required))
  BY <1>1, SameEstimate
<1>5. ASSUME Whole'
      PROVE  RefusalDue'
  <2>1. RefusalDue
    BY <1>1, <1>5, SameLimits DEF Due
  <2>2. Allowance' = Allowance /\ At(required)' = At(required)
    BY <1>1, SameLimits
  <2>3. pc' = "evict complete" => Estimate(Messages(cur))' > cfg'.limit
    BY <1>1, <1>3, <2>1, Zenon DEF RefusalDue
  <2>4. pc' \in Evicting \/ pc' = "merge" => cfg'.additive \/ required' = {}
    BY <1>1, <1>3, <2>1, Zenon DEF RefusalDue
  <2>5. pc' = "merge" => output' = << >> \/ Estimate(output)' <= Allowance'
    BY <1>1, <1>4, <2>1, <2>2, Zenon DEF RefusalDue
  <2>6. pc' = "admit" /\ Estimate(out)' > cfg'.limit => out' = At(required)'
    BY <1>1, <1>3, <1>4, <2>1, <2>2, Zenon DEF RefusalDue
  <2>7. pc' # "drop tail" /\ (answer' \in Refusals => Estimate(At(required))' > cfg'.limit)
    BY <1>1, <1>3, <1>4, <2>1, Zenon DEF RefusalDue
  <2> QED
    BY <2>3, <2>4, <2>5, <2>6, <2>7, Zenon DEF RefusalDue
<1>6. ASSUME Thorough'
      PROVE  LossDue'
  <2>1. LossDue
    BY <1>1, <1>6, SameLimits DEF Due
  <2>2. pc' = "evict complete" => FrontGone(Range(cur) \ required)'
    <3>1. pc = "evict complete" => FrontGone(Range(cur) \ required)
      BY <2>1, Zenon DEF LossDue
    <3>2. FrontGone(Range(cur) \ required)' <=> FrontGone(Range(cur) \ required)
      BY <1>1, <1>2, SameLimits
    <3> QED
      BY <1>1, <3>1, <3>2, Zenon
  <2>3. pc' \in Evicting => FrontGone(Range(cur))'
    <3>1. pc \in Evicting => FrontGone(Range(cur))
      BY <2>1, Zenon DEF LossDue
    <3>2. FrontGone(Range(cur))' <=> FrontGone(Range(cur))
      BY <1>1, <1>2, SameLimits
    <3> QED
      BY <1>1, <3>1, <3>2, Zenon
  <2>4. pc' = "merge" => \E rest \in SUBSET Optional' : output' = At(rest)' /\ FrontGone(rest)'
    <3>1. pc = "merge" => \E rest \in SUBSET Optional : output = At(rest) /\ FrontGone(rest)
      BY <2>1, Zenon DEF LossDue
    <3> QED
      BY <1>1, <3>1, SameLimits, Same
  <2>5. pc' \in {"admit", "verify"} \/ answer' = "ok" =>
           \A i \in Optional' : Needless(i)' =>
              \E j \in Optional' : j <= i /\ \E k \in DOMAIN out' : out'[k] = input'[j]
    <3>1. pc \in {"admit", "verify"} \/ answer = "ok" =>
             \A i \in Optional : Needless(i) =>
                \E j \in Optional : j <= i /\ \E k \in DOMAIN out : out[k] = input[j]
      BY <2>1, Zenon DEF LossDue
    <3> QED
      BY <1>1, <3>1, SameLimits
  <2> QED
    BY <2>2, <2>3, <2>4, <2>5, Zenon DEF LossDue
<1> QED
  BY <1>5, <1>6 DEF Due

LEMMA InitDue ==
    ASSUME Init
    PROVE  Due
<1>1. pc = "inspect" /\ answer = "none"
  BY DEF Init
<1>2. RefusalDue
  BY <1>1, Zenon DEF RefusalDue, Evicting, Refusals
<1>3. LossDue
  BY <1>1, Zenon DEF LossDue, Evicting
<1> QED
  BY <1>2, <1>3 DEF Due

LEMMA NextDue ==
    ASSUME Inv, Plan, Due, [Next]_vars
    PROVE  Due'
<1>1. CASE InspectBudgetRounds \/ SelectRequired \/ MeasureInput \/ ProtectSuffix
           \/ SummarizeOptional \/ Interrupted
  BY <1>1, EarlyDue
<1>2. CASE Fits \/ StartCompleteEviction \/ Reserve
  BY <1>2, FitsDue, StartCompleteEvictionDue, ReserveDue
<1>3. CASE EvictCompleteCandidate
  BY <1>3, EvictCompleteDue
<1>4. CASE OptionalFits \/ ApplyStrict \/ ApplyDrop \/ ApplyHost \/ ApplyHeadFast
           \/ ApplyHeadSelective \/ ApplyTail
  BY <1>4, TakeDue
<1>5. CASE DropHeadUnit \/ DropHeadDone \/ DropTailUnit
  BY <1>5, DropHeadUnitDue, DropHeadDoneDue, DropTailDue
<1>6. CASE MergeRequired \/ Admit \/ Verify
  BY <1>6, MergeRequiredDue, AdmitDue, VerifyDue
<1>7. CASE UNCHANGED vars
  BY <1>7, StutterDue
<1> QED
  BY <1>1, <1>2, <1>3, <1>4, <1>5, <1>6, <1>7 DEF Next

LEMMA DueMeans ==
    ASSUME Inv, Due
    PROVE  NoNeedlessLoss
<1>1. ASSUME ~cfg.summarizer, answer \in {"required overflow", "budget exceeded", "block too large"},
             cfg.strategy = "drop" \/ (cfg.strategy = "head" /\ cfg.atomic)
      PROVE  Estimate(At(required)) > cfg.limit
  BY <1>1, Zenon DEF Due, Whole, RefusalDue, Refusals
<1>2. ASSUME ~cfg.summarizer, answer = "ok", cfg.strategy = "head", cfg.atomic, cfg.minimum = 0,
             NEW i \in Optional, input[i].role # "tool",
             \A j \in Optional : j <= i => ~\E k \in DOMAIN out : out[k] = input[j]
      PROVE  Estimate(At(required \cup {j \in Optional : j >= i})) > cfg.limit
  <2>1. ~Needless(i)
    BY <1>2, Zenon DEF Due, Thorough, LossDue
  <2>2. ~(Estimate(At(required \cup {j \in Optional : j >= i})) <= cfg.limit)
    BY <1>2, <2>1 DEF Needless, From
  <2>3. Estimate(At(required \cup {j \in Optional : j >= i})) \in Nat /\ cfg.limit \in Nat
    BY Counts
  <2> QED
    BY <2>2, <2>3
<1> QED
  BY <1>1, <1>2, Zenon DEF NoNeedlessLoss

\* Drop and whole-round drop-head eviction refuse a block only when its required
\* messages do not fit alone, and drop-head evicts no unit whose tail would have
\* fitted with them (applySelectivePath, tryCompleteEviction, mergeRequired).
THEOREM EvictionNeeded == Spec => []NoNeedlessLoss
<1>1. Init => Due
  BY InitDue
<1>2. Inv /\ Plan /\ Due /\ [Next]_vars => Due'
  BY NextDue
<1>3. Init => Plan
  BY InitPlan
<1>4. Inv /\ Plan /\ [Next]_vars => Plan'
  BY NextPlan
<1>5. Inv /\ Due => NoNeedlessLoss
  BY DueMeans
<1> QED
  BY <1>1, <1>2, <1>3, <1>4, <1>5, InvHolds, PTL DEF Spec

=============================================================================
