------------------------ MODULE CompileRecordProofs ------------------------
(***************************************************************************)
(* A replay returns what was compiled or nothing, and what the policy      *)
(* denied is in no record: for every set of requests, every policy, every  *)
(* merge, hook, formatter, summarizer and text, and whatever storage does  *)
(* to the record and to the blobs.                                         *)
(*                                                                         *)
(* The manifest that the host expects lists, for every output, references  *)
(* that name what was compiled (Agrees); a record that can be replayed has *)
(* this manifest and, for each reference it decodes, exactly one content   *)
(* whose digest is that of the reference (SavedIs).  Of the capture only   *)
(* PolicyKept matters: it holds of nothing captured, and a list of         *)
(* contents offered to the policy keeps it.                                *)
(***************************************************************************)
EXTENDS CompileRecord, SequenceTheorems, FiniteSetTheorems, WellFoundedInduction, TLAPS

-----------------------------------------------------------------------------
(* Sequences *)

\* s is a sequence, of whatever it has.
IsSequence(s) == s \in Seq(Range(s))

LEMMA SequenceDomain ==
    ASSUME NEW s, IsSequence(s)
    PROVE  Len(s) \in Nat /\ DOMAIN s = 1..Len(s)
BY DEF IsSequence

\* t is s with a behind it.
WithOne(s, a, t) ==
    /\ IsSequence(t) /\ Len(t) = Len(s) + 1
    /\ \A i \in DOMAIN s : t[i] = s[i]
    /\ t[Len(s) + 1] = a

LEMMA OneAppended ==
    ASSUME NEW s, IsSequence(s), NEW a
    PROVE  WithOne(s, a, Append(s, a))
BY DEF IsSequence, Range, WithOne

LEMMA TailOf ==
    ASSUME NEW s, IsSequence(s), s # << >>
    PROVE  /\ IsSequence(Tail(s)) /\ Len(Tail(s)) = Len(s) - 1
           /\ \A i \in DOMAIN Tail(s) : i + 1 \in DOMAIN s /\ Tail(s)[i] = s[i + 1]
           /\ Head(s) = s[1] /\ 1 \in DOMAIN s
<1> DEFINE R == Range(s)
           t == Tail(s)
<1>1. s \in Seq(R) /\ Len(s) \in Nat \ {0} /\ DOMAIN s = 1..Len(s)
  BY EmptySeq, LenProperties DEF IsSequence
<1>2. t \in Seq(R) /\ Len(t) = Len(s) - 1 /\ DOMAIN t = 1..Len(t)
  BY <1>1, HeadTailProperties
<1>3. \A i \in 1..Len(t) : t[i] = s[i + 1] /\ i + 1 \in 1..Len(s)
  BY <1>1, <1>2, HeadTailProperties
<1>4. IsSequence(t)
  <2> HIDE DEF t
  <2>1. \A i \in 1..Len(t) : t[i] \in Range(t)
    BY <1>2 DEF Range
  <2> QED
    BY <1>2, <2>1 DEF IsSequence
<1>5. Head(s) = s[1]
  BY <1>1, HeadTailProperties
<1> QED
  BY <1>1, <1>2, <1>3, <1>4, <1>5

\* The provers cannot take a predicate, so induction is over the numbers that
\* satisfy it.
LEMMA NatSetInduction ==
    ASSUME NEW S, 0 \in S, \A n \in Nat : n \in S => n + 1 \in S
    PROVE  Nat \subseteq S
<1> DEFINE T == Nat \ S
<1>1. SUFFICES ASSUME T # {} PROVE FALSE
  OBVIOUS
<1>2. IsWellFoundedOn(OpToRel(<, Nat), Nat)
  BY NatLessThanWellFounded
<1>3. PICK x \in T : \A y \in T : ~(<<y, x>> \in OpToRel(<, Nat))
  BY <1>1, <1>2, WFMin
<1>4. x \in Nat /\ x # 0
  BY <1>3
<1>5. x - 1 \in Nat /\ x - 1 < x /\ (x - 1) + 1 = x
  BY <1>4
<1>6. <<x - 1, x>> \in OpToRel(<, Nat)
  BY <1>4, <1>5 DEF OpToRel
<1>7. x - 1 \notin T
  BY <1>3, <1>6
<1>8. x - 1 \in S
  BY <1>5, <1>7
<1> QED
  BY <1>3, <1>5, <1>8

LEMMA MaxOfLast ==
    ASSUME NEW n \in Nat, NEW S, S \subseteq 1..n, n \in S
    PROVE  Max(S) = n
<1>1. \A y \in S : n >= y
  OBVIOUS
<1>2. Max(S) \in S /\ \A y \in S : Max(S) >= y
  BY <1>1 DEF Max
<1>3. Max(S) \in 1..n /\ Max(S) >= n
  BY <1>2
<1> QED
  BY <1>3

LEMMA SequenceOf ==
    ASSUME NEW R, NEW t \in Seq(R)
    PROVE  IsSequence(t)
<1>1. \A k \in 1..Len(t) : t[k] \in Range(t)
  BY DEF Range
<1> QED
  BY <1>1 DEF IsSequence

-----------------------------------------------------------------------------
(* The trace of a rendering *)

LEMMA OccurrenceOf ==
    ASSUME NEW m, NEW id
    PROVE  Base([ContentRef(m) EXCEPT !.occ = id]) = ContentRef(m)
<1> DEFINE p == [id |-> m.id, digest |-> m, occ |-> id]
<1>1. [ContentRef(m) EXCEPT !.occ = id] = p
  BY DEF ContentRef
<1>2. Base(p) = ContentRef(m)
  BY DEF Base, ContentRef
<1> HIDE DEF p
<1> QED
  BY <1>1, <1>2

\* The trace t knows an occurrence of the content m.
LatestIsReference(t, m) ==
    /\ ContentRef(m) \in DOMAIN t.latest
    /\ \E occ : t.latest[ContentRef(m)] = [ContentRef(m) EXCEPT !.occ = occ]

\* What was appended last is the latest occurrence of its content.
LEMMA OneOutput ==
    ASSUME NEW t, NEW u, NEW stage, NEW inputs, NEW m
    PROVE  LatestIsReference(CaptureOutput(t, u, stage, inputs, m), m)
<1> DEFINE r == CaptureOutput(t, u, stage, inputs, m)
<1>1. PICK f, id : r.latest = Put(f, {[ContentRef(m) EXCEPT !.occ = id]})
  BY DEF CaptureOutput, AppendRecord
<1> DEFINE p == [ContentRef(m) EXCEPT !.occ = id]
<1>2. Base(p) = ContentRef(m)
  BY OccurrenceOf
<1> HIDE DEF p, r
<1>3. Put(f, {p})[ContentRef(m)] = p /\ ContentRef(m) \in DOMAIN Put(f, {p})
  BY <1>2 DEF Put
<1>4. r.latest[ContentRef(m)] = [ContentRef(m) EXCEPT !.occ = id]
  BY <1>1, <1>3 DEF p
<1> QED
  BY <1>1, <1>3, <1>4 DEF r, p, LatestIsReference

\* A record without outputs leaves the latest occurrences alone.
LEMMA NoOutput ==
    ASSUME NEW t, NEW stage, NEW inputs, NEW b \in DOMAIN t.latest
    PROVE  LET r == AppendRecord(t, stage, inputs, {})
           IN  b \in DOMAIN r.latest /\ r.latest[b] = t.latest[b]
BY DEF AppendRecord, Put

\* A stage with one output has it as the latest occurrence of its content.
LEMMA CaptureOne ==
    ASSUME NEW t, NEW stage, NEW before, NEW after, DOMAIN after = {1}, NEW mapping, NEW summarize,
           NEW r, r = Capture(t, stage, before, after, mapping, summarize), r # None
    PROVE  LatestIsReference(r, after[1])
<1> DEFINE sources == StageSources(t, stage, before, after, mapping)
           inputs(m) == TraceInputs(m, sources.before, sources.mapping, summarize)
           start == [t EXCEPT !.unresolved = @ \cup Unknown(t, sources.before)]
           Step(u, m) == CaptureOutput(t, u, stage, inputs(m), m)
           m1 == after[1]
           traced == FoldLeft(LAMBDA u, m : CaptureOutput(t, u, stage, inputs(m), m), start, after)
           removed == {b \in Members(sources.before) : b.id \notin IDs(after)}
           done == IF removed = {} THEN traced
                   ELSE AppendRecord(traced, stage, {InputRef(t, b) : b \in removed}, {})
           f == [x \in SUBSET {1} |-> IF x = {} THEN start ELSE Step(start, m1)]
           P(g) == g = [x \in SUBSET {1} |-> IF x = {} THEN start ELSE Step(g[x \ {Max(x)}], after[Max(x)])]
<1>1. traced = Step(start, m1)
  <2>1. traced = (CHOOSE g : P(g))[{1}]
    BY DEF FoldLeft, MapThenFoldSet
  <2> HIDE DEF sources, inputs, start, Step, traced, removed, done
  <2>2. Max({1}) = 1
    BY DEF Max
  <2>3. \A x \in SUBSET {1} : x = {} \/ x = {1}
    OBVIOUS
  <2>4. P(f)
    BY <2>2, <2>3
  <2>5. ASSUME NEW g, P(g)
        PROVE  g[{1}] = Step(start, m1)
    <3>1. g[{}] = start
      BY <2>5
    <3>2. g[{1}] = Step(g[{1} \ {Max({1})}], after[Max({1})])
      BY <2>5
    <3>3. {1} \ {Max({1})} = {}
      BY <2>2
    <3> QED
      BY <2>2, <3>1, <3>2, <3>3
  <2> QED
    BY <2>1, <2>4, <2>5
<1>2. r = done
  <2>1. after # << >>
    OBVIOUS
  <2> QED
    BY <2>1 DEF Capture
<1>3. LatestIsReference(traced, m1)
  <2> HIDE DEF traced
  <2>1. traced = CaptureOutput(t, start, stage, inputs(m1), m1)
    BY <1>1
  <2> QED
    BY <2>1, OneOutput
<1> QED
  <2> HIDE DEF traced, removed, m1
  <2>1. CASE removed = {}
    BY <1>2, <1>3, <2>1 DEF m1
  <2>2. CASE removed # {}
    <3>1. r = AppendRecord(traced, stage, {InputRef(t, b) : b \in removed}, {})
      BY <1>2, <2>2
    <3> DEFINE b == ContentRef(m1)
    <3>2. b \in DOMAIN traced.latest /\ \E occ : traced.latest[b] = [b EXCEPT !.occ = occ]
      BY <1>3 DEF LatestIsReference
    <3> HIDE DEF b
    <3>3. b \in DOMAIN r.latest /\ r.latest[b] = traced.latest[b]
      BY <3>1, <3>2, NoOutput
    <3>4. LatestIsReference(r, m1)
      BY <3>2, <3>3 DEF b, LatestIsReference
    <3> QED
      BY <3>4 DEF m1
  <2> QED
    BY <2>1, <2>2

-----------------------------------------------------------------------------
(* What the policy denied *)

\* What was denied when the policy was asked is denied, and nothing that is
\* denied is kept.
PolicyKept(c) ==
    /\ \A a \in c.asked : [purpose |-> a.purpose, id |-> a.ref.id] \in req.deny => a.ref \in c.denied
    /\ \A k \in c.kept : k.ref \notin c.denied

LEMMA EmptyCaptureOK == PolicyKept([kept |-> {}, denied |-> {}, asked |-> {}])
BY DEF PolicyKept

\* keep: a content that was denied leaves, and one that is denied does not come.
LEMMA KeepAllOK ==
    ASSUME NEW c, PolicyKept(c), NEW ms, NEW kind, NEW purpose
    PROVE  PolicyKept(KeepAll(c, ms, kind, purpose))
<1> DEFINE contents == {Content(m, kind) : m \in Members(ms)}
           denied == c.denied \cup Denied(contents, purpose)
           d == KeepAll(c, ms, kind, purpose)
<1>1. /\ d.kept = Without(c.kept, contents) \cup {k \in contents : k.ref \notin denied}
      /\ d.denied = denied
      /\ d.asked = c.asked \cup Asked(contents, purpose)
  BY DEF KeepAll
<1> HIDE DEF contents, d
<1>2. ASSUME NEW a \in d.asked, [purpose |-> a.purpose, id |-> a.ref.id] \in req.deny
      PROVE  a.ref \in d.denied
  <2>1. CASE a \in c.asked
    BY <1>1, <1>2, <2>1 DEF PolicyKept
  <2>2. CASE a \in Asked(contents, purpose)
    <3>1. PICK k \in contents : a = [purpose |-> purpose, ref |-> k.ref]
      BY <2>2 DEF Asked
    <3>2. a.ref = k.ref /\ a.purpose = purpose
      BY <3>1
    <3>3. k.ref \in Denied(contents, purpose)
      BY <1>2, <3>2 DEF Denied
    <3> QED
      BY <1>1, <3>2, <3>3
  <2> QED
    BY <1>1, <2>1, <2>2
<1>3. ASSUME NEW k \in d.kept
      PROVE  k.ref \notin d.denied
  <2>1. CASE k \in Without(c.kept, contents)
    <3>1. k \in c.kept /\ k.ref \notin {o.ref : o \in contents}
      BY <2>1 DEF Without
    <3>2. k.ref \notin Denied(contents, purpose)
      BY <3>1 DEF Denied
    <3> QED
      BY <1>1, <3>1, <3>2 DEF PolicyKept
  <2>2. CASE k \in contents /\ k.ref \notin denied
    BY <1>1, <2>2
  <2> QED
    BY <1>1, <2>1, <2>2
<1> QED
  BY <1>2, <1>3 DEF PolicyKept, d

LEMMA ProjectionOK ==
    ASSUME NEW c, PolicyKept(c), NEW x
    PROVE  PolicyKept(CaptureProjection(c, x))
BY KeepAllOK DEF CaptureProjection

\* f is the fold of CaptureProjection over the outputs xs at the positions D.
ProjectionsOver(f, D, c, xs) ==
    f = [S \in SUBSET D |-> IF S = {} THEN c
                            ELSE CaptureProjection(f[S \ {Max(S)}], xs[Max(S)].compiled)]

\* The fold exists: induction over the number of outputs.
LEMMA ProjectionsExtend ==
    ASSUME NEW k \in Nat, NEW c, NEW xs, NEW f, ProjectionsOver(f, 1..k, c, xs)
    PROVE  \E g : ProjectionsOver(g, 1..k + 1, c, xs)
<1> DEFINE g == [S \in SUBSET (1..k + 1) |->
                   IF k + 1 \notin S THEN f[S] ELSE CaptureProjection(f[S \ {k + 1}], xs[k + 1].compiled)]
           body(S) == IF S = {} THEN c ELSE CaptureProjection(g[S \ {Max(S)}], xs[Max(S)].compiled)
<1>1. ASSUME NEW S \in SUBSET (1..k + 1)
      PROVE  g[S] = body(S)
  <2>1. CASE k + 1 \notin S
    <3>1. S \in SUBSET (1..k)
      BY <2>1
    <3>2. f[S] = IF S = {} THEN c ELSE CaptureProjection(f[S \ {Max(S)}], xs[Max(S)].compiled)
      BY <3>1 DEF ProjectionsOver
    <3>3. g[S \ {Max(S)}] = f[S \ {Max(S)}]
      BY <2>1
    <3> QED
      BY <2>1, <3>2, <3>3
  <2>2. CASE k + 1 \in S
    <3> HIDE DEF g
    <3>1. Max(S) = k + 1
      <4>1. k + 1 \in Nat /\ S \subseteq 1..k + 1
        OBVIOUS
      <4> QED
        BY <2>2, <4>1, MaxOfLast
    <3>2. g[S \ {k + 1}] = f[S \ {k + 1}]
      BY DEF g
    <3>3. g[S] = CaptureProjection(f[S \ {k + 1}], xs[k + 1].compiled)
      BY <2>2 DEF g
    <3> QED
      BY <2>2, <3>1, <3>2, <3>3
  <2> QED
    BY <2>1, <2>2
<1>2. g = [S \in SUBSET (1..k + 1) |-> g[S]]
  OBVIOUS
<1> HIDE DEF g
<1>3. g = [S \in SUBSET (1..k + 1) |-> body(S)]
  BY <1>1, <1>2
<1> QED
  BY <1>3 DEF ProjectionsOver

LEMMA ProjectionsExist ==
    ASSUME NEW c, NEW xs
    PROVE  \A n \in Nat : \E f : ProjectionsOver(f, 1..n, c, xs)
<1> DEFINE S == {n \in Nat : \E f : ProjectionsOver(f, 1..n, c, xs)}
<1>1. 0 \in S
  <2> DEFINE f == [x \in {{}} |-> c]
  <2>1. SUBSET (1..0) = {{}}
    OBVIOUS
  <2>2. ProjectionsOver(f, 1..0, c, xs)
    BY <2>1 DEF ProjectionsOver
  <2> QED
    BY <2>2
<1>2. \A n \in Nat : n \in S => n + 1 \in S
  BY ProjectionsExtend
<1> HIDE DEF S
<1>3. Nat \subseteq S
  BY <1>1, <1>2, NatSetInduction
<1> QED
  BY <1>3 DEF S

LEMMA ProjectionsOK ==
    ASSUME NEW c, PolicyKept(c), NEW xs, IsSequence(xs)
    PROVE  PolicyKept(FoldLeft(LAMBDA d, x : CaptureProjection(d, x.compiled), c, xs))
<1> DEFINE n == Len(xs)
           f == CHOOSE f : ProjectionsOver(f, 1..n, c, xs)
           S == {k \in Nat : k <= n => PolicyKept(f[1..k])}
<1>1. n \in Nat /\ DOMAIN xs = 1..n
  BY SequenceDomain
<1> HIDE DEF n
<1>2. ProjectionsOver(f, 1..n, c, xs)
  BY <1>1, ProjectionsExist
<1>3. FoldLeft(LAMBDA d, x : CaptureProjection(d, x.compiled), c, xs) = f[1..n]
  BY <1>1 DEF FoldLeft, MapThenFoldSet, ProjectionsOver
<1> HIDE DEF f
<1>4. 0 \in S
  <2>1. 1..0 = {} /\ {} \in SUBSET (1..n)
    OBVIOUS
  <2>2. f[{}] = c
    BY <1>2, <2>1 DEF ProjectionsOver
  <2> QED
    BY <2>1, <2>2
<1>5. ASSUME NEW k \in Nat, k \in S
      PROVE  k + 1 \in S
  <2> SUFFICES ASSUME k + 1 <= n
               PROVE  PolicyKept(f[1..k + 1])
    OBVIOUS
  <2>1. PolicyKept(f[1..k])
    BY <1>1, <1>5
  <2>2. Max(1..k + 1) = k + 1
    BY MaxOfLast
  <2>3. (1..k + 1) \ {k + 1} = 1..k /\ 1..k + 1 \in SUBSET (1..n) /\ 1..k + 1 # {}
    BY <1>1
  <2>4. f[1..k + 1] = CaptureProjection(f[1..k], xs[k + 1].compiled)
    BY <1>2, <2>2, <2>3 DEF ProjectionsOver
  <2> QED
    BY <2>1, <2>4, ProjectionOK
<1> HIDE DEF S
<1>6. Nat \subseteq S
  BY <1>4, <1>5, NatSetInduction
<1>7. PolicyKept(f[1..n])
  BY <1>1, <1>6 DEF S
<1> QED
  BY <1>3, <1>7

LEMMA OutputsOK ==
    ASSUME NEW c, PolicyKept(c), IsSequence(made), made # << >>
    PROVE  PolicyKept(CaptureOutputs(c))
<1>1. IsSequence(Tail(made))
  BY TailOf
<1> QED
  BY <1>1, KeepAllOK, ProjectionsOK DEF CaptureOutputs

LEMMA InputsOK ==
    ASSUME NEW r
    PROVE  PolicyKept(CaptureInputs(r))
BY EmptyCaptureOK, KeepAllOK DEF CaptureInputs

-----------------------------------------------------------------------------
(* What a replay makes of an output *)

\* Contents that are a list, their references being one too.
IsList(ms) == ms = [k \in DOMAIN ms |-> ms[k]]

\* None, a model value when the module is checked, is not a reference.
NoneIsNoReference == \A i, d, o : [id |-> i, digest |-> d, occ |-> o] # None

\* The references of an output are those of what was compiled; the artifacts of
\* the main output are in the manifest.
Agrees(x) ==
    /\ x.compiled = [segs |-> x.compiled.segs, rendered |-> x.compiled.rendered,
                     text |-> x.compiled.text, artifacts |-> x.compiled.artifacts]
    /\ x.compiled.segs = [g \in DOMAIN x.compiled.segs |-> x.compiled.segs[g]]
    /\ x.out.segs = [g \in DOMAIN x.compiled.segs |-> Refs(x.compiled.segs[g])]
    /\ \A g \in DOMAIN x.compiled.segs : IsList(x.compiled.segs[g])
    /\ IF x.out.rendered = None THEN x.compiled.rendered = None
       ELSE Base(x.out.rendered).digest = x.compiled.rendered
    /\ IF x.out.text = None THEN x.compiled.text = None ELSE Base(x.out.text).digest = x.compiled.text
    /\ IsList(x.compiled.artifacts)
    /\ x.out.kind # "main" => x.out.artifacts = Refs(x.compiled.artifacts)

\* What was saved of a reference is what it stands for.
LEMMA SavedIs ==
    ASSUME NEW r, IndexValid(r), NEW ref, \E c \in r.content : c.ref = Base(ref)
    PROVE  Saved(r, ref) = Base(ref).digest
<1> DEFINE c == CHOOSE c \in r.content : c.ref = Base(ref)
<1>1. c \in r.content /\ c.ref = Base(ref)
  OBVIOUS
<1>2. c.ref.digest = c.wire
  BY <1>1 DEF IndexValid, SavedContentValid
<1> QED
  BY <1>1, <1>2 DEF Saved

LEMMA SavedListIs ==
    ASSUME NEW r, IndexValid(r), NEW ms, IsList(ms),
           \A ref \in Members(Refs(ms)) : \E c \in r.content : c.ref = Base(ref)
    PROVE  SavedAll(r, Refs(ms)) = ms
<1> DEFINE refs == Refs(ms)
<1>1. DOMAIN refs = DOMAIN ms /\ \A k \in DOMAIN ms : refs[k] = [id |-> ms[k].id, digest |-> ms[k], occ |-> None]
  BY DEF Refs, ContentRef
<1> HIDE DEF refs
<1>2. ASSUME NEW k \in DOMAIN ms
      PROVE  Saved(r, refs[k]) = ms[k]
  <2>1. refs[k] \in Members(refs)
    BY <1>1 DEF Members
  <2>2. Base(refs[k]).digest = ms[k]
    BY <1>1 DEF Base
  <2> QED
    BY <1>1, <2>1, <2>2, SavedIs DEF refs
<1>3. SavedAll(r, refs) = [k \in DOMAIN ms |-> ms[k]]
  BY <1>1, <1>2 DEF SavedAll
<1> QED
  BY <1>3 DEF refs, IsList

\* A replay of the body that was saved returns every output as it was compiled.
LEMMA ReplayedOutput ==
    ASSUME NEW r, IndexValid(r), NEW b, b = r.manifest.body,
           \A ref \in Decoded(b) : \E c \in r.content : c.ref = Base(ref),
           b.outputs = [k \in DOMAIN made |-> made[k].out],
           b.artifacts = Refs(made[1].compiled.artifacts),
           NEW k \in DOMAIN made, Agrees(made[k]), made[k].out.kind = "main" => k = 1
    PROVE  ReplayOutput(r, b.outputs[k]) = made[k].compiled
<1> DEFINE o == b.outputs[k]
           x == made[k].compiled
           q == ReplayOutput(r, o)
<1>1. o = made[k].out /\ o \in Members(b.outputs)
  BY DEF Members
<1> HIDE DEF o
<1>2. q = [segs |-> [g \in DOMAIN o.segs |-> SavedAll(r, o.segs[g])],
           rendered |-> IF o.rendered = None THEN None ELSE Saved(r, o.rendered),
           text |-> IF o.text = None THEN None ELSE Saved(r, o.text),
           artifacts |-> SavedAll(r, IF o.kind = "main" THEN b.artifacts ELSE o.artifacts)]
  BY DEF ReplayOutput
<1> HIDE DEF q, x
<1>3. Finals(o) \cup Members(o.artifacts) \cup (IF o.text = None THEN {} ELSE {o.text}) \subseteq Decoded(b)
  <2> DEFINE D(p) == Finals(p) \cup Members(p.artifacts) \cup (IF p.text = None THEN {} ELSE {p.text})
  <2>1. Decoded(b) = Members(b.artifacts) \cup UNION {D(p) : p \in Members(b.outputs)}
    BY DEF Decoded
  <2> HIDE DEF D
  <2>2. D(o) \subseteq UNION {D(p) : p \in Members(b.outputs)}
    BY <1>1
  <2>3. D(o) \subseteq Decoded(b)
    BY <2>1, <2>2
  <2> QED
    BY <2>3 DEF D
<1>4. DOMAIN o.segs = DOMAIN x.segs /\ \A g \in DOMAIN x.segs : o.segs[g] = Refs(x.segs[g]) /\ IsList(x.segs[g])
  BY <1>1 DEF Agrees, x
<1>5. \A g \in DOMAIN x.segs : SavedAll(r, o.segs[g]) = x.segs[g]
  <2> SUFFICES ASSUME NEW g \in DOMAIN x.segs
               PROVE  SavedAll(r, o.segs[g]) = x.segs[g]
    OBVIOUS
  <2>1. Members(o.segs[g]) \subseteq Finals(o)
    BY <1>4 DEF Finals
  <2>2. \A ref \in Members(Refs(x.segs[g])) : \E c \in r.content : c.ref = Base(ref)
    BY <1>3, <1>4, <2>1
  <2> QED
    BY <1>4, <2>2, SavedListIs
<1>6. [g \in DOMAIN o.segs |-> SavedAll(r, o.segs[g])] = x.segs
  <2>1. x.segs = [g \in DOMAIN x.segs |-> x.segs[g]]
    BY DEF Agrees, x
  <2> HIDE DEF o
  <2> QED
    BY <1>4, <1>5, <2>1
<1>7. (IF o.rendered = None THEN None ELSE Saved(r, o.rendered)) = x.rendered
  <2>1. CASE o.rendered = None
    BY <1>1, <2>1 DEF Agrees, x
  <2>2. CASE o.rendered # None
    <3>1. o.rendered \in Decoded(b)
      BY <1>3, <2>2 DEF Finals
    <3>2. Base(o.rendered).digest = x.rendered
      BY <1>1, <2>2 DEF Agrees, x
    <3> QED
      BY <2>2, <3>1, <3>2, SavedIs
  <2> QED
    BY <2>1, <2>2
<1>8. (IF o.text = None THEN None ELSE Saved(r, o.text)) = x.text
  <2>1. CASE o.text = None
    BY <1>1, <2>1 DEF Agrees, x
  <2>2. CASE o.text # None
    <3>1. o.text \in Decoded(b)
      BY <1>3, <2>2
    <3>2. Base(o.text).digest = x.text
      BY <1>1, <2>2 DEF Agrees, x
    <3> QED
      BY <2>2, <3>1, <3>2, SavedIs
  <2> QED
    BY <2>1, <2>2
<1>9. SavedAll(r, IF o.kind = "main" THEN b.artifacts ELSE o.artifacts) = x.artifacts
  <2>1. IsList(x.artifacts)
    BY DEF Agrees, x
  <2>2. CASE o.kind = "main"
    <3>1. b.artifacts = Refs(x.artifacts)
      BY <1>1, <2>2 DEF x
    <3>2. Members(b.artifacts) \subseteq Decoded(b)
      BY DEF Decoded
    <3> QED
      BY <2>1, <2>2, <3>1, <3>2, SavedListIs
  <2>3. CASE o.kind # "main"
    <3>1. o.artifacts = Refs(x.artifacts)
      BY <1>1, <2>3 DEF Agrees, x
    <3> QED
      BY <1>3, <2>1, <2>3, <3>1, SavedListIs
  <2> QED
    BY <2>2, <2>3
<1>10. q = [segs |-> x.segs, rendered |-> x.rendered, text |-> x.text, artifacts |-> x.artifacts]
  BY <1>2, <1>6, <1>7, <1>8, <1>9
<1> QED
  BY <1>10 DEF q, x, o, Agrees

\* The references of one output agree with what was compiled.
LEMMA FinishedAgrees ==
    ASSUME NoneIsNoReference,
           NEW ch, NEW trace, NEW segs, NEW rendered, NEW text, NEW artifacts, NEW excluded,
           NEW x, x.out = Output(ch, trace, segs, rendered, text, artifacts, excluded),
           x.compiled = Compiled(segs, rendered, text, artifacts),
           IsList(artifacts),
           rendered # None => Base(InputRef(trace, rendered.m)) = ContentRef(rendered.m)
                              /\ InputRef(trace, rendered.m) # None
    PROVE  Agrees(x) /\ x.out.kind = ch.kind
<1>1. /\ x.compiled.segs = [g \in DOMAIN segs |-> Contents(segs[g])]
      /\ x.compiled.rendered = IF rendered = None THEN None ELSE rendered.m
      /\ x.compiled.text = text /\ x.compiled.artifacts = artifacts
      /\ x.compiled = [segs |-> x.compiled.segs, rendered |-> x.compiled.rendered,
                       text |-> x.compiled.text, artifacts |-> x.compiled.artifacts]
  BY DEF Compiled
<1>2. /\ x.out.kind = ch.kind
      /\ x.out.segs = [g \in DOMAIN segs |-> Refs(Contents(segs[g]))]
      /\ x.out.text = IF text = None THEN None ELSE ContentRef(text)
      /\ x.out.rendered = IF rendered = None THEN None ELSE InputRef(trace, rendered.m)
      /\ x.out.artifacts = IF ch.kind = "main" THEN << >> ELSE Refs(artifacts)
  BY DEF Output
<1>3. \A c : ContentRef(c) # None /\ ContentRef(c).digest = c /\ Base(ContentRef(c)).digest = c
  BY DEF ContentRef, Base, NoneIsNoReference
<1>4. \A g \in DOMAIN segs : IsList(Contents(segs[g]))
  BY DEF Contents, IsList
<1>5. x.compiled.segs = [g \in DOMAIN x.compiled.segs |-> x.compiled.segs[g]]
  BY <1>1
<1>6. DOMAIN x.compiled.segs = DOMAIN segs /\ \A g \in DOMAIN segs : x.compiled.segs[g] = Contents(segs[g])
  BY <1>1
<1>7. x.out.segs = [g \in DOMAIN x.compiled.segs |-> Refs(x.compiled.segs[g])]
  BY <1>2, <1>6
<1>8. IF x.out.rendered = None THEN x.compiled.rendered = None
      ELSE Base(x.out.rendered).digest = x.compiled.rendered
  BY <1>1, <1>2, <1>3
<1>9. IF x.out.text = None THEN x.compiled.text = None ELSE Base(x.out.text).digest = x.compiled.text
  BY <1>1, <1>2, <1>3
<1>10. IsList(x.compiled.artifacts) /\ (x.out.kind # "main" => x.out.artifacts = Refs(x.compiled.artifacts))
  BY <1>1, <1>2
<1>11. \A g \in DOMAIN x.compiled.segs : IsList(x.compiled.segs[g])
  BY <1>4, <1>6
<1>12. x.compiled = [segs |-> x.compiled.segs, rendered |-> x.compiled.rendered,
                       text |-> x.compiled.text, artifacts |-> x.compiled.artifacts]
  BY <1>1
<1> QED
  BY <1>2, <1>5, <1>7, <1>8, <1>9, <1>10, <1>11, <1>12 DEF Agrees

\* f[k] is what has been chosen from s up to every position.
KeepsUpTo(f, n, s, S) ==
    f = [k \in 0..n |-> IF k = 0 THEN << >>
                        ELSE IF s[k] \in S THEN Append(f[k - 1], s[k]) ELSE f[k - 1]]

LEMMA KeepsExtends ==
    ASSUME NEW n \in Nat, NEW s, NEW S, NEW f, KeepsUpTo(f, n, s, S)
    PROVE  \E g : KeepsUpTo(g, n + 1, s, S)
<1> DEFINE last == IF s[n + 1] \in S THEN Append(f[n], s[n + 1]) ELSE f[n]
           g == [k \in 0..n + 1 |-> IF k = n + 1 THEN last ELSE f[k]]
           Body(k) == IF k = 0 THEN << >>
                      ELSE IF s[k] \in S THEN Append(g[k - 1], s[k]) ELSE g[k - 1]
<1>1. ASSUME NEW k \in 0..n + 1
      PROVE  g[k] = Body(k)
  <2>1. CASE k = n + 1
    <3>1. k # 0 /\ k - 1 = n /\ k - 1 \in 0..n + 1 /\ k - 1 # n + 1
      BY <2>1
    <3>2. g[k] = last /\ g[k - 1] = f[n]
      BY <2>1, <3>1
    <3> HIDE DEF g
    <3> QED
      BY <2>1, <3>1, <3>2
  <2>2. CASE k # n + 1 /\ k # 0
    <3>1. k \in 0..n /\ k - 1 \in 0..n + 1 /\ k - 1 # n + 1
      BY <2>2
    <3>2. g[k] = f[k] /\ g[k - 1] = f[k - 1]
      BY <2>2, <3>1
    <3>3. f[k] = IF s[k] \in S THEN Append(f[k - 1], s[k]) ELSE f[k - 1]
      BY <2>2, <3>1 DEF KeepsUpTo
    <3> HIDE DEF g
    <3> QED
      BY <2>2, <3>2, <3>3
  <2>3. CASE k = 0
    <3>1. k \in 0..n /\ k # n + 1
      BY <2>3
    <3>2. f[0] = << >>
      BY <2>3, <3>1 DEF KeepsUpTo
    <3> QED
      BY <2>3, <3>1, <3>2
  <2> QED
    BY <2>1, <2>2, <2>3
<1>2. g = [k \in 0..n + 1 |-> g[k]]
  OBVIOUS
<1> HIDE DEF g
<1>3. g = [k \in 0..n + 1 |-> Body(k)]
  BY <1>1, <1>2
<1> QED
  BY <1>3 DEF KeepsUpTo

LEMMA KeepsExists ==
    ASSUME NEW n \in Nat, NEW s, NEW S
    PROVE  \E f : KeepsUpTo(f, n, s, S)
<1> DEFINE N == {k \in Nat : \E f : KeepsUpTo(f, k, s, S)}
<1>1. 0 \in N
  <2> DEFINE f == [k \in 0..0 |-> << >>]
  <2>1. \A k \in 0..0 : k = 0
    OBVIOUS
  <2>2. KeepsUpTo(f, 0, s, S)
    BY <2>1 DEF KeepsUpTo
  <2> QED
    BY <2>2
<1>2. \A k \in Nat : k \in N => k + 1 \in N
  BY KeepsExtends
<1> HIDE DEF N
<1>3. Nat \subseteq N
  BY <1>1, <1>2, NatSetInduction
<1> QED
  BY <1>3 DEF N

\* What is chosen from a sequence is one.
LEMMA KeptIsSequence ==
    ASSUME NEW s, IsSequence(s), NEW S
    PROVE  IsList(Kept(s, S))
<1> DEFINE n == Len(s)
           f == CHOOSE f : KeepsUpTo(f, n, s, S)
           R == Range(s)
           N == {k \in Nat : k <= n => f[k] \in Seq(R)}
<1>1. n \in Nat /\ \A k \in 1..n : s[k] \in R
  BY SequenceDomain DEF Range
<1>2. Kept(s, S) = f[n]
  BY DEF Kept, KeepsUpTo
<1> HIDE DEF n, R
<1>3. KeepsUpTo(f, n, s, S)
  BY <1>1, KeepsExists
<1> HIDE DEF f
<1>4. 0 \in N
  BY <1>1, <1>3 DEF KeepsUpTo
<1>5. ASSUME NEW k \in Nat, k \in N
      PROVE  k + 1 \in N
  <2> SUFFICES ASSUME k + 1 <= n
               PROVE  f[k + 1] \in Seq(R)
    OBVIOUS
  <2>1. f[k] \in Seq(R) /\ s[k + 1] \in R
    BY <1>1, <1>5
  <2>2. f[k + 1] = IF s[k + 1] \in S THEN Append(f[k], s[k + 1]) ELSE f[k]
    <3>1. k + 1 \in 0..n /\ k + 1 # 0 /\ (k + 1) - 1 = k
      BY <1>1
    <3> QED
      BY <1>3, <3>1 DEF KeepsUpTo
  <2> QED
    BY <2>1, <2>2, AppendProperties
<1> HIDE DEF N
<1>6. Nat \subseteq N
  BY <1>4, <1>5, NatSetInduction
<1>7. f[n] \in Seq(R)
  BY <1>1, <1>6 DEF N
<1> HIDE DEF n
<1>8. \A t \in Seq(R) : t = [k \in DOMAIN t |-> t[k]]
  OBVIOUS
<1> QED
  BY <1>2, <1>7, <1>8 DEF IsList

-----------------------------------------------------------------------------
(* The inductive invariant *)

\* The work of an output; its artifacts are those of the request or none.
IsWork(w) ==
    /\ w = [snap |-> w.snap, pending |-> w.pending, artifacts |-> w.artifacts, trace |-> w.trace, gone |-> w.gone]
    /\ w.artifacts \in {<< >>, req.artifacts}

Early == {"prompt", "artifacts", "deferred"}
Late == {"hook", "format", "budget", "finish", "view"}

WorkOK == pc \in Early \cup Late => IsWork(work)

\* Only the first output is the main one, and it comes first.
TodoOK ==
    pc \in Late =>
        /\ IsWork(prepared)
        /\ IsSequence(todo) /\ todo # << >>
        /\ \A k \in DOMAIN todo : todo[k].kind = "target" \/ (k = 1 /\ made = << >>)

\* The outputs made so far agree with their references, the main one first.
MadeOK ==
    /\ IsSequence(made)
    /\ \A k \in DOMAIN made : Agrees(made[k]) /\ (made[k].out.kind = "main" => k = 1)
    /\ pc \in {"start"} \cup Early => made = << >>
    /\ pc \in {"manifest", "saved"} => made # << >>

\* r has the fields of a record.
IsRecord(r) ==
    r = [manifest |-> r.manifest, state |-> r.state, decided |-> r.decided, content |-> r.content, omitted |-> r.omitted]

\* The expectation has the manifest that was made, and the record has what the
\* policy left, until storage harms it.
SavedOK ==
    /\ pc = "saved" =>
         /\ expected.digest.outputs = [k \in DOMAIN made |-> made[k].out]
         /\ expected.digest.artifacts = Refs(made[1].compiled.artifacts)
         /\ ~harmed => IsRecord(record) /\ record.content = cap.kept /\ record.omitted = cap.denied
    /\ pc # "saved" => replayed = None

Inv ==
    /\ req \in Requests
    /\ WorkOK
    /\ TodoOK
    /\ MadeOK
    /\ PolicyKept(cap)
    /\ SavedOK
    /\ ReplayFaithful

-----------------------------------------------------------------------------
(* Steps in general *)

LEMMA InitInv ==
    ASSUME Init
    PROVE  Inv
<1>1. PolicyKept(cap)
  BY EmptyCaptureOK DEF Init
<1>2. IsSequence(made)
  BY DEF Init, IsSequence
<1>3. MadeOK
  BY <1>2 DEF Init, MadeOK
<1> QED
  BY <1>1, <1>3 DEF Init, Inv, WorkOK, TodoOK, SavedOK, ReplayFaithful, Early, Late

\* A step of the compilation before its outputs are complete.
LEMMA StageInv ==
    ASSUME Inv, pc \notin {"manifest", "saved", "failed"}, UNCHANGED <<req, made, host>>,
           pc' \in Early \cup Late, pc' \in Early => pc \in {"start"} \cup Early,
           WorkOK', TodoOK', PolicyKept(cap)'
    PROVE  Inv'
<1>1. req' = req /\ made' = made /\ replayed' = replayed /\ replayed = None /\ replayed' = None
  BY DEF Inv, SavedOK, host
<1>2. pc' \notin {"start", "manifest", "saved"}
  BY DEF Early, Late
<1>3. MadeOK'
  <2>1. \A k \in DOMAIN made : Agrees(made[k])' <=> Agrees(made[k])
    BY <1>1 DEF Agrees
  <2>2. pc' \in {"start"} \cup Early => made' = << >>
    BY <1>1, <1>2 DEF Inv, MadeOK
  <2> QED
    BY <1>1, <1>2, <2>1, <2>2 DEF Inv, MadeOK
<1>4. SavedOK' /\ ReplayFaithful'
  BY <1>1, <1>2 DEF SavedOK, ReplayFaithful
<1> QED
  BY <1>1, <1>3, <1>4 DEF Inv

LEMMA FailInv ==
    ASSUME Inv, pc # "saved", Fail
    PROVE  Inv'
<1>1. req' = req /\ made' = << >> /\ pc' = "failed" /\ replayed' = None
  BY DEF Fail, Inv, SavedOK, host
<1>2. PolicyKept(cap)'
  BY EmptyCaptureOK, <1>1 DEF Fail, PolicyKept
<1>3. MadeOK'
  BY <1>1 DEF MadeOK, IsSequence, Early
<1> QED
  BY <1>1, <1>2, <1>3 DEF Inv, WorkOK, TodoOK, SavedOK, ReplayFaithful, Early, Late

LEMMA StagedOK ==
    ASSUME NEW w, IsWork(w), NEW stage, NEW before, NEW after, NEW mapping, NEW summarize
    PROVE  LET v == Staged(w, stage, before, after, mapping, summarize)
           IN  /\ IsWork(v) /\ v.artifacts = w.artifacts /\ v.snap = w.snap /\ v.pending = w.pending
               /\ v.trace = Capture(w.trace, stage, Contents(before), Contents(after), mapping, summarize)
<1> DEFINE v == Staged(w, stage, before, after, mapping, summarize)
           t == Capture(w.trace, stage, Contents(before), Contents(after), mapping, summarize)
<1>1. PICK gone : v = [w EXCEPT !.trace = t, !.gone = gone]
  BY DEF Staged
<1> HIDE DEF v, t
<1>2. w = [snap |-> w.snap, pending |-> w.pending, artifacts |-> w.artifacts, trace |-> w.trace, gone |-> w.gone]
  BY DEF IsWork
<1>3. v = [snap |-> w.snap, pending |-> w.pending, artifacts |-> w.artifacts, trace |-> t, gone |-> gone]
  BY <1>1, <1>2
<1> QED
  BY <1>3 DEF IsWork, v, t

\* Other parts of the work change.
LEMMA WorkWith ==
    ASSUME NEW w, IsWork(w), NEW x
    PROVE  /\ IsWork([w EXCEPT !.trace = x])
           /\ IsWork([w EXCEPT !.snap = x])
           /\ IsWork([w EXCEPT !.pending = x])
<1>2. w = [snap |-> w.snap, pending |-> w.pending, artifacts |-> w.artifacts, trace |-> w.trace, gone |-> w.gone]
  BY DEF IsWork
<1>3. /\ [w EXCEPT !.trace = x] = [snap |-> w.snap, pending |-> w.pending, artifacts |-> w.artifacts, trace |-> x, gone |-> w.gone]
      /\ [w EXCEPT !.snap = x] = [snap |-> x, pending |-> w.pending, artifacts |-> w.artifacts, trace |-> w.trace, gone |-> w.gone]
      /\ [w EXCEPT !.pending = x] = [snap |-> w.snap, pending |-> x, artifacts |-> w.artifacts, trace |-> w.trace, gone |-> w.gone]
  BY <1>2
<1> QED
  BY <1>3 DEF IsWork

\* The work after a step, as the invariant has it.
LEMMA WorkAfter ==
    ASSUME Inv, req' = req, NEW w, IsWork(w), work' = w
    PROVE  WorkOK'
BY DEF WorkOK, IsWork

\* Outputs that are still to be made are left alone.
LEMMA TodoAfter ==
    ASSUME Inv, req' = req, UNCHANGED <<todo, prepared, made>>, pc' \in Late => pc \in Late
    PROVE  TodoOK'
<1> SUFFICES ASSUME pc' \in Late
             PROVE  /\ IsWork(prepared)'
                    /\ IsSequence(todo)' /\ todo' # << >>
                    /\ \A k \in DOMAIN todo' : todo'[k].kind = "target" \/ (k = 1 /\ made' = << >>)
  BY DEF TodoOK
<1>1. pc \in Late
  OBVIOUS
<1>2. /\ IsWork(prepared)
      /\ IsSequence(todo) /\ todo # << >>
      /\ \A k \in DOMAIN todo : todo[k].kind = "target" \/ (k = 1 /\ made = << >>)
  BY <1>1 DEF Inv, TodoOK
<1>3. IsWork(prepared)'
  BY <1>2 DEF IsWork
<1> QED
  BY <1>2, <1>3

LEMMA OfferedOK ==
    ASSUME Inv, req' = req, NEW es, Offered(es)
    PROVE  PolicyKept(cap)'
<1>1. PolicyKept(cap')
  BY KeepAllOK DEF Inv, Offered
<1> QED
  BY <1>1 DEF PolicyKept

LEMMA CapSame ==
    ASSUME Inv, req' = req, cap' = cap
    PROVE  PolicyKept(cap)'
BY DEF Inv, PolicyKept

-----------------------------------------------------------------------------
(* Preparation *)

LEMMA StartTraceInv ==
    ASSUME Inv, StartTrace
    PROVE  Inv'
<1>1. CASE Fail
  BY <1>1, FailInv DEF StartTrace
<1>2. CASE ~Fail
  <2>1. /\ pc = "start" /\ pc' = "prompt"
        /\ UNCHANGED <<req, todo, prepared, made, host>>
    BY <1>2 DEF StartTrace
  <2> DEFINE all == Inputs("history", req.segs["history"]) \o Inputs("memory", req.segs["memory"])
                  \o Inputs("pending", req.pending)
                  \o (IF req.turn = None THEN << >> ELSE <<Input("current/raw", req.turn.raw)>>)
             w == [snap |-> [g \in Members(Order) |-> Inputs(g, req.segs[g])],
                   pending |-> Inputs("pending", req.pending), artifacts |-> << >>,
                   trace |-> NewTrace(req.id, req.lineage, req.origins, req.strict), gone |-> << >>]
             traced == Staged(w, "source", all, all, NoMapping, FALSE)
  <2>2. /\ work' = traced
        /\ cap' = KeepAll(CaptureInputs(req), Contents(all), "message", "transform")
    BY <1>2 DEF StartTrace
  <2>3. IsWork(w)
    BY DEF IsWork
  <2> HIDE DEF w, all
  <2>4. IsWork(traced)
    BY <2>3, StagedOK
  <2> HIDE DEF traced
  <2>5. WorkOK'
    BY <2>1, <2>2, <2>4, WorkAfter
  <2>6. TodoOK'
    BY <2>1 DEF TodoOK, Late
  <2>7. PolicyKept(cap')
    BY <2>2, InputsOK, KeepAllOK
  <2>8. PolicyKept(cap)'
    BY <2>1, <2>7 DEF PolicyKept
  <2> QED
    BY <2>1, <2>5, <2>6, <2>8, StageInv DEF Early, Late
<1> QED
  BY <1>1, <1>2

LEMMA CompilePendingInv ==
    ASSUME Inv, CompilePending
    PROVE  Inv'
<1>1. /\ pc = "prompt" /\ pc' = "artifacts"
      /\ UNCHANGED <<req, todo, prepared, work, cap, made, host>>
  BY DEF CompilePending
<1>2. IsWork(work)
  BY <1>1 DEF Inv, WorkOK, Early
<1>3. WorkOK'
  BY <1>1, <1>2, WorkAfter
<1>4. TodoOK'
  BY <1>1 DEF TodoOK, Late
<1> QED
  BY <1>1, <1>3, <1>4, CapSame, StageInv DEF Early, Late

LEMMA ProjectPromptInv ==
    ASSUME Inv, ProjectPrompt
    PROVE  Inv'
<1>1. CASE Fail
  BY <1>1, FailInv DEF ProjectPrompt
<1>2. CASE ~Fail
  <2> DEFINE raw == Input("current/raw", req.turn.raw)
             prompt == [m |-> req.turn.prompt, from |-> raw.from \cup Input("current/prompt", req.turn.prompt).from]
             template == Materialize(work.trace, "prompt-template", raw.m, prompt.m)
             w == Staged([work EXCEPT !.trace = template], "prompt", <<raw, prompt>>, <<prompt>>, NoMapping, FALSE)
             next == Append(w.pending, prompt)
  <2>1. /\ pc = "prompt" /\ pc' = "artifacts"
        /\ work' = [w EXCEPT !.pending = Append(@, prompt)]
        /\ Offered(<<prompt, prompt>>)
        /\ UNCHANGED <<req, todo, prepared, made, host>>
    BY <1>2 DEF ProjectPrompt
  <2>2. IsWork(work)
    BY <2>1 DEF Inv, WorkOK, Early
  <2> HIDE DEF raw, prompt, template
  <2>3. IsWork([work EXCEPT !.trace = template])
    BY <2>2, WorkWith
  <2>4. IsWork(w)
    BY <2>3, StagedOK
  <2> HIDE DEF w
  <2>5. IsWork([w EXCEPT !.pending = Append(w.pending, prompt)])
    BY <2>4, WorkWith
  <2>6. work' = [w EXCEPT !.pending = Append(w.pending, prompt)]
    BY <2>1
  <2>7. WorkOK'
    BY <2>1, <2>5, <2>6, WorkAfter
  <2>8. TodoOK'
    BY <2>1 DEF TodoOK, Late
  <2>9. PolicyKept(cap)'
    BY <2>1, OfferedOK
  <2> QED
    BY <2>1, <2>7, <2>8, <2>9, StageInv DEF Early, Late
<1> QED
  BY <1>1, <1>2

LEMMA AddArtifactMessagesInv ==
    ASSUME Inv, AddArtifactMessages
    PROVE  Inv'
<1>1. CASE Fail
  BY <1>1, FailInv DEF AddArtifactMessages
<1>2. CASE ~Fail
  <2>1. PICK trace, es :
          /\ pc = "artifacts" /\ pc' = "deferred"
          /\ work' = [work EXCEPT !.trace = trace, !.artifacts = req.artifacts, !.snap["memory"] = @ \o es]
          /\ Offered(es)
          /\ UNCHANGED <<req, todo, prepared, made, host>>
    BY <1>2, Zenon DEF AddArtifactMessages
  <2>2. IsWork(work)
    BY <2>1 DEF Inv, WorkOK, Early
  <2>3. work = [snap |-> work.snap, pending |-> work.pending, artifacts |-> work.artifacts,
                trace |-> work.trace, gone |-> work.gone]
    BY <2>2 DEF IsWork
  <2> DEFINE v == [snap |-> [work.snap EXCEPT !["memory"] = @ \o es], pending |-> work.pending,
                   artifacts |-> req.artifacts, trace |-> trace, gone |-> work.gone]
  <2>4. work' = v
    BY <2>1, <2>3
  <2>5. IsWork(v)
    BY DEF IsWork
  <2> HIDE DEF v
  <2>6. WorkOK'
    BY <2>1, <2>4, <2>5, WorkAfter
  <2>7. TodoOK'
    BY <2>1 DEF TodoOK, Late
  <2>8. PolicyKept(cap)'
    BY <2>1, OfferedOK
  <2> QED
    BY <2>1, <2>6, <2>7, <2>8, StageInv DEF Early, Late
<1> QED
  BY <1>1, <1>2

\* The outputs to be made: the main one and then the targets.
LEMMA FirstOutputs ==
    ASSUME req \in Requests, NEW m, NEW t, t = <<m>> \o req.targets
    PROVE  /\ IsSequence(t) /\ t # << >>
           /\ \A k \in DOMAIN t : t[k].kind = "target" \/ k = 1
<1> DEFINE s == req.targets
           R == Range(s) \cup {m}
<1>1. s \in Seq(Range(s)) /\ \A ch \in Range(s) : ch.kind = "target"
  BY RequestsAssumption
<1>2. s \in Seq(R) /\ <<m>> \in Seq(R) /\ Len(<<m>>) = 1
  BY <1>1
<1>3. DOMAIN s = 1..Len(s) /\ Len(s) \in Nat /\ \A k \in 1..Len(s) : s[k] \in Range(s)
  BY <1>1 DEF Range
<1> HIDE DEF s, R
<1>4. t \in Seq(R) /\ Len(t) = 1 + Len(s) /\ \A k \in 1..Len(t) : t[k] = IF k <= 1 THEN <<m>>[k] ELSE s[k - 1]
  BY <1>2, <1>3, ConcatProperties DEF s
<1>5. DOMAIN t = 1..1 + Len(s)
  BY <1>3, <1>4
<1>6. \A k \in DOMAIN t : t[k].kind = "target" \/ k = 1
  <2> SUFFICES ASSUME NEW k \in DOMAIN t, k # 1
               PROVE  t[k].kind = "target"
    OBVIOUS
  <2>1. k - 1 \in 1..Len(s) /\ ~(k <= 1) /\ k \in 1..Len(t)
    BY <1>3, <1>4, <1>5
  <2> QED
    BY <1>1, <1>3, <1>4, <2>1 DEF s
<1>7. IsSequence(t)
  BY <1>4, SequenceOf
<1>8. t # << >>
  BY <1>3, <1>5
<1> QED
  BY <1>6, <1>7, <1>8

LEMMA PreparedInv ==
    ASSUME Inv, pc = "deferred", UNCHANGED <<req, made, host>>, PolicyKept(cap)',
           NEW w, IsWork(w), FinishPreparation(w)
    PROVE  Inv'
<1>1. PICK m : /\ prepared' = w
               /\ work' = [w EXCEPT !.trace = Branch(@, <<"main">>)]
               /\ todo' = <<m>> \o req.targets
               /\ pc' = "hook"
  BY Zenon DEF FinishPreparation
<1>2. IsWork([w EXCEPT !.trace = Branch(w.trace, <<"main">>)])
  BY WorkWith
<1>3. work' = [w EXCEPT !.trace = Branch(w.trace, <<"main">>)]
  BY <1>1
<1>4. WorkOK'
  BY <1>2, <1>3, WorkAfter
<1>5. IsSequence(todo') /\ todo' # << >> /\ \A k \in DOMAIN todo' : todo'[k].kind = "target" \/ k = 1
  BY <1>1, FirstOutputs DEF Inv
<1>6. made' = << >>
  BY DEF Inv, MadeOK, Early
<1>7. IsWork(prepared)'
  BY <1>1 DEF IsWork
<1>8. TodoOK'
  BY <1>5, <1>6, <1>7 DEF TodoOK
<1> QED
  BY <1>1, <1>4, <1>8, StageInv DEF Early, Late

LEMMA NoDeferredBlockInv ==
    ASSUME Inv, NoDeferredBlock
    PROVE  Inv'
<1>1. pc = "deferred" /\ FinishPreparation(work) /\ UNCHANGED <<req, cap, made, host>>
  BY DEF NoDeferredBlock
<1>2. IsWork(work)
  BY <1>1 DEF Inv, WorkOK, Early
<1> QED
  BY <1>1, <1>2, CapSame, PreparedInv

LEMMA ApplyDeferredBlockInv ==
    ASSUME Inv, ApplyDeferredBlock
    PROVE  Inv'
<1>1. CASE Fail
  BY <1>1, FailInv DEF ApplyDeferredBlock
<1>2. CASE ~Fail
  <2> DEFINE Plain(ms) == [k \in DOMAIN ms |-> [m |-> ms[k], from |-> {}]]
             First(ms) == Staged(work, "deferred", Plain(ms), Plain(ms), NoMapping, FALSE)
             Named(ms) == [k \in DOMAIN ms |->
                [m |-> ms[k], from |-> {[segment |-> "resolved", ref |-> InputRef(First(ms).trace, ms[k]), summarized |-> FALSE]}]]
             existing == work.snap["memory"]
             Merged(ms, after) == Staged(First(ms), "merge", existing \o Named(ms), after, NoMapping, FALSE)
  <2>1. pc = "deferred"
    BY DEF ApplyDeferredBlock
  <2>2. PICK ms, after :
          /\ FinishPreparation([Merged(ms, after) EXCEPT !.snap["memory"] = after])
          /\ Offered(Plain(ms) \o after)
          /\ UNCHANGED <<req, made, host>>
    BY <1>2, Zenon DEF ApplyDeferredBlock
  <2>3. IsWork(work)
    BY <2>1 DEF Inv, WorkOK, Early
  <2> HIDE DEF Plain, Named, existing
  <2>4. IsWork(First(ms))
    BY <2>3, StagedOK
  <2> HIDE DEF First
  <2>5. IsWork(Merged(ms, after))
    BY <2>4, StagedOK
  <2> HIDE DEF Merged
  <2> DEFINE v == Merged(ms, after)
             w == [v EXCEPT !.snap["memory"] = after]
  <2>6. IsWork([v EXCEPT !.snap = [v.snap EXCEPT !["memory"] = after]])
    BY <2>5, WorkWith
  <2>7. w = [v EXCEPT !.snap = [v.snap EXCEPT !["memory"] = after]]
    OBVIOUS
  <2>8. IsWork(w)
    BY <2>6, <2>7
  <2> HIDE DEF w
  <2>9. FinishPreparation(w)
    BY <2>2 DEF w
  <2> QED
    BY <2>1, <2>2, <2>8, <2>9, OfferedOK, PreparedInv
<1> QED
  BY <1>1, <1>2

-----------------------------------------------------------------------------
(* The stages of an output *)

\* A stage goes on with the same outputs.
LEMMA OutputStageInv ==
    ASSUME Inv, pc \in Late, pc' \in Late, UNCHANGED <<req, todo, prepared, made, host>>,
           PolicyKept(cap)', NEW w, IsWork(w), work' = w
    PROVE  Inv'
<1>1. WorkOK'
  BY WorkAfter
<1>2. TodoOK'
  BY TodoAfter
<1>3. pc \notin {"manifest", "saved", "failed"} /\ pc' \notin Early
  BY DEF Late, Early
<1> QED
  BY <1>1, <1>2, <1>3, StageInv

LEMMA ApplyHooksInv ==
    ASSUME Inv, ApplyHooks
    PROVE  Inv'
<1>1. IsWork(work)
  BY DEF ApplyHooks, Inv, WorkOK, Late
<1> QED
  BY <1>1, CapSame, OutputStageInv DEF ApplyHooks, Late

LEMMA RunHookInv ==
    ASSUME Inv, RunHook
    PROVE  Inv'
<1>1. CASE Fail
  BY <1>1, FailInv DEF RunHook
<1>2. CASE ~Fail
  <2>1. PICK before, after, rs, snap :
          LET w == Staged(work, "hook", before, after, Mapping(rs), FALSE)
          IN  /\ work' = [w EXCEPT !.snap = snap]
              /\ Offered(after)
              /\ pc = "hook" /\ pc' = "format"
              /\ UNCHANGED <<req, todo, prepared, made, host>>
    BY <1>2, Zenon DEF RunHook
  <2>2. IsWork(work)
    BY <2>1 DEF Inv, WorkOK, Late
  <2> DEFINE w == Staged(work, "hook", before, after, Mapping(rs), FALSE)
  <2>3. IsWork(w)
    BY <2>2, StagedOK
  <2> HIDE DEF w
  <2>4. IsWork([w EXCEPT !.snap = snap])
    BY <2>3, WorkWith
  <2>5. work' = [w EXCEPT !.snap = snap]
    BY <2>1 DEF w
  <2>6. PolicyKept(cap)'
    BY <2>1, OfferedOK
  <2> QED
    BY <2>1, <2>4, <2>5, <2>6, OutputStageInv DEF Late
<1> QED
  BY <1>1, <1>2

LEMMA ApplySegmentFormattersInv ==
    ASSUME Inv, ApplySegmentFormatters
    PROVE  Inv'
<1>1. CASE Fail
  BY <1>1, FailInv DEF ApplySegmentFormatters
<1>2. CASE ~Fail
  <2>1. pc = "format" /\ IsWork(work)
    BY DEF ApplySegmentFormatters, Inv, WorkOK, Late
  <2>2. CASE pc' = "budget" /\ UNCHANGED <<req, todo, prepared, work, cap, made, host>>
    BY <2>1, <2>2, CapSame, OutputStageInv DEF Late
  <2>3. CASE ~(pc' = "budget" /\ UNCHANGED <<req, todo, prepared, work, cap, made, host>>)
    <3>1. PICK before, after, rs, snap :
            LET w == Staged(work, "format", before, after, Mapping(rs), FALSE)
            IN  /\ work' = [w EXCEPT !.snap = snap]
                /\ Offered(after)
                /\ pc' = "budget"
                /\ UNCHANGED <<req, todo, prepared, made, host>>
      BY <1>2, <2>3, Zenon DEF ApplySegmentFormatters
    <3> DEFINE w == Staged(work, "format", before, after, Mapping(rs), FALSE)
    <3>2. IsWork(w)
      BY <2>1, StagedOK
    <3> HIDE DEF w
    <3>3. IsWork([w EXCEPT !.snap = snap])
      BY <3>2, WorkWith
    <3>4. work' = [w EXCEPT !.snap = snap]
      BY <3>1 DEF w
    <3>5. PolicyKept(cap)'
      BY <3>1, OfferedOK
    <3> QED
      BY <2>1, <3>1, <3>3, <3>4, <3>5, OutputStageInv DEF Late
  <2> QED
    BY <2>2, <2>3
<1> QED
  BY <1>1, <1>2

LEMMA WithoutBudgetInv ==
    ASSUME Inv, WithoutBudget
    PROVE  Inv'
<1>1. /\ pc = "budget" /\ pc' = "finish"
      /\ work' = [work EXCEPT !.snap["history"] = @ \o Pending]
      /\ UNCHANGED <<req, todo, prepared, cap, made, host>>
  BY DEF WithoutBudget
<1>2. IsWork(work)
  BY <1>1 DEF Inv, WorkOK, Late
<1> DEFINE s == work.snap["history"] \o Pending
<1>3. work' = [work EXCEPT !.snap = [work.snap EXCEPT !["history"] = s]]
  BY <1>1
<1> HIDE DEF s
<1>4. IsWork([work EXCEPT !.snap = [work.snap EXCEPT !["history"] = s]])
  BY <1>2, WorkWith
<1> QED
  BY <1>1, <1>3, <1>4, CapSame, OutputStageInv DEF Late

LEMMA ApplyBudgetInv ==
    ASSUME Inv, ApplyBudget
    PROVE  Inv'
<1>1. CASE Fail
  BY <1>1, FailInv DEF ApplyBudget
<1>2. CASE ~Fail
  <2> DEFINE First(old, summary) ==
               IF summary = << >> THEN work ELSE Staged(work, "summarize", old, summary, NoMapping, TRUE)
             Then(old, summary, history, kept) ==
               Staged(First(old, summary), "budget", history, kept, NoMapping, FALSE)
  <2> DEFINE past == work.snap["history"]
             plans == {p \in Plans(past) : Fits(past, p)}
             Old(p) == SubSeq(past, 1, p.k)
             Summary(p) == [k \in DOMAIN p.s |->
                             [m |-> p.s[k], from |-> {[f EXCEPT !.summarized = TRUE] : f \in From(Old(p))}]]
             Rest(p) == Summary(p) \o SubSeq(past, p.k + 1, Len(past))
             Body(p) == IF First(Old(p), Summary(p)).trace = None THEN Fail
                        ELSE IF Then(Old(p), Summary(p), past, Rest(p)).trace = None THEN Fail
                        ELSE /\ work' = [Then(Old(p), Summary(p), past, Rest(p)) EXCEPT !.snap["history"] = Rest(p) \o Pending]
                             /\ Offered(Summary(p) \o Rest(p))
                             /\ pc' = "finish"
                             /\ UNCHANGED <<req, todo, prepared, made, host>>
  <2>a. /\ pc = "budget"
        /\ IF plans = {} THEN Fail ELSE \E p \in plans : Body(p)
    BY DEF ApplyBudget
  <2> HIDE DEF past, plans, Old, Summary, Rest
  <2>b. PICK p : Body(p)
    BY <1>2, <2>a
  <2>1. PICK old, summary, history, kept :
          /\ work' = [Then(old, summary, history, kept) EXCEPT !.snap["history"] = kept \o Pending]
          /\ Offered(summary \o kept)
          /\ pc = "budget" /\ pc' = "finish"
          /\ UNCHANGED <<req, todo, prepared, made, host>>
    BY <1>2, <2>a, <2>b, Zenon
  <2>2. IsWork(work)
    BY <2>1 DEF Inv, WorkOK, Late
  <2>3. IsWork(First(old, summary))
    BY <2>2, StagedOK
  <2> HIDE DEF First
  <2>4. IsWork(Then(old, summary, history, kept))
    BY <2>3, StagedOK
  <2> HIDE DEF Then
  <2> DEFINE v == Then(old, summary, history, kept)
             s == kept \o Pending
  <2>5. work' = [v EXCEPT !.snap = [v.snap EXCEPT !["history"] = s]]
    BY <2>1
  <2>6. IsWork(v)
    BY <2>4
  <2> HIDE DEF v, s
  <2>7. IsWork([v EXCEPT !.snap = [v.snap EXCEPT !["history"] = s]])
    BY <2>6, WorkWith
  <2>8. PolicyKept(cap)'
    BY <2>1, OfferedOK
  <2> QED
    BY <2>1, <2>5, <2>7, <2>8, OutputStageInv DEF Late
<1> QED
  BY <1>1, <1>2

-----------------------------------------------------------------------------
(* The end of an output *)

\* The next output starts from what was prepared.
LEMMA StartNextOK ==
    ASSUME Inv, pc \in {"finish", "view"}, UNCHANGED <<req, prepared>>, StartNext
    PROVE  /\ pc' \in {"manifest"} \cup Late
           /\ WorkOK'
           /\ pc' \in Late => /\ IsWork(prepared)'
                              /\ IsSequence(todo') /\ todo' # << >>
                              /\ \A k \in DOMAIN todo' : todo'[k].kind = "target"
<1>1. /\ IsWork(work) /\ IsWork(prepared)
      /\ IsSequence(todo) /\ todo # << >>
      /\ \A k \in DOMAIN todo : todo[k].kind = "target" \/ k = 1
  BY DEF Inv, WorkOK, TodoOK, Late
<1> DEFINE ch == todo[2]
           w == [prepared EXCEPT !.trace = Branch(@, <<"target", ch.name>>)]
           v == [w EXCEPT !.snap = ScopeTargetSnapshot(w, ch), !.artifacts = IF ch.artifacts THEN @ ELSE << >>]
<1>2. /\ todo' = Tail(todo)
      /\ IF Len(todo) = 1 THEN work' = work /\ pc' = "manifest"
         ELSE IF ch.view THEN work' = w /\ pc' = "view"
         ELSE work' = v /\ pc' = "hook"
  BY DEF StartNext
<1>3. IsWork(w)
  BY <1>1, WorkWith
<1>4. IsWork(v)
  <2> HIDE DEF w
  <2>1. w = [snap |-> w.snap, pending |-> w.pending, artifacts |-> w.artifacts, trace |-> w.trace, gone |-> w.gone]
        /\ w.artifacts \in {<< >>, req.artifacts}
    BY <1>3 DEF IsWork
  <2> DEFINE s == ScopeTargetSnapshot(w, ch)
             a == IF ch.artifacts THEN w.artifacts ELSE << >>
  <2>3. v = [w EXCEPT !.snap = s, !.artifacts = a]
    <3>1. w.artifacts = [w EXCEPT !.snap = s].artifacts
      BY <2>1
    <3> QED
      BY <3>1
  <2>4. a \in {<< >>, req.artifacts}
    BY <2>1
  <2> HIDE DEF s, a, v
  <2>2. v = [snap |-> s, pending |-> w.pending, artifacts |-> a, trace |-> w.trace, gone |-> w.gone]
    BY <2>1, <2>3
  <2> QED
    BY <2>4, <2>2 DEF IsWork
<1> HIDE DEF w, v
<1>5. pc' \in {"manifest"} \cup Late
  BY <1>2 DEF Late
<1>6. WorkOK'
  BY <1>1, <1>2, <1>3, <1>4, WorkAfter
<1>7. ASSUME pc' \in Late
      PROVE  todo' # << >>
  <2>1. Len(todo) # 1
    BY <1>2, <1>7 DEF Late
  <2>2. Len(todo) \in Nat /\ Len(todo) # 0
    BY <1>1, EmptySeq DEF IsSequence
  <2>3. Len(todo') = Len(todo) - 1 /\ IsSequence(todo')
    BY <1>1, <1>2, TailOf
  <2> QED
    BY <2>1, <2>2, <2>3
<1>8. IsSequence(todo') /\ \A k \in DOMAIN todo' : k + 1 \in DOMAIN todo /\ todo'[k] = todo[k + 1]
  BY <1>1, <1>2, TailOf
<1>9. \A k \in DOMAIN todo' : todo'[k].kind = "target"
  <2> SUFFICES ASSUME NEW k \in DOMAIN todo'
               PROVE  todo'[k].kind = "target"
    OBVIOUS
  <2>1. k + 1 # 1
    BY <1>8, SequenceDomain
  <2> QED
    BY <1>1, <1>8, <2>1
<1>10. IsWork(prepared)'
  BY <1>1 DEF IsWork
<1> QED
  BY <1>5, <1>6, <1>7, <1>8, <1>9, <1>10

\* An output that is finished agrees with its references.
LEMMA FinishedInv ==
    ASSUME Inv, NoneIsNoReference, pc \in {"finish", "view"},
           UNCHANGED <<req, prepared, host>>, PolicyKept(cap)',
           NEW w, NEW segs, NEW rendered, NEW text, NEW artifacts, NEW excluded,
           Finished(w, segs, rendered, text, artifacts, excluded),
           IsList(artifacts),
           rendered # None => Base(InputRef(w.trace, rendered.m)) = ContentRef(rendered.m)
                              /\ InputRef(w.trace, rendered.m) # None
    PROVE  Inv'
<1> DEFINE o == Output(Channel, w.trace, segs, rendered, text, artifacts, excluded)
           c == Compiled(segs, rendered, text, artifacts)
<1>a. PICK e, b : made' = Append(made, [out |-> o, compiled |-> c, entries |-> e, gone |-> w.gone, budget |-> b])
  BY Zenon DEF Finished
<1> DEFINE x == [out |-> o, compiled |-> c, entries |-> e, gone |-> w.gone, budget |-> b]
<1>1. /\ made' = Append(made, x) /\ StartNext
      /\ x.out = o /\ x.compiled = c
  BY <1>a DEF Finished
<1> HIDE DEF x
<1>2. Agrees(x) /\ x.out.kind = Channel.kind
  <2>1. x.out = Output(Channel, w.trace, segs, rendered, text, artifacts, excluded)
        /\ x.compiled = Compiled(segs, rendered, text, artifacts)
    BY <1>1
  <2> HIDE DEF o, c
  <2> QED
    BY <2>1, FinishedAgrees
<1> HIDE DEF o, c
<1>3. /\ IsSequence(todo) /\ todo # << >>
      /\ \A k \in DOMAIN todo : todo[k].kind = "target" \/ (k = 1 /\ made = << >>)
      /\ IsSequence(made)
      /\ \A k \in DOMAIN made : Agrees(made[k]) /\ (made[k].out.kind = "main" => k = 1)
  BY DEF Inv, TodoOK, MadeOK, Late
<1>4. Channel.kind = "target" \/ made = << >>
  BY <1>3, TailOf DEF Channel
<1>5. WithOne(made, x, made')
  BY <1>1, <1>3, OneAppended
<1>6. /\ Len(made) \in Nat /\ DOMAIN made = 1..Len(made) /\ IsSequence(made')
      /\ Len(made') = Len(made) + 1 /\ DOMAIN made' = 1..Len(made) + 1
  BY <1>3, <1>5, SequenceDomain DEF WithOne
<1>7. made' # << >>
  BY <1>6
<1>8. \A k \in DOMAIN made' : Agrees(made'[k]) /\ (made'[k].out.kind = "main" => k = 1)
  <2> SUFFICES ASSUME NEW k \in DOMAIN made'
               PROVE  Agrees(made'[k]) /\ (made'[k].out.kind = "main" => k = 1)
    OBVIOUS
  <2>1. CASE k \in DOMAIN made
    BY <1>3, <1>5, <2>1 DEF WithOne
  <2>2. CASE k \notin DOMAIN made
    <3>1. k = Len(made) + 1
      BY <1>6, <2>2
    <3>2. made'[k] = x
      BY <1>5, <3>1 DEF WithOne
    <3>3. CASE made = << >>
      <4>1. Len(made) = 0
        BY <3>3
      <4> QED
        BY <1>2, <3>1, <3>2, <4>1
    <3>4. CASE Channel.kind = "target"
      BY <1>2, <3>2, <3>4
    <3> QED
      BY <1>4, <3>3, <3>4
  <2> QED
    BY <2>1, <2>2
<1>9. (\A k \in DOMAIN made : Agrees(made[k]))' <=> \A k \in DOMAIN made' : Agrees(made'[k])
  BY DEF Agrees
<1>10. /\ pc' \in {"manifest"} \cup Late
       /\ WorkOK'
       /\ pc' \in Late => /\ IsWork(prepared)'
                          /\ IsSequence(todo') /\ todo' # << >>
                          /\ \A k \in DOMAIN todo' : todo'[k].kind = "target"
  BY <1>1, StartNextOK
<1>11. TodoOK'
  BY <1>10 DEF TodoOK, IsSequence
<1>12. IsSequence(made)'
  BY <1>6 DEF IsSequence
<1>13. MadeOK'
  BY <1>7, <1>8, <1>10, <1>12 DEF MadeOK, Early, Late, Agrees
<1>14. replayed = None /\ replayed' = None /\ pc' # "saved"
  BY <1>10 DEF Inv, SavedOK, host, Late
<1>15. SavedOK' /\ ReplayFaithful'
  BY <1>14 DEF SavedOK, ReplayFaithful
<1> QED
  BY <1>10, <1>11, <1>13, <1>15 DEF Inv

LEMMA WorkArtifacts ==
    ASSUME Inv, pc \in Late
    PROVE  IsWork(work) /\ IsSequence(work.artifacts) /\ IsList(work.artifacts)
<1>1. IsWork(work) /\ req \in Requests
  BY DEF Inv, WorkOK
<1>2. IsSequence(<< >>) /\ IsSequence(req.artifacts)
  BY <1>1, RequestsAssumption DEF IsSequence
<1>3. IsSequence(work.artifacts)
  BY <1>1, <1>2 DEF IsWork
<1>4. \A t : IsSequence(t) => IsList(t)
  BY DEF IsSequence, IsList
<1> QED
  BY <1>1, <1>3, <1>4

LEMMA FinishMainInv ==
    ASSUME Inv, NoneIsNoReference, FinishMain
    PROVE  Inv'
<1>1. PICK S :
        LET artifacts == Kept(work.artifacts, S)
        IN  /\ Finished(work, work.snap, None, None, artifacts, ArtifactExclusions("main", artifacts))
            /\ pc = "finish" /\ UNCHANGED <<req, prepared, cap, host>>
  BY Zenon DEF FinishMain, FinalParticipatingArtifacts
<1> DEFINE artifacts == Kept(work.artifacts, S)
<1>2. IsList(artifacts)
  BY <1>1, WorkArtifacts, KeptIsSequence DEF Late
<1>3. PolicyKept(cap)'
  BY <1>1, CapSame
<1> HIDE DEF artifacts
<1>4. Finished(work, work.snap, None, None, artifacts, ArtifactExclusions("main", artifacts))
  BY <1>1 DEF artifacts
<1> QED
  BY <1>1, <1>2, <1>3, <1>4, FinishedInv

LEMMA FinishTargetInv ==
    ASSUME Inv, NoneIsNoReference, FinishTarget
    PROVE  Inv'
<1>1. CASE Fail
  BY <1>1, FailInv DEF FinishTarget
<1>2. CASE ~Fail
  <2>1. PICK w, segs, text, S, es :
          LET artifacts == Kept(work.artifacts, S)
          IN  /\ Finished(w, segs, None, text, artifacts, ArtifactExclusions("target", artifacts))
              /\ Offered(es)
              /\ pc = "finish" /\ UNCHANGED <<req, prepared, host>>
    BY <1>2, Zenon DEF FinishTarget, FinalParticipatingArtifacts
  <2> DEFINE artifacts == Kept(work.artifacts, S)
  <2>2. IsList(artifacts)
    BY <2>1, WorkArtifacts, KeptIsSequence DEF Late
  <2>3. PolicyKept(cap)'
    BY <2>1, OfferedOK
  <2> HIDE DEF artifacts
  <2>4. Finished(w, segs, None, text, artifacts, ArtifactExclusions("target", artifacts))
    BY <2>1 DEF artifacts
  <2> QED
    BY <2>1, <2>2, <2>3, <2>4, FinishedInv
<1> QED
  BY <1>1, <1>2

LEMMA RenderViewInv ==
    ASSUME Inv, NoneIsNoReference, RenderView
    PROVE  Inv'
<1>1. CASE Fail
  BY <1>1, FailInv DEF RenderView
<1>2. CASE ~Fail
  <2>1. PICK before, rendered, segs, text :
          LET w == Staged(work, "render", before, <<rendered>>, NoMapping, TRUE)
          IN  /\ w.trace # None
              /\ Finished(w, segs, rendered, text, work.artifacts, {})
              /\ Offered(<<rendered>>)
              /\ pc = "view" /\ UNCHANGED <<req, prepared, host>>
    BY <1>2, Zenon DEF RenderView
  <2> DEFINE w == Staged(work, "render", before, <<rendered>>, NoMapping, TRUE)
             after == Contents(<<rendered>>)
  <2>2. IsWork(work) /\ IsList(work.artifacts)
    BY <2>1, WorkArtifacts DEF Late
  <2>3. w.trace = Capture(work.trace, "render", Contents(before), after, NoMapping, TRUE)
    <3> HIDE DEF w, after
    <3>1. ASSUME NEW one, NEW yes
          PROVE  Staged(work, "render", before, one, NoMapping, yes).trace
                   = Capture(work.trace, "render", Contents(before), Contents(one), NoMapping, yes)
      BY <2>2, StagedOK
    <3> QED
      BY <3>1 DEF w, after
  <2>4. DOMAIN after = {1} /\ after[1] = rendered.m
    BY DEF Contents
  <2>5. w.trace # None /\ Finished(w, segs, rendered, text, work.artifacts, {})
    BY <2>1
  <2> HIDE DEF w, after
  <2>6. LatestIsReference(w.trace, rendered.m)
    BY <2>3, <2>4, <2>5, CaptureOne
  <2>7. PICK occ : InputRef(w.trace, rendered.m) = [ContentRef(rendered.m) EXCEPT !.occ = occ]
    BY <2>6 DEF LatestIsReference, InputRef
  <2>8. Base(InputRef(w.trace, rendered.m)) = ContentRef(rendered.m)
    BY <2>7, OccurrenceOf
  <2>9. InputRef(w.trace, rendered.m) # None
    <3> DEFINE m == rendered.m
    <3>1. [ContentRef(m) EXCEPT !.occ = occ] = [id |-> m.id, digest |-> m, occ |-> occ]
      BY DEF ContentRef
    <3> HIDE DEF m
    <3>2. [id |-> m.id, digest |-> m, occ |-> occ] # None
      BY DEF NoneIsNoReference
    <3> QED
      BY <2>7, <3>1, <3>2 DEF m
  <2>10. PolicyKept(cap)'
    BY <2>1, OfferedOK
  <2> QED
    BY <2>1, <2>2, <2>5, <2>8, <2>9, <2>10, FinishedInv
<1> QED
  BY <1>1, <1>2

\* The record is what the policy left, and the manifest what was made.
LEMMA FinalizeInv ==
    ASSUME Inv, FinalizeCompileRecording
    PROVE  Inv'
<1>1. CASE Fail
  BY <1>1, FailInv DEF FinalizeCompileRecording
<1>2. CASE ~Fail
  <2> DEFINE c == CaptureOutputs(cap)
             r == Proposed(c)
  <2>1. /\ pc = "manifest" /\ pc' = "saved"
        /\ cap' = c /\ record' = r
        /\ expected' = ReplayExpectationFor(r.manifest)
        /\ UNCHANGED <<req, todo, made, harmed, replayed>>
    BY <1>2 DEF FinalizeCompileRecording
  <2>2. IsSequence(made) /\ made # << >>
    BY <2>1 DEF Inv, MadeOK
  <2>3. PolicyKept(c)
    BY <2>2, OutputsOK DEF Inv
  <2> HIDE DEF c
  <2>4. PolicyKept(cap)'
    BY <2>1, <2>3 DEF PolicyKept
  <2>5. IsRecord(r) /\ r.content = c.kept /\ r.omitted = c.denied /\ r.manifest = Manifest
    BY DEF Proposed, IsRecord
  <2>6. expected'.digest = Manifest.digest
    BY <2>1, <2>5 DEF ReplayExpectationFor
  <2>7. /\ Manifest.digest.outputs = [k \in DOMAIN made |-> made[k].out]
        /\ Manifest.digest.artifacts = Refs(made[1].compiled.artifacts)
    <3> DEFINE outs == [k \in DOMAIN made |-> made[k].out]
               arts == Refs(made[1].compiled.artifacts)
    <3>1. PICK i, p, b, s, h, t, v :
            Manifest = Seal([[id |-> req.id, inputs |-> i, prepared |-> p, outputs |-> outs,
                              budgets |-> b, resolved |-> s, artifacts |-> arts, inherited |-> h,
                              results |-> t, coverage |-> {}, config |-> "profile"] EXCEPT !.coverage = v])
      BY Zenon DEF Manifest
    <3> HIDE DEF outs, arts
    <3>2. Manifest.digest = [id |-> req.id, inputs |-> i, prepared |-> p, outputs |-> outs,
                             budgets |-> b, resolved |-> s, artifacts |-> arts, inherited |-> h,
                             results |-> t, coverage |-> v, config |-> "profile"]
      BY <3>1 DEF Seal
    <3> QED
      BY <3>2 DEF outs, arts
  <2> HIDE DEF r
  <2>8. replayed' = None
    BY <2>1 DEF Inv, SavedOK
  <2>9. SavedOK'
    BY <2>1, <2>5, <2>6, <2>7 DEF SavedOK, IsRecord
  <2>10. MadeOK'
    BY <2>1 DEF Inv, MadeOK, Agrees, Early
  <2> QED
    BY <2>1, <2>4, <2>8, <2>9, <2>10 DEF Inv, WorkOK, TodoOK, ReplayFaithful, Early, Late
<1> QED
  BY <1>1, <1>2

-----------------------------------------------------------------------------
(* The host's part *)

\* What was compiled stays as it is, and so does a record, until it is harmed.
LEMMA HostInv ==
    ASSUME Inv, pc = "saved", UNCHANGED Compilation, expected' = expected, harmed => harmed',
           ~harmed' => IsRecord(record') /\ record'.content = record.content /\ record'.omitted = record.omitted,
           ReplayFaithful'
    PROVE  Inv'
<1>1. req' = req /\ pc' = "saved" /\ todo' = todo /\ prepared' = prepared /\ work' = work /\ cap' = cap /\ made' = made
  BY DEF Compilation
<1>2. MadeOK' /\ PolicyKept(cap)'
  BY <1>1 DEF Inv, MadeOK, PolicyKept, Agrees
<1>3. SavedOK'
  BY <1>1 DEF Inv, SavedOK, IsRecord
<1> QED
  BY <1>1, <1>2, <1>3 DEF Inv, WorkOK, TodoOK, Early, Late

LEMMA AcceptInv ==
    ASSUME Inv, Accept
    PROVE  Inv'
<1>1. /\ pc = "saved" /\ record' = Accepted(record)
      /\ UNCHANGED <<Compilation, expected, blobs, harmed, replayed>>
  BY DEF Accept
<1>2. ~harmed' => IsRecord(record') /\ record'.content = record.content /\ record'.omitted = record.omitted
  BY <1>1 DEF Inv, SavedOK, Accepted, IsRecord
<1>3. ReplayFaithful'
  BY <1>1 DEF Inv, ReplayFaithful, Compilation, Results, Returned, BlobsOf
<1> QED
  BY <1>1, <1>2, <1>3, HostInv

LEMMA SupersedeInv ==
    ASSUME Inv, Supersede
    PROVE  Inv'
<1>1. /\ pc = "saved" /\ record' = [record EXCEPT !.state = "superseded"] /\ replayed' = None
      /\ UNCHANGED <<Compilation, expected, blobs, harmed>>
  BY DEF Supersede
<1>2. ~harmed' => IsRecord(record') /\ record'.content = record.content /\ record'.omitted = record.omitted
  BY <1>1 DEF Inv, SavedOK, IsRecord
<1>3. ReplayFaithful'
  BY <1>1 DEF ReplayFaithful
<1> QED
  BY <1>1, <1>2, <1>3, HostInv

LEMMA StorageInv ==
    ASSUME Inv, Damage \/ DeleteBlob
    PROVE  Inv'
<1>1. /\ pc = "saved" /\ UNCHANGED <<Compilation, expected>> /\ replayed' = None
      /\ harmed' \/ (harmed' = harmed /\ record' = record)
  BY DEF Damage, DeleteBlob
<1>2. ~harmed' => IsRecord(record') /\ record'.content = record.content /\ record'.omitted = record.omitted
  BY <1>1 DEF Inv, SavedOK, IsRecord
<1>3. ReplayFaithful'
  BY <1>1 DEF ReplayFaithful
<1> QED
  BY <1>1, <1>2, <1>3, HostInv

\* A record that can be replayed is the one that the host expects, and what it
\* lists can be had from its contents.
LEMMA ReplayInv ==
    ASSUME Inv, Replay
    PROVE  Inv'
<1>1. /\ pc = "saved" /\ UNCHANGED <<Compilation, record, expected, blobs, harmed>>
  BY DEF Replay
<1>2. ~harmed' => IsRecord(record') /\ record'.content = record.content /\ record'.omitted = record.omitted
  BY <1>1 DEF Inv, SavedOK, IsRecord
<1>3. ASSUME replayed' # None
      PROVE  replayed' = Results /\ BlobsOf(Returned(Results)) \subseteq blobs
  <2> DEFINE b == record.manifest.body
             result == ReplayResult(record)
  <2>1. /\ Replayable(record, expected)
        /\ ReplayBlobs(result) \subseteq blobs
        /\ replayed' = result
    BY <1>3 DEF Replay
  <2>2. /\ RecordValid(record) /\ ExpectationHolds(record.manifest, expected)
        /\ \A ref \in Decoded(b) : \E c \in record.content : c.ref = Base(ref)
    BY <2>1 DEF Replayable
  <2>3. IndexValid(record) /\ record.manifest.digest = b
    BY <2>2 DEF RecordValid, ManifestValid, DigestHolds
  <2>4. expected.digest = b
    BY <2>2, <2>3 DEF ExpectationHolds, ReplayExpectationFor
  <2> HIDE DEF b
  <2>5. /\ b.outputs = [k \in DOMAIN made |-> made[k].out]
        /\ b.artifacts = Refs(made[1].compiled.artifacts)
    BY <1>1, <2>4 DEF Inv, SavedOK
  <2>6. \A k \in DOMAIN made : Agrees(made[k]) /\ (made[k].out.kind = "main" => k = 1)
    BY DEF Inv, MadeOK
  <2>7. \A k \in DOMAIN made : ReplayOutput(record, b.outputs[k]) = made[k].compiled
    <3> SUFFICES ASSUME NEW k \in DOMAIN made
                 PROVE  ReplayOutput(record, b.outputs[k]) = made[k].compiled
      OBVIOUS
    <3>1. b = record.manifest.body
      BY DEF b
    <3> QED
      BY <2>2, <2>3, <2>5, <2>6, <3>1, ReplayedOutput
  <2>8. result = [k \in DOMAIN made |-> ReplayOutput(record, b.outputs[k])]
    <3>1. DOMAIN b.outputs = DOMAIN made
      BY <2>5
    <3>2. result = [k \in DOMAIN b.outputs |-> ReplayOutput(record, b.outputs[k])]
      BY DEF ReplayResult, b
    <3> HIDE DEF result
    <3> QED
      BY <3>1, <3>2
  <2> HIDE DEF result
  <2>9. result = Results
    BY <2>7, <2>8 DEF Results
  <2> QED
    BY <2>1, <2>9 DEF ReplayBlobs
<1>4. ReplayFaithful'
  BY <1>1, <1>3 DEF ReplayFaithful, Compilation, Results, Returned, BlobsOf
<1> QED
  BY <1>1, <1>2, <1>4, HostInv

LEMMA StutterInv ==
    ASSUME Inv, UNCHANGED vars
    PROVE  Inv'
<1>1. UNCHANGED <<req, pc, todo, prepared, work, cap, made>> /\ UNCHANGED host
  BY DEF vars, host
<1>2. MadeOK' /\ PolicyKept(cap)' /\ WorkOK' /\ TodoOK'
  BY <1>1 DEF Inv, MadeOK, PolicyKept, Agrees, WorkOK, TodoOK, IsWork
<1>3. SavedOK' /\ ReplayFaithful'
  BY <1>1 DEF Inv, SavedOK, IsRecord, ReplayFaithful, host, Results, Returned, BlobsOf
<1> QED
  BY <1>1, <1>2, <1>3 DEF Inv

LEMMA NextInv ==
    ASSUME Inv, NoneIsNoReference, [Next]_vars
    PROVE  Inv'
<1>1. CASE Interrupted
  BY <1>1, FailInv DEF Interrupted
<1>2. CASE StartTrace \/ CompilePending \/ ProjectPrompt \/ AddArtifactMessages
  BY <1>2, StartTraceInv, CompilePendingInv, ProjectPromptInv, AddArtifactMessagesInv
<1>3. CASE NoDeferredBlock \/ ApplyDeferredBlock
  BY <1>3, NoDeferredBlockInv, ApplyDeferredBlockInv
<1>4. CASE ApplyHooks \/ RunHook \/ ApplySegmentFormatters
  BY <1>4, ApplyHooksInv, RunHookInv, ApplySegmentFormattersInv
<1>5. CASE WithoutBudget \/ ApplyBudget
  BY <1>5, WithoutBudgetInv, ApplyBudgetInv
<1>6. CASE FinishMain \/ FinishTarget \/ RenderView
  BY <1>6, FinishMainInv, FinishTargetInv, RenderViewInv
<1>7. CASE FinalizeCompileRecording
  BY <1>7, FinalizeInv
<1>8. CASE Accept \/ Supersede \/ Replay
  BY <1>8, AcceptInv, SupersedeInv, ReplayInv
<1>9. CASE Damage \/ DeleteBlob
  BY <1>9, StorageInv
<1>10. CASE UNCHANGED vars
  BY <1>10, StutterInv
<1> QED
  BY <1>1, <1>2, <1>3, <1>4, <1>5, <1>6, <1>7, <1>8, <1>9, <1>10 DEF Next, Compile

-----------------------------------------------------------------------------
(* Theorems *)

\* What is compiled agrees with its references in every reachable state, up to
\* the record and its replay (recordCompileOutput, finish).
THEOREM InvHolds == ASSUME NoneIsNoReference PROVE Spec => []Inv
<1>1. Init => Inv
  BY InitInv
<1>2. Inv /\ [Next]_vars => Inv'
  BY NextInv
<1> QED
  BY <1>1, <1>2, PTL DEF Spec

\* A replay returns what was compiled, byte for byte and in order, or nothing,
\* for every host, policy, store and loss of blobs (Replay).
THEOREM ReplaysFaithful == ASSUME NoneIsNoReference PROVE Spec => []ReplayFaithful
<1>1. Inv => ReplayFaithful
  BY DEF Inv
<1> QED
  BY <1>1, InvHolds, PTL

\* What the policy denied once is in no record, whatever the host's code makes
\* of the contents and whatever the policy says later (contentCapture.keep).
THEOREM DenialsKept == ASSUME NoneIsNoReference PROVE Spec => []DeniedNeverSaved
<1>1. Inv => DeniedNeverSaved
  BY DEF Inv, SavedOK, PolicyKept, DeniedNeverSaved
<1> QED
  BY <1>1, InvHolds, PTL
=============================================================================
